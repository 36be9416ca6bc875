--------------------------- MODULE BeaconResetProofs ---------------------------
(* Theorems about BeaconReset, for any ring of buffers, ADCs, ways the clocks come up *)
(* and number of attempts. *)
EXTENDS BeaconReset, WellFoundedInduction, TLAPS

-----------------------------------------------------------------------------
\* TypeOK in parts.

HandleType ==
    /\ enable_locking \in BOOLEAN /\ kept \in BOOLEAN
    /\ buffer_length \in Lengths \cup {CalibLength}
    /\ next_read_buffer \in Buffers /\ calib_ev \in Events
    /\ in_waveforms \in BOOLEAN /\ queue \in Commands

CallType ==
    /\ pc \in {"idle", "hard", "off", "clear", "pointer", "abort", "save", "mask", "pulse",
               "restore", "reclear", "unmask", "count"} \cup Calibrating
    /\ type \in Types /\ misery \in Nat /\ happy \in BOOLEAN /\ mask \subseteq Buffers
    /\ old_enables \in BOOLEAN /\ old_buf_length \in Lengths
    /\ ret \in {0, 1, -1, NoResult}
    /\ pc \in {"read", "mark"} => mask # {}

ExpectedType ==
    /\ expected \in [length : Lengths, enables : BOOLEAN, calpulse : BOOLEAN]
    /\ start_delays \in [ADCs -> 0 .. 31]

MarksType ==
    /\ faulty \in BOOLEAN /\ upset \in BOOLEAN
    /\ resets \in Nat /\ troubles \in Nat

TypeParts == board \in Board /\ HandleType /\ CallType /\ ExpectedType /\ MarksType

-----------------------------------------------------------------------------
\* The invariant.

Ringing == {"loop", "trigger", "judge", "restore", "reclear", "unmask"}

\* The buffer length of before is in the handle, or kept for the end of the calibration.
LengthKept ==
    IF pc \in {"mask", "pulse", "restore"} \cup Calibrating
    THEN buffer_length = CalibLength /\ old_buf_length = expected.length
    ELSE buffer_length = expected.length

\* A failed transfer is known, and so is what it may have left.
FaultsNoted == /\ faulty => upset
               /\ ~faulty => queue = NoCommands /\ pc # "abort"

TypeFits ==
    /\ pc = "hard" => type \in {"almost_global", "global"}
    /\ pc \in {"save", "mask", "pulse", "restore", "reclear", "unmask"} \cup Calibrating =>
           Calibrates(type)
    /\ pc \notin {"idle", "restore", "reclear", "unmask", "count"} => ~happy
    /\ pc = "count" /\ Calibrates(type) => happy

\* The trigger enables are those of before, or off with those of before kept.
EnablesKept ==
    ~faulty =>
        /\ pc = "hard" => IF type = "global" THEN ~expected.enables
                          ELSE board.enables = expected.enables
        /\ pc \in {"off", "clear", "pointer", "save", "mask", "count"} =>
               board.enables = expected.enables
        /\ pc \in {"pulse", "restore", "reclear", "unmask"} \cup Calibrating => ~board.enables
        /\ pc \in {"mask", "pulse", "restore", "reclear", "unmask"} \cup Calibrating =>
               old_enables = expected.enables
        /\ Settled => board.enables = expected.enables

PulseKept ==
    ~faulty =>
        /\ pc # "idle" /\ Calibrates(type) => ~expected.calpulse
        /\ pc \in {"off", "clear", "pointer", "count"} /\ ~Calibrates(type) =>
               board.calpulse = expected.calpulse
        /\ pc \in {"restore"} \cup Calibrating => board.calpulse
        /\ pc \in {"reclear", "unmask"} => ~board.calpulse
        /\ pc = "count" \/ Settled => board.calpulse = expected.calpulse

ReadoutStaysOff ==
    ~faulty => /\ pc \notin {"idle", "hard", "off"} => ~board.readout
               /\ Settled => ~board.readout

SettingsInv ==
    /\ TypeParts /\ LengthKept /\ FaultsNoted /\ TypeFits
    /\ EnablesKept /\ PulseKept /\ ReadoutStaysOff

\* The events of the attempts go through the ring one by one.
RingInStep ==
    ~upset =>
        /\ pc # "wait" => ~board.pending
        /\ pc = "pointer" => board.full = {}
        /\ pc \in {"save", "mask", "pulse", "count"} \cup Ringing \/ (Settled /\ ret # 1) =>
               board.full = {} /\ board.next = next_read_buffer
        /\ pc = "wait" => \/ /\ board.pending
                             /\ board.full = {} /\ board.next = next_read_buffer
                          \/ /\ ~board.pending
                             /\ board.full = {next_read_buffer}
                             /\ board.next = (next_read_buffer + 1) % NumBuffer
        /\ pc = "read" => /\ mask = {next_read_buffer} /\ board.full = mask
                          /\ board.next = (next_read_buffer + 1) % NumBuffer
        /\ pc = "mark" => /\ \E b \in Buffers : mask = {b} /\ board.full = mask
                          /\ board.next = next_read_buffer

\* An event of the calpulser, with the clocks as they are: a pulse may be too weak.
OwnPulse(ev) == \A a \in ADCs : ev[a] \in {board.phases[a], Weak}

Aligned ==
    \A a \in ADCs :
        LET lag == Lag(board.phases)[a]
        IN  /\ lag <= MaxApart
            /\ board.delays[a] = CASE lag \in 1 .. 15 -> 16 + lag
                                   [] lag = 16 -> 16
                                   [] lag = 0 -> start_delays[a]

\* The delays are those of before until an event that shows the clocks is accepted.
DelaysFollow ==
    ~upset =>
        /\ pc = "hard" => start_delays = IF type = "global" THEN [a \in ADCs |-> 0]
                                         ELSE board.delays
        /\ pc \in {"off", "clear", "pointer", "save", "mask", "pulse"} \cup Calibrating =>
               board.delays = start_delays
        /\ pc \in {"wait", "read"} /\ next_read_buffer \in board.full =>
               OwnPulse(board.held[next_read_buffer])
        /\ pc \in {"mark", "judge"} => OwnPulse(calib_ev)
        /\ pc \in {"restore", "reclear", "unmask", "count"} /\ happy => Aligned
        /\ Settled /\ ret = 0 /\ Calibrates(type) => Aligned

ResetInv == SettingsInv /\ RingInStep /\ DelaysFollow

-----------------------------------------------------------------------------
\* Least elements, and the lags of the pulses.

Less == OpToRel(<, Nat)

LEMMA LessDef == \A x, y \in Nat : <<x, y>> \in Less <=> x < y
BY Zenon DEF Less, OpToRel

LEMMA MinOfNats ==
    ASSUME NEW S, S \subseteq Nat, S # {}
    PROVE  Min(S) \in S /\ \A y \in S : Min(S) <= y
<1>1. IsWellFoundedOn(Less, Nat)
  BY NatLessThanWellFounded, Zenon DEF Less
<1>2. PICK x \in S : \A y \in S : ~ (<<y, x>> \in Less)
  BY <1>1, WFMin, Zenon
<1>3. \A y \in S : ~ (y < x)
  BY <1>2, LessDef, Zenon
<1>4. \A y \in S : x <= y
  BY <1>3
<1> QED
  BY <1>4 DEF Min

LEMMA FirstOfMask ==
    ASSUME NEW S, S \subseteq Buffers, S # {}
    PROVE  Min(S) \in S /\ Min(S) \in Buffers
<1>1. S \subseteq Nat
  BY BufferAssumption DEF Buffers
<1> QED
  BY <1>1, MinOfNats

LEMMA FirstOfOne == \A b \in Buffers : Min({b}) = b
BY FirstOfMask

LEMMA PlacesAreNats == Places \subseteq Nat /\ Phases \subseteq Events /\ NoEvent \in Events
BY PhasesAssumption DEF Places, Events, NoEvent, Weak

LEMMA LagsAreNats ==
    ASSUME NEW ev \in Events, \A a \in ADCs : ev[a] # Weak
    PROVE  \A a \in ADCs : Lag(ev)[a] \in Nat
<1> DEFINE S == {ev[a] : a \in ADCs}
<1>0. \A a \in ADCs : ev[a] \in Nat
  BY PlacesAreNats DEF Events
<1>1. S \subseteq Nat /\ S # {}
  BY <1>0, PhasesAssumption
<1>2. Min(S) \in Nat /\ \A a \in ADCs : Min(S) <= ev[a] /\ ev[a] \in Nat
  BY <1>0, <1>1, MinOfNats
<1> QED
  BY <1>2 DEF Lag

-----------------------------------------------------------------------------
\* What the operations of the board do to its parts.

SameRegisters(b, c) ==
    /\ c.enables = b.enables /\ c.readout = b.readout /\ c.calpulse = b.calpulse
    /\ c.delays = b.delays /\ c.phases = b.phases

LEMMA ClearedParts ==
    ASSUME NEW b \in Board, NEW bufs \in SUBSET Buffers
    PROVE  /\ Cleared(b, bufs) \in Board
           /\ SameRegisters(b, Cleared(b, bufs))
           /\ Cleared(b, bufs).full = b.full \ bufs
           /\ \A i \in Buffers \ bufs : Cleared(b, bufs).held[i] = b.held[i]
           /\ Cleared(b, bufs).next = b.next /\ Cleared(b, bufs).pending = b.pending
           /\ Cleared(b, bufs).waveforms = b.waveforms
BY PlacesAreNats DEF Cleared, Board, SameRegisters

LEMMA StoredParts ==
    ASSUME NEW b \in Board, NEW ev \in Events
    PROVE  /\ Stored(b, ev) \in Board
           /\ SameRegisters(b, Stored(b, ev))
           /\ b.next \notin b.full =>
                 /\ Stored(b, ev).full = b.full \cup {b.next}
                 /\ Stored(b, ev).held[b.next] = ev
                 /\ Stored(b, ev).next = (b.next + 1) % NumBuffer
           /\ Stored(b, ev).pending = b.pending
<1>1. (b.next + 1) % NumBuffer \in Buffers
  BY BufferAssumption DEF Board, Buffers
<1> QED
  BY <1>1 DEF Stored, Board, SameRegisters

LEMMA PulsesAreEvents ==
    ASSUME NEW b \in Board, NEW ev \in Pulses(b)
    PROVE  /\ ev \in Events
           /\ b.calpulse => \A a \in ADCs : ev[a] \in {b.phases[a], Weak}
BY PlacesAreNats DEF Pulses, Board, Events

LEMMA ResetParts ==
    ASSUME NEW b \in Board, NEW p \in Phases
    PROVE  /\ AlmostAll(b, p) \in Board /\ ResetAll(b, p) \in Board
           /\ AlmostAll(b, p).enables = b.enables /\ AlmostAll(b, p).readout = b.readout
           /\ AlmostAll(b, p).calpulse = b.calpulse /\ AlmostAll(b, p).delays = b.delays
           /\ ~AlmostAll(b, p).pending /\ ~ResetAll(b, p).pending
           /\ ~ResetAll(b, p).enables /\ ~ResetAll(b, p).readout /\ ~ResetAll(b, p).calpulse
           /\ ResetAll(b, p).delays = [a \in ADCs |-> 0]
<1>1. 0 \in Buffers
  BY BufferAssumption DEF Buffers
<1>2. Cleared(b, Buffers) \in Board /\ SameRegisters(b, Cleared(b, Buffers))
  BY ClearedParts
<1>3. AlmostAll(b, p) \in Board
  BY <1>1, <1>2 DEF AlmostAll, Board
<1>4. /\ AlmostAll(b, p).enables = b.enables /\ AlmostAll(b, p).readout = b.readout
      /\ AlmostAll(b, p).calpulse = b.calpulse /\ AlmostAll(b, p).delays = b.delays
      /\ ~AlmostAll(b, p).pending
  BY <1>2 DEF AlmostAll, Board, SameRegisters
<1>5. ResetAll(b, p) \in Board
  <2> DEFINE none == [a \in ADCs |-> 0]
  <2>1. none \in [ADCs -> 0 .. 31]
    OBVIOUS
  <2> HIDE DEF none
  <2>2. [AlmostAll(b, p) EXCEPT !.enables = FALSE, !.readout = FALSE, !.calpulse = FALSE,
                                !.waveforms = FALSE, !.delays = none] \in Board
    BY <1>3, <2>1 DEF Board
  <2> QED
    BY <2>2 DEF ResetAll, none
<1>6. /\ ~ResetAll(b, p).enables /\ ~ResetAll(b, p).readout /\ ~ResetAll(b, p).calpulse
      /\ ResetAll(b, p).delays = [a \in ADCs |-> 0]
  BY <1>3 DEF ResetAll, Board
<1>7. ~ResetAll(b, p).pending
  BY <1>3, <1>4 DEF ResetAll, Board
<1> QED
  BY <1>3, <1>4, <1>5, <1>6, <1>7

LEMMA ExecutedParts ==
    ASSUME NEW b \in Board, NEW c \in Commands, NEW new \in Executed(c, b)
    PROVE  /\ new \in Board
           /\ ~c.reset => /\ SameRegisters(b, new)
                          /\ new.full = b.full \ c.clear
                          /\ \A i \in Buffers \ c.clear : new.held[i] = b.held[i]
                          /\ new.next = b.next /\ new.pending = b.pending
           /\ c.reset => /\ ~new.enables /\ ~new.readout /\ ~new.calpulse /\ ~new.pending
                         /\ new.delays = [a \in ADCs |-> 0]
<1>1. PICK r \in IF c.reset THEN {ResetAll(b, p) : p \in Phases} ELSE {b} :
           new = [Cleared(r, c.clear) EXCEPT !.waveforms = @ \/ c.waveforms]
  BY DEF Executed
<1>2. r \in Board /\ c.clear \in SUBSET Buffers /\ c.waveforms \in BOOLEAN
  BY <1>1, ResetParts DEF Commands
<1>3. Cleared(r, c.clear) \in Board
  BY <1>2, ClearedParts
<1>4. new \in Board
  BY <1>1, <1>2, <1>3 DEF Board
<1>5. ~c.reset => /\ SameRegisters(b, new)
                  /\ new.full = b.full \ c.clear
                  /\ \A i \in Buffers \ c.clear : new.held[i] = b.held[i]
                  /\ new.next = b.next /\ new.pending = b.pending
  BY <1>1, <1>2, <1>3, ClearedParts DEF Board, SameRegisters
<1>6. c.reset => /\ ~new.enables /\ ~new.readout /\ ~new.calpulse /\ ~new.pending
                 /\ new.delays = [a \in ADCs |-> 0]
  BY <1>1, <1>2, <1>3, ClearedParts, ResetParts DEF Board, SameRegisters
<1> QED
  BY <1>4, <1>5, <1>6

LEMMA PartlyExecutedType ==
    ASSUME NEW b \in Board, NEW c \in Commands
    PROVE  PartlyExecuted(c, b) \subseteq Board
<1> SUFFICES ASSUME NEW part \in [reset : {FALSE, c.reset}, clear : {{}, c.clear},
                                  waveforms : {FALSE, c.waveforms}]
             PROVE  Executed(part, b) \subseteq Board
  BY DEF PartlyExecuted
<1>1. part \in Commands
  BY DEF Commands
<1> QED
  BY <1>1, ExecutedParts

SameRing(b, c) == c.full = b.full /\ c.held = b.held /\ c.next = b.next /\ c.pending = b.pending

USE DEF ResetInv, SettingsInv, TypeParts, Settled, Calibrates, Calibrating, Ringing,
        SameRegisters, SameRing, handle, call, history

LEMMA MarksFault == ASSUME MarksType, Fault, resets' = resets PROVE MarksType'
BY DEF MarksType, Fault, Disturbed

LEMMA MarksNoFault == ASSUME MarksType, NoFault, resets' = resets PROVE MarksType'
BY DEF MarksType, NoFault

LEMMA MarksWrite == ASSUME MarksType, NEW b, Write(b), resets' = resets PROVE MarksType'
BY MarksFault, MarksNoFault DEF Write

LEMMA NextBufferType == ASSUME NEW b \in Buffers PROVE (b + 1) % NumBuffer \in Buffers
BY BufferAssumption DEF Buffers

LEMMA AlignedSame ==
    ASSUME board'.phases = board.phases, board'.delays = board.delays,
           start_delays' = start_delays
    PROVE  Aligned' <=> Aligned
BY DEF Aligned

LEMMA SendParts ==
    ASSUME board \in Board, NEW c \in Commands, Send(c)
    PROVE  /\ board' \in Board /\ queue' = NoCommands /\ queue' \in Commands
           /\ ~c.reset => /\ SameRegisters(board, board')
                          /\ board'.full = board.full \ c.clear
                          /\ \A i \in Buffers \ c.clear : board'.held[i] = board.held[i]
                          /\ board'.next = board.next /\ board'.pending = board.pending
           /\ c.reset => /\ ~board'.enables /\ ~board'.readout /\ ~board'.calpulse
                         /\ ~board'.pending /\ board'.delays = [a \in ADCs |-> 0]
<1>1. queue' = NoCommands /\ NoCommands \in Commands /\ board' \in Executed(c, board)
  BY DEF Send, NoCommands, Commands
<1> QED
  BY <1>1, ExecutedParts

LEMMA SendFailsParts ==
    ASSUME board \in Board, NEW c \in Commands, SendFails(c)
    PROVE  board' \in Board /\ queue' = c /\ Fault
BY PartlyExecutedType DEF SendFails

LEMMA FaultSeen == Fault => faulty' /\ upset'
BY DEF Fault, Disturbed

LEMMA ShownParts ==
    ASSUME NEW b \in Board, NEW i \in Buffers, NEW ev \in Shown(b, i)
    PROVE  ev \in Events /\ (b.waveforms /\ i \in b.full => ev = b.held[i])
BY PlacesAreNats DEF Shown, Board

-----------------------------------------------------------------------------
\* One lemma for each action.

LEMMA StoreKeeps ==
    ASSUME ResetInv, Store
    PROVE  ResetInv'
<1>0. /\ board' \in Board /\ SameRegisters(board, board') /\ board.pending /\ ~board'.pending
      /\ board.next \notin board.full =>
            /\ board'.full = board.full \cup {board.next}
            /\ board'.next = (board.next + 1) % NumBuffer
            /\ board.calpulse =>
                  \A a \in ADCs : board'.held[board.next][a] \in {board.phases[a], Weak}
  <2>1. PICK ev \in Pulses(board) : board' = [Stored(board, ev) EXCEPT !.pending = FALSE]
    BY DEF Store
  <2>2. board \in Board /\ board.pending /\ board.next \in Buffers
    BY DEF Store, Board
  <2>3. ev \in Events /\ (board.calpulse => \A a \in ADCs : ev[a] \in {board.phases[a], Weak})
    BY <2>2, PulsesAreEvents
  <2>4. Stored(board, ev) \in Board
    BY <2>2, <2>3, StoredParts
  <2> DEFINE new == Stored(board, ev)
  <2>5. /\ board' \in Board /\ SameRegisters(new, board') /\ ~board'.pending
        /\ board'.full = new.full /\ board'.next = new.next /\ board'.held = new.held
    BY <2>1, <2>4 DEF Board
  <2> HIDE DEF new
  <2>6. /\ SameRegisters(board, new)
        /\ board.next \notin board.full => /\ new.full = board.full \cup {board.next}
                                           /\ new.held[board.next] = ev
                                           /\ new.next = (board.next + 1) % NumBuffer
    BY <2>2, <2>3, StoredParts DEF new
  <2> QED
    BY <2>2, <2>3, <2>5, <2>6
<1>1. HandleType'
  BY <1>0 DEF Store, HandleType, Commands
<1>2. board' \in Board /\ CallType'
  BY <1>0 DEF Store, CallType
<1>3. ExpectedType'
  BY <1>0 DEF Store, LengthKept, ExpectedType, Board
<1>4. MarksType'
  BY MarksNoFault DEF NoFault, Store
<1>5. LengthKept' /\ FaultsNoted' /\ TypeFits'
  BY <1>0 DEF Store, LengthKept, FaultsNoted, TypeFits
<1>6. EnablesKept' /\ PulseKept' /\ ReadoutStaysOff'
  BY <1>0 DEF Store, EnablesKept, PulseKept, ReadoutStaysOff, FaultsNoted, TypeFits
<1>7. RingInStep'
  BY <1>0 DEF Store, RingInStep, FaultsNoted
<1>8. DelaysFollow'
  <2>1. Aligned' <=> Aligned
    BY <1>0, AlignedSame DEF Store
  <2>2. ASSUME ~upset, pc \in {"wait", "read"}, next_read_buffer \in board'.full
        PROVE  \A a \in ADCs : board'.held[next_read_buffer][a] \in {board.phases[a], Weak}
    BY <1>0, <2>2 DEF FaultsNoted, PulseKept, RingInStep
  <2> QED
    BY <1>0, <2>1, <2>2 DEF Store, DelaysFollow, OwnPulse
<1> QED
  BY <1>1, <1>2, <1>3, <1>4, <1>5, <1>6, <1>7, <1>8

LEMMA OtherTriggerKeeps ==
    ASSUME ResetInv, OtherTrigger
    PROVE  ResetInv'
<1>0. board' \in Board /\ SameRegisters(board, board') /\ upset' = TRUE
  BY PlacesAreNats, StoredParts DEF OtherTrigger, Disturbed
<1>1. HandleType'
  BY <1>0 DEF OtherTrigger, Disturbed, HandleType, Commands
<1>2. board' \in Board /\ CallType'
  BY <1>0 DEF OtherTrigger, Disturbed, CallType
<1>3. ExpectedType'
  BY <1>0 DEF OtherTrigger, Disturbed, LengthKept, ExpectedType, Board
<1>4. MarksType'
  <2>1. upset' \in BOOLEAN /\ troubles' \in Nat /\ resets' \in Nat
    BY DEF MarksType, OtherTrigger, Disturbed
  <2>2. faulty' \in BOOLEAN
    BY DEF MarksType, OtherTrigger
  <2> QED
    BY <2>1, <2>2 DEF MarksType
<1>5. LengthKept' /\ FaultsNoted' /\ TypeFits'
  BY <1>0 DEF OtherTrigger, Disturbed, LengthKept, FaultsNoted, TypeFits
<1>6. EnablesKept' /\ PulseKept' /\ ReadoutStaysOff'
  BY <1>0 DEF OtherTrigger, Disturbed, EnablesKept, PulseKept, ReadoutStaysOff, FaultsNoted,
     TypeFits
<1>7. RingInStep'
  BY <1>0 DEF OtherTrigger, Disturbed, RingInStep, FaultsNoted
<1>8. DelaysFollow'
  BY AlignedSame, <1>0 DEF OtherTrigger, Disturbed, DelaysFollow, RingInStep, FaultsNoted,
     TypeFits, OwnPulse
<1> QED
  BY <1>1, <1>2, <1>3, <1>4, <1>5, <1>6, <1>7, <1>8

LEMMA CallKeeps ==
    ASSUME NEW t \in Types, ResetInv, Call(t)
    PROVE  ResetInv'
<1>0. /\ board.enables \in BOOLEAN /\ board.calpulse \in BOOLEAN /\ board.pending \in BOOLEAN
      /\ board.delays \in [ADCs -> 0 .. 31] /\ buffer_length \in Lengths
  BY DEF Board, LengthKept, ExpectedType, HandleType, Call
<1>1. HandleType'
  BY <1>0 DEF Call, HandleType, Commands
<1>2. board' \in Board /\ CallType'
  BY <1>0 DEF Call, CallType
<1>3. ExpectedType'
  <2>1. expected' \in [length : Lengths, enables : BOOLEAN, calpulse : BOOLEAN]
    BY <1>0 DEF Call
  <2>2. start_delays' \in [ADCs -> 0 .. 31]
    BY <1>0 DEF Call
  <2> QED
    BY <2>1, <2>2 DEF ExpectedType
<1>4. MarksType'
  <2>1. faulty' \in BOOLEAN
    BY DEF Call
  <2>2. upset' \in BOOLEAN
    BY DEF Call
  <2>3. resets' \in Nat /\ troubles' \in Nat
    BY DEF MarksType, Call
  <2> QED
    BY <2>1, <2>2, <2>3 DEF MarksType
<1>5. LengthKept' /\ FaultsNoted' /\ TypeFits'
  BY <1>0 DEF Call, LengthKept, FaultsNoted, TypeFits
<1>6. EnablesKept' /\ PulseKept' /\ ReadoutStaysOff'
  BY <1>0 DEF Call, EnablesKept, PulseKept, ReadoutStaysOff, FaultsNoted, TypeFits
<1>7. RingInStep'
  BY <1>0 DEF Call, RingInStep, FaultsNoted
<1>8. DelaysFollow'
  BY AlignedSame, <1>0 DEF Call, DelaysFollow, RingInStep, FaultsNoted, TypeFits, OwnPulse
<1> QED
  BY <1>1, <1>2, <1>3, <1>4, <1>5, <1>6, <1>7, <1>8

LEMMA ReadoutOffKeeps ==
    ASSUME ResetInv, ReadoutOff
    PROVE  ResetInv'
<1>0. /\ board' \in Board /\ SameRing(board, board')
      /\ board'.delays = board.delays /\ board'.phases = board.phases
      /\ ~faulty' => /\ board'.readout = FALSE
                      /\ board'.enables = board.enables /\ board'.calpulse = board.calpulse
  BY DEF ReadoutOff, Write, Fault, NoFault, Disturbed, Board
<1>1. HandleType'
  BY <1>0 DEF ReadoutOff, Write, Fault, NoFault, Disturbed, Unwritten, HandleType, Commands
<1>2. board' \in Board /\ CallType'
  BY <1>0 DEF ReadoutOff, Write, Fault, NoFault, Disturbed, Unwritten, CallType
<1>3. ExpectedType'
  BY <1>0 DEF ReadoutOff, Write, Fault, NoFault, Disturbed, Unwritten, LengthKept,
     ExpectedType, Board
<1>4. MarksType'
  BY MarksFault, MarksNoFault, MarksWrite DEF ReadoutOff, Unwritten
<1>5. LengthKept' /\ FaultsNoted' /\ TypeFits'
  BY <1>0 DEF ReadoutOff, Write, Fault, NoFault, Disturbed, Unwritten, LengthKept, FaultsNoted,
     TypeFits
<1>6. EnablesKept' /\ PulseKept' /\ ReadoutStaysOff'
  BY <1>0 DEF ReadoutOff, Write, Fault, NoFault, Disturbed, Unwritten, EnablesKept, PulseKept,
     ReadoutStaysOff, FaultsNoted, TypeFits
<1>7. RingInStep'
  BY <1>0 DEF ReadoutOff, Write, Fault, NoFault, Disturbed, Unwritten, RingInStep, FaultsNoted
<1>8. DelaysFollow'
  BY AlignedSame, <1>0 DEF ReadoutOff, Write, Fault, NoFault, Disturbed, Unwritten,
     DelaysFollow, RingInStep, FaultsNoted, TypeFits, OwnPulse
<1> QED
  BY <1>1, <1>2, <1>3, <1>4, <1>5, <1>6, <1>7, <1>8

LEMMA MaskTriggersKeeps ==
    ASSUME ResetInv, MaskTriggers
    PROVE  ResetInv'
<1>0. /\ board' \in Board /\ SameRing(board, board')
      /\ board'.delays = board.delays /\ board'.phases = board.phases
      /\ ~faulty' => /\ board'.enables = FALSE
                      /\ board'.readout = board.readout /\ board'.calpulse = board.calpulse
  BY DEF MaskTriggers, Write, Fault, NoFault, Disturbed, Board
<1>1. HandleType'
  BY <1>0 DEF MaskTriggers, Write, Fault, NoFault, Disturbed, Unwritten, HandleType, Commands
<1>2. board' \in Board /\ CallType'
  BY <1>0 DEF MaskTriggers, Write, Fault, NoFault, Disturbed, Unwritten, CallType
<1>3. ExpectedType'
  BY <1>0 DEF MaskTriggers, Write, Fault, NoFault, Disturbed, Unwritten, LengthKept,
     ExpectedType, Board
<1>4. MarksType'
  BY MarksFault, MarksNoFault, MarksWrite DEF MaskTriggers, Unwritten
<1>5. LengthKept' /\ FaultsNoted' /\ TypeFits'
  BY <1>0 DEF MaskTriggers, Write, Fault, NoFault, Disturbed, Unwritten, LengthKept,
     FaultsNoted, TypeFits
<1>6. EnablesKept' /\ PulseKept' /\ ReadoutStaysOff'
  BY <1>0 DEF MaskTriggers, Write, Fault, NoFault, Disturbed, Unwritten, EnablesKept,
     PulseKept, ReadoutStaysOff, FaultsNoted, TypeFits
<1>7. RingInStep'
  BY <1>0 DEF MaskTriggers, Write, Fault, NoFault, Disturbed, Unwritten, RingInStep,
     FaultsNoted
<1>8. DelaysFollow'
  BY AlignedSame, <1>0 DEF MaskTriggers, Write, Fault, NoFault, Disturbed, Unwritten,
     DelaysFollow, RingInStep, FaultsNoted, TypeFits, OwnPulse
<1> QED
  BY <1>1, <1>2, <1>3, <1>4, <1>5, <1>6, <1>7, <1>8

LEMMA PulseOnKeeps ==
    ASSUME ResetInv, PulseOn
    PROVE  ResetInv'
<1>0. /\ board' \in Board /\ SameRing(board, board')
      /\ board'.delays = board.delays /\ board'.phases = board.phases
      /\ ~faulty' => /\ board'.calpulse = TRUE
                      /\ board'.enables = board.enables /\ board'.readout = board.readout
  BY DEF PulseOn, Write, Fault, NoFault, Disturbed, Board
<1>1. HandleType'
  BY <1>0 DEF PulseOn, Write, Fault, NoFault, Disturbed, Unwritten, HandleType, Commands
<1>2. board' \in Board /\ CallType'
  BY <1>0 DEF PulseOn, Write, Fault, NoFault, Disturbed, Unwritten, CallType
<1>3. ExpectedType'
  BY <1>0 DEF PulseOn, Write, Fault, NoFault, Disturbed, Unwritten, LengthKept, ExpectedType,
     Board
<1>4. MarksType'
  BY MarksFault, MarksNoFault, MarksWrite DEF PulseOn, Unwritten
<1>5. LengthKept' /\ FaultsNoted' /\ TypeFits'
  BY <1>0 DEF PulseOn, Write, Fault, NoFault, Disturbed, Unwritten, LengthKept, FaultsNoted,
     TypeFits
<1>6. EnablesKept' /\ PulseKept' /\ ReadoutStaysOff'
  BY <1>0 DEF PulseOn, Write, Fault, NoFault, Disturbed, Unwritten, EnablesKept, PulseKept,
     ReadoutStaysOff, FaultsNoted, TypeFits
<1>7. RingInStep'
  BY <1>0 DEF PulseOn, Write, Fault, NoFault, Disturbed, Unwritten, RingInStep, FaultsNoted
<1>8. DelaysFollow'
  BY AlignedSame, <1>0 DEF PulseOn, Write, Fault, NoFault, Disturbed, Unwritten, DelaysFollow,
     RingInStep, FaultsNoted, TypeFits, OwnPulse
<1> QED
  BY <1>1, <1>2, <1>3, <1>4, <1>5, <1>6, <1>7, <1>8

LEMMA GlobalResetKeeps ==
    ASSUME ResetInv, GlobalReset
    PROVE  ResetInv'
<1>0. /\ board' \in Board /\ queue' \in Commands
      /\ \/ /\ NoFault /\ pc' = "off" /\ queue' = NoCommands /\ ret' = ret
            /\ ~board'.enables /\ ~board'.readout /\ ~board'.calpulse /\ ~board'.pending
            /\ board'.delays = [a \in ADCs |-> 0]
         \/ Fault /\ faulty' /\ upset' /\ pc' = "idle" /\ ret' = 1
  <2>1. board \in Board /\ ResetCommand \in Commands /\ ResetCommand.reset
    BY DEF ResetCommand, NoCommands, Commands
  <2> QED
    BY <2>1, SendParts, SendFailsParts, FaultSeen DEF GlobalReset, Return
<1>1. HandleType'
  BY <1>0 DEF GlobalReset, NoFault, Return, Disturbed, HandleType, Commands
<1>2. board' \in Board /\ CallType'
  BY <1>0 DEF GlobalReset, NoFault, Return, Disturbed, CallType
<1>3. ExpectedType'
  BY <1>0 DEF GlobalReset, NoFault, Return, Disturbed, LengthKept, ExpectedType, Board
<1>4. MarksType'
  <2>1. resets' = resets
    BY DEF GlobalReset
  <2> QED
    BY <1>0, <2>1, MarksFault, MarksNoFault
<1>5. LengthKept' /\ FaultsNoted' /\ TypeFits'
  BY <1>0 DEF GlobalReset, NoFault, Return, Disturbed, LengthKept, FaultsNoted, TypeFits
<1>6. EnablesKept' /\ PulseKept' /\ ReadoutStaysOff'
  <2> USE <1>0 DEF GlobalReset, Return, NoFault
  <2>0. /\ board'.enables \in BOOLEAN /\ expected.enables \in BOOLEAN
        /\ UNCHANGED <<type, expected, old_enables>>
    BY DEF Board, ExpectedType
  <2>1. EnablesKept'
    BY <2>0 DEF EnablesKept
  <2>2. PulseKept'
    BY DEF PulseKept
  <2>3. ReadoutStaysOff'
    BY DEF ReadoutStaysOff
  <2> QED
    BY <2>1, <2>2, <2>3
<1>7. RingInStep'
  BY <1>0 DEF GlobalReset, NoFault, Return, Disturbed, RingInStep, FaultsNoted
<1>8. DelaysFollow'
  BY AlignedSame, <1>0 DEF GlobalReset, NoFault, Return, Disturbed, DelaysFollow, RingInStep,
     FaultsNoted, TypeFits, OwnPulse
<1> QED
  BY <1>1, <1>2, <1>3, <1>4, <1>5, <1>6, <1>7, <1>8

LEMMA AlmostGlobalResetKeeps ==
    ASSUME ResetInv, AlmostGlobalReset
    PROVE  ResetInv'
<1>0. /\ board' \in Board /\ board'.delays = board.delays
      /\ board'.enables = board.enables
      /\ \/ NoFault /\ pc' = "off" /\ ret' = ret /\ ~board'.pending
         \/ Fault /\ faulty' /\ upset' /\ pc' = "idle" /\ ret' = 1
  <2>1. board \in Board
    OBVIOUS
  <2> QED
    BY <2>1, ResetParts, FaultSeen DEF AlmostGlobalReset, Return
<1>1. HandleType'
  BY <1>0 DEF AlmostGlobalReset, NoFault, Return, HandleType, Commands
<1>2. board' \in Board /\ CallType'
  BY <1>0 DEF AlmostGlobalReset, NoFault, Return, CallType
<1>3. ExpectedType'
  BY <1>0 DEF AlmostGlobalReset, NoFault, Return, LengthKept, ExpectedType, Board
<1>4. MarksType'
  BY MarksFault, MarksNoFault, MarksWrite DEF AlmostGlobalReset
<1>5. LengthKept' /\ FaultsNoted' /\ TypeFits'
  BY <1>0 DEF AlmostGlobalReset, NoFault, Return, LengthKept, FaultsNoted, TypeFits
<1>6. EnablesKept' /\ PulseKept' /\ ReadoutStaysOff'
  BY <1>0 DEF AlmostGlobalReset, NoFault, Return, EnablesKept, PulseKept, ReadoutStaysOff,
     FaultsNoted, TypeFits
<1>7. RingInStep'
  BY <1>0 DEF AlmostGlobalReset, NoFault, Return, RingInStep, FaultsNoted
<1>8. DelaysFollow'
  BY AlignedSame, <1>0 DEF AlmostGlobalReset, NoFault, Return, DelaysFollow, RingInStep,
     FaultsNoted, TypeFits, OwnPulse
<1> QED
  BY <1>1, <1>2, <1>3, <1>4, <1>5, <1>6, <1>7, <1>8

LEMMA ClearAllKeeps ==
    ASSUME ResetInv, ClearAll
    PROVE  ResetInv'
<1>0. /\ board' \in Board /\ SameRegisters(board, board')
      /\ board'.next = board.next /\ board'.pending = board.pending
      /\ \/ NoFault /\ pc' = "pointer" /\ board'.full = {}
         \/ Fault /\ faulty' /\ upset' /\ pc' = "abort"
  <2>1. board \in Board /\ Buffers \in SUBSET Buffers /\ board.full \subseteq Buffers
    BY DEF Board
  <2> QED
    BY <2>1, ClearedParts, FaultSeen DEF ClearAll
<1>1. HandleType'
  BY <1>0 DEF ClearAll, NoFault, Unwritten, HandleType, Commands
<1>2. board' \in Board /\ CallType'
  BY <1>0 DEF ClearAll, NoFault, Unwritten, CallType
<1>3. ExpectedType'
  BY <1>0 DEF ClearAll, NoFault, Unwritten, LengthKept, ExpectedType, Board
<1>4. MarksType'
  BY MarksFault, MarksNoFault, MarksWrite DEF ClearAll, Unwritten
<1>5. LengthKept' /\ FaultsNoted' /\ TypeFits'
  BY <1>0 DEF ClearAll, NoFault, Unwritten, LengthKept, FaultsNoted, TypeFits
<1>6. EnablesKept' /\ PulseKept' /\ ReadoutStaysOff'
  BY <1>0 DEF ClearAll, NoFault, Unwritten, EnablesKept, PulseKept, ReadoutStaysOff,
     FaultsNoted, TypeFits
<1>7. RingInStep'
  BY <1>0 DEF ClearAll, NoFault, Unwritten, RingInStep, FaultsNoted
<1>8. DelaysFollow'
  BY AlignedSame, <1>0 DEF ClearAll, NoFault, Unwritten, DelaysFollow, RingInStep, FaultsNoted,
     TypeFits, OwnPulse
<1> QED
  BY <1>1, <1>2, <1>3, <1>4, <1>5, <1>6, <1>7, <1>8

LEMMA ResetPointerKeeps ==
    ASSUME ResetInv, ResetPointer
    PROVE  ResetInv'
<1>0. /\ board' \in Board /\ SameRegisters(board, board') /\ board'.full = board.full
      /\ board'.next = 0 /\ board'.pending = board.pending /\ 0 \in Buffers
  <2>1. 0 \in Buffers
    BY BufferAssumption DEF Buffers
  <2> QED
    BY <2>1 DEF ResetPointer, Board
<1>1. HandleType'
  BY <1>0 DEF ResetPointer, NoFault, HandleType, Commands
<1>2. board' \in Board /\ CallType'
  BY <1>0 DEF ResetPointer, NoFault, CallType
<1>3. ExpectedType'
  BY <1>0 DEF ResetPointer, NoFault, LengthKept, ExpectedType, Board
<1>4. MarksType'
  BY MarksFault, MarksNoFault, MarksWrite DEF ResetPointer
<1>5. LengthKept' /\ FaultsNoted' /\ TypeFits'
  BY <1>0 DEF ResetPointer, NoFault, LengthKept, FaultsNoted, TypeFits
<1>6. EnablesKept' /\ PulseKept' /\ ReadoutStaysOff'
  BY <1>0 DEF ResetPointer, NoFault, EnablesKept, PulseKept, ReadoutStaysOff, FaultsNoted,
     TypeFits
<1>7. RingInStep'
  BY <1>0 DEF ResetPointer, NoFault, RingInStep, FaultsNoted
<1>8. DelaysFollow'
  BY AlignedSame, <1>0 DEF ResetPointer, NoFault, DelaysFollow, RingInStep, FaultsNoted,
     TypeFits, OwnPulse
<1> QED
  BY <1>1, <1>2, <1>3, <1>4, <1>5, <1>6, <1>7, <1>8

LEMMA AbortKeeps ==
    ASSUME ResetInv, Abort
    PROVE  ResetInv'
<1>0. /\ board' \in Board /\ faulty' /\ upset' /\ (Fault \/ NoFault)
  <2>1. 0 \in Buffers
    BY BufferAssumption DEF Buffers
  <2>2. board \in Board /\ [board EXCEPT !.next = 0] \in Board
    BY <2>1 DEF Board
  <2>3. board' \in Board
    BY <2>2 DEF Abort, Write
  <2>4. (pc = "pointer" /\ Fault) \/ (pc = "abort" /\ (Fault \/ NoFault))
    BY DEF Abort, Write
  <2>5. pc = "abort" => faulty /\ upset
    BY DEF FaultsNoted
  <2> QED
    BY <2>3, <2>4, <2>5, FaultSeen DEF NoFault
<1>1. HandleType'
  BY <1>0 DEF Abort, Return, HandleType, Commands
<1>2. board' \in Board /\ CallType'
  BY <1>0 DEF Abort, Return, CallType
<1>3. ExpectedType'
  BY <1>0 DEF Abort, Return, LengthKept, ExpectedType, Board
<1>4. MarksType'
  BY MarksFault, MarksNoFault, MarksWrite DEF Abort
<1>5. LengthKept' /\ FaultsNoted' /\ TypeFits'
  BY <1>0 DEF Abort, Return, LengthKept, FaultsNoted, TypeFits
<1>6. EnablesKept' /\ PulseKept' /\ ReadoutStaysOff'
  BY <1>0 DEF Abort, Return, EnablesKept, PulseKept, ReadoutStaysOff, FaultsNoted, TypeFits
<1>7. RingInStep'
  BY <1>0 DEF Abort, Return, RingInStep, FaultsNoted
<1>8. DelaysFollow'
  BY AlignedSame, <1>0 DEF Abort, Return, DelaysFollow, RingInStep, FaultsNoted, TypeFits,
     OwnPulse
<1> QED
  BY <1>1, <1>2, <1>3, <1>4, <1>5, <1>6, <1>7, <1>8

LEMMA SaveSettingsKeeps ==
    ASSUME ResetInv, SaveSettings
    PROVE  ResetInv'
<1>0. /\ board' \in Board /\ queue' \in Commands /\ old_enables' \in BOOLEAN
      /\ buffer_length \in Lengths
      /\ \/ /\ NoFault /\ queue' = NoCommands /\ old_enables' = board'.enables
            /\ ~faulty => /\ SameRegisters(board, board') /\ board'.full = board.full
                          /\ board'.next = board.next /\ board'.pending = board.pending
         \/ Fault /\ faulty' /\ upset'
  <2>1. board \in Board /\ queue \in Commands
    BY DEF HandleType
  <2>2. ~faulty => ~queue.reset /\ queue.clear = {}
    BY DEF FaultsNoted, NoCommands
  <2>3. board' \in Board /\ queue' \in Commands
    BY <2>1, SendParts, SendFailsParts DEF SaveSettings
  <2>4. buffer_length \in Lengths
    BY DEF LengthKept, ExpectedType, SaveSettings
  <2>5. CASE Send(queue) /\ old_enables' = board'.enables /\ NoFault
    BY <2>1, <2>2, <2>3, <2>4, <2>5, SendParts DEF Board
  <2>6. CASE SendFails(queue) /\ old_enables' \in BOOLEAN
    BY <2>1, <2>3, <2>4, <2>6, SendFailsParts, FaultSeen
  <2> QED
    BY <2>5, <2>6 DEF SaveSettings
<1>1. HandleType'
  BY <1>0 DEF SaveSettings, NoFault, Unwritten, HandleType, Commands
<1>2. board' \in Board /\ CallType'
  BY <1>0 DEF SaveSettings, NoFault, Unwritten, CallType
<1>3. ExpectedType'
  BY <1>0 DEF SaveSettings, NoFault, Unwritten, LengthKept, ExpectedType, Board
<1>4. MarksType'
  <2>1. resets' = resets
    BY DEF SaveSettings
  <2> QED
    BY <1>0, <2>1, MarksFault, MarksNoFault
<1>5. LengthKept' /\ FaultsNoted' /\ TypeFits'
  BY <1>0 DEF SaveSettings, NoFault, Unwritten, LengthKept, FaultsNoted, TypeFits
<1>6. EnablesKept' /\ PulseKept' /\ ReadoutStaysOff'
  BY <1>0 DEF SaveSettings, NoFault, Unwritten, EnablesKept, PulseKept, ReadoutStaysOff,
     FaultsNoted, TypeFits
<1>7. RingInStep'
  BY <1>0 DEF SaveSettings, NoFault, Unwritten, RingInStep, FaultsNoted
<1>8. DelaysFollow'
  BY AlignedSame, <1>0 DEF SaveSettings, NoFault, Unwritten, DelaysFollow, RingInStep,
     FaultsNoted, TypeFits, OwnPulse
<1> QED
  BY <1>1, <1>2, <1>3, <1>4, <1>5, <1>6, <1>7, <1>8

LEMMA AttemptKeeps ==
    ASSUME ResetInv, Attempt
    PROVE  ResetInv'
<1>0. /\ board' \in Board /\ SameRing(board, board')
      /\ board'.enables = board.enables /\ board'.readout = board.readout
      /\ board'.calpulse = board.calpulse /\ board'.delays = board.delays
      /\ (NoFault /\ pc' = "trigger") \/ (Fault /\ faulty' /\ upset' /\ pc' = "loop")
  <2>1. board \in Board
    OBVIOUS
  <2>2. \/ board' = board
        \/ \E p \in Phases : board' = [board EXCEPT !.phases = p]
    BY DEF Attempt
  <2>3. (NoFault /\ pc' = "trigger") \/ (Fault /\ faulty' /\ upset' /\ pc' = "loop")
    BY FaultSeen DEF Attempt
  <2>4. /\ board' \in Board /\ SameRing(board, board')
        /\ board'.enables = board.enables /\ board'.readout = board.readout
        /\ board'.calpulse = board.calpulse /\ board'.delays = board.delays
    BY <2>1, <2>2 DEF Board
  <2> QED
    BY <2>3, <2>4
<1>1. HandleType'
  BY <1>0 DEF Attempt, NoFault, HandleType, Commands
<1>2. board' \in Board /\ CallType'
  BY <1>0 DEF Attempt, NoFault, CallType
<1>3. ExpectedType'
  BY <1>0 DEF Attempt, NoFault, LengthKept, ExpectedType, Board
<1>4. MarksType'
  BY MarksFault, MarksNoFault, MarksWrite DEF Attempt
<1>5. LengthKept' /\ FaultsNoted' /\ TypeFits'
  BY <1>0 DEF Attempt, NoFault, LengthKept, FaultsNoted, TypeFits
<1>6. EnablesKept' /\ PulseKept' /\ ReadoutStaysOff'
  BY <1>0 DEF Attempt, NoFault, EnablesKept, PulseKept, ReadoutStaysOff, FaultsNoted, TypeFits
<1>7. RingInStep'
  BY <1>0 DEF Attempt, NoFault, RingInStep, FaultsNoted
<1>8. DelaysFollow'
  BY AlignedSame, <1>0 DEF Attempt, NoFault, DelaysFollow, RingInStep, FaultsNoted, TypeFits,
     OwnPulse
<1> QED
  BY <1>1, <1>2, <1>3, <1>4, <1>5, <1>6, <1>7, <1>8

LEMMA GiveUpKeeps ==
    ASSUME ResetInv, GiveUp
    PROVE  ResetInv'
<1>1. HandleType'
  BY DEF GiveUp, HandleType, Commands
<1>2. board' \in Board /\ CallType'
  BY DEF GiveUp, CallType
<1>3. ExpectedType'
  BY DEF GiveUp, LengthKept, ExpectedType, Board
<1>4. MarksType'
  BY MarksNoFault DEF NoFault, GiveUp
<1>5. LengthKept' /\ FaultsNoted' /\ TypeFits'
  BY DEF GiveUp, LengthKept, FaultsNoted, TypeFits
<1>6. EnablesKept' /\ PulseKept' /\ ReadoutStaysOff'
  BY DEF GiveUp, EnablesKept, PulseKept, ReadoutStaysOff, FaultsNoted, TypeFits
<1>7. RingInStep'
  BY DEF GiveUp, RingInStep, FaultsNoted
<1>8. DelaysFollow'
  BY AlignedSame DEF GiveUp, DelaysFollow, RingInStep, FaultsNoted, TypeFits, OwnPulse
<1> QED
  BY <1>1, <1>2, <1>3, <1>4, <1>5, <1>6, <1>7, <1>8

LEMMA SwTriggerKeeps ==
    ASSUME ResetInv, SwTrigger
    PROVE  ResetInv'
<1>0. /\ board' \in Board /\ SameRegisters(board, board')
      /\ board'.full = board.full /\ board'.next = board.next
      /\ \/ NoFault /\ board'.pending
         \/ Fault /\ faulty' /\ upset'
  BY FaultSeen DEF SwTrigger, Write, Board
<1>1. HandleType'
  BY <1>0 DEF SwTrigger, Write, NoFault, Unwritten, HandleType, Commands
<1>2. board' \in Board /\ CallType'
  BY <1>0 DEF SwTrigger, Write, NoFault, Unwritten, CallType
<1>3. ExpectedType'
  BY <1>0 DEF SwTrigger, Write, NoFault, Unwritten, LengthKept, ExpectedType, Board
<1>4. MarksType'
  BY MarksFault, MarksNoFault, MarksWrite DEF SwTrigger, Unwritten
<1>5. LengthKept' /\ FaultsNoted' /\ TypeFits'
  BY <1>0 DEF SwTrigger, Write, NoFault, Unwritten, LengthKept, FaultsNoted, TypeFits
<1>6. EnablesKept' /\ PulseKept' /\ ReadoutStaysOff'
  BY <1>0 DEF SwTrigger, Write, NoFault, Unwritten, EnablesKept, PulseKept, ReadoutStaysOff,
     FaultsNoted, TypeFits
<1>7. RingInStep'
  BY <1>0 DEF SwTrigger, Write, NoFault, Unwritten, RingInStep, FaultsNoted
<1>8. DelaysFollow'
  BY AlignedSame, <1>0 DEF SwTrigger, Write, NoFault, Unwritten, DelaysFollow, RingInStep,
     FaultsNoted, TypeFits, OwnPulse
<1> QED
  BY <1>1, <1>2, <1>3, <1>4, <1>5, <1>6, <1>7, <1>8

LEMMA WaitKeeps ==
    ASSUME ResetInv, Wait
    PROVE  ResetInv'
<1>0. /\ board' \in Board /\ queue' = NoCommands /\ queue' \in Commands
      /\ mask' = board'.full /\ mask' \subseteq Buffers
      /\ ~faulty => /\ SameRegisters(board, board') /\ board'.full = board.full
                    /\ \A i \in Buffers : board'.held[i] = board.held[i]
                    /\ board'.next = board.next /\ board'.pending = board.pending
  <2>1. board \in Board /\ queue \in Commands
    BY DEF HandleType
  <2>2. ~faulty => ~queue.reset /\ queue.clear = {}
    BY DEF FaultsNoted, NoCommands
  <2> QED
    BY <2>1, <2>2, SendParts DEF Wait, Board
<1>1. HandleType'
  BY <1>0 DEF Wait, Disturbed, HandleType, Commands
<1>2. board' \in Board /\ CallType'
  BY <1>0 DEF Wait, Disturbed, CallType
<1>3. ExpectedType'
  BY <1>0 DEF Wait, Disturbed, LengthKept, ExpectedType, Board
<1>4. MarksType'
  <2>1. resets' \in Nat /\ troubles' \in Nat /\ faulty' \in BOOLEAN
    BY DEF MarksType, Wait, Disturbed
  <2>2. upset' \in BOOLEAN
    BY DEF MarksType, Wait, Disturbed
  <2> QED
    BY <2>1, <2>2 DEF MarksType
<1>5. LengthKept' /\ FaultsNoted' /\ TypeFits'
  BY <1>0 DEF Wait, Disturbed, LengthKept, FaultsNoted, TypeFits
<1>6. EnablesKept' /\ PulseKept' /\ ReadoutStaysOff'
  BY <1>0 DEF Wait, Disturbed, EnablesKept, PulseKept, ReadoutStaysOff, FaultsNoted, TypeFits
<1>7. RingInStep'
  BY <1>0 DEF Wait, Disturbed, RingInStep, FaultsNoted
<1>8. DelaysFollow'
  BY AlignedSame, <1>0 DEF Wait, Disturbed, DelaysFollow, RingInStep, FaultsNoted, TypeFits,
     OwnPulse
<1> QED
  BY <1>1, <1>2, <1>3, <1>4, <1>5, <1>6, <1>7, <1>8

LEMMA WaitFailsKeeps ==
    ASSUME ResetInv, WaitFails
    PROVE  ResetInv'
<1>0. board' \in Board /\ queue' \in Commands /\ Fault /\ faulty' /\ upset'
  BY SendFailsParts, FaultSeen DEF HandleType, WaitFails
<1>1. HandleType'
  BY <1>0 DEF WaitFails, HandleType, Commands
<1>2. board' \in Board /\ CallType'
  BY <1>0 DEF WaitFails, CallType
<1>3. ExpectedType'
  BY <1>0 DEF WaitFails, LengthKept, ExpectedType, Board
<1>4. MarksType'
  <2>1. resets' = resets
    BY DEF WaitFails
  <2> QED
    BY <1>0, <2>1, MarksFault, MarksNoFault
<1>5. LengthKept' /\ FaultsNoted' /\ TypeFits'
  BY <1>0 DEF WaitFails, LengthKept, FaultsNoted, TypeFits
<1>6. EnablesKept' /\ PulseKept' /\ ReadoutStaysOff'
  BY <1>0 DEF WaitFails, EnablesKept, PulseKept, ReadoutStaysOff, FaultsNoted, TypeFits
<1>7. RingInStep'
  BY <1>0 DEF WaitFails, RingInStep, FaultsNoted
<1>8. DelaysFollow'
  BY AlignedSame, <1>0 DEF WaitFails, DelaysFollow, RingInStep, FaultsNoted, TypeFits, OwnPulse
<1> QED
  BY <1>1, <1>2, <1>3, <1>4, <1>5, <1>6, <1>7, <1>8

LEMMA ReadKeeps ==
    ASSUME ResetInv, Read
    PROVE  ResetInv'
<1>0. /\ board' \in Board /\ queue' = NoCommands /\ queue' \in Commands
      /\ calib_ev' \in Events /\ next_read_buffer' \in Buffers
      /\ next_read_buffer = Min(mask) /\ next_read_buffer' = (next_read_buffer + 1) % NumBuffer
      /\ board'.waveforms /\ next_read_buffer \in board'.full =>
             calib_ev' = board'.held[next_read_buffer]
      /\ ~faulty => /\ SameRegisters(board, board') /\ board'.full = board.full
                    /\ \A i \in Buffers : board'.held[i] = board.held[i]
                    /\ board'.next = board.next /\ board'.pending = board.pending
  <2>1. board \in Board /\ queue \in Commands /\ next_read_buffer \in Buffers
    BY DEF HandleType
  <2>2. ~faulty => ~queue.reset /\ queue.clear = {}
    BY DEF FaultsNoted, NoCommands
  <2> DEFINE c == [queue EXCEPT !.waveforms = @ \/ ~in_waveforms]
  <2>3. c \in Commands /\ c.reset = queue.reset /\ c.clear = queue.clear
    BY <2>1 DEF Commands
  <2>4. Send(c)
    BY DEF Read
  <2> HIDE DEF c
  <2>5. /\ board' \in Board /\ queue' = NoCommands /\ queue' \in Commands
        /\ ~faulty => /\ SameRegisters(board, board') /\ board'.full = board.full
                      /\ \A i \in Buffers : board'.held[i] = board.held[i]
                      /\ board'.next = board.next /\ board'.pending = board.pending
    BY <2>1, <2>2, <2>3, <2>4, SendParts DEF Board
  <2>6. /\ calib_ev' \in Events
        /\ board'.waveforms /\ next_read_buffer \in board'.full =>
               calib_ev' = board'.held[next_read_buffer]
    BY <2>1, <2>5, ShownParts DEF Read
  <2> QED
    BY <2>1, <2>5, <2>6, NextBufferType DEF Read, Reading
<1>1. HandleType'
  BY <1>0 DEF Read, Reading, Unread, HandleType, Commands
<1>2. board' \in Board /\ CallType'
  BY <1>0 DEF Read, Reading, Unread, CallType
<1>3. ExpectedType'
  BY <1>0 DEF Read, Reading, Unread, LengthKept, ExpectedType, Board
<1>4. MarksType'
  <2>1. upset' \in BOOLEAN
    BY DEF MarksType, Read
  <2>2. resets' \in Nat /\ troubles' \in Nat /\ faulty' \in BOOLEAN
    BY DEF MarksType, Read, Unread
  <2> QED
    BY <2>1, <2>2 DEF MarksType
<1>5. LengthKept' /\ FaultsNoted' /\ TypeFits'
  BY <1>0 DEF Read, Reading, Unread, LengthKept, FaultsNoted, TypeFits
<1>6. EnablesKept' /\ PulseKept' /\ ReadoutStaysOff'
  BY <1>0 DEF Read, Reading, Unread, EnablesKept, PulseKept, ReadoutStaysOff, FaultsNoted,
     TypeFits
<1>7. RingInStep'
  <2>1. pc = "read" /\ pc' = "mark" /\ mask' = mask
    BY DEF Read, Reading
  <2>2. ASSUME ~upset'
        PROVE  /\ ~upset /\ ~faulty /\ next_read_buffer \in Buffers
               /\ mask = {next_read_buffer} /\ board.full = mask /\ ~board.pending
               /\ board.next = (next_read_buffer + 1) % NumBuffer
    BY <2>1, <2>2 DEF FaultsNoted, RingInStep, Read, HandleType
  <2> QED
    BY <1>0, <2>1, <2>2 DEF RingInStep
<1>8. DelaysFollow'
  <2>1. pc = "read" /\ pc' = "mark" /\ start_delays' = start_delays
    BY DEF Read, Reading, Unread
  <2>2. ASSUME ~upset'
        PROVE  /\ ~upset /\ ~faulty /\ board'.waveforms
               /\ next_read_buffer \in board.full /\ next_read_buffer \in Buffers
    BY <2>1, <2>2 DEF FaultsNoted, RingInStep, Read, HandleType
  <2>3. ~upset' => OwnPulse(calib_ev)' /\ board'.delays = start_delays'
    BY <1>0, <2>1, <2>2 DEF DelaysFollow, OwnPulse
  <2> QED
    BY <2>1, <2>3 DEF DelaysFollow
<1> QED
  BY <1>1, <1>2, <1>3, <1>4, <1>5, <1>6, <1>7, <1>8

LEMMA ReadFailsKeeps ==
    ASSUME ResetInv, ReadFails
    PROVE  ResetInv'
<1>0. /\ board' \in Board /\ queue' \in Commands /\ Fault /\ faulty' /\ upset'
      /\ calib_ev' \in Events /\ next_read_buffer' \in Buffers
      /\ in_waveforms' \in BOOLEAN /\ kept' \in BOOLEAN
  <2>1. /\ board \in Board /\ queue \in Commands /\ next_read_buffer \in Buffers
        /\ in_waveforms \in BOOLEAN /\ enable_locking \in BOOLEAN /\ calib_ev \in Events
    BY DEF HandleType
  <2>2. in_waveforms' \in BOOLEAN /\ kept' \in BOOLEAN /\ next_read_buffer' \in Buffers
    BY <2>1, NextBufferType DEF ReadFails, Reading
  <2> DEFINE c == [queue EXCEPT !.waveforms = @ \/ in_waveforms' # in_waveforms]
  <2>3. c \in Commands
    BY <2>1 DEF Commands
  <2>4. SendFails(c)
    BY DEF ReadFails
  <2> HIDE DEF c
  <2>5. board' \in Board /\ queue' \in Commands /\ Fault /\ faulty' /\ upset'
    BY <2>1, <2>3, <2>4, SendFailsParts, FaultSeen
  <2>6. PICK new \in SUBSET ADCs, ev \in Shown(board, next_read_buffer) :
             calib_ev' = [a \in ADCs |-> IF a \in new THEN ev[a] ELSE calib_ev[a]]
    BY DEF ReadFails
  <2>7. calib_ev' \in Events
    BY <2>1, <2>6, ShownParts DEF Events
  <2> QED
    BY <2>2, <2>5, <2>7
<1>1. HandleType'
  BY <1>0 DEF ReadFails, Reading, Unread, HandleType, Commands
<1>2. board' \in Board /\ CallType'
  BY <1>0 DEF ReadFails, Reading, Unread, CallType
<1>3. ExpectedType'
  BY <1>0 DEF ReadFails, Reading, Unread, LengthKept, ExpectedType, Board
<1>4. MarksType'
  <2>1. resets' = resets
    BY DEF ReadFails, Unread
  <2> QED
    BY <1>0, <2>1, MarksFault, MarksNoFault
<1>5. LengthKept' /\ FaultsNoted' /\ TypeFits'
  BY <1>0 DEF ReadFails, Reading, Unread, LengthKept, FaultsNoted, TypeFits
<1>6. EnablesKept' /\ PulseKept' /\ ReadoutStaysOff'
  BY <1>0 DEF ReadFails, Reading, Unread, EnablesKept, PulseKept, ReadoutStaysOff, FaultsNoted,
     TypeFits
<1>7. RingInStep'
  BY <1>0 DEF ReadFails, Reading, Unread, RingInStep, FaultsNoted
<1>8. DelaysFollow'
  BY AlignedSame, <1>0 DEF ReadFails, Reading, Unread, DelaysFollow, RingInStep, FaultsNoted,
     TypeFits, OwnPulse
<1> QED
  BY <1>1, <1>2, <1>3, <1>4, <1>5, <1>6, <1>7, <1>8

LEMMA SyncIssueKeeps ==
    ASSUME ResetInv, SyncIssue
    PROVE  ResetInv'
<1>0. next_read_buffer' \in Buffers /\ next_read_buffer # Min(mask) /\ upset' = TRUE
  <2>1. mask \subseteq Buffers /\ mask # {}
    BY DEF CallType, SyncIssue
  <2> QED
    BY <2>1, FirstOfMask DEF SyncIssue
<1>1. HandleType'
  BY <1>0 DEF SyncIssue, Unread, HandleType, Commands
<1>2. board' \in Board /\ CallType'
  BY <1>0 DEF SyncIssue, Unread, CallType
<1>3. ExpectedType'
  BY <1>0 DEF SyncIssue, Unread, LengthKept, ExpectedType, Board
<1>4. MarksType'
  <2>1. upset' \in BOOLEAN
    BY <1>0
  <2>2. resets' \in Nat /\ troubles' \in Nat /\ faulty' \in BOOLEAN
    BY DEF MarksType, SyncIssue, Unread
  <2> QED
    BY <2>1, <2>2 DEF MarksType
<1>5. LengthKept' /\ FaultsNoted' /\ TypeFits'
  BY <1>0 DEF SyncIssue, Unread, LengthKept, FaultsNoted, TypeFits
<1>6. EnablesKept' /\ PulseKept' /\ ReadoutStaysOff'
  BY <1>0 DEF SyncIssue, Unread, EnablesKept, PulseKept, ReadoutStaysOff, FaultsNoted, TypeFits
<1>7. RingInStep'
  BY <1>0 DEF SyncIssue, Unread, RingInStep, FaultsNoted
<1>8. DelaysFollow'
  BY AlignedSame, <1>0 DEF SyncIssue, Unread, DelaysFollow, RingInStep, FaultsNoted, TypeFits,
     OwnPulse
<1> QED
  BY <1>1, <1>2, <1>3, <1>4, <1>5, <1>6, <1>7, <1>8

LEMMA MarkKeeps ==
    ASSUME ResetInv, Mark
    PROVE  ResetInv'
<1>0. /\ board' \in Board /\ queue' \in Commands
      /\ \/ /\ NoFault /\ queue' = NoCommands
            /\ ~faulty => /\ SameRegisters(board, board')
                          /\ board'.full = board.full \ {Min(mask)}
                          /\ board'.next = board.next /\ board'.pending = board.pending
         \/ Fault /\ faulty' /\ upset'
  <2>1. board \in Board /\ queue \in Commands /\ mask \subseteq Buffers /\ mask # {}
    BY DEF HandleType, CallType, Mark
  <2>2. ~faulty => ~queue.reset /\ queue.clear = {}
    BY DEF FaultsNoted, NoCommands
  <2>3. Min(mask) \in Buffers
    BY <2>1, FirstOfMask
  <2> DEFINE c == [queue EXCEPT !.clear = @ \cup {Min(mask)}]
  <2>4. c \in Commands /\ c.reset = queue.reset /\ c.clear = queue.clear \cup {Min(mask)}
    BY <2>1, <2>3 DEF Commands
  <2>5. (Send(c) /\ NoFault) \/ SendFails(c)
    BY DEF Mark
  <2> HIDE DEF c
  <2>6. CASE Send(c) /\ NoFault
    BY <2>1, <2>2, <2>4, <2>6, SendParts DEF Board
  <2>7. CASE SendFails(c)
    BY <2>1, <2>4, <2>7, SendFailsParts, FaultSeen
  <2> QED
    BY <2>5, <2>6, <2>7
<1>1. HandleType'
  BY <1>0 DEF Mark, NoFault, Unread, HandleType, Commands
<1>2. board' \in Board /\ CallType'
  BY <1>0 DEF Mark, NoFault, Unread, CallType
<1>3. ExpectedType'
  BY <1>0 DEF Mark, NoFault, Unread, LengthKept, ExpectedType, Board
<1>4. MarksType'
  <2>1. resets' = resets
    BY DEF Mark, Unread
  <2> QED
    BY <1>0, <2>1, MarksFault, MarksNoFault
<1>5. LengthKept' /\ FaultsNoted' /\ TypeFits'
  BY <1>0 DEF Mark, NoFault, Unread, LengthKept, FaultsNoted, TypeFits
<1>6. EnablesKept' /\ PulseKept' /\ ReadoutStaysOff'
  BY <1>0 DEF Mark, NoFault, Unread, EnablesKept, PulseKept, ReadoutStaysOff, FaultsNoted,
     TypeFits
<1>7. RingInStep'
  <2>1. pc = "mark" /\ pc' = "judge" /\ next_read_buffer' = next_read_buffer
    BY DEF Mark
  <2>2. ASSUME ~upset'
        PROVE  /\ ~upset /\ ~faulty /\ ~board.pending /\ board.next = next_read_buffer
               /\ board.full \ {Min(mask)} = {}
    <3>1. ~upset /\ ~faulty
      BY <1>0, <2>2 DEF FaultsNoted, NoFault
    <3>2. ~board.pending /\ board.next = next_read_buffer
      BY <2>1, <3>1 DEF RingInStep
    <3>3. PICK b \in Buffers : mask = {b} /\ board.full = mask
      BY <2>1, <3>1 DEF RingInStep
    <3> QED
      BY <3>1, <3>2, <3>3, FirstOfOne
  <2> QED
    BY <1>0, <2>1, <2>2 DEF RingInStep
<1>8. DelaysFollow'
  BY AlignedSame, <1>0 DEF Mark, NoFault, Unread, DelaysFollow, RingInStep, FaultsNoted,
     TypeFits, OwnPulse
<1> QED
  BY <1>1, <1>2, <1>3, <1>4, <1>5, <1>6, <1>7, <1>8

LEMMA RejectKeeps ==
    ASSUME ResetInv, Reject
    PROVE  ResetInv'
<1>1. HandleType'
  BY DEF Reject, HandleType, Commands
<1>2. board' \in Board /\ CallType'
  BY DEF Reject, CallType
<1>3. ExpectedType'
  BY DEF Reject, LengthKept, ExpectedType, Board
<1>4. MarksType'
  BY MarksNoFault DEF NoFault, Reject
<1>5. LengthKept' /\ FaultsNoted' /\ TypeFits'
  BY DEF Reject, LengthKept, FaultsNoted, TypeFits
<1>6. EnablesKept' /\ PulseKept' /\ ReadoutStaysOff'
  BY DEF Reject, EnablesKept, PulseKept, ReadoutStaysOff, FaultsNoted, TypeFits
<1>7. RingInStep'
  BY DEF Reject, RingInStep, FaultsNoted
<1>8. DelaysFollow'
  BY AlignedSame DEF Reject, DelaysFollow, RingInStep, FaultsNoted, TypeFits, OwnPulse
<1> QED
  BY <1>1, <1>2, <1>3, <1>4, <1>5, <1>6, <1>7, <1>8

LEMMA RestoreKeeps ==
    ASSUME ResetInv, Restore
    PROVE  ResetInv'
<1>0. /\ board' \in Board /\ SameRing(board, board')
      /\ board'.delays = board.delays /\ board'.phases = board.phases
      /\ ~faulty' => /\ board'.calpulse = FALSE
                      /\ board'.enables = board.enables /\ board'.readout = board.readout
  BY DEF Restore, Write, Fault, NoFault, Disturbed, Board
<1>1. HandleType'
  BY <1>0 DEF Restore, Write, Fault, NoFault, Disturbed, HandleType, CallType, Commands
<1>2. board' \in Board /\ CallType'
  BY <1>0 DEF Restore, Write, Fault, NoFault, Disturbed, CallType
<1>3. ExpectedType'
  BY <1>0 DEF Restore, Write, Fault, NoFault, Disturbed, LengthKept, ExpectedType, Board
<1>4. MarksType'
  BY MarksFault, MarksNoFault, MarksWrite DEF Restore, Unwritten
<1>5. LengthKept' /\ FaultsNoted' /\ TypeFits'
  BY <1>0 DEF Restore, Write, Fault, NoFault, Disturbed, LengthKept, FaultsNoted, TypeFits
<1>6. EnablesKept' /\ PulseKept' /\ ReadoutStaysOff'
  BY <1>0 DEF Restore, Write, Fault, NoFault, Disturbed, EnablesKept, PulseKept,
     ReadoutStaysOff, FaultsNoted, TypeFits
<1>7. RingInStep'
  BY <1>0 DEF Restore, Write, Fault, NoFault, Disturbed, RingInStep, FaultsNoted
<1>8. DelaysFollow'
  BY AlignedSame, <1>0 DEF Restore, Write, Fault, NoFault, Disturbed, DelaysFollow, RingInStep,
     FaultsNoted, TypeFits, OwnPulse
<1> QED
  BY <1>1, <1>2, <1>3, <1>4, <1>5, <1>6, <1>7, <1>8

LEMMA ReclearKeeps ==
    ASSUME ResetInv, Reclear
    PROVE  ResetInv'
<1>0. /\ board' \in Board /\ SameRegisters(board, board')
      /\ board'.next = board.next /\ board'.pending = board.pending
      /\ (NoFault /\ board'.full = {}) \/ (Fault /\ faulty' /\ upset')
  <2>1. board \in Board /\ Buffers \in SUBSET Buffers /\ board.full \subseteq Buffers
    BY DEF Board
  <2> QED
    BY <2>1, ClearedParts, FaultSeen DEF Reclear, Write
<1>1. HandleType'
  BY <1>0 DEF Reclear, NoFault, Unwritten, HandleType, Commands
<1>2. board' \in Board /\ CallType'
  BY <1>0 DEF Reclear, NoFault, Unwritten, CallType
<1>3. ExpectedType'
  BY <1>0 DEF Reclear, NoFault, Unwritten, LengthKept, ExpectedType, Board
<1>4. MarksType'
  BY MarksFault, MarksNoFault, MarksWrite DEF Reclear, Unwritten
<1>5. LengthKept' /\ FaultsNoted' /\ TypeFits'
  BY <1>0 DEF Reclear, NoFault, Unwritten, LengthKept, FaultsNoted, TypeFits
<1>6. EnablesKept' /\ PulseKept' /\ ReadoutStaysOff'
  BY <1>0 DEF Reclear, NoFault, Unwritten, EnablesKept, PulseKept, ReadoutStaysOff,
     FaultsNoted, TypeFits
<1>7. RingInStep'
  BY <1>0 DEF Reclear, NoFault, Unwritten, RingInStep, FaultsNoted
<1>8. DelaysFollow'
  BY AlignedSame, <1>0 DEF Reclear, NoFault, Unwritten, DelaysFollow, RingInStep, FaultsNoted,
     TypeFits, OwnPulse
<1> QED
  BY <1>1, <1>2, <1>3, <1>4, <1>5, <1>6, <1>7, <1>8

LEMMA UnmaskKeeps ==
    ASSUME ResetInv, Unmask
    PROVE  ResetInv'
<1>0. /\ board' \in Board /\ SameRing(board, board')
      /\ board'.delays = board.delays /\ board'.phases = board.phases
      /\ board'.calpulse = board.calpulse /\ board'.readout = board.readout
      /\ (NoFault /\ board'.enables = old_enables) \/ (Fault /\ faulty' /\ upset')
      /\ \/ happy /\ pc' = "count" /\ ret' = ret
         \/ ~happy /\ pc' = "idle" /\ ret' = -1
  <2>1. board \in Board /\ old_enables \in BOOLEAN
    BY DEF CallType
  <2>2. [board EXCEPT !.enables = old_enables] \in Board
    BY <2>1 DEF Board
  <2> DEFINE new == [board EXCEPT !.enables = old_enables]
  <2>3. /\ new \in Board /\ SameRing(board, new) /\ new.enables = old_enables
        /\ new.delays = board.delays /\ new.phases = board.phases
        /\ new.calpulse = board.calpulse /\ new.readout = board.readout
    BY <2>1, <2>2 DEF Board
  <2>4. Write(new)
    BY DEF Unmask
  <2> HIDE DEF new
  <2>5. /\ board' \in Board /\ SameRing(board, board')
        /\ board'.delays = board.delays /\ board'.phases = board.phases
        /\ board'.calpulse = board.calpulse /\ board'.readout = board.readout
        /\ (NoFault /\ board'.enables = old_enables) \/ (Fault /\ faulty' /\ upset')
    BY <2>1, <2>3, <2>4, FaultSeen DEF Write
  <2> QED
    BY <2>5 DEF Unmask, Return
<1>1. HandleType'
  BY <1>0 DEF Unmask, NoFault, HandleType, Commands
<1>2. board' \in Board /\ CallType'
  BY <1>0 DEF Unmask, NoFault, CallType
<1>3. ExpectedType'
  BY <1>0 DEF Unmask, NoFault, LengthKept, ExpectedType, Board
<1>4. MarksType'
  <2>1. resets' = resets
    BY DEF Unmask
  <2> QED
    BY <1>0, <2>1, MarksFault, MarksNoFault
<1>5. LengthKept' /\ FaultsNoted' /\ TypeFits'
  BY <1>0 DEF Unmask, NoFault, LengthKept, FaultsNoted, TypeFits
<1>6. EnablesKept' /\ PulseKept' /\ ReadoutStaysOff'
  <2>1. /\ pc = "unmask" /\ expected' = expected /\ type' = type /\ Calibrates(type)
        /\ old_enables' = old_enables
    BY DEF TypeFits, Unmask
  <2>2. ~faulty' => ~faulty
    BY <1>0 DEF NoFault
  <2>3. board.calpulse \in BOOLEAN /\ expected.calpulse \in BOOLEAN
    BY DEF Board, ExpectedType
  <2>4. EnablesKept'
    BY <1>0, <2>1, <2>2 DEF EnablesKept
  <2>5. PulseKept'
    BY <1>0, <2>1, <2>2, <2>3 DEF PulseKept
  <2>6. ReadoutStaysOff'
    BY <1>0, <2>1, <2>2 DEF ReadoutStaysOff
  <2> QED
    BY <2>4, <2>5, <2>6
<1>7. RingInStep'
  BY <1>0 DEF Unmask, NoFault, RingInStep, FaultsNoted
<1>8. DelaysFollow'
  BY AlignedSame, <1>0 DEF Unmask, NoFault, DelaysFollow, RingInStep, FaultsNoted, TypeFits,
     OwnPulse
<1> QED
  BY <1>1, <1>2, <1>3, <1>4, <1>5, <1>6, <1>7, <1>8

LEMMA ResetCountersKeeps ==
    ASSUME ResetInv, ResetCounters
    PROVE  ResetInv'
<1>0. (NoFault /\ ret' = 0) \/ (Fault /\ faulty' /\ upset' /\ ret' = 1)
  BY FaultSeen DEF ResetCounters, Return
<1>1. HandleType'
  BY <1>0 DEF ResetCounters, NoFault, Return, HandleType, Commands
<1>2. board' \in Board /\ CallType'
  BY <1>0 DEF ResetCounters, NoFault, Return, CallType
<1>3. ExpectedType'
  BY <1>0 DEF ResetCounters, NoFault, Return, LengthKept, ExpectedType, Board
<1>4. MarksType'
  BY MarksFault, MarksNoFault, MarksWrite DEF ResetCounters
<1>5. LengthKept' /\ FaultsNoted' /\ TypeFits'
  BY <1>0 DEF ResetCounters, NoFault, Return, LengthKept, FaultsNoted, TypeFits
<1>6. EnablesKept' /\ PulseKept' /\ ReadoutStaysOff'
  BY <1>0 DEF ResetCounters, NoFault, Return, EnablesKept, PulseKept, ReadoutStaysOff,
     FaultsNoted, TypeFits
<1>7. RingInStep'
  BY <1>0 DEF ResetCounters, NoFault, Return, RingInStep, FaultsNoted
<1>8. DelaysFollow'
  BY AlignedSame, <1>0 DEF ResetCounters, NoFault, Return, DelaysFollow, RingInStep,
     FaultsNoted, TypeFits, OwnPulse
<1> QED
  BY <1>1, <1>2, <1>3, <1>4, <1>5, <1>6, <1>7, <1>8

LEMMA AcceptKeeps ==
    ASSUME ResetInv, Accept
    PROVE  ResetInv'
<1>0. /\ board' \in Board /\ SameRing(board, board')
      /\ board'.enables = board.enables /\ board'.readout = board.readout
      /\ board'.calpulse = board.calpulse /\ board'.phases = board.phases
      /\ (NoFault /\ board' = Programmed(board, calib_ev)) \/ (Fault /\ faulty' /\ upset')
  <2>1. board \in Board /\ calib_ev \in Events /\ (\A a \in ADCs : calib_ev[a] # Weak)
    BY DEF HandleType, Accept, Good
  <2>2. \A a \in ADCs : DelayField(Lag(calib_ev)[a]) \in 0 .. 31
    BY <2>1, LagsAreNats DEF DelayField
  <2> DEFINE new == Programmed(board, calib_ev)
  <2>3. /\ new \in Board /\ SameRing(board, new)
        /\ new.enables = board.enables /\ new.readout = board.readout
        /\ new.calpulse = board.calpulse /\ new.phases = board.phases
    BY <2>1, <2>2 DEF Programmed, Board
  <2>4. \/ NoFault /\ board' = new
        \/ Fault /\ \E a \in ADCs : board' = [new EXCEPT !.delays[a] = board.delays[a]]
    BY DEF Accept
  <2> HIDE DEF new
  <2>5. CASE NoFault /\ board' = new
    BY <2>3, <2>5 DEF new
  <2>6. CASE Fault /\ \E a \in ADCs : board' = [new EXCEPT !.delays[a] = board.delays[a]]
    BY <2>1, <2>3, <2>6, FaultSeen DEF Board
  <2> QED
    BY <2>4, <2>5, <2>6
<1>1. HandleType'
  BY <1>0 DEF Accept, NoFault, HandleType, Commands
<1>2. board' \in Board /\ CallType'
  BY <1>0 DEF Accept, NoFault, CallType
<1>3. ExpectedType'
  BY <1>0 DEF Accept, NoFault, LengthKept, ExpectedType, Board
<1>4. MarksType'
  BY MarksFault, MarksNoFault, MarksWrite DEF Accept
<1>5. LengthKept' /\ FaultsNoted' /\ TypeFits'
  BY <1>0 DEF Accept, NoFault, LengthKept, FaultsNoted, TypeFits
<1>6. EnablesKept' /\ PulseKept' /\ ReadoutStaysOff'
  BY <1>0 DEF Accept, NoFault, EnablesKept, PulseKept, ReadoutStaysOff, FaultsNoted, TypeFits
<1>7. RingInStep'
  BY <1>0 DEF Accept, NoFault, RingInStep, FaultsNoted
<1>8. DelaysFollow'
  <2>1. pc = "judge" /\ pc' = "restore" /\ start_delays' = start_delays /\ Good(calib_ev)
    BY DEF Accept
  <2>2. ASSUME ~upset' PROVE Aligned'
    <3>1. ~upset /\ board' = Programmed(board, calib_ev)
      BY <1>0, <2>2 DEF NoFault
    <3>2. OwnPulse(calib_ev) /\ board.delays = start_delays
      BY <2>1, <3>1 DEF DelaysFollow
    <3>3. calib_ev \in Events /\ board.phases \in Phases /\ board \in Board
      BY DEF HandleType, Board
    <3>4. calib_ev = board.phases
      BY <2>1, <3>2, <3>3, PhasesAssumption DEF OwnPulse, Good, Events
    <3>5. \A a \in ADCs : Lag(calib_ev)[a] \in Nat /\ Lag(calib_ev)[a] <= MaxApart
      BY <2>1, <3>3, LagsAreNats DEF Good
    <3>6. \A a \in ADCs : board'.delays[a] = IF Lag(calib_ev)[a] > 0
                                             THEN DelayField(Lag(calib_ev)[a])
                                             ELSE start_delays[a]
      BY <3>1, <3>2, <3>3 DEF Programmed, Board
    <3>7. Lag(board.phases)' = Lag(calib_ev)
      BY <1>0, <3>4
    <3> QED
      BY <2>1, <3>5, <3>6, <3>7 DEF Aligned, DelayField, MaxApart
  <2> QED
    BY <2>1, <2>2 DEF DelaysFollow
<1> QED
  BY <1>1, <1>2, <1>3, <1>4, <1>5, <1>6, <1>7, <1>8

-----------------------------------------------------------------------------
LEMMA InvInit == Init => ResetInv
<1> SUFFICES ASSUME Init PROVE ResetInv
  OBVIOUS
<1>1. PICK n \in Buffers, e \in BOOLEAN, ro \in BOOLEAN, c \in BOOLEAN :
          board = [full |-> {}, next |-> n, held |-> [b \in Buffers |-> NoEvent],
                   pending |-> FALSE, enables |-> e, readout |-> ro, calpulse |-> c,
                   delays |-> [a \in ADCs |-> 0], waveforms |-> n # 0,
                   phases |-> CHOOSE p \in Phases : TRUE]
          /\ next_read_buffer = n /\ in_waveforms = (n # 0)
  BY DEF Init
<1>2. (CHOOSE p \in Phases : TRUE) \in Phases
  BY PhasesAssumption
<1>3. board \in Board /\ board.delays \in [ADCs -> 0 .. 31]
  BY <1>1, <1>2, PlacesAreNats DEF Board
<1>4. HandleType
  <2>1. next_read_buffer \in Buffers /\ in_waveforms \in BOOLEAN
    BY <1>1
  <2> QED
    BY <2>1, PlacesAreNats DEF Init, HandleType, Commands, NoCommands
<1>5. CallType
  BY DEF Init, CallType, Types
<1>6. ExpectedType
  BY <1>3 DEF Init, ExpectedType, Board
<1>7. MarksType
  BY DEF Init, MarksType
<1>8. LengthKept /\ FaultsNoted /\ TypeFits
  BY DEF Init, LengthKept, FaultsNoted, TypeFits, NoCommands
<1>9. EnablesKept /\ PulseKept /\ ReadoutStaysOff
  BY DEF Init, EnablesKept, PulseKept, ReadoutStaysOff
<1>10. ~board.pending
  BY <1>1
<1>11. RingInStep
  BY <1>10 DEF Init, RingInStep
<1>12. DelaysFollow
  BY DEF Init, DelaysFollow
<1> QED
  BY <1>3, <1>4, <1>5, <1>6, <1>7, <1>8, <1>9, <1>11, <1>12

LEMMA InvStutter == ASSUME ResetInv, UNCHANGED vars PROVE ResetInv'
<1> USE DEF vars, handle, call, history
<1>1. TypeParts'
  BY DEF HandleType, CallType, ExpectedType, MarksType
<1>2. (LengthKept /\ FaultsNoted /\ TypeFits)'
  BY DEF LengthKept, FaultsNoted, TypeFits
<1>3. (EnablesKept /\ PulseKept /\ ReadoutStaysOff)'
  BY DEF EnablesKept, PulseKept, ReadoutStaysOff
<1>4. RingInStep'
  BY DEF RingInStep
<1>5. Aligned' <=> Aligned
  BY DEF Aligned
<1>6. DelaysFollow'
  BY <1>5 DEF DelaysFollow, OwnPulse
<1> QED
  BY <1>1, <1>2, <1>3, <1>4, <1>6

LEMMA InvNext == ResetInv /\ [Next]_vars => ResetInv'
<1> SUFFICES ASSUME ResetInv, [Next]_vars PROVE ResetInv'
  OBVIOUS
<1>1. CASE \E t \in Types : Call(t)
  BY <1>1, CallKeeps
<1>2. CASE Reset
  BY <1>2, ReadoutOffKeeps, MaskTriggersKeeps, PulseOnKeeps, GlobalResetKeeps,
     AlmostGlobalResetKeeps, ClearAllKeeps, ResetPointerKeeps, AbortKeeps, SaveSettingsKeeps,
     AttemptKeeps, GiveUpKeeps, SwTriggerKeeps, WaitKeeps, WaitFailsKeeps, ReadKeeps,
     ReadFailsKeeps, SyncIssueKeeps, MarkKeeps, RejectKeeps, RestoreKeeps, ReclearKeeps,
     UnmaskKeeps, ResetCountersKeeps, AcceptKeeps DEF Reset
<1>3. CASE Store \/ OtherTrigger
  BY <1>3, StoreKeeps, OtherTriggerKeeps
<1>4. CASE UNCHANGED vars
  BY <1>4, InvStutter
<1> QED
  BY <1>1, <1>2, <1>3, <1>4 DEF Next

-----------------------------------------------------------------------------
\* The invariant holds in every reachable state: what the calibration has taken away is
\* kept for its end, the events of its attempts go through the ring one by one, and the
\* delays are those of before until an event that shows the clocks is accepted.
THEOREM InvCorrect == Spec => []ResetInv
BY InvInit, InvNext, PTL DEF Spec

\* The variables keep their types, for any number of buffers, ADCs and attempts.
THEOREM TypeCorrect == Spec => []TypeOK
<1>1. ResetInv => TypeOK
  BY DEF HandleType, CallType, ExpectedType, MarksType, TypeOK
<1> QED
  BY <1>1, InvCorrect, PTL

\* beacon_reset gives back the buffer length however it ends, and trigger enables and
\* calpulser unless a transfer fails.
THEOREM SettingsComeBack == Spec => []SettingsKept
<1>1. ASSUME ResetInv PROVE SettingsKept
  <2>1. CASE ~Settled
    BY <2>1 DEF SettingsKept
  <2>2. CASE Settled
    BY <1>1, <2>2 DEF LengthKept, EnablesKept, PulseKept, ReadoutStaysOff, SettingsKept
  <2> QED
    BY <2>1, <2>2
<1> QED
  BY <1>1, InvCorrect, PTL

\* While it calibrates, and no transfer has failed, only the calpulser makes events.
THEOREM CalibrationIsQuiet == Spec => []QuietCalibration
<1>1. ResetInv => QuietCalibration
  BY DEF LengthKept, EnablesKept, PulseKept, ReadoutStaysOff, QuietCalibration
<1> QED
  BY <1>1, InvCorrect, PTL

\* The delays it programs are those of the clocks as they are, whatever was rejected before.
THEOREM CalibrationCorrect == Spec => []DelaysMatch
<1>1. ResetInv => DelaysMatch
  BY DEF DelaysFollow, Aligned, DelaysMatch
<1> QED
  BY <1>1, InvCorrect, PTL

\* Board and handle point to the same buffer after a reset, wherever the attempts have
\* moved the two pointers.
THEOREM ResetResynchronizes == Spec => []InStep
<1>1. ResetInv => InStep
  BY DEF RingInStep, InStep
<1> QED
  BY <1>1, InvCorrect, PTL
=============================================================================
