------------------------------ MODULE BeaconReset ------------------------------
(***************************************************************************)
(* beacon_reset of every type: the resets of the board, the calibration of *)
(* the ADC delays with its loop of software triggers, and the reset of the *)
(* counters.  One thread calls it, on a handle with or without a mutex.    *)
(*                                                                         *)
(* The board is external.  It stores an event, some time after its         *)
(* trigger, in the buffer its pointer names.  An event shows the pulse of  *)
(* the calpulser at one place for each ADC; where depends on how the       *)
(* clocks of the ADCs came up, `phases`, which a reset of these clocks     *)
(* changes.  An ADC has two channels, here with the same place.            *)
(*                                                                         *)
(* A transfer that fails may have reached the board.  What was appended to *)
(* the transfer queue also stays there, for the next call that sends it.   *)
(***************************************************************************)
EXTENDS Integers, FiniteSetsExt

CONSTANTS
    NumBuffer,      \* BN_NUM_BUFFER
    ADCs,
    Phases,         \* the ways the clocks come up: at which sample each ADC has the pulse
    MaxMisery,      \* MAX_MISERY
    Lengths,        \* values of buffer_length that clients set
    MaxResets,      \* bound: calls of beacon_reset
    MaxTroubles     \* bound: transfers that fail, events of other triggers, late events

CalibLength == 1024     \* buffer_length while calibrating
MaxApart    == 16       \* accepted distance of the pulses
Weak        == -1       \* no sample reaches MIN_GOOD_MAX_V

ASSUME BufferAssumption == NumBuffer \in Nat \ {0}
ASSUME PhasesAssumption == ADCs # {} /\ Phases # {} /\ Phases \subseteq [ADCs -> Nat]
ASSUME LengthsAssumption == Lengths \subseteq Nat \ {CalibLength}
ASSUME BoundsAssumption == MaxMisery \in Nat /\ MaxResets \in Nat /\ MaxTroubles \in Nat

Buffers == 0 .. NumBuffer - 1
Places  == {p[a] : p \in Phases, a \in ADCs}
Events  == [ADCs -> Places \cup {Weak}]
Types   == {"counters", "calibrate", "almost_global", "global"}

VARIABLES
    board,
    \* the handle
    enable_locking,
    kept,               \* d->mut was left locked
    buffer_length, next_read_buffer, calib_ev,
    in_waveforms,       \* current_mode = MODE_WAVEFORMS
    queue,              \* what failed transfers have left in d->buf
    \* the call
    pc, type, misery, happy, mask, old_enables, old_buf_length, ret,
    \* history
    expected,           \* length, enables and calpulse that the call has to leave behind:
                        \* after a calibration the calpulser is off, also when it was on before
    start_delays,       \* the board's delays before the calibration
    faulty,             \* a transfer of this call failed, or one that it still sends
    upset,              \* the calibration has met something other than its own pulses
    resets, troubles

handle  == <<enable_locking, kept, buffer_length, next_read_buffer, calib_ev, in_waveforms,
             queue>>
call    == <<type, misery, happy, mask, old_enables, old_buf_length, ret>>
history == <<expected, start_delays, faulty, upset, resets, troubles>>
vars    == <<board, handle, pc, call, history>>

Board ==
    [full : SUBSET Buffers, next : Buffers,     \* event buffers, and the one to fill next
     held : [Buffers -> Events],                \* what the full ones hold
     pending : BOOLEAN,                         \* an event is under way
     enables : BOOLEAN,                         \* enable_beamforming in REG_TRIG_ENABLE
     readout : BOOLEAN, calpulse : BOOLEAN,
     delays : [ADCs -> 0 .. 31],                \* REG_ADC_DELAYS
     waveforms : BOOLEAN,                       \* REG_MODE
     phases : Phases]

Commands   == [reset : BOOLEAN, waveforms : BOOLEAN, clear : SUBSET Buffers]
NoCommands == [reset |-> FALSE, waveforms |-> FALSE, clear |-> {}]
ResetCommand == [NoCommands EXCEPT !.reset = TRUE]
NoEvent    == [a \in ADCs |-> Weak]

NoResult   == 2        \* the call has not returned

Calibrates(t) == t # "counters"

-----------------------------------------------------------------------------
\* The board.

Cleared(b, bufs) ==
    [b EXCEPT !.full = @ \ bufs,
              !.held = [i \in Buffers |-> IF i \in bufs THEN NoEvent ELSE b.held[i]]]

\* BN_RESET_ALMOST_GLOBAL: everything but the registers.
AlmostAll(b, phases) ==
    [Cleared(b, Buffers) EXCEPT !.next = 0, !.pending = FALSE, !.phases = phases]

\* BN_RESET_GLOBAL: everything.
ResetAll(b, phases) ==
    [AlmostAll(b, phases) EXCEPT
        !.enables = FALSE, !.readout = FALSE, !.calpulse = FALSE, !.waveforms = FALSE,
        !.delays = [a \in ADCs |-> 0]]

\* What executing the commands c may make of b.  A reset comes before the rest of c:
\* nothing is left of what was in the queue in front of it.
Executed(c, b) ==
    {[Cleared(r, c.clear) EXCEPT !.waveforms = @ \/ c.waveforms] :
        r \in IF c.reset THEN {ResetAll(b, p) : p \in Phases} ELSE {b}}

\* ... and executing some of them.
PartlyExecuted(c, b) ==
    UNION {Executed(part, b) : part \in [reset : {FALSE, c.reset}, clear : {{}, c.clear},
                                         waveforms : {FALSE, c.waveforms}]}

\* What the waveforms of buffer i show: no event of this trigger (nothing, or what looks
\* like pulses) when it is not full, or in another mode.
Shown(b, i) == IF b.waveforms /\ i \in b.full THEN {b.held[i]} ELSE Phases \cup {NoEvent}

\* The pulse, if it is on, in all ADCs or with one where it is too weak.
Pulses(b) ==
    IF b.calpulse THEN {b.phases} \cup {[b.phases EXCEPT ![a] = Weak] : a \in ADCs}
    ELSE {NoEvent}

Stored(b, ev) ==
    IF b.next \in b.full THEN b
    ELSE [b EXCEPT !.full = @ \cup {b.next}, !.held[b.next] = ev,
                   !.next = (b.next + 1) % NumBuffer]

\* The event of a software trigger is stored.
Store ==
    /\ board.pending
    /\ \E ev \in Pulses(board) : board' = [Stored(board, ev) EXCEPT !.pending = FALSE]
    /\ UNCHANGED <<handle, pc, call, history>>

Disturbed == troubles < MaxTroubles /\ troubles' = troubles + 1 /\ upset' = TRUE

\* An event of another trigger; beacon_reset leaves the external trigger input on.
OtherTrigger ==
    /\ Disturbed
    /\ board' = Stored(board, NoEvent)
    /\ UNCHANGED <<handle, pc, call, expected, start_delays, faulty, resets>>

-----------------------------------------------------------------------------
\* Transfers.

Fault == Disturbed /\ faulty' = TRUE
NoFault == UNCHANGED <<troubles, faulty, upset>>

\* do_write of a command that makes b of the board; nobody looks at the result.
Write(b) == \/ board' = b /\ NoFault
            \/ board' \in {board, b} /\ Fault

\* buffer_send of the commands c, with everything left in d->buf before them.
Send(c) == board' \in Executed(c, board) /\ queue' = NoCommands
SendFails(c) == board' \in PartlyExecuted(c, board) /\ queue' = c /\ Fault

\* USING: a thread waits for ever when d->mut was left locked.
Using == ~kept

-----------------------------------------------------------------------------
\* A board that was opened and configured, with a mutex or without, its calpulser on or off.
Init ==
    /\ \E n \in Buffers, e \in BOOLEAN, ro \in BOOLEAN, c \in BOOLEAN :
        /\ board = [full |-> {}, next |-> n, held |-> [b \in Buffers |-> NoEvent],
                    pending |-> FALSE, enables |-> e, readout |-> ro, calpulse |-> c,
                    delays |-> [a \in ADCs |-> 0], waveforms |-> n # 0,
                    phases |-> CHOOSE p \in Phases : TRUE]
        /\ next_read_buffer = n /\ in_waveforms = (n # 0)
    /\ enable_locking \in BOOLEAN /\ kept = FALSE
    /\ buffer_length \in Lengths /\ calib_ev = NoEvent
    /\ queue = NoCommands
    /\ pc = "idle" /\ type = "counters" /\ misery = 0 /\ happy = FALSE /\ mask = {}
    /\ old_enables = FALSE /\ old_buf_length = buffer_length /\ ret = NoResult
    /\ expected = [length |-> buffer_length, enables |-> board.enables,
                   calpulse |-> board.calpulse]
    /\ start_delays = board.delays
    /\ faulty = FALSE /\ upset = FALSE /\ resets = 0 /\ troubles = 0

-----------------------------------------------------------------------------
\* beacon_reset, until the buffers are clear.

Return(r) == pc' = "idle" /\ ret' = r

Call(t) ==
    /\ pc = "idle" /\ resets < MaxResets
    /\ type' = t /\ resets' = resets + 1
    /\ misery' = 0 /\ happy' = FALSE /\ ret' = NoResult
    /\ pc' = IF t \in {"almost_global", "global"} THEN "hard" ELSE "off"
    /\ expected' = [length |-> buffer_length,
                    enables |-> t # "global" /\ board.enables,
                    calpulse |-> IF Calibrates(t) THEN FALSE ELSE board.calpulse]
    /\ start_delays' = IF t = "global" THEN [a \in ADCs |-> 0] ELSE board.delays
    /\ faulty' = (queue # NoCommands)
    /\ upset' = (queue # NoCommands \/ board.pending)
    /\ UNCHANGED <<board, handle, mask, old_enables, old_buf_length, troubles>>

\* synchronized_command(d, buf_reset_all): what was in the queue before it has no effect.
GlobalReset ==
    /\ pc = "hard" /\ type = "global" /\ Using
    /\ \/ Send(ResetCommand) /\ pc' = "off" /\ NoFault /\ UNCHANGED ret
       \/ SendFails(ResetCommand) /\ Return(1)
    /\ UNCHANGED <<enable_locking, kept, buffer_length, next_read_buffer, calib_ev,
                   in_waveforms, type, misery, happy, mask, old_enables, old_buf_length,
                   expected, start_delays, resets>>

AlmostGlobalReset ==
    /\ pc = "hard" /\ type = "almost_global"
    /\ \E p \in Phases :
        \/ board' = AlmostAll(board, p) /\ NoFault /\ pc' = "off" /\ UNCHANGED ret
        \/ board' \in {board, AlmostAll(board, p)} /\ Fault /\ Return(1)
    /\ UNCHANGED <<handle, type, misery, happy, mask, old_enables, old_buf_length,
                   expected, start_delays, resets>>

\* The steps that only write registers change these and nothing else.
Unwritten == <<handle, call, expected, start_delays, resets>>

\* beacon_phased_trigger_readout(d, 0), which returns 0 whatever happens.
ReadoutOff ==
    /\ pc = "off" /\ Using
    /\ Write([board EXCEPT !.readout = FALSE])
    /\ pc' = "clear"
    /\ UNCHANGED Unwritten

\* buf_clear[0xf]
ClearAll ==
    /\ pc = "clear"
    /\ \/ board' = Cleared(board, Buffers) /\ NoFault /\ pc' = "pointer"
       \/ board' \in {board, Cleared(board, Buffers)} /\ Fault /\ pc' = "abort"
    /\ UNCHANGED Unwritten

\* A fault for the checks to find: next_read_buffer keeps its value.
ResetPointerOfBoard ==
    /\ pc = "pointer"
    /\ board' = [board EXCEPT !.next = 0] /\ NoFault
    /\ pc' = IF Calibrates(type) THEN "save" ELSE "count"
    /\ UNCHANGED Unwritten

\* buf_reset_buf.  Only when both writes were complete: next_read_buffer = 0.
ResetPointer ==
    /\ pc = "pointer"
    /\ board' = [board EXCEPT !.next = 0] /\ NoFault
    /\ next_read_buffer' = 0
    /\ pc' = IF Calibrates(type) THEN "save" ELSE "count"
    /\ UNCHANGED <<enable_locking, kept, buffer_length, calib_ev, in_waveforms, queue, call,
                   expected, start_delays, resets>>

Abort ==
    /\ \/ pc = "pointer" /\ board' \in {board, [board EXCEPT !.next = 0]} /\ Fault
       \/ pc = "abort" /\ Write([board EXCEPT !.next = 0])
    /\ Return(1)
    /\ UNCHANGED <<handle, type, misery, happy, mask, old_enables, old_buf_length,
                   expected, start_delays, resets>>

-----------------------------------------------------------------------------
\* The calibration.

\* beacon_get_trigger_enables, with what the stack holds when its transfer fails.
SaveSettings ==
    /\ pc = "save" /\ Using
    /\ old_buf_length' = buffer_length
    /\ buffer_length' = CalibLength
    /\ \/ Send(queue) /\ old_enables' = board'.enables /\ NoFault
       \/ SendFails(queue) /\ old_enables' \in BOOLEAN
    /\ pc' = "mask"
    /\ UNCHANGED <<enable_locking, kept, next_read_buffer, calib_ev, in_waveforms,
                   type, misery, happy, mask, ret, expected, start_delays, resets>>

\* Fault: the enables are written as they were read.
MaskNothing ==
    /\ pc = "mask" /\ Using
    /\ Write([board EXCEPT !.enables = old_enables])
    /\ pc' = "pulse"
    /\ UNCHANGED Unwritten

\* beacon_set_trigger_enables(d, tmp_enables), without beamforming
MaskTriggers ==
    /\ pc = "mask" /\ Using
    /\ Write([board EXCEPT !.enables = FALSE])
    /\ pc' = "pulse"
    /\ UNCHANGED Unwritten

\* beacon_calpulse(d, 3)
PulseOn ==
    /\ pc = "pulse" /\ Using
    /\ Write([board EXCEPT !.calpulse = TRUE])
    /\ pc' = "loop"
    /\ UNCHANGED Unwritten

\* Fault: an attempt that is rejected does not count.
AttemptUncounted ==
    /\ pc = "loop"
    /\ pc' = "trigger" /\ NoFault
    /\ UNCHANGED <<board, handle, call, expected, start_delays, resets>>

\* The head of the loop: misery, and but for the first time a reset of the ADC clocks.
\* It stays at the head (continue) when the write was not complete.
Attempt ==
    /\ pc = "loop"
    /\ \/ misery = 0 /\ pc' = "trigger" /\ UNCHANGED board /\ NoFault
       \/ /\ misery \in 1 .. MaxMisery - 1
          /\ \E p \in Phases :
               \/ board' = [board EXCEPT !.phases = p] /\ NoFault /\ pc' = "trigger"
               \/ board' \in {board, [board EXCEPT !.phases = p]} /\ Fault /\ pc' = "loop"
    /\ misery' = misery + 1
    /\ UNCHANGED <<handle, type, happy, mask, old_enables, old_buf_length, ret,
                   expected, start_delays, resets>>

\* Fault: return -1 in the place of break.
GiveUpAtOnce ==
    /\ pc = "loop" /\ misery > 0 /\ misery >= MaxMisery
    /\ misery' = 0
    /\ Return(-1)
    /\ UNCHANGED <<board, handle, type, happy, mask, old_enables, old_buf_length, history>>

\* "Giving up on ADC alignment"
GiveUp ==
    /\ pc = "loop" /\ misery > 0 /\ misery >= MaxMisery
    /\ misery' = 0
    /\ pc' = "restore"
    /\ UNCHANGED <<board, handle, type, happy, mask, old_enables, old_buf_length, ret, history>>

\* beacon_sw_trigger
SwTrigger ==
    /\ pc = "trigger" /\ Using
    /\ Write([board EXCEPT !.pending = TRUE])
    /\ pc' = "wait"
    /\ UNCHANGED Unwritten

\* beacon_wait(d, &mask, 1, MASTER).  Its `waited` ends at any time after the first look
\* at the buffers, also while the event is still under way; that it ends at all is taken
\* for granted here, as is that nobody else waits on the handle or cancels: EBUSY and
\* EAGAIN would leave the mask as the stack has it.
Wait ==
    /\ pc = "wait" /\ Using
    /\ Send(queue)
    /\ mask' = board'.full
    /\ pc' = IF mask' = {} THEN "loop" ELSE "read"
    /\ IF mask' = {} /\ board'.pending THEN Disturbed ELSE UNCHANGED <<upset, troubles>>
    /\ UNCHANGED <<enable_locking, kept, buffer_length, next_read_buffer, calib_ev,
                   in_waveforms, type, misery, happy, old_enables, old_buf_length, ret,
                   expected, start_delays, faulty, resets>>

\* The mask is whatever the stack holds.
WaitFails ==
    /\ pc = "wait" /\ Using
    /\ SendFails(queue)
    /\ mask' \in SUBSET Buffers
    /\ pc' = IF mask' = {} THEN "loop" ELSE "read"
    /\ UNCHANGED <<enable_locking, kept, buffer_length, next_read_buffer, calib_ev,
                   in_waveforms, type, misery, happy, old_enables, old_buf_length, ret,
                   expected, start_delays, resets>>

\* beacon_read_single(d, __builtin_ctz(mask), ...), of the buffer that is next to read.
\* The mode goes out with the waveforms, but only when it is not the cached one.
Reading == /\ pc = "read" /\ Using /\ next_read_buffer = Min(mask)
           /\ next_read_buffer' = (next_read_buffer + 1) % NumBuffer

Unread == <<enable_locking, buffer_length, type, misery, happy, old_enables,
            old_buf_length, ret, expected, start_delays, resets>>

Read ==
    /\ Reading
    /\ Send([queue EXCEPT !.waveforms = @ \/ ~in_waveforms])
    /\ in_waveforms' = TRUE
    /\ calib_ev' \in Shown(board', next_read_buffer)
    /\ upset' = (upset \/ ~board'.waveforms)
    /\ pc' = "mark"
    /\ UNCHANGED <<Unread, mask, kept, faulty, troubles>>

\* The metadata or the waveforms fail: CHK leaves at once, with the mutex locked and the
\* buffer not cleared.  The result is ignored, and calib_ev is what it is by then.
ReadFails ==
    /\ Reading
    /\ in_waveforms' \in {in_waveforms, TRUE}
    /\ SendFails([queue EXCEPT !.waveforms = @ \/ in_waveforms' # in_waveforms])
    /\ \E new \in SUBSET ADCs, ev \in Shown(board, next_read_buffer) :
           calib_ev' = [a \in ADCs |-> IF a \in new THEN ev[a] ELSE calib_ev[a]]
    /\ kept' = enable_locking
    /\ mask' = {} /\ pc' = "judge"
    /\ UNCHANGED Unread

\* Another buffer is next: nothing is read, and calib_ev stays.
SyncIssue ==
    /\ pc = "read" /\ next_read_buffer # Min(mask)
    /\ next_read_buffer' = Min(mask)
    /\ upset' = TRUE
    /\ pc' = "mark"
    /\ UNCHANGED <<Unread, mask, board, kept, calib_ev, in_waveforms, queue, faulty, troubles>>

\* mark_buffers_done of the buffer; its result is ignored.
Mark ==
    /\ pc = "mark" /\ Using
    /\ LET c == [queue EXCEPT !.clear = @ \cup {Min(mask)}]
       IN  \/ Send(c) /\ NoFault
           \/ SendFails(c)
    /\ mask' = {} /\ pc' = "judge"
    /\ UNCHANGED <<Unread, kept, next_read_buffer, calib_ev, in_waveforms>>

\* The samples by which the pulse of each ADC comes after the first.
Lag(ev) == [a \in ADCs |-> ev[a] - Min({ev[b] : b \in ADCs})]

\* Fault: pulses one sample too far apart.
GoodOffByOne(ev) == /\ \A a \in ADCs : ev[a] # Weak
                    /\ \A a \in ADCs : Lag(ev)[a] <= MaxApart + 1

\* A pulse in each ADC, none farther than 16 samples from another.
Good(ev) == /\ \A a \in ADCs : ev[a] # Weak
            /\ \A a \in ADCs : Lag(ev)[a] <= MaxApart

Reject ==
    /\ pc = "judge" /\ ~Good(calib_ev)
    /\ pc' = "loop"
    /\ UNCHANGED <<board, handle, call, history>>

\* Fault: without & 0xf.
DelayFieldWide(delay) == delay + 16

\* The four bits of the register field, and the bit that enables it.
DelayField(delay) == (delay % 16) + 16

\* A delay of 0 is not written.  A write that fails is skipped.
Programmed(b, ev) ==
    [b EXCEPT !.delays = [a \in ADCs |-> IF Lag(ev)[a] > 0 THEN DelayField(Lag(ev)[a])
                                         ELSE b.delays[a]]]
Accept ==
    /\ pc = "judge" /\ Good(calib_ev)
    /\ LET new == Programmed(board, calib_ev)
       IN  \/ board' = new /\ NoFault
           \/ /\ Fault
              /\ \E a \in ADCs : board' = [new EXCEPT !.delays[a] = board.delays[a]]
    /\ happy' = TRUE /\ misery' = 0
    /\ pc' = "restore"
    /\ UNCHANGED <<handle, type, mask, old_enables, old_buf_length, ret,
                   expected, start_delays, resets>>

\* buffer_length and beacon_calpulse(d, 0)
Restore ==
    /\ pc = "restore"
    /\ buffer_length' = old_buf_length
    /\ Using
    /\ Write([board EXCEPT !.calpulse = FALSE])
    /\ pc' = "reclear"
    /\ UNCHANGED <<enable_locking, kept, next_read_buffer, calib_ev, in_waveforms, queue,
                   call, expected, start_delays, resets>>

\* buf_clear[0xf], without buf_reset_buf
Reclear ==
    /\ pc = "reclear"
    /\ Write(Cleared(board, Buffers))
    /\ pc' = "unmask"
    /\ UNCHANGED Unwritten

\* beacon_set_trigger_enables(d, old_enables); without a calibration the call ends here.
Unmask ==
    /\ pc = "unmask" /\ Using
    /\ Write([board EXCEPT !.enables = old_enables])
    /\ IF happy THEN pc' = "count" /\ UNCHANGED ret ELSE Return(-1)
    /\ UNCHANGED <<handle, type, misery, happy, mask, old_enables, old_buf_length,
                   expected, start_delays, resets>>

\* buf_reset_counter; the counters themselves are not in this module.
ResetCounters ==
    /\ pc = "count"
    /\ \/ NoFault /\ Return(0)
       \/ Fault /\ Return(1)
    /\ UNCHANGED <<board, handle, type, misery, happy, mask, old_enables, old_buf_length,
                   expected, start_delays, resets>>

-----------------------------------------------------------------------------
Reset ==
    \/ GlobalReset \/ AlmostGlobalReset
    \/ ReadoutOff \/ ClearAll \/ ResetPointer \/ Abort
    \/ SaveSettings \/ MaskTriggers \/ PulseOn
    \/ Attempt \/ GiveUp \/ SwTrigger \/ Wait \/ WaitFails
    \/ Read \/ ReadFails \/ SyncIssue \/ Mark \/ Reject \/ Accept
    \/ Restore \/ Reclear \/ Unmask \/ ResetCounters

Next == (\E t \in Types : Call(t)) \/ Reset \/ Store \/ OtherTrigger

\* The thread goes on with a call it has begun, and the board with an event it has begun;
\* a trigger that does not reach the board begins none.
Fairness == WF_vars(Reset) /\ WF_vars(Store)

Spec == Init /\ [][Next]_vars /\ Fairness

-----------------------------------------------------------------------------
\* Properties.

Settled == pc = "idle" /\ ret # NoResult

\* beacondaq.h, beacon_reset: whatever happens to a reset, also when it gives up in the
\* middle, the handle has the buffer length of before; and if no transfer has failed, the
\* board has the trigger enables of before (the default ones after a global reset), the
\* calpulser is off after a calibration (on or off before) and as before a reset of the
\* counters, and after a success the phased trigger is disabled.
SettingsKept ==
    Settled =>
        /\ buffer_length = expected.length
        /\ ~faulty => /\ board.enables = expected.enables
                      /\ board.calpulse = expected.calpulse
                      /\ ret = 0 => ~board.readout

\* While the calibration loop runs, and no transfer has failed, the events are those of
\* the calpulser: the readout of phased triggers and beamforming are off, the pulse is on,
\* and the handle has the length that the wanted samples need.
Calibrating == {"loop", "trigger", "wait", "read", "mark", "judge"}
QuietCalibration ==
    pc \in Calibrating => /\ buffer_length = CalibLength
                          /\ ~faulty => /\ board.calpulse
                                        /\ ~board.readout /\ ~board.enables

\* The delays left by a calibration that succeeded, on its own pulses only, are those of
\* the clocks as the last reset of them has left them: no attempt that was rejected has
\* left a delay behind.  The ADC that comes first keeps the delay from before, and one
\* that lags by 16 samples gets the delay 0: neither is what the loop is there for.
DelaysMatch ==
    Settled /\ ret = 0 /\ Calibrates(type) /\ ~upset =>
        \A a \in ADCs :
            LET lag == Lag(board.phases)[a]
            IN  /\ lag <= MaxApart
                /\ board.delays[a] = CASE lag \in 1 .. 15 -> 16 + lag
                                       [] lag = 16 -> 16
                                       [] lag = 0 -> start_delays[a]

\* A reset that went through, or gave up on the calibration after all its attempts,
\* without anything else coming in between, leaves the buffers empty and the pointers of
\* handle and board in step, wherever the attempts have moved them.
InStep ==
    Settled /\ ret \in {0, -1} /\ ~upset =>
        board.full = {} /\ board.next = next_read_buffer

\* Every reset returns, also when no event ever comes and whatever fails, unless it waits
\* for the mutex that a failed read has left locked.  (Each single wait is taken to end,
\* in about a second; BeaconWait has its loop.)
ResetReturns == pc # "idle" ~> pc = "idle" \/ kept

TypeOK ==
    /\ board \in Board
    /\ enable_locking \in BOOLEAN /\ kept \in BOOLEAN
    /\ buffer_length \in Lengths \cup {CalibLength}
    /\ next_read_buffer \in Buffers /\ calib_ev \in Events
    /\ in_waveforms \in BOOLEAN /\ queue \in Commands
    /\ pc \in {"idle", "hard", "off", "clear", "pointer", "abort", "save", "mask", "pulse",
               "restore", "reclear", "unmask", "count"} \cup Calibrating
    /\ type \in Types /\ misery \in Nat /\ happy \in BOOLEAN /\ mask \subseteq Buffers
    /\ old_enables \in BOOLEAN /\ old_buf_length \in Lengths
    /\ ret \in {0, 1, -1, NoResult}
    /\ expected \in [length : Lengths, enables : BOOLEAN, calpulse : BOOLEAN]
    /\ start_delays \in [ADCs -> 0 .. 31]
    /\ faulty \in BOOLEAN /\ upset \in BOOLEAN
    /\ resets \in Nat /\ troubles \in Nat
    /\ pc \in {"read", "mark"} => mask # {}
=============================================================================
