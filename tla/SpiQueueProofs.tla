------------------------------ MODULE SpiQueueProofs ------------------------------
(* Theorems about SpiQueue, for any number of threads, channels, buffers, transfers in    *)
(* the queue, calls and faults: mutual exclusion with the types, the caches, what is      *)
(* received for calls that have returned, and what calls receive.                         *)
EXTENDS SpiQueue, SequenceTheorems, WellFoundedInduction, TLAPS

-----------------------------------------------------------------------------
\* What can be in the queue, and what a thread appends to it.

Ops   == {"mode", "buf", "rebuf", "chan", "reg", "addr", "clear", "rx"}
Modes == {"register", "waveforms"}
Args  == Modes \cup Buffers \cup Channels \cup {Metadata, Register}
Dst   == [thread : Threads \cup {Nobody}, call : Nat, slot : Slots]

Entry == {e \in [op : Ops, arg : Args, dst : Dst] :
             /\ e.op = "mode" => e.arg \in Modes
             /\ e.op \in {"buf", "rebuf"} => e.arg \in Buffers
             /\ e.op = "chan" => e.arg \in Channels
             /\ e.op = "reg" => e.arg \in {Metadata, Register}
             /\ e.op = "rx" => e.dst.thread \in Threads}

Own(t) == {e \in Entry :
              /\ e.op = "rx" => e.dst.thread = t /\ e.dst.call = calls[t]
              /\ e.op = "rebuf" => call[t].kind = "event" /\ e.arg = call[t].buf
              /\ e.op = "mode" /\ e.arg = "waveforms" => call[t].kind = "raw" \/ Checked(t)}

-----------------------------------------------------------------------------
\* The invariant.

HandleType ==
    /\ mut \in Threads \cup {Nobody}
    /\ queue \in Seq(Entry) /\ Len(queue) <= MaxXfers /\ sent \in 0 .. Len(queue)
    /\ current_mode \in {"none"} \cup Modes
    /\ current_buf \in Buffers \cup {-1}

BoardType == mode \in Modes /\ buf \in Buffers /\ chan \in Channels /\ out \in Output

CallType ==
    /\ pc \in [Threads -> {"idle", "lock", "append", "full", "send"}]
    /\ call \in [Threads -> Call] /\ section \in [Threads -> 0 .. NumChan + 3]
    /\ calls \in [Threads -> 0 .. MaxCalls]
    /\ \A t \in Threads : pc[t] # "idle" => section[t] < NumSections(call[t])

TodoType ==
    /\ todo \in [Threads -> Seq(Entry)]
    /\ \A t \in Threads : /\ todo[t] \in Seq(Own(t))
                          /\ pc[t] \in {"idle", "lock", "send"} => todo[t] = <<>>
                          /\ pc[t] = "full" => todo[t] # <<>>

FlagType == enable_locking \in BOOLEAN /\ ok \in [Threads -> BOOLEAN] /\ late \in BOOLEAN

DataType == data \in [Threads -> [Slots -> Output]] /\ faults \in 0 .. MaxFaults

Exclusion == enable_locking => \A t \in Threads : pc[t] \in {"append", "full", "send"} => mut = t

Types == HandleType /\ BoardType /\ CallType /\ TodoType /\ FlagType /\ DataType /\ Exclusion

-----------------------------------------------------------------------------
\* The calls and their entries.

LEMMA Basics ==
    /\ 0 \in Buffers /\ 1 \in Channels /\ 0 \in Slots /\ 1 \in Slots /\ NumChan + 1 \in Slots
    /\ \A c \in Channels : c \in Slots
    /\ Nobody \notin Threads /\ NumBuffer \in Nat /\ NumChan \in Nat /\ MaxXfers \in Nat \ {0}
    /\ MaxCalls \in Nat /\ MaxFaults \in Nat
BY ThreadsAssumption, SizesAssumption DEF Buffers, Channels, Slots

LEMMA CallFields == ASSUME NEW c \in Call PROVE c.kind \in AllKinds /\ c.buf \in Buffers
BY DEF Call

LEMMA Sections == ASSUME NEW c \in Call PROVE NumSections(c) \in 1 .. NumChan + 3
BY CallFields, Basics DEF NumSections, AllKinds

LEMMA CmdOwn ==
    ASSUME CallType, NEW t \in Threads, NEW op \in Ops \ {"rx"}, NEW arg \in Args,
           op = "mode" => arg \in Modes,
           op \in {"buf", "rebuf"} => arg \in Buffers,
           op = "chan" => arg \in Channels,
           op = "reg" => arg \in {Metadata, Register},
           op = "rebuf" => call[t].kind = "event" /\ arg = call[t].buf,
           op = "mode" /\ arg = "waveforms" => call[t].kind = "raw" \/ Checked(t)
    PROVE  Cmd(op, arg) \in Own(t)
<1>1. NoDst \in Dst
  BY Basics DEF NoDst, Dst
<1>2. Cmd(op, arg) \in [op : Ops, arg : Args, dst : Dst]
  BY <1>1 DEF Cmd
<1>3. Cmd(op, arg).op = op /\ Cmd(op, arg).arg = arg
  BY DEF Cmd
<1> QED
  BY <1>2, <1>3 DEF Own, Entry

LEMMA RxOwn ==
    ASSUME CallType, NEW t \in Threads, NEW slot \in Slots
    PROVE  Rx(t, slot) \in Own(t)
<1> DEFINE d == [thread |-> t, call |-> calls[t], slot |-> slot]
<1>1. d \in Dst /\ d.thread = t /\ d.call = calls[t]
  BY Basics DEF CallType, Dst
<1>2. Rx(t, slot) \in [op : Ops, arg : Args, dst : Dst]
  BY <1>1, Basics DEF Rx, Ops, Args
<1>3. Rx(t, slot).op = "rx" /\ Rx(t, slot).dst = d
  BY DEF Rx
<1> HIDE DEF d
<1> QED
  BY <1>1, <1>2, <1>3 DEF Own, Entry

LEMMA OneOf == ASSUME NEW S, NEW a \in S PROVE <<a>> \in Seq(S)
OBVIOUS

LEMMA TwoOf == ASSUME NEW S, NEW a \in S, NEW b \in S PROVE <<a, b>> \in Seq(S)
OBVIOUS

LEMMA Joined ==
    ASSUME NEW S, NEW r \in Seq(S), NEW s \in Seq(S) PROVE r \o s \in Seq(S)
OBVIOUS

LEMMA WhenIn ==
    ASSUME NEW S, NEW e, NEW cond \in BOOLEAN, cond => e \in S PROVE When(cond, e) \in Seq(S)
<1>1. CASE cond
  BY <1>1, OneOf DEF When
<1>2. CASE ~cond
  BY <1>2 DEF When
<1> QED
  BY <1>1, <1>2

LEMMA RegisterOwn ==
    ASSUME CallType, NEW t \in Threads, NEW reg \in {Metadata, Register}, NEW slot \in Slots
    PROVE  ReadRegister(t, reg, slot) \in Seq(Own(t))
<1>1. Cmd("reg", reg) \in Own(t)
  BY CmdOwn DEF Ops, Args
<1> QED
  BY <1>1, RxOwn, TwoOf DEF ReadRegister

LEMMA ChunksOwn ==
    ASSUME CallType, NEW t \in Threads, NEW slot \in Slots
    PROVE  LoopOverChunks(t, slot) \in Seq(Own(t))
<1>1. Cmd("addr", 0) \in Own(t)
  BY CmdOwn, Basics DEF Ops, Args
<1> QED
  BY <1>1, RxOwn, TwoOf DEF LoopOverChunks

LEMMA DoneOwn ==
    ASSUME CallType, NEW t \in Threads
    PROVE  MarkBuffersDone(t) \in Seq(Own(t))
<1>1. call[t].buf \in Buffers
  BY CallFields DEF CallType
<1>2. Cmd("clear", call[t].buf) \in Own(t)
  BY <1>1, CmdOwn DEF Ops, Args
<1>3. ReadRegister(t, Register, NumChan + 1) \in Seq(Own(t))
  BY RegisterOwn, Basics
<1> QED
  BY <1>2, <1>3, OneOf, Joined DEF MarkBuffersDone

LEMMA ChannelOwn ==
    ASSUME CallType, NEW t \in Threads, NEW c \in Channels,
           call[t].kind = "event", section[t] = c
    PROVE  ReadChannel(t, c) \in Seq(Own(t))
<1>1. call[t].buf \in Buffers
  BY CallFields DEF CallType
<1>2. Checked(t)
  BY Basics DEF Checked, Channels
<1>3. Cmd("mode", "waveforms") \in Own(t)
  BY <1>2, CmdOwn DEF Ops, Args, Modes
<1>4. Cmd("rebuf", call[t].buf) \in Own(t)
  BY <1>1, CmdOwn DEF Ops, Args
<1>5. Cmd("chan", c) \in Own(t)
  BY CmdOwn DEF Ops, Args
<1>6. LoopOverChunks(t, c) \in Seq(Own(t))
  BY ChunksOwn, Basics
<1> DEFINE m == When(current_mode # "waveforms", Cmd("mode", "waveforms"))
           b == When(current_buf # call[t].buf, Cmd("rebuf", call[t].buf))
<1>7. m \in Seq(Own(t)) /\ b \in Seq(Own(t)) /\ <<Cmd("chan", c)>> \in Seq(Own(t))
  BY <1>3, <1>4, <1>5, WhenIn, OneOf
<1>8. ReadChannel(t, c) = ((m \o b) \o <<Cmd("chan", c)>>) \o LoopOverChunks(t, c)
  BY DEF ReadChannel
<1> HIDE DEF m, b
<1> QED
  BY <1>6, <1>7, <1>8, Joined

LEMMA EntriesOwn ==
    ASSUME CallType, NEW t \in Threads, section[t] < NumSections(call[t])
    PROVE  Entries(t) \in Seq(Own(t))
<1>1. call[t] \in Call /\ section[t] \in 0 .. NumChan + 3 /\ call[t].kind \in AllKinds
         /\ call[t].buf \in Buffers
  BY CallFields DEF CallType
<1>2. <<>> \in Seq(Own(t))
  OBVIOUS
<1>3. Cmd("buf", call[t].buf) \in Own(t)
  BY <1>1, CmdOwn DEF Ops, Args
<1>4. CASE call[t].kind = "event"
  <2>1. section[t] \in 0 .. NumChan + 2
    BY <1>1, <1>4, Basics DEF NumSections
  <2>6. /\ NumChan + 1 \notin Channels /\ NumChan + 2 \notin Channels
        /\ NumChan + 1 # 0 /\ NumChan + 2 # 0 /\ NumChan + 1 # NumChan + 2 /\ 0 \notin Channels
    BY Basics DEF Channels
  <2>2. CASE section[t] = 0
    <3>1. Entries(t) = <<Cmd("buf", call[t].buf)>> \o ReadRegister(t, Metadata, 0)
      BY <1>4, <2>2, <2>6 DEF Entries
    <3> QED
      BY <3>1, <1>3, OneOf, RegisterOwn, Joined, Basics
  <2>3. CASE section[t] \in Channels
    <3>1. Entries(t) = ReadChannel(t, section[t])
      BY <1>4, <2>3, <2>6 DEF Entries
    <3> QED
      BY <1>4, <2>3, <3>1, ChannelOwn
  <2>4. CASE section[t] = NumChan + 1
    <3>1. Entries(t) = <<>>
      BY <1>4, <2>4, <2>6 DEF Entries
    <3> QED
      BY <3>1, <1>2
  <2>5. CASE section[t] = NumChan + 2
    <3>1. Entries(t) = MarkBuffersDone(t)
      BY <1>4, <2>5, <2>6 DEF Entries
    <3> QED
      BY <3>1, DoneOwn
  <2> QED
    BY <2>1, <2>2, <2>3, <2>4, <2>5, Basics DEF Channels
<1>5. CASE call[t].kind = "raw"
  <2>1. Entries(t) = <<Cmd("mode", "waveforms"), Cmd("buf", call[t].buf), Cmd("chan", 1)>>
                         \o LoopOverChunks(t, 1)
    BY <1>5 DEF Entries
  <2>2. Cmd("mode", "waveforms") \in Own(t) /\ Cmd("chan", 1) \in Own(t)
    BY <1>5, CmdOwn, Basics DEF Ops, Args, Modes
  <2>3. <<Cmd("mode", "waveforms"), Cmd("buf", call[t].buf), Cmd("chan", 1)>> \in Seq(Own(t))
    BY <1>3, <2>2
  <2> QED
    BY <2>1, <2>3, ChunksOwn, Joined, Basics
<1>6. CASE call[t].kind = "register"
  <2>1. Entries(t) = ReadRegister(t, Register, 0)
    BY <1>6 DEF Entries
  <2> QED
    BY <2>1, RegisterOwn, Basics
<1>7. CASE call[t].kind = "status"
  <2>1. section[t] \in {0, 1}
    BY <1>1, <1>7 DEF NumSections
  <2>2. Cmd("mode", "register") \in Own(t)
    BY CmdOwn DEF Ops, Args, Modes
  <2>3. CASE section[t] = 0
    <3>1. Entries(t) = <<Cmd("mode", "register")>> \o ReadRegister(t, Register, 0)
      BY <1>7, <2>3 DEF Entries
    <3> QED
      BY <3>1, <2>2, OneOf, RegisterOwn, Joined, Basics
  <2>4. CASE section[t] = 1
    <3>1. Entries(t) = ReadRegister(t, Register, 1)
      BY <1>7, <2>4 DEF Entries
    <3> QED
      BY <3>1, RegisterOwn, Basics
  <2> QED
    BY <2>1, <2>3, <2>4
<1>8. CASE call[t].kind = "clear_buffer"
  <2>1. section[t] \in {0, 1}
    BY <1>1, <1>8 DEF NumSections
  <2>2. CASE section[t] = 0
    <3>1. Entries(t) = <<>>
      BY <1>8, <2>2 DEF Entries
    <3> QED
      BY <3>1, <1>2
  <2>3. CASE section[t] = 1
    <3>1. Entries(t) = MarkBuffersDone(t)
      BY <1>8, <2>3 DEF Entries
    <3> QED
      BY <3>1, DoneOwn
  <2> QED
    BY <2>1, <2>2, <2>3
<1> QED
  BY <1>1, <1>4, <1>5, <1>6, <1>7, <1>8 DEF AllKinds

-----------------------------------------------------------------------------
\* What a step changes.  Every step but Begin leaves the calls as they are.

FaultStep(t) == CheckFails(t) \/ SendFails(t) \/ AppendFails(t) \/ RawFails(t)

LEMMA Steps ==
    ASSUME Next
    PROVE  \E t \in Threads :
               \/ \E c \in Call : Begin(t, c)
               \/ Lock(t) \/ Append1(t) \/ Full(t) \/ Send(t) \/ EndSection(t)
               \/ Transfer(t) \/ TransferDone(t)
               \/ CheckFails(t) \/ SendFails(t) \/ AppendFails(t) \/ RawFails(t)
BY DEF Next, Step

\* A thread leaves a section: for the next one, or for its caller.
LEMMA LeaveCall ==
    ASSUME CallType, NEW t \in Threads, NEW good, Leave(t, good), UNCHANGED <<call, calls>>,
           pc[t] # "idle"
    PROVE  /\ CallType'
           /\ pc'[t] \in {"lock", "idle"}
           /\ pc'[t] = "idle" <=> section[t] + 1 = NumSections(call[t])
           /\ \A u \in Threads \ {t} : pc'[u] = pc[u] /\ section'[u] = section[u]
           /\ section'[t] = section[t] + 1
<1> DEFINE n == NumSections(call[t])
<1>1. n \in 1 .. NumChan + 3 /\ section[t] \in 0 .. NumChan + 3 /\ section[t] < n /\ NumChan \in Nat
  BY Sections, Basics DEF CallType
<1>2. section' = [section EXCEPT ![t] = section[t] + 1]
  BY DEF Leave
<1>3. pc' = [pc EXCEPT ![t] = IF section[t] + 1 < n THEN "lock" ELSE "idle"]
  BY DEF Leave
<1> HIDE DEF n
<1>4. section'[t] = section[t] + 1 /\ section' \in [Threads -> 0 .. NumChan + 3]
  BY <1>1, <1>2 DEF CallType
<1>5. /\ pc' \in [Threads -> {"idle", "lock", "append", "full", "send"}]
      /\ pc'[t] = IF section[t] + 1 < n THEN "lock" ELSE "idle"
  BY <1>3 DEF CallType
<1>6. \A u \in Threads \ {t} : pc'[u] = pc[u] /\ section'[u] = section[u]
  BY <1>2, <1>3 DEF CallType
<1>7. pc'[t] = "idle" <=> section[t] + 1 = n
  BY <1>1, <1>5
<1>8. pc'[t] # "idle" => section'[t] < n
  BY <1>1, <1>4, <1>5
<1>9. \A u \in Threads : pc'[u] # "idle" => section'[u] < NumSections(call'[u])
  BY <1>6, <1>8 DEF CallType, n
<1>10. CallType'
  BY <1>4, <1>5, <1>9 DEF CallType
<1> QED
  BY <1>4, <1>5, <1>6, <1>7, <1>10 DEF n

\* A thread goes on within its section, or gives its call up.
LEMMA StayCall ==
    ASSUME CallType, NEW t \in Threads, UNCHANGED <<call, calls, section>>, pc[t] # "idle",
           NEW p \in {"idle", "lock", "append", "full", "send"}, pc' = [pc EXCEPT ![t] = p]
    PROVE  CallType' /\ pc'[t] = p /\ \A u \in Threads \ {t} : pc'[u] = pc[u]
BY DEF CallType

LEMMA BeginCall ==
    ASSUME CallType, NEW t \in Threads, NEW c \in Call, Begin(t, c)
    PROVE  /\ CallType' /\ pc'[t] = "lock" /\ call'[t] = c /\ section'[t] = 0
           /\ calls'[t] = calls[t] + 1
           /\ \A u \in Threads \ {t} : /\ pc'[u] = pc[u] /\ section'[u] = section[u]
                                       /\ call'[u] = call[u] /\ calls'[u] = calls[u]
<1>1. /\ pc' = [pc EXCEPT ![t] = "lock"] /\ call' = [call EXCEPT ![t] = c]
      /\ section' = [section EXCEPT ![t] = 0] /\ calls' = [calls EXCEPT ![t] = calls[t] + 1]
      /\ calls[t] < MaxCalls
  BY DEF Begin
<1>2. NumSections(c) \in 1 .. NumChan + 3
  BY Sections
<1>3. /\ pc'[t] = "lock" /\ call'[t] = c /\ section'[t] = 0 /\ calls'[t] = calls[t] + 1
      /\ \A u \in Threads \ {t} : /\ pc'[u] = pc[u] /\ section'[u] = section[u]
                                  /\ call'[u] = call[u] /\ calls'[u] = calls[u]
  BY <1>1 DEF CallType
<1>4. \A u \in Threads : pc'[u] # "idle" => section'[u] < NumSections(call'[u])
  BY <1>2, <1>3, Basics DEF CallType
<1>5. calls' \in [Threads -> 0 .. MaxCalls] /\ section' \in [Threads -> 0 .. NumChan + 3]
  BY <1>1, Basics DEF CallType
<1>6. call' \in [Threads -> Call] /\ pc' \in [Threads -> {"idle", "lock", "append", "full", "send"}]
  BY <1>1 DEF CallType
<1> QED
  BY <1>3, <1>4, <1>5, <1>6 DEF CallType

\* The calls stay well typed, and what a thread may append is another set only when it
\* begins a call or leaves a section.
LEMMA CallKeeps == ASSUME Types, Next PROVE CallType'
<1>1. CallType
  BY DEF Types
<1>2. PICK t \in Threads :
          \/ \E c \in Call : Begin(t, c)
          \/ Lock(t) \/ Append1(t) \/ Full(t) \/ Send(t) \/ EndSection(t)
          \/ Transfer(t) \/ TransferDone(t)
          \/ CheckFails(t) \/ SendFails(t) \/ AppendFails(t) \/ RawFails(t)
  BY Steps
<1>3. CASE \E c \in Call : Begin(t, c)
  BY <1>1, <1>3, BeginCall
<1>4. CASE Lock(t) \/ Full(t) \/ Send(t)
  BY <1>1, <1>4, StayCall DEF Lock, Full, Send
<1>5. CASE Append1(t) \/ Transfer(t)
  BY <1>1, <1>5 DEF Append1, Transfer, CallType
<1>6. CASE EndSection(t)
  BY <1>1, <1>6, LeaveCall DEF EndSection
<1>7. CASE TransferDone(t)
  <2>1. CASE pc[t] = "full"
    BY <1>1, <1>7, <2>1, StayCall DEF TransferDone
  <2>2. CASE pc[t] = "send"
    BY <1>1, <1>7, <2>2, LeaveCall DEF TransferDone
  <2> QED
    BY <1>7, <2>1, <2>2 DEF TransferDone
<1>8. CASE CheckFails(t) \/ AppendFails(t)
  BY <1>1, <1>8, StayCall DEF CheckFails, AppendFails, Fault
<1>9. CASE SendFails(t)
  BY <1>1, <1>9, LeaveCall DEF SendFails, Fault
<1>10. CASE RawFails(t)
  <2>1. CASE Head(todo[t]).op \in {"mode", "buf", "chan"}
    BY <1>1, <1>10, <2>1, StayCall DEF RawFails, Fault
  <2>2. CASE Head(todo[t]).op \notin {"mode", "buf", "chan"}
    BY <1>1, <1>10, <2>2, StayCall DEF RawFails, Fault
  <2> QED
    BY <2>1, <2>2
<1> QED
  BY <1>2, <1>3, <1>4, <1>5, <1>6, <1>7, <1>8, <1>9, <1>10

\* The mutex: who is in a section has it.
LEMMA ExclusionKeeps == ASSUME Types, Next PROVE Exclusion' /\ mut' \in Threads \cup {Nobody}
<1>1. CallType /\ Exclusion /\ mut \in Threads \cup {Nobody} /\ enable_locking \in BOOLEAN
  BY DEF Types, HandleType, FlagType
<1>2. PICK t \in Threads :
          \/ \E c \in Call : Begin(t, c)
          \/ Lock(t) \/ Append1(t) \/ Full(t) \/ Send(t) \/ EndSection(t)
          \/ Transfer(t) \/ TransferDone(t)
          \/ CheckFails(t) \/ SendFails(t) \/ AppendFails(t) \/ RawFails(t)
  BY Steps
<1> DEFINE In(p) == p \in {"append", "full", "send"}
<1>3. ASSUME enable_locking' = enable_locking, mut' = mut,
             \A u \in Threads \ {t} : pc'[u] = pc[u], In(pc'[t]) => In(pc[t])
      PROVE  Exclusion' /\ mut' \in Threads \cup {Nobody}
  BY <1>1, <1>3 DEF Exclusion
<1>4. ASSUME enable_locking' = enable_locking, NEW good, In(pc[t]), Leave(t, good),
             UNCHANGED <<call, calls>>
      PROVE  Exclusion' /\ mut' \in Threads \cup {Nobody}
  <2>1. pc'[t] \in {"lock", "idle"} /\ \A u \in Threads \ {t} : pc'[u] = pc[u]
    BY <1>1, <1>4, LeaveCall
  <2>2. mut' \in {mut, Nobody}
    BY <1>4 DEF Leave
  <2>3. ASSUME enable_locking', NEW u \in Threads, In(pc'[u]) PROVE FALSE
    <3>1. u # t /\ In(pc[u])
      BY <2>1, <2>3
    <3>2. mut = t /\ mut = u
      BY <1>1, <1>4, <2>3, <3>1 DEF Exclusion
    <3> QED
      BY <3>1, <3>2
  <2> QED
    BY <1>1, <2>2, <2>3 DEF Exclusion
<1>5. CASE \E c \in Call : Begin(t, c)
  BY <1>1, <1>3, <1>5, BeginCall DEF Begin, handle
<1>6. CASE Lock(t)
  <2>1. mut = Nobody /\ enable_locking' = enable_locking
        /\ mut' = (IF enable_locking THEN t ELSE Nobody) /\ pc' = [pc EXCEPT ![t] = "append"]
    BY <1>6 DEF Lock
  <2>2. ASSUME enable_locking, NEW u \in Threads, In(pc'[u]) PROVE mut' = u
    <3>1. CASE u = t
      BY <2>1, <2>2, <3>1
    <3>2. CASE u # t
      <4>1. In(pc[u])
        BY <1>1, <2>1, <2>2, <3>2 DEF CallType
      <4> QED
        BY <1>1, <2>1, <2>2, <4>1, Basics DEF Exclusion
    <3> QED
      BY <3>1, <3>2
  <2> QED
    BY <2>1, <2>2 DEF Exclusion
<1>7. CASE Append1(t) \/ Transfer(t)
  BY <1>3, <1>7 DEF Append1, Transfer, handle
<1>8. CASE Full(t) \/ Send(t)
  <2>1. pc[t] = "append" /\ UNCHANGED handle
    BY <1>8 DEF Full, Send
  <2>2. \A u \in Threads \ {t} : pc'[u] = pc[u]
    BY <1>1, <1>8 DEF Full, Send, CallType
  <2> QED
    BY <1>3, <2>1, <2>2 DEF handle
<1>9. CASE EndSection(t)
  BY <1>4, <1>9 DEF EndSection
<1>10. CASE TransferDone(t)
  <2>1. CASE pc[t] = "full"
    <3>1. mut' = mut /\ pc' = [pc EXCEPT ![t] = "append"] /\ enable_locking' = enable_locking
      BY <1>10, <2>1 DEF TransferDone
    <3> QED
      BY <1>1, <1>3, <2>1, <3>1 DEF CallType
  <2>2. CASE pc[t] = "send"
    <3>1. Leave(t, ok[t]) /\ UNCHANGED <<enable_locking, call, calls>>
      BY <1>10, <2>2 DEF TransferDone
    <3> QED
      BY <1>4, <2>2, <3>1
  <2> QED
    BY <1>10, <2>1, <2>2 DEF TransferDone
<1>11. CASE CheckFails(t) \/ AppendFails(t)
  <2>1. mut' = mut /\ enable_locking' = enable_locking /\ In(pc[t])
    BY <1>11 DEF CheckFails, AppendFails, Fault
  <2>2. \A u \in Threads \ {t} : pc'[u] = pc[u]
    BY <1>1, <1>11 DEF CheckFails, AppendFails, CallType
  <2> QED
    BY <1>3, <2>1, <2>2
<1>12. CASE SendFails(t)
  <2>1. /\ Leave(t, call[t].kind = "event") /\ pc[t] = "send"
        /\ UNCHANGED <<enable_locking, call, calls>>
    BY <1>12 DEF SendFails, Fault
  <2> QED
    BY <1>4, <2>1
<1>13. CASE RawFails(t)
  <2>1. mut' = mut /\ enable_locking' = enable_locking /\ In(pc[t])
    BY <1>13 DEF RawFails, Fault
  <2>2. \A u \in Threads \ {t} : pc'[u] = pc[u]
    BY <1>1, <1>13 DEF RawFails, CallType
  <2> QED
    BY <1>3, <2>1, <2>2
<1> QED
  BY <1>2, <1>5, <1>6, <1>7, <1>8, <1>9, <1>10, <1>11, <1>12, <1>13

\* The queue and the caches.
LEMMA HeadEntry ==
    ASSUME TodoType, NEW t \in Threads, todo[t] # <<>>
    PROVE  Head(todo[t]) \in Own(t) /\ Head(todo[t]) \in Entry
<1>1. todo[t] \in Seq(Own(t))
  BY DEF TodoType
<1>2. Head(todo[t]) \in Own(t)
  BY <1>1
<1> QED
  BY <1>2 DEF Own

LEMMA Noted ==
    ASSUME HandleType, NEW e \in Entry, NEW t \in Threads
    PROVE  NotedMode(e) \in {"none"} \cup Modes /\ NotedBuf(t, e) \in Buffers \cup {-1}
BY DEF HandleType, NotedMode, NotedBuf, Entry

LEMMA HandleKeeps == ASSUME Types, Next PROVE HandleType'
<1>1. HandleType /\ TodoType
  BY DEF Types
<1>2. PICK t \in Threads :
          \/ \E c \in Call : Begin(t, c)
          \/ Lock(t) \/ Append1(t) \/ Full(t) \/ Send(t) \/ EndSection(t)
          \/ Transfer(t) \/ TransferDone(t)
          \/ CheckFails(t) \/ SendFails(t) \/ AppendFails(t) \/ RawFails(t)
  BY Steps
<1>3. mut' \in Threads \cup {Nobody}
  BY ExclusionKeeps
<1>4. ASSUME UNCHANGED <<queue, sent, current_mode, current_buf>> PROVE HandleType'
  BY <1>1, <1>3, <1>4 DEF HandleType
<1>5. CASE Append1(t)
  <2>1. /\ queue' = Append(queue, Head(todo[t])) /\ sent' = sent
        /\ current_mode' = NotedMode(Head(todo[t])) /\ current_buf' = NotedBuf(t, Head(todo[t]))
        /\ todo[t] # <<>> /\ Len(queue) < MaxXfers
    BY <1>5 DEF Append1, board, Room
  <2>2. Head(todo[t]) \in Entry
    BY <1>1, <2>1, HeadEntry
  <2>3. queue' \in Seq(Entry) /\ Len(queue') = Len(queue) + 1
    BY <1>1, <2>1, <2>2 DEF HandleType
  <2>4. Len(queue') <= MaxXfers /\ sent' \in 0 .. Len(queue')
    BY <1>1, <2>1, <2>3, Basics DEF HandleType
  <2>5. current_mode' \in {"none"} \cup Modes /\ current_buf' \in Buffers \cup {-1}
    BY <1>1, <2>1, <2>2, Noted
  <2> QED
    BY <1>3, <2>3, <2>4, <2>5 DEF HandleType
<1>6. CASE Transfer(t)
  <2>1. sent' = sent + 1 /\ sent < Len(queue) /\ UNCHANGED <<queue, current_mode, current_buf>>
    BY <1>6 DEF Transfer, handle
  <2> QED
    BY <1>1, <1>3, <2>1 DEF HandleType
<1>7. CASE TransferDone(t)
  <2>1. sent' = 0 /\ queue' = <<>> /\ UNCHANGED <<current_mode, current_buf>>
    BY <1>7 DEF TransferDone
  <2> QED
    BY <1>1, <1>3, <2>1, Basics DEF HandleType
<1>8. CASE CheckFails(t) \/ SendFails(t) \/ RawFails(t)
  <2>1. sent' = 0 /\ UNCHANGED <<queue, current_mode, current_buf>>
    BY <1>8 DEF CheckFails, SendFails, RawFails, Fault
  <2> QED
    BY <1>1, <1>3, <2>1 DEF HandleType
<1>9. CASE AppendFails(t)
  <2>1. /\ sent' = 0 /\ UNCHANGED <<queue, current_buf>>
        /\ current_mode' = NotedMode(Head(todo[t])) /\ todo[t] # <<>>
    BY <1>1, <1>9 DEF AppendFails, Fault, TodoType
  <2>2. current_mode' \in {"none"} \cup Modes
    BY <1>1, <2>1, HeadEntry, Noted
  <2> QED
    BY <1>1, <1>3, <2>1, <2>2 DEF HandleType
<1>10. CASE \E c \in Call : Begin(t, c)
  BY <1>4, <1>10 DEF Begin, handle, board
<1>11. CASE Lock(t) \/ Full(t) \/ Send(t) \/ EndSection(t)
  BY <1>4, <1>11 DEF Lock, Full, Send, EndSection, handle, board
<1> QED
  BY <1>2, <1>5, <1>6, <1>7, <1>8, <1>9, <1>10, <1>11

\* What is still to be appended.
LEMMA TodoKeeps == ASSUME Types, Next PROVE TodoType'
<1>1. CallType /\ TodoType
  BY DEF Types
<1>2. PICK t \in Threads :
          \/ \E c \in Call : Begin(t, c)
          \/ Lock(t) \/ Append1(t) \/ Full(t) \/ Send(t) \/ EndSection(t)
          \/ Transfer(t) \/ TransferDone(t)
          \/ CheckFails(t) \/ SendFails(t) \/ AppendFails(t) \/ RawFails(t)
  BY Steps
<1>3. ASSUME UNCHANGED <<call, calls, section>>, NEW q \in Seq(Own(t)),
             todo' = [todo EXCEPT ![t] = q], \A u \in Threads \ {t} : pc'[u] = pc[u],
             pc'[t] \in {"idle", "lock", "send"} => q = <<>>,
             pc'[t] = "full" => q # <<>>
      PROVE  TodoType'
  <2>1. q \in Seq(Entry)
    <3>1. Own(t) \subseteq Entry
      BY DEF Own
    <3> QED
      BY <1>3, <3>1
  <2>2. todo' \in [Threads -> Seq(Entry)]
    BY <1>1, <1>3, <2>1 DEF TodoType
  <2>3. ASSUME NEW u \in Threads PROVE Own(u)' = Own(u)
    BY <1>3 DEF Own, Checked
  <2>4. todo'[t] = q /\ \A u \in Threads \ {t} : todo'[u] = todo[u]
    BY <1>1, <1>3 DEF TodoType
  <2>5. ASSUME NEW u \in Threads
        PROVE  /\ todo'[u] \in Seq(Own(u)')
               /\ pc'[u] \in {"idle", "lock", "send"} => todo'[u] = <<>>
               /\ pc'[u] = "full" => todo'[u] # <<>>
    BY <1>1, <1>3, <2>3, <2>4 DEF TodoType
  <2> QED
    BY <2>2, <2>5 DEF TodoType
<1>4. ASSUME UNCHANGED todo, todo[t] = <<>>, pc'[t] # "full",
             \A u \in Threads \ {t} : /\ pc'[u] = pc[u] /\ section'[u] = section[u]
                                      /\ call'[u] = call[u] /\ calls'[u] = calls[u]
      PROVE  TodoType'
  <2>1. ASSUME NEW u \in Threads \ {t} PROVE Own(u)' = Own(u)
    BY <1>4 DEF Own, Checked
  <2>2. <<>> \in Seq(Own(t)')
    OBVIOUS
  <2>3. ASSUME NEW u \in Threads
        PROVE  /\ todo'[u] \in Seq(Own(u)')
               /\ pc'[u] \in {"idle", "lock", "send"} => todo'[u] = <<>>
               /\ pc'[u] = "full" => todo'[u] # <<>>
    BY <1>1, <1>4, <2>1, <2>2 DEF TodoType
  <2> QED
    BY <1>1, <1>4, <2>3 DEF TodoType
<1>5. CASE \E c \in Call : Begin(t, c)
  <2>1. PICK c \in Call : Begin(t, c)
    BY <1>5
  <2>2. pc[t] = "idle" /\ UNCHANGED todo /\ todo[t] = <<>>
    BY <1>1, <2>1 DEF Begin, TodoType
  <2> QED
    BY <1>1, <1>4, <2>1, <2>2, BeginCall
<1>6. CASE Lock(t)
  <2>1. /\ pc[t] = "lock" /\ todo' = [todo EXCEPT ![t] = Entries(t)]
        /\ pc' = [pc EXCEPT ![t] = "append"] /\ UNCHANGED <<call, calls, section>>
    BY <1>6 DEF Lock
  <2>2. Entries(t) \in Seq(Own(t))
    BY <1>1, <2>1, EntriesOwn DEF CallType
  <2>3. pc'[t] = "append" /\ \A u \in Threads \ {t} : pc'[u] = pc[u]
    BY <1>1, <2>1 DEF CallType
  <2> QED
    BY <1>3, <2>1, <2>2, <2>3
<1>7. ASSUME todo[t] # <<>>, todo' = [todo EXCEPT ![t] = Tail(todo[t])],
             UNCHANGED <<call, calls, section>>, pc'[t] = "append",
             \A u \in Threads \ {t} : pc'[u] = pc[u]
      PROVE  TodoType'
  <2>1. Tail(todo[t]) \in Seq(Own(t))
    BY <1>1, <1>7 DEF TodoType
  <2> QED
    BY <1>3, <1>7, <2>1
<1>8. CASE Append1(t)
  BY <1>7, <1>8 DEF Append1
<1>9. CASE AppendFails(t)
  <2>1. /\ todo' = [todo EXCEPT ![t] = Tail(todo[t])] /\ UNCHANGED <<call, calls, section>>
        /\ pc' = [pc EXCEPT ![t] = "append"] /\ pc[t] = "full"
    BY <1>9 DEF AppendFails, Fault
  <2>2. todo[t] # <<>> /\ pc'[t] = "append" /\ \A u \in Threads \ {t} : pc'[u] = pc[u]
    BY <1>1, <2>1 DEF TodoType, CallType
  <2> QED
    BY <1>7, <2>1, <2>2
<1>10. CASE Full(t)
  <2>1. /\ todo[t] # <<>> /\ UNCHANGED <<call, calls, section, todo>>
        /\ pc'[t] = "full" /\ \A u \in Threads \ {t} : pc'[u] = pc[u]
    BY <1>1, <1>10 DEF Full, CallType
  <2>2. todo' = [todo EXCEPT ![t] = todo[t]] /\ todo[t] \in Seq(Own(t))
    BY <1>1, <2>1 DEF TodoType
  <2> QED
    BY <1>3, <2>1, <2>2
<1>11. CASE Send(t)
  BY <1>1, <1>4, <1>11 DEF Send, CallType
<1>12. CASE EndSection(t)
  <2>1. /\ todo[t] = <<>> /\ UNCHANGED <<call, calls, todo>> /\ Leave(t, ok[t])
        /\ pc[t] = "append"
    BY <1>12 DEF EndSection
  <2> QED
    BY <1>1, <1>4, <2>1, LeaveCall
<1>13. CASE Transfer(t)
  <2>1. UNCHANGED <<pc, call, calls, section, todo>>
    BY <1>13 DEF Transfer
  <2>2. todo' = [todo EXCEPT ![t] = todo[t]] /\ todo[t] \in Seq(Own(t))
    BY <1>1, <2>1 DEF TodoType
  <2> QED
    BY <1>1, <1>3, <2>1, <2>2 DEF TodoType
<1>14. CASE TransferDone(t)
  <2>1. CASE pc[t] = "full"
    <3>1. /\ UNCHANGED <<call, calls, section, todo>> /\ pc' = [pc EXCEPT ![t] = "append"]
      BY <1>14, <2>1 DEF TransferDone
    <3>2. pc'[t] = "append" /\ \A u \in Threads \ {t} : pc'[u] = pc[u]
      BY <1>1, <3>1 DEF CallType
    <3>3. todo' = [todo EXCEPT ![t] = todo[t]] /\ todo[t] \in Seq(Own(t))
      BY <1>1, <3>1 DEF TodoType
    <3> QED
      BY <1>3, <3>1, <3>2, <3>3
  <2>2. CASE pc[t] = "send"
    <3>1. Leave(t, ok[t]) /\ UNCHANGED <<call, calls, todo>> /\ todo[t] = <<>>
      BY <1>1, <1>14, <2>2 DEF TransferDone, TodoType
    <3> QED
      BY <1>1, <1>4, <2>2, <3>1, LeaveCall
  <2> QED
    BY <1>14, <2>1, <2>2 DEF TransferDone
<1>15. ASSUME todo' = [todo EXCEPT ![t] = <<>>], UNCHANGED <<call, calls, section>>,
              pc'[t] # "full", \A u \in Threads \ {t} : pc'[u] = pc[u]
       PROVE  TodoType'
  <2>1. <<>> \in Seq(Own(t))
    OBVIOUS
  <2> QED
    BY <1>3, <1>15, <2>1
<1>16. CASE CheckFails(t)
  <2>1. /\ todo' = [todo EXCEPT ![t] = <<>>] /\ UNCHANGED <<call, calls, section>>
        /\ pc' = [pc EXCEPT ![t] = "idle"]
    BY <1>16 DEF CheckFails, Fault
  <2> QED
    BY <1>1, <1>15, <2>1 DEF CallType
<1>17. CASE SendFails(t)
  <2>1. /\ Leave(t, call[t].kind = "event") /\ UNCHANGED <<call, calls, todo>>
        /\ todo[t] = <<>> /\ pc[t] = "send"
    BY <1>1, <1>17 DEF SendFails, Fault, TodoType
  <2> QED
    BY <1>1, <1>4, <2>1, LeaveCall
<1>18. CASE RawFails(t)
  <2>1. /\ todo' = [todo EXCEPT ![t] = <<>>] /\ UNCHANGED <<call, calls, section>>
    BY <1>18 DEF RawFails, Fault
  <2>2. pc'[t] # "full" /\ \A u \in Threads \ {t} : pc'[u] = pc[u]
    BY <1>1, <1>18 DEF RawFails, CallType
  <2> QED
    BY <1>15, <2>1, <2>2
<1> QED
  BY <1>2, <1>5, <1>6, <1>8, <1>9, <1>10, <1>11, <1>12, <1>13, <1>14, <1>16, <1>17, <1>18

\* The board, what was received and the flags.
LEMMA NextEntry ==
    ASSUME HandleType, sent < Len(queue)
    PROVE  queue[sent + 1] \in Entry
BY DEF HandleType

LEMMA AnswerType == ASSUME BoardType, NEW e \in Entry PROVE Answer(e) \in Output
<1>1. CASE e.op = "reg"
  <2>1. Answer(e) = <<e.arg, IF e.arg = Metadata THEN buf ELSE 0>> /\ e.arg \in {Metadata, Register}
    BY <1>1 DEF Answer, Entry
  <2> QED
    BY <2>1, Basics DEF BoardType, Output
<1>2. CASE e.op = "addr"
  <2>1. Answer(e) = <<IF mode = "waveforms" THEN chan ELSE Nothing, buf>>
    BY <1>2 DEF Answer
  <2> QED
    BY <2>1 DEF BoardType, Output
<1>3. CASE e.op \notin {"reg", "addr"}
  BY <1>3 DEF BoardType, Answer
<1> QED
  BY <1>1, <1>2, <1>3

LEMMA BoardKeeps == ASSUME Types, Next PROVE BoardType'
<1>1. BoardType /\ HandleType
  BY DEF Types
<1>2. PICK t \in Threads :
          \/ \E c \in Call : Begin(t, c)
          \/ Lock(t) \/ Append1(t) \/ Full(t) \/ Send(t) \/ EndSection(t)
          \/ Transfer(t) \/ TransferDone(t)
          \/ CheckFails(t) \/ SendFails(t) \/ AppendFails(t) \/ RawFails(t)
  BY Steps
<1>3. ASSUME UNCHANGED <<mode, buf, chan, out>> PROVE BoardType'
  BY <1>1, <1>3 DEF BoardType
<1>4. CASE Transfer(t)
  <2> DEFINE e == queue[sent + 1]
  <2>1. /\ sent < Len(queue)
        /\ mode' = IF e.op = "mode" THEN e.arg ELSE mode
        /\ buf' = IF e.op \in {"buf", "rebuf"} THEN e.arg ELSE buf
        /\ chan' = IF e.op = "chan" THEN e.arg ELSE chan
        /\ out' = Answer(e)
    BY <1>4 DEF Transfer
  <2>2. e \in Entry
    BY <1>1, <2>1, NextEntry
  <2> HIDE DEF e
  <2>3. out' \in Output
    BY <1>1, <2>1, <2>2, AnswerType
  <2>4. mode' \in Modes /\ buf' \in Buffers /\ chan' \in Channels
    BY <1>1, <2>1, <2>2 DEF BoardType, Entry
  <2> QED
    BY <2>3, <2>4 DEF BoardType
<1>5. CASE \E c \in Call : Begin(t, c)
  BY <1>3, <1>5 DEF Begin, board
<1>6. CASE Lock(t) \/ Append1(t) \/ Full(t) \/ Send(t) \/ EndSection(t) \/ TransferDone(t)
  BY <1>3, <1>6 DEF Lock, Append1, Full, Send, EndSection, TransferDone, board
<1>7. CASE CheckFails(t) \/ SendFails(t) \/ AppendFails(t) \/ RawFails(t)
  BY <1>3, <1>7 DEF CheckFails, SendFails, AppendFails, RawFails, Fault
<1> QED
  BY <1>2, <1>4, <1>5, <1>6, <1>7

LEMMA DataKeeps == ASSUME Types, Next PROVE DataType'
<1>1. BoardType /\ HandleType /\ DataType
  BY DEF Types
<1>2. PICK t \in Threads :
          \/ \E c \in Call : Begin(t, c)
          \/ Lock(t) \/ Append1(t) \/ Full(t) \/ Send(t) \/ EndSection(t)
          \/ Transfer(t) \/ TransferDone(t)
          \/ CheckFails(t) \/ SendFails(t) \/ AppendFails(t) \/ RawFails(t)
  BY Steps
<1>3. ASSUME UNCHANGED <<data, faults>> PROVE DataType'
  BY <1>1, <1>3 DEF DataType
<1>4. CASE Transfer(t)
  <2> DEFINE e == queue[sent + 1]
  <2>1. /\ sent < Len(queue) /\ faults' = faults
        /\ data' = data \/ (e.op = "rx" /\ data' = [data EXCEPT ![e.dst.thread][e.dst.slot] = out])
    BY <1>4 DEF Transfer
  <2>2. e \in Entry
    BY <1>1, <2>1, NextEntry
  <2> HIDE DEF e
  <2>3. CASE data' = data
    BY <1>3, <2>1, <2>3
  <2>4. CASE e.op = "rx" /\ data' = [data EXCEPT ![e.dst.thread][e.dst.slot] = out]
    <3>1. e.dst.thread \in Threads /\ e.dst.slot \in Slots
      BY <2>2, <2>4 DEF Entry, Dst
    <3>2. out \in Output
      BY <1>1 DEF BoardType
    <3> QED
      BY <1>1, <2>1, <2>4, <3>1, <3>2 DEF DataType
  <2> QED
    BY <2>1, <2>3, <2>4
<1>5. CASE \E c \in Call : Begin(t, c)
  <2>1. <<Nothing, 0>> \in Output
    BY Basics DEF Output
  <2>2. data' = [data EXCEPT ![t] = [s \in Slots |-> <<Nothing, 0>>]] /\ faults' = faults
    BY <1>5 DEF Begin, history
  <2> QED
    BY <1>1, <2>1, <2>2 DEF DataType
<1>6. CASE Lock(t) \/ Append1(t) \/ Full(t) \/ Send(t) \/ EndSection(t) \/ TransferDone(t)
  BY <1>3, <1>6 DEF Lock, Append1, Full, Send, EndSection, TransferDone, history
<1>7. CASE CheckFails(t) \/ SendFails(t) \/ AppendFails(t) \/ RawFails(t)
  <2>1. data' = data /\ faults < MaxFaults /\ faults' = faults + 1
    BY <1>7 DEF CheckFails, SendFails, AppendFails, RawFails, Fault
  <2> QED
    BY <1>1, <2>1, Basics DEF DataType
<1> QED
  BY <1>2, <1>4, <1>5, <1>6, <1>7

LEMMA FlagsKeep == ASSUME Types, Next PROVE FlagType'
<1>1. FlagType
  BY DEF Types
<1>2. PICK t \in Threads :
          \/ \E c \in Call : Begin(t, c)
          \/ Lock(t) \/ Append1(t) \/ Full(t) \/ Send(t) \/ EndSection(t)
          \/ Transfer(t) \/ TransferDone(t)
          \/ CheckFails(t) \/ SendFails(t) \/ AppendFails(t) \/ RawFails(t)
  BY Steps
<1>3. enable_locking' \in BOOLEAN
  <2>1. enable_locking' = enable_locking
    BY <1>2 DEF Begin, Lock, Append1, Full, Send, EndSection, Transfer, TransferDone,
                CheckFails, SendFails, AppendFails, RawFails, Fault, handle
  <2> QED
    BY <1>1, <2>1 DEF FlagType
<1>4. late' \in BOOLEAN
  <2>1. CASE Transfer(t)
    <3>1. \E l \in BOOLEAN : late' = (late \/ l)
      BY <2>1 DEF Transfer
    <3> QED
      BY <1>1, <3>1 DEF FlagType
  <2>2. CASE ~Transfer(t)
    <3>1. late' = late
      BY <1>2, <2>2 DEF Begin, Lock, Append1, Full, Send, EndSection, TransferDone,
                        CheckFails, SendFails, AppendFails, RawFails, Fault, history
    <3> QED
      BY <1>1, <3>1 DEF FlagType
  <2> QED
    BY <2>1, <2>2
<1>5. ok' \in [Threads -> BOOLEAN]
  <2>1. ok' = ok \/ \E l \in BOOLEAN : ok' = [ok EXCEPT ![t] = l]
    <3>1. ASSUME NEW good \in BOOLEAN, Leave(t, good)
          PROVE  \E l \in BOOLEAN : ok' = [ok EXCEPT ![t] = l]
      BY <3>1 DEF Leave, Answered
    <3>2. ok[t] \in BOOLEAN
      BY <1>1 DEF FlagType
    <3>3. CASE EndSection(t)
      BY <3>1, <3>2, <3>3 DEF EndSection
    <3>4. CASE TransferDone(t)
      BY <3>1, <3>2, <3>4 DEF TransferDone
    <3>5. CASE SendFails(t)
      BY <3>1, <3>5 DEF SendFails
    <3>6. CASE \E c \in Call : Begin(t, c)
      BY <3>6 DEF Begin
    <3>7. CASE Lock(t) \/ Append1(t) \/ Full(t) \/ Send(t) \/ Transfer(t)
      BY <3>7 DEF Lock, Append1, Full, Send, Transfer
    <3>8. CASE CheckFails(t) \/ AppendFails(t)
      BY <3>8 DEF CheckFails, AppendFails
    <3>9. CASE RawFails(t)
      BY <3>9 DEF RawFails
    <3> QED
      BY <1>2, <3>3, <3>4, <3>5, <3>6, <3>7, <3>8, <3>9
  <2> QED
    BY <1>1, <2>1 DEF FlagType
<1> QED
  BY <1>3, <1>4, <1>5 DEF FlagType

LEMMA TypesKeep == ASSUME Types, [Next]_vars PROVE Types'
<1>1. CASE Next
  BY <1>1, HandleKeeps, BoardKeeps, CallKeeps, TodoKeeps, FlagsKeep, DataKeeps, ExclusionKeeps
     DEF Types
<1>2. CASE UNCHANGED vars
  <2>1. UNCHANGED <<enable_locking, mut, queue, current_mode, current_buf, sent, mode, buf, chan,
                    out, pc, call, section, todo, ok, data, calls, late, faults>>
    BY <1>2 DEF vars, handle, board, threads, history
  <2>2. \A t \in Threads : Own(t)' = Own(t)
    BY <2>1 DEF Own, Checked
  <2> QED
    BY <2>1, <2>2 DEF Types, HandleType, BoardType, CallType, TodoType, FlagType, DataType, Exclusion
<1> QED
  BY <1>1, <1>2

LEMMA TypesInit == Init => Types
<1> SUFFICES ASSUME Init PROVE Types
  OBVIOUS
<1>1. HandleType
  BY Basics DEF Init, HandleType
<1>2. BoardType
  BY Basics DEF Init, BoardType, Modes, Output
<1>3. CallType
  <2>1. [kind |-> "register", buf |-> 0] \in Call
    BY Basics DEF Call, AllKinds
  <2> QED
    BY <2>1, Basics DEF Init, CallType
<1>4. TodoType
  BY DEF Init, TodoType
<1>5. FlagType
  BY DEF Init, FlagType
<1>6. DataType
  <2>1. <<Nothing, 0>> \in Output
    BY Basics DEF Output
  <2> QED
    BY <2>1, Basics DEF Init, DataType
<1>7. Exclusion
  BY DEF Init, Exclusion
<1> QED
  BY <1>1, <1>2, <1>3, <1>4, <1>5, <1>6, <1>7 DEF Types

\* The types of the queue, the caches, the board and the threads, the limit of the queue,
\* and mutual exclusion: who appends or sends has the mutex, if there is one.
THEOREM TypeCorrect == Spec => []TypeOK
<1>1. Types => TypeOK
  <2> SUFFICES ASSUME Types PROVE TypeOK
    OBVIOUS
  <2>1. enable_locking \in BOOLEAN /\ ok \in [Threads -> BOOLEAN] /\ late \in BOOLEAN
    BY DEF Types, FlagType
  <2>2. mut \in Threads \cup {Nobody} /\ Len(queue) <= MaxXfers /\ sent \in 0 .. Len(queue)
    BY DEF Types, HandleType
  <2>3. current_mode \in {"none", "register", "waveforms"} /\ current_buf \in Buffers \cup {-1}
    BY DEF Types, HandleType, Modes
  <2>4. mode \in {"register", "waveforms"} /\ buf \in Buffers /\ chan \in Channels /\ out \in Output
    BY DEF Types, BoardType, Modes
  <2>5. /\ pc \in [Threads -> {"idle", "lock", "append", "full", "send"}]
        /\ call \in [Threads -> Call] /\ section \in [Threads -> 0 .. NumChan + 3]
        /\ calls \in [Threads -> 0 .. MaxCalls]
    BY DEF Types, CallType
  <2>6. data \in [Threads -> [Slots -> Output]] /\ faults \in 0 .. MaxFaults
    BY DEF Types, DataType
  <2>7. enable_locking => \A t \in Threads : pc[t] \in {"append", "full", "send"} => mut = t
    BY DEF Types, Exclusion
  <2> QED
    BY <2>1, <2>2, <2>3, <2>4, <2>5, <2>6, <2>7, Zenon DEF TypeOK
<1>2. Types /\ [Next]_vars => Types'
  BY TypesKeep
<1> QED
  BY <1>1, <1>2, TypesInit, PTL DEF Spec

-----------------------------------------------------------------------------
\* The last command of a kind in a sequence of entries, and the effect of the first ones.

Last(q, ops, now) ==
    LET at == {i \in DOMAIN q : q[i].op \in ops}
    IN  IF at = {} THEN now ELSE q[CHOOSE i \in at : \A j \in at : j <= i].arg

Done(q, n, ops, now) ==
    \A k \in 1 .. n : q[k].op \in ops /\ (\A j \in k + 1 .. n : q[j].op \notin ops) => now = q[k].arg

Less == OpToRel(<, Nat)

LEMMA LessDef == \A x, y \in Nat : <<x, y>> \in Less <=> x < y
BY Zenon DEF Less, OpToRel

LEMMA Smallest ==
    ASSUME NEW S \in SUBSET Nat, S # {}
    PROVE  \E x \in S : \A y \in S : x <= y
<1>1. IsWellFoundedOn(Less, Nat)
  BY NatLessThanWellFounded, Zenon DEF Less
<1>2. PICK x \in S : \A y \in S : ~ (<<y, x>> \in Less)
  BY <1>1, WFMin, Zenon
<1>3. ASSUME NEW y \in S PROVE x <= y
  <2>1. x \in Nat /\ y \in Nat
    OBVIOUS
  <2>2. ~ (y < x)
    BY <1>2, <1>3, <2>1, LessDef
  <2> QED
    BY <2>1, <2>2
<1> QED
  BY <1>3

LEMMA Largest ==
    ASSUME NEW n \in Nat, NEW S \in SUBSET (1 .. n), S # {}
    PROVE  \E x \in S : \A y \in S : y <= x
<1> DEFINE R == {d \in 0 .. n : n - d \in S}
<1>1. R \in SUBSET Nat /\ R # {}
  <2>1. PICK y \in S : TRUE
    OBVIOUS
  <2>2. y \in 1 .. n /\ n - y \in 0 .. n /\ n - (n - y) = y
    BY <2>1
  <2>3. n - y \in R
    BY <2>2
  <2>4. R \subseteq Nat
    OBVIOUS
  <2> QED
    BY <2>3, <2>4
<1>2. PICK d \in R : \A c \in R : d <= c
  <2> HIDE DEF R
  <2> QED
    BY <1>1, Smallest
<1>3. ASSUME NEW y \in S PROVE y <= n - d
  <2>1. y \in 1 .. n /\ n - (n - y) = y /\ n - y \in 0 .. n
    OBVIOUS
  <2>2. d <= n - y
    BY <1>2, <2>1
  <2> QED
    BY <2>1, <2>2
<1> QED
  BY <1>2, <1>3

LEMMA LastAt ==
    ASSUME NEW q \in Seq(Entry), NEW ops, NEW now, NEW k \in DOMAIN q, q[k].op \in ops,
           \A j \in DOMAIN q : q[j].op \in ops => j <= k
    PROVE  Last(q, ops, now) = q[k].arg
<1> DEFINE at == {i \in DOMAIN q : q[i].op \in ops}
           top == CHOOSE i \in at : \A j \in at : j <= i
<1>1. k \in at /\ \A j \in at : j <= k
  OBVIOUS
<1>2. top \in at /\ \A j \in at : j <= top
  BY <1>1
<1>3. at \subseteq Nat
  OBVIOUS
<1>4. Last(q, ops, now) = q[top].arg
  BY <1>1 DEF Last
<1> HIDE DEF at, top
<1>5. top = k
  BY <1>1, <1>2, <1>3
<1> QED
  BY <1>4, <1>5

LEMMA LastNone ==
    ASSUME NEW q \in Seq(Entry), NEW ops, NEW now, \A j \in DOMAIN q : q[j].op \notin ops
    PROVE  Last(q, ops, now) = now
BY DEF Last

LEMMA LastExists ==
    ASSUME NEW q \in Seq(Entry), NEW ops, NEW k \in DOMAIN q, q[k].op \in ops
    PROVE  \E m \in DOMAIN q : q[m].op \in ops /\ \A j \in DOMAIN q : q[j].op \in ops => j <= m
<1> DEFINE at == {i \in DOMAIN q : q[i].op \in ops}
<1>1. at \in SUBSET (1 .. Len(q)) /\ at # {} /\ Len(q) \in Nat
  OBVIOUS
<1>2. PICK m \in at : \A j \in at : j <= m
  <2> HIDE DEF at
  <2> QED
    BY <1>1, Largest
<1> QED
  BY <1>2

LEMMA LastAppend ==
    ASSUME NEW q \in Seq(Entry), NEW e \in Entry, NEW ops, NEW now
    PROVE  Last(Append(q, e), ops, now) = IF e.op \in ops THEN e.arg ELSE Last(q, ops, now)
<1> DEFINE r == Append(q, e)
<1>1. /\ r \in Seq(Entry) /\ DOMAIN r = 1 .. Len(q) + 1 /\ r[Len(q) + 1] = e
      /\ DOMAIN q = 1 .. Len(q) /\ Len(q) \in Nat /\ \A j \in DOMAIN q : r[j] = q[j]
  OBVIOUS
<1> HIDE DEF r
<1>2. CASE e.op \in ops
  <2>1. Len(q) + 1 \in DOMAIN r /\ \A j \in DOMAIN r : j <= Len(q) + 1
    BY <1>1
  <2>2. Last(r, ops, now) = r[Len(q) + 1].arg
    BY <1>1, <1>2, <2>1, LastAt
  <2> QED
    BY <1>1, <1>2, <2>2 DEF r
<1>3. CASE e.op \notin ops
  <2>1. CASE \A j \in DOMAIN q : q[j].op \notin ops
    <3>1. \A j \in DOMAIN r : r[j].op \notin ops
      BY <1>1, <1>3, <2>1
    <3> QED
      BY <1>1, <1>3, <2>1, <3>1, LastNone DEF r
  <2>2. CASE \E k \in DOMAIN q : q[k].op \in ops
    <3>1. PICK m \in DOMAIN q : q[m].op \in ops /\ \A j \in DOMAIN q : q[j].op \in ops => j <= m
      BY <2>2, LastExists
    <3>2. Last(q, ops, now) = q[m].arg
      BY <3>1, LastAt
    <3>3. m \in DOMAIN r /\ r[m] = q[m] /\ \A j \in DOMAIN r : r[j].op \in ops => j <= m
      BY <1>1, <1>3, <3>1
    <3>4. Last(r, ops, now) = r[m].arg
      BY <1>1, <3>1, <3>3, LastAt
    <3> QED
      BY <1>3, <3>2, <3>3, <3>4 DEF r
  <2> QED
    BY <2>1, <2>2
<1> QED
  BY <1>2, <1>3

LEMMA DoneAppend ==
    ASSUME NEW q \in Seq(Entry), NEW e \in Entry, NEW ops, NEW now, NEW n \in 0 .. Len(q),
           Done(q, n, ops, now)
    PROVE  Done(Append(q, e), n, ops, now)
<1>1. \A k \in 1 .. n : Append(q, e)[k] = q[k]
  OBVIOUS
<1>2. ASSUME NEW k \in 1 .. n, NEW j \in k + 1 .. n PROVE j \in 1 .. n
  OBVIOUS
<1> QED
  BY <1>1, <1>2 DEF Done

LEMMA DoneStep ==
    ASSUME NEW q \in Seq(Entry), NEW ops, NEW now, NEW n \in Nat, n < Len(q),
           Done(q, n, ops, now), NEW then, then = IF q[n + 1].op \in ops THEN q[n + 1].arg ELSE now
    PROVE  Done(q, n + 1, ops, then) /\ Last(q, ops, then) = Last(q, ops, now)
<1>1. n + 1 \in DOMAIN q
  OBVIOUS
<1>2. ASSUME NEW k \in 1 .. n + 1, q[k].op \in ops, \A j \in k + 1 .. n + 1 : q[j].op \notin ops
      PROVE  then = q[k].arg
  <2>1. CASE k = n + 1
    BY <1>2, <2>1
  <2>2. CASE k # n + 1
    <3>1. k \in 1 .. n /\ n + 1 \in k + 1 .. n + 1
      BY <2>2
    <3>2. q[n + 1].op \notin ops
      BY <1>2, <3>1
    <3>3. \A j \in k + 1 .. n : j \in k + 1 .. n + 1
      OBVIOUS
    <3> QED
      BY <1>2, <3>1, <3>2, <3>3 DEF Done
  <2> QED
    BY <2>1, <2>2
<1>3. Last(q, ops, then) = Last(q, ops, now)
  <2>1. CASE q[n + 1].op \in ops
    <3>1. PICK m \in DOMAIN q : q[m].op \in ops /\ \A j \in DOMAIN q : q[j].op \in ops => j <= m
      BY <1>1, <2>1, LastExists
    <3> QED
      BY <3>1, LastAt
  <2>2. CASE q[n + 1].op \notin ops
    BY <2>2
  <2> QED
    BY <2>1, <2>2
<1> QED
  BY <1>2, <1>3 DEF Done

LEMMA DoneAll ==
    ASSUME NEW q \in Seq(Entry), NEW ops, NEW now, Done(q, Len(q), ops, now)
    PROVE  Last(q, ops, now) = now
<1>1. CASE \A j \in DOMAIN q : q[j].op \notin ops
  BY <1>1, LastNone
<1>2. CASE \E k \in DOMAIN q : q[k].op \in ops
  <2>1. PICK m \in DOMAIN q : q[m].op \in ops /\ \A j \in DOMAIN q : q[j].op \in ops => j <= m
    BY <1>2, LastExists
  <2>2. m \in 1 .. Len(q) /\ \A j \in m + 1 .. Len(q) : q[j].op \notin ops
    BY <2>1
  <2>3. now = q[m].arg
    BY <2>1, <2>2 DEF Done
  <2> QED
    BY <2>1, <2>3, LastAt
<1> QED
  BY <1>1, <1>2

LEMMA NothingDone ==
    \A q, ops, now : Done(q, 0, ops, now) /\ Done(<<>>, 0, ops, now) /\ Last(<<>>, ops, now) = now
<1>1. <<>> \in Seq(Entry) /\ DOMAIN <<>> = {}
  OBVIOUS
<1>2. \A ops, now : Last(<<>>, ops, now) = now
  BY <1>1, LastNone
<1> QED
  BY <1>2 DEF Done

-----------------------------------------------------------------------------
\* What the board will have selected.

ModeOps == {"mode"}
BufOps  == {"buf", "rebuf"}
NextMode == Last(queue, ModeOps, mode)
NextBuf  == Last(queue, BufOps, buf)

Executed == Done(queue, sent, ModeOps, mode) /\ Done(queue, sent, BufOps, buf)

\* Only an append changes what the board will have selected: an ioctl executes it in the
\* order of the queue, and a failed one is executed again from the start.
LEMMA Selecting ==
    ASSUME Types, Executed, Next
    PROVE  /\ Executed'
           /\ \/ NextMode' = NextMode /\ NextBuf' = NextBuf /\ current_buf' = current_buf
                 /\ \A t \in Threads : ~Append1(t)
              \/ \E t \in Threads :
                    /\ Append1(t)
                    /\ NextMode' = IF Head(todo[t]).op \in ModeOps THEN Head(todo[t]).arg ELSE NextMode
                    /\ NextBuf' = IF Head(todo[t]).op \in BufOps THEN Head(todo[t]).arg ELSE NextBuf
<1>1. HandleType /\ TodoType
  BY DEF Types
<1>2. PICK t \in Threads :
          \/ \E c \in Call : Begin(t, c)
          \/ Lock(t) \/ Append1(t) \/ Full(t) \/ Send(t) \/ EndSection(t)
          \/ Transfer(t) \/ TransferDone(t)
          \/ CheckFails(t) \/ SendFails(t) \/ AppendFails(t) \/ RawFails(t)
  BY Steps
<1>3. queue \in Seq(Entry) /\ Len(queue) \in Nat /\ sent \in 0 .. Len(queue)
  BY <1>1 DEF HandleType
<1>4. \A u \in Threads : Append1(u) => queue' # queue
  <2>1. \A e \in Entry : Append(queue, e) # queue
    BY <1>3
  <2> QED
    BY <1>1, <2>1, HeadEntry DEF Append1
<1>5. ASSUME UNCHANGED <<queue, mode, buf, current_buf>>, sent' = sent \/ sent' = 0
      PROVE  Executed' /\ NextMode' = NextMode /\ NextBuf' = NextBuf /\ current_buf' = current_buf
             /\ \A u \in Threads : ~Append1(u)
  BY <1>4, <1>5, NothingDone DEF Executed, NextMode, NextBuf
<1>6. CASE Append1(t)
  <2> DEFINE e == Head(todo[t])
  <2>1. queue' = Append(queue, e) /\ UNCHANGED <<sent, mode, buf>> /\ todo[t] # <<>>
    BY <1>6 DEF Append1, board
  <2>2. e \in Entry
    BY <1>1, <2>1, HeadEntry
  <2> HIDE DEF e
  <2>3. Executed'
    BY <1>3, <2>1, <2>2, DoneAppend DEF Executed
  <2>4. /\ NextMode' = IF e.op \in ModeOps THEN e.arg ELSE NextMode
        /\ NextBuf' = IF e.op \in BufOps THEN e.arg ELSE NextBuf
    BY <1>3, <2>1, <2>2, LastAppend DEF NextMode, NextBuf
  <2> QED
    BY <1>6, <2>3, <2>4 DEF e
<1>7. CASE Transfer(t)
  <2> DEFINE e == queue[sent + 1]
  <2>1. /\ sent < Len(queue) /\ sent' = sent + 1 /\ UNCHANGED <<queue, current_buf>>
        /\ mode' = IF e.op \in ModeOps THEN e.arg ELSE mode
        /\ buf' = IF e.op \in BufOps THEN e.arg ELSE buf
    BY <1>7 DEF Transfer, handle, ModeOps, BufOps
  <2>2. /\ Done(queue, sent + 1, ModeOps, mode') /\ Last(queue, ModeOps, mode') = NextMode
        /\ Done(queue, sent + 1, BufOps, buf') /\ Last(queue, BufOps, buf') = NextBuf
    BY <1>3, <2>1, DoneStep DEF Executed, NextMode, NextBuf
  <2> QED
    BY <1>4, <2>1, <2>2 DEF Executed, NextMode, NextBuf
<1>8. CASE TransferDone(t)
  <2>1. sent = Len(queue) /\ sent' = 0 /\ queue' = <<>> /\ UNCHANGED <<mode, buf, current_buf>>
    BY <1>8 DEF TransferDone
  <2>2. NextMode = mode /\ NextBuf = buf
    BY <1>3, <2>1, DoneAll DEF Executed, NextMode, NextBuf
  <2>3. \A u \in Threads : ~Append1(u)
    <3>1. \A e \in Entry : Append(queue, e) # <<>>
      BY <1>3
    <3> QED
      BY <1>1, <2>1, <3>1, HeadEntry DEF Append1
  <2> QED
    BY <2>1, <2>2, <2>3, NothingDone DEF Executed, NextMode, NextBuf
<1>9. CASE \E c \in Call : Begin(t, c)
  BY <1>5, <1>9 DEF Begin, handle, board
<1>10. CASE Lock(t) \/ Full(t) \/ Send(t) \/ EndSection(t)
  BY <1>5, <1>10 DEF Lock, Full, Send, EndSection, handle, board
<1>11. CASE CheckFails(t) \/ SendFails(t) \/ AppendFails(t) \/ RawFails(t)
  BY <1>5, <1>11 DEF CheckFails, SendFails, AppendFails, RawFails, Fault
<1> QED
  BY <1>2, <1>6, <1>7, <1>8, <1>9, <1>10, <1>11

\* The cache of the mode.
ModeFollows == current_mode = "waveforms" => NextMode = "waveforms"

LEMMA ModeKeeps == ASSUME Types, Executed, ModeFollows, Next PROVE ModeFollows'
<1>1. HandleType /\ TodoType
  BY DEF Types
<1>2. PICK t \in Threads :
          \/ \E c \in Call : Begin(t, c)
          \/ Lock(t) \/ Append1(t) \/ Full(t) \/ Send(t) \/ EndSection(t)
          \/ Transfer(t) \/ TransferDone(t)
          \/ CheckFails(t) \/ SendFails(t) \/ AppendFails(t) \/ RawFails(t)
  BY Steps
<1>3. CASE \E u \in Threads : Append1(u)
  <2>1. PICK u \in Threads :
            /\ Append1(u)
            /\ NextMode' = IF Head(todo[u]).op \in ModeOps THEN Head(todo[u]).arg ELSE NextMode
    BY <1>3, Selecting
  <2>2. current_mode' = NotedMode(Head(todo[u]))
    BY <2>1 DEF Append1
  <2> QED
    BY <2>1, <2>2 DEF ModeFollows, NotedMode, ModeOps
<1>4. CASE \A u \in Threads : ~Append1(u)
  <2>1. NextMode' = NextMode
    BY <1>4, Selecting
  <2>2. CASE AppendFails(t)
    <3> DEFINE e == Head(todo[t])
    <3>1. /\ current_mode' = NotedMode(e) /\ ~Checked(t) /\ call[t].kind # "raw"
          /\ todo[t] # <<>>
      BY <1>1, <2>2 DEF AppendFails, TodoType
    <3>2. e \in Own(t)
      BY <1>1, <3>1, HeadEntry
    <3>3. e.op = "mode" => e.arg # "waveforms"
      BY <3>1, <3>2 DEF Own
    <3> QED
      BY <2>1, <3>1, <3>3 DEF ModeFollows, NotedMode
  <2>3. CASE ~AppendFails(t)
    <3>1. current_mode' = current_mode
      BY <1>2, <1>4, <2>3 DEF Begin, Lock, Full, Send, EndSection, Transfer, TransferDone,
                              CheckFails, SendFails, RawFails, handle
    <3> QED
      BY <2>1, <3>1 DEF ModeFollows
  <2> QED
    BY <2>2, <2>3
<1> QED
  BY <1>3, <1>4

\* The cache of the buffer.  A thread that reads an event finds the board on its own
\* buffer or on the one of the cache, from when it has appended the first of its commands;
\* for that it has to be the only one that reads events.
OneReader == \A r, s \in Readers : r = s

ReadersOnly == \A t \in Threads : call[t].kind = "event" => t \in Readers

Reading(t) ==
    /\ pc[t] # "idle" /\ call[t].kind = "event"
    /\ \/ section[t] \in Channels
       \/ /\ section[t] = 0 /\ pc[t] \in {"append", "full", "send"}
          /\ \A i \in DOMAIN todo[t] : todo[t][i].op # "buf"

BufFollows == \A t \in Threads : Reading(t) => NextBuf \in {current_buf, call[t].buf}

LEMMA ReadersKeep == ASSUME Types, ReadersOnly, Next PROVE ReadersOnly'
<1>1. CallType
  BY DEF Types
<1>2. PICK t \in Threads :
          \/ \E c \in Call : Begin(t, c)
          \/ Lock(t) \/ Append1(t) \/ Full(t) \/ Send(t) \/ EndSection(t)
          \/ Transfer(t) \/ TransferDone(t)
          \/ CheckFails(t) \/ SendFails(t) \/ AppendFails(t) \/ RawFails(t)
  BY Steps
<1>3. CASE \E c \in Call : Begin(t, c)
  <2>1. PICK c \in Call : Begin(t, c)
    BY <1>3
  <2>2. c.kind = "event" => t \in Readers
    BY <2>1 DEF Begin
  <2> QED
    BY <1>1, <2>1, <2>2, BeginCall DEF ReadersOnly
<1>4. CASE ~ \E c \in Call : Begin(t, c)
  <2>1. call' = call
    BY <1>2, <1>4 DEF Lock, Append1, Full, Send, EndSection, Transfer, TransferDone,
                      CheckFails, SendFails, AppendFails, RawFails, Fault
  <2> QED
    BY <2>1 DEF ReadersOnly
<1> QED
  BY <1>3, <1>4

\* The first entry of an event is the command that selects its buffer.
LEMMA EventEntries ==
    ASSUME CallType, NEW t \in Threads, call[t].kind = "event", section[t] = 0
    PROVE  \E i \in DOMAIN Entries(t) : Entries(t)[i].op = "buf"
<1> DEFINE first == Cmd("buf", call[t].buf)
           rest == ReadRegister(t, Metadata, 0)
<1>1. 0 \notin Channels /\ 0 # NumChan + 1 /\ 0 # NumChan + 2
  BY Basics DEF Channels
<1>2. Entries(t) = <<first>> \o rest
  BY <1>1 DEF Entries
<1>3. rest \in Seq(Own(t))
  BY RegisterOwn, Basics
<1>4. first.op = "buf"
  BY DEF Cmd
<1> HIDE DEF first, rest
<1>5. 1 \in DOMAIN (<<first>> \o rest) /\ (<<first>> \o rest)[1] = first
  BY <1>3
<1> QED
  BY <1>2, <1>4, <1>5

\* But for appends, a step lets nobody get to where it reads who was not there.
LEMMA ReadingBefore ==
    ASSUME Types, Next, \A t \in Threads : ~Append1(t), NEW u \in Threads, Reading(u)'
    PROVE  Reading(u) /\ call'[u] = call[u]
<1>1. CallType /\ TodoType
  BY DEF Types
<1>2. PICK t \in Threads :
          \/ \E c \in Call : Begin(t, c)
          \/ Lock(t) \/ Append1(t) \/ Full(t) \/ Send(t) \/ EndSection(t)
          \/ Transfer(t) \/ TransferDone(t)
          \/ CheckFails(t) \/ SendFails(t) \/ AppendFails(t) \/ RawFails(t)
  BY Steps
<1>3. pc'[u] # "idle" /\ call'[u].kind = "event"
  BY DEF Reading
<1>4. ASSUME UNCHANGED <<call, section, todo>>, pc[u] # "idle",
             pc[u] = "lock" => pc'[u] = "lock"
      PROVE  Reading(u) /\ call'[u] = call[u]
  <2>1. pc[u] \in {"lock", "append", "full", "send"}
    BY <1>1, <1>4 DEF CallType
  <2> QED
    BY <1>4, <2>1 DEF Reading
<1>5. ASSUME pc'[u] = pc[u], call'[u] = call[u], section'[u] = section[u], todo'[u] = todo[u]
      PROVE  Reading(u) /\ call'[u] = call[u]
  BY <1>5 DEF Reading
<1>6. ASSUME NEW good, Leave(t, good), UNCHANGED <<call, calls, todo>>, todo[t] = <<>>,
             pc[t] \in {"append", "send"}
      PROVE  Reading(u) /\ call'[u] = call[u]
  <2>1. /\ section'[t] = section[t] + 1 /\ pc'[t] \in {"lock", "idle"}
        /\ \A v \in Threads \ {t} : pc'[v] = pc[v] /\ section'[v] = section[v]
    BY <1>1, <1>6, LeaveCall
  <2>2. CASE u = t
    <3>1. section[t] \in 0 .. NumChan + 3 /\ section'[t] \in Channels
      BY <1>1, <2>1, <2>2 DEF Reading, CallType
    <3>2. section[t] = 0 \/ section[t] \in Channels
      BY <2>1, <3>1, Basics DEF Channels
    <3>3. \A i \in DOMAIN todo[t] : todo[t][i].op # "buf"
      BY <1>6
    <3> QED
      BY <1>3, <1>6, <2>2, <3>2, <3>3 DEF Reading
  <2>3. CASE u # t
    BY <1>5, <1>6, <2>1, <2>3
  <2> QED
    BY <2>2, <2>3
<1>7. CASE \E c \in Call : Begin(t, c)
  <2>1. PICK c \in Call : Begin(t, c)
    BY <1>7
  <2>2. CASE u = t
    <3>1. pc'[t] = "lock" /\ section'[t] = 0
      BY <1>1, <2>1, BeginCall
    <3> QED
      BY <2>2, <3>1, Basics DEF Reading, Channels
  <2>3. CASE u # t
    <3>1. UNCHANGED todo
      BY <2>1 DEF Begin
    <3> QED
      BY <1>1, <1>5, <2>1, <2>3, <3>1, BeginCall
  <2> QED
    BY <2>2, <2>3
<1>8. CASE Lock(t)
  <2>1. /\ pc[t] = "lock" /\ pc' = [pc EXCEPT ![t] = "append"]
        /\ todo' = [todo EXCEPT ![t] = Entries(t)] /\ UNCHANGED <<call, section>>
    BY <1>8 DEF Lock
  <2>2. CASE u = t
    <3>1. todo'[t] = Entries(t)
      BY <1>1, <2>1 DEF TodoType
    <3>2. section[t] # 0
      <4>1. ASSUME section[t] = 0 PROVE FALSE
        <5>1. \E i \in DOMAIN Entries(t) : Entries(t)[i].op = "buf"
          BY <1>1, <1>3, <2>1, <2>2, <4>1, EventEntries
        <5>2. section'[t] \notin Channels
          BY <2>1, <4>1, Basics DEF Channels
        <5>3. \A i \in DOMAIN todo'[t] : todo'[t][i].op # "buf"
          BY <2>2, <5>2 DEF Reading
        <5> QED
          BY <3>1, <5>1, <5>3
      <4> QED
        BY <4>1
    <3>3. section[t] \in Channels
      BY <2>1, <2>2, <3>2 DEF Reading
    <3> QED
      BY <1>3, <2>1, <2>2, <3>3 DEF Reading
  <2>3. CASE u # t
    <3>1. pc'[u] = pc[u] /\ todo'[u] = todo[u]
      BY <1>1, <2>1, <2>3 DEF CallType, TodoType
    <3> QED
      BY <1>5, <2>1, <3>1
  <2> QED
    BY <2>2, <2>3
<1>9. CASE Full(t) \/ Send(t)
  <2>1. pc[t] = "append" /\ UNCHANGED <<call, section, todo>>
    BY <1>9 DEF Full, Send
  <2>2. u # t => pc'[u] = pc[u]
    BY <1>1, <1>9 DEF Full, Send, CallType
  <2> QED
    BY <1>3, <1>4, <2>1, <2>2
<1>10. CASE EndSection(t)
  BY <1>6, <1>10 DEF EndSection
<1>11. CASE Transfer(t)
  BY <1>5, <1>11 DEF Transfer
<1>12. CASE TransferDone(t)
  <2>1. CASE pc[t] = "full"
    <3>1. pc' = [pc EXCEPT ![t] = "append"] /\ UNCHANGED <<call, section, todo>>
      BY <1>12, <2>1 DEF TransferDone
    <3>2. u # t => pc'[u] = pc[u]
      BY <1>1, <3>1 DEF CallType
    <3> QED
      BY <1>3, <1>4, <2>1, <3>1, <3>2
  <2>2. CASE pc[t] = "send"
    <3>1. Leave(t, ok[t]) /\ UNCHANGED <<call, calls, todo>> /\ todo[t] = <<>>
      BY <1>1, <1>12, <2>2 DEF TransferDone, TodoType
    <3> QED
      BY <1>6, <2>2, <3>1
  <2> QED
    BY <1>12, <2>1, <2>2 DEF TransferDone
<1>13. CASE CheckFails(t)
  <2>1. /\ pc' = [pc EXCEPT ![t] = "idle"] /\ todo' = [todo EXCEPT ![t] = <<>>]
        /\ UNCHANGED <<call, section>>
    BY <1>13 DEF CheckFails, Fault
  <2>2. u # t /\ pc'[u] = pc[u] /\ todo'[u] = todo[u]
    BY <1>1, <1>3, <2>1 DEF CallType, TodoType
  <2> QED
    BY <1>5, <2>1, <2>2
<1>14. CASE SendFails(t)
  <2>1. /\ Leave(t, call[t].kind = "event") /\ UNCHANGED <<call, calls, todo>>
        /\ todo[t] = <<>> /\ pc[t] = "send"
    BY <1>1, <1>14 DEF SendFails, Fault, TodoType
  <2> QED
    BY <1>6, <2>1
<1>15. CASE AppendFails(t) \/ RawFails(t)
  <2>1. UNCHANGED <<call, section>> /\ ~Checked(t)
    BY <1>15 DEF AppendFails, RawFails, Fault, Checked
  <2>2. u # t
    <3>1. ASSUME u = t PROVE FALSE
      <4>1. section[t] = 0 \/ section[t] \in Channels
        BY <2>1, <3>1 DEF Reading
      <4>2. section[t] < NumChan + 2
        BY <4>1, Basics DEF Channels
      <4> QED
        BY <1>3, <2>1, <3>1, <4>2 DEF Checked
    <3> QED
      BY <3>1
  <2>3. pc'[u] = pc[u] /\ todo'[u] = todo[u]
    BY <1>1, <1>15, <2>2 DEF AppendFails, RawFails, CallType, TodoType
  <2> QED
    BY <1>5, <2>1, <2>3
<1> QED
  BY <1>2, <1>7, <1>8, <1>9, <1>10, <1>11, <1>12, <1>13, <1>14, <1>15

LEMMA BufKeeps ==
    ASSUME Types, Executed, OneReader, ReadersOnly, BufFollows, Next
    PROVE  BufFollows'
<1>1. HandleType /\ TodoType
  BY DEF Types
<1>2. SUFFICES ASSUME NEW u \in Threads, Reading(u)'
               PROVE  NextBuf' \in {current_buf', call'[u].buf}
  BY DEF BufFollows
<1>3. CASE \A t \in Threads : ~Append1(t)
  <2>1. NextBuf' = NextBuf /\ current_buf' = current_buf
    BY <1>3, Selecting
  <2>2. Reading(u) /\ call'[u] = call[u]
    BY <1>2, <1>3, ReadingBefore
  <2> QED
    BY <2>1, <2>2 DEF BufFollows
<1>4. CASE \E t \in Threads : Append1(t)
  <2>1. PICK t \in Threads :
            /\ Append1(t)
            /\ NextBuf' = IF Head(todo[t]).op \in BufOps THEN Head(todo[t]).arg ELSE NextBuf
    BY <1>4, Selecting
  <2> DEFINE e == Head(todo[t])
  <2>2. /\ current_buf' = NotedBuf(t, e) /\ todo' = [todo EXCEPT ![t] = Tail(todo[t])]
        /\ UNCHANGED <<pc, call, section>> /\ todo[t] # <<>>
    BY <2>1 DEF Append1
  <2>3. e \in Own(t)
    BY <1>1, <2>2, HeadEntry
  <2>4. CASE e.op = "buf"
    BY <2>1, <2>2, <2>4 DEF NotedBuf, BufOps
  <2>5. CASE e.op = "rebuf"
    <3>1. call[t].kind = "event" /\ e.arg = call[t].buf
      BY <2>3, <2>5 DEF Own
    <3>2. t \in Readers /\ u \in Readers
      BY <1>2, <2>2, <3>1 DEF ReadersOnly, Reading
    <3>3. u = t
      BY <3>2 DEF OneReader
    <3> QED
      BY <2>1, <2>2, <2>5, <3>1, <3>3 DEF BufOps
  <2>6. CASE e.op \notin {"buf", "rebuf"}
    <3>1. NextBuf' = NextBuf /\ current_buf' = current_buf
      BY <2>1, <2>2, <2>6 DEF NotedBuf, BufOps
    <3>2. Reading(u)
      <4>1. CASE u # t
        <5>1. todo'[u] = todo[u]
          BY <1>1, <2>2, <4>1 DEF TodoType
        <5> QED
          BY <1>2, <2>2, <5>1 DEF Reading
      <4>2. CASE u = t
        <5>1. todo[t] \in Seq(Own(t)) /\ todo'[t] = Tail(todo[t])
          BY <1>1, <2>2 DEF TodoType
        <5>2. ASSUME \A i \in DOMAIN todo'[t] : todo'[t][i].op # "buf", NEW i \in DOMAIN todo[t]
              PROVE  todo[t][i].op # "buf"
          <6>1. CASE i = 1
            BY <2>2, <2>6, <5>1, <6>1
          <6>2. CASE i # 1
            <7>1. i - 1 \in DOMAIN Tail(todo[t]) /\ Tail(todo[t])[i - 1] = todo[t][i]
              BY <2>2, <5>1, <6>2
            <7> QED
              BY <5>1, <5>2, <7>1
          <6> QED
            BY <6>1, <6>2
        <5> QED
          BY <1>2, <2>2, <4>2, <5>2 DEF Reading
      <4> QED
        BY <4>1, <4>2
    <3> QED
      BY <2>2, <3>1, <3>2 DEF BufFollows
  <2> QED
    BY <2>4, <2>5, <2>6
<1> QED
  BY <1>3, <1>4

CacheInv == Types /\ Executed /\ ModeFollows /\ ReadersOnly /\ (OneReader => BufFollows)

LEMMA OneReaderStays == OneReader => []OneReader
<1>1. OneReader => OneReader'
  BY DEF OneReader
<1> QED
  BY <1>1, PTL

LEMMA CacheInit == Init => CacheInv
<1> SUFFICES ASSUME Init PROVE CacheInv
  OBVIOUS
<1>1. Executed
  BY NothingDone DEF Init, Executed
<1>2. ModeFollows /\ ReadersOnly /\ BufFollows
  BY DEF Init, ModeFollows, ReadersOnly, BufFollows, Reading
<1> QED
  BY <1>1, <1>2, TypesInit DEF CacheInv

LEMMA CacheStep == CacheInv /\ [Next]_vars => CacheInv'
<1> SUFFICES ASSUME CacheInv, [Next]_vars PROVE CacheInv'
  OBVIOUS
<1> USE DEF CacheInv
<1>1. CASE Next
  <2>1. OneReader' = OneReader
    BY DEF OneReader
  <2> QED
    BY <1>1, <2>1, TypesKeep, Selecting, ModeKeeps, ReadersKeep, BufKeeps
<1>2. CASE UNCHANGED vars
  <2>1. UNCHANGED <<queue, sent, mode, buf, current_mode, current_buf, pc, call, section, todo>>
    BY <1>2 DEF vars, handle, board, threads
  <2>2. Types'
    BY <1>2, TypesKeep
  <2>3. Executed' /\ ModeFollows' /\ ReadersOnly'
    BY <2>1 DEF Executed, ModeFollows, NextMode, ReadersOnly
  <2>4. (OneReader => BufFollows)'
    BY <2>1 DEF OneReader, BufFollows, NextBuf, Reading
  <2> QED
    BY <2>2, <2>3, <2>4
<1> QED
  BY <1>1, <1>2

\* The caches hold, whatever fails and whoever shares the queue, when one thread at most
\* reads events: a command that is left out because of them is not needed.  Neither the
\* mutex nor the order of the threads is needed for that.
THEOREM CachesAreRight == OneReader /\ Spec => []CachesHold
<1>1. OneReader /\ CacheInv => CachesHold
  <2> SUFFICES ASSUME OneReader, CacheInv PROVE CachesHold
    OBVIOUS
  <2>1. Selected({"mode"}, mode) = NextMode /\ Selected({"buf", "rebuf"}, buf) = NextBuf
    BY DEF Selected, NextMode, NextBuf, Last, ModeOps, BufOps
  <2>2. \A t \in Threads : pc[t] # "idle" /\ call[t].kind = "event" /\ section[t] \in Channels
            => Reading(t)
    BY DEF Reading
  <2> QED
    BY <2>1, <2>2 DEF CacheInv, ModeFollows, BufFollows, CachesHold
<1> QED
  BY <1>1, OneReaderStays, CacheInit, CacheStep, PTL DEF Spec

-----------------------------------------------------------------------------
\* Whom the queue receives for.  As long as nothing fails a call takes its transfers out of
\* the queue before it returns, and does not fail itself before its last section.

LiveEntry(e) == e.op = "rx" => pc[e.dst.thread] # "idle" /\ calls[e.dst.thread] = e.dst.call

LiveQueue == \A i \in DOMAIN queue : LiveEntry(queue[i])

CallsGoOn == \A t \in Threads : pc[t] # "idle" => ok[t]

NothingLate == faults = 0 => ~late /\ LiveQueue /\ CallsGoOn

\* A call that leaves its last section has to send.
LEMMA LastSends ==
    ASSUME CallType, NEW t \in Threads, ok[t], section[t] + 1 = NumSections(call[t])
    PROVE  Sends(t)
<1>1. call[t].kind \in AllKinds /\ section[t] \in 0 .. NumChan + 3
  BY CallFields DEF CallType
<1>2. CASE call[t].kind = "event"
  <2>1. section[t] = NumChan + 2
    BY <1>1, <1>2, Basics DEF NumSections
  <2>2. section[t] \notin Channels
    BY <2>1, Basics DEF Channels
  <2> QED
    BY <1>2, <2>2 DEF Sends
<1>3. CASE call[t].kind = "clear_buffer"
  BY <1>1, <1>3 DEF Sends, NumSections
<1>4. CASE call[t].kind = "raw"
  BY <1>4 DEF Sends
<1>5. CASE call[t].kind \in {"register", "status"}
  BY <1>5 DEF Sends
<1> QED
  BY <1>1, <1>2, <1>3, <1>4, <1>5 DEF AllKinds

\* Between sections nobody looks at an answer.
LEMMA Unanswered ==
    ASSUME CallType, NEW t \in Threads, NEW good, good = TRUE, Leave(t, good),
           UNCHANGED <<call, calls>>, pc[t] # "idle", pc'[t] # "idle",
           ok \in [Threads -> BOOLEAN]
    PROVE  ok'[t] = TRUE
<1>1. section[t] + 1 # NumSections(call[t])
  BY LeaveCall
<1>2. section[t] \in 0 .. NumChan + 3 /\ section[t] < NumSections(call[t])
  BY DEF CallType
<1>3. call[t].kind # "register"
  <2>1. ASSUME call[t].kind = "register" PROVE FALSE
    <3>1. NumSections(call[t]) = 1
      BY <2>1 DEF NumSections
    <3> QED
      BY <1>1, <1>2, <3>1
  <2> QED
    BY <2>1
<1>4. Answered(t) = TRUE
  BY <1>3 DEF Answered
<1>5. ok' = [ok EXCEPT ![t] = good /\ Answered(t)]
  BY DEF Leave
<1>6. ok'[t] = (good /\ Answered(t))
  BY <1>5
<1> QED
  BY <1>4, <1>6

LEMMA LateKeeps == ASSUME Types, NothingLate, Next PROVE NothingLate'
<1>1. CallType /\ HandleType /\ TodoType /\ FlagType /\ DataType
  BY DEF Types
<1>2. PICK t \in Threads :
          \/ \E c \in Call : Begin(t, c)
          \/ Lock(t) \/ Append1(t) \/ Full(t) \/ Send(t) \/ EndSection(t)
          \/ Transfer(t) \/ TransferDone(t)
          \/ CheckFails(t) \/ SendFails(t) \/ AppendFails(t) \/ RawFails(t)
  BY Steps
<1>3. SUFFICES ASSUME faults' = 0 PROVE late' = FALSE /\ LiveQueue' /\ CallsGoOn'
  BY DEF NothingLate
<1>4. /\ ~CheckFails(t) /\ ~SendFails(t) /\ ~AppendFails(t) /\ ~RawFails(t)
  <2>1. faults + 1 # 0
    BY <1>1, Basics DEF DataType
  <2> QED
    BY <1>3, <2>1 DEF CheckFails, SendFails, AppendFails, RawFails, Fault
<1>5. faults = 0
  BY <1>2, <1>3, <1>4 DEF Begin, Lock, Append1, Full, Send, EndSection, Transfer, TransferDone, history
<1>6. late = FALSE /\ LiveQueue /\ CallsGoOn
  BY <1>1, <1>5 DEF NothingLate, FlagType
<1>7. queue \in Seq(Entry)
  BY <1>1 DEF HandleType
<1>8. ASSUME UNCHANGED <<late, queue, calls, ok>>,
             \A u \in Threads : pc'[u] = "idle" <=> pc[u] = "idle"
      PROVE  late' = FALSE /\ LiveQueue' /\ CallsGoOn'
  <2>1. ASSUME NEW i \in DOMAIN queue', queue'[i].op = "rx"
        PROVE  pc'[queue'[i].dst.thread] # "idle" /\ calls'[queue'[i].dst.thread] = queue'[i].dst.call
    <3>1. queue[i] \in Entry
      BY <1>7, <1>8, <2>1
    <3>2. queue[i].dst.thread \in Threads
      BY <1>8, <2>1, <3>1 DEF Entry
    <3> QED
      BY <1>6, <1>8, <2>1, <3>2 DEF LiveQueue, LiveEntry
  <2> QED
    BY <1>6, <1>8, <2>1 DEF LiveQueue, LiveEntry, CallsGoOn
<1>9. CASE \E c \in Call : Begin(t, c)
  <2>1. PICK c \in Call : Begin(t, c)
    BY <1>9
  <2>2. /\ pc[t] = "idle" /\ UNCHANGED <<late, queue>> /\ ok' = [ok EXCEPT ![t] = TRUE]
    BY <2>1 DEF Begin, handle, history
  <2>3. \A u \in Threads \ {t} : pc'[u] = pc[u] /\ calls'[u] = calls[u]
    BY <1>1, <2>1, BeginCall
  <2>4. ASSUME NEW i \in DOMAIN queue', queue'[i].op = "rx"
        PROVE  pc'[queue'[i].dst.thread] # "idle" /\ calls'[queue'[i].dst.thread] = queue'[i].dst.call
    <3>1. queue[i].dst.thread \in Threads
      BY <1>7, <2>2, <2>4 DEF Entry
    <3>2. pc[queue[i].dst.thread] # "idle" /\ calls[queue[i].dst.thread] = queue[i].dst.call
      BY <1>6, <2>2, <2>4 DEF LiveQueue, LiveEntry
    <3> QED
      BY <2>2, <2>3, <3>1, <3>2
  <2>5. CallsGoOn'
    BY <1>1, <1>6, <2>2, <2>3 DEF CallsGoOn, FlagType
  <2> QED
    BY <1>6, <2>2, <2>4, <2>5 DEF LiveQueue, LiveEntry
<1>10. CASE Lock(t) \/ Full(t) \/ Send(t)
  <2>1. UNCHANGED <<late, queue, calls, ok>>
    BY <1>10 DEF Lock, Full, Send, handle, history
  <2>2. \A u \in Threads : pc'[u] = "idle" <=> pc[u] = "idle"
    BY <1>1, <1>10 DEF Lock, Full, Send, CallType
  <2> QED
    BY <1>8, <2>1, <2>2
<1>11. CASE Append1(t)
  <2> DEFINE e == Head(todo[t])
  <2>1. /\ queue' = Append(queue, e) /\ UNCHANGED <<late, pc, calls, ok>>
        /\ pc[t] = "append" /\ todo[t] # <<>>
    BY <1>11 DEF Append1, history
  <2>2. e \in Own(t) /\ e \in Entry
    BY <1>1, <2>1, HeadEntry
  <2>3. LiveEntry(e)
    BY <2>1, <2>2 DEF LiveEntry, Own
  <2> HIDE DEF e
  <2>4. ASSUME NEW i \in DOMAIN queue' PROVE LiveEntry(queue'[i])
    <3>1. CASE i = Len(queue) + 1
      BY <1>7, <2>1, <2>3, <3>1
    <3>2. CASE i # Len(queue) + 1
      <4>1. i \in DOMAIN queue /\ queue'[i] = queue[i]
        BY <1>7, <2>1, <3>2
      <4> QED
        BY <1>6, <4>1 DEF LiveQueue
    <3> QED
      BY <3>1, <3>2
  <2>5. ASSUME NEW i \in DOMAIN queue', queue'[i].op = "rx"
        PROVE  pc'[queue'[i].dst.thread] # "idle" /\ calls'[queue'[i].dst.thread] = queue'[i].dst.call
    BY <2>1, <2>4, <2>5 DEF LiveEntry
  <2> QED
    BY <1>6, <2>1, <2>5 DEF LiveQueue, LiveEntry, CallsGoOn
<1>12. CASE EndSection(t)
  <2>1. /\ pc[t] = "append" /\ ~(Sends(t) /\ queue # <<>>) /\ Leave(t, ok[t])
        /\ UNCHANGED <<queue, call, calls, late>>
    BY <1>12 DEF EndSection, history
  <2>2. ok[t] = TRUE
    BY <1>1, <1>6, <2>1 DEF CallsGoOn, FlagType
  <2>3. /\ \A u \in Threads \ {t} : pc'[u] = pc[u]
        /\ pc'[t] = "idle" => section[t] + 1 = NumSections(call[t])
    BY <1>1, <2>1, LeaveCall
  <2>4. pc'[t] = "idle" => queue = <<>>
    BY <1>1, <2>1, <2>2, <2>3, LastSends
  <2>5. ASSUME NEW i \in DOMAIN queue', queue'[i].op = "rx"
        PROVE  pc'[queue'[i].dst.thread] # "idle" /\ calls'[queue'[i].dst.thread] = queue'[i].dst.call
    <3>1. queue[i].dst.thread \in Threads /\ queue # <<>>
      BY <1>7, <2>1, <2>5 DEF Entry
    <3>2. pc[queue[i].dst.thread] # "idle" /\ calls[queue[i].dst.thread] = queue[i].dst.call
      BY <1>6, <2>1, <2>5 DEF LiveQueue, LiveEntry
    <3> QED
      BY <2>1, <2>3, <2>4, <3>1, <3>2
  <2>6. pc'[t] # "idle" => ok'[t] = TRUE
    BY <1>1, <2>1, <2>2, Unanswered DEF FlagType
  <2>7. \A u \in Threads \ {t} : ok'[u] = ok[u]
    BY <1>1, <2>1 DEF Leave, FlagType
  <2>8. CallsGoOn'
    BY <1>6, <2>3, <2>6, <2>7 DEF CallsGoOn
  <2> QED
    BY <1>6, <2>1, <2>5, <2>8 DEF LiveQueue, LiveEntry
<1>13. CASE Transfer(t)
  <2> DEFINE e == queue[sent + 1]
             live == calls[e.dst.thread] = e.dst.call /\ pc[e.dst.thread] # "idle"
  <2>1. /\ late' = (late \/ (e.op = "rx" /\ ~live)) /\ UNCHANGED <<queue, calls, pc, ok>>
        /\ sent < Len(queue)
    BY <1>13 DEF Transfer, handle
  <2>2. sent + 1 \in DOMAIN queue
    BY <1>1, <2>1 DEF HandleType
  <2>3. LiveEntry(e)
    BY <1>6, <2>2 DEF LiveQueue
  <2>4. e.op = "rx" => live
    BY <2>3 DEF LiveEntry
  <2> HIDE DEF e, live
  <2>5. late' = FALSE
    BY <1>6, <2>1, <2>4
  <2> QED
    BY <1>6, <2>1, <2>5 DEF LiveQueue, LiveEntry, CallsGoOn
<1>14. CASE TransferDone(t)
  <2>1. queue' = <<>> /\ UNCHANGED <<call, calls, late>>
    BY <1>14 DEF TransferDone, history
  <2>2. LiveQueue'
    BY <2>1 DEF LiveQueue
  <2>3. CASE pc[t] = "full"
    <3>1. pc' = [pc EXCEPT ![t] = "append"] /\ ok' = ok
      BY <1>14, <2>3 DEF TransferDone
    <3> QED
      BY <1>1, <1>6, <2>1, <2>2, <2>3, <3>1 DEF CallsGoOn, CallType
  <2>4. CASE pc[t] = "send"
    <3>1. Leave(t, ok[t])
      BY <1>14, <2>4 DEF TransferDone
    <3>2. ok[t] = TRUE
      BY <1>1, <1>6, <2>4 DEF CallsGoOn, FlagType
    <3>3. \A u \in Threads \ {t} : pc'[u] = pc[u]
      BY <1>1, <2>1, <2>4, <3>1, LeaveCall
    <3>4. pc'[t] # "idle" => ok'[t] = TRUE
      BY <1>1, <2>1, <2>4, <3>1, <3>2, Unanswered DEF FlagType
    <3>5. \A u \in Threads \ {t} : ok'[u] = ok[u]
      BY <1>1, <3>1 DEF Leave, FlagType
    <3> QED
      BY <1>6, <2>1, <2>2, <3>3, <3>4, <3>5 DEF CallsGoOn
  <2> QED
    BY <1>14, <2>3, <2>4 DEF TransferDone
<1> QED
  BY <1>2, <1>4, <1>9, <1>10, <1>11, <1>12, <1>13, <1>14

LateInv == Types /\ NothingLate

LEMMA LateInit == Init => LateInv
<1> SUFFICES ASSUME Init PROVE LateInv
  OBVIOUS
<1>1. NothingLate
  BY DEF Init, NothingLate, LiveQueue, CallsGoOn
<1> QED
  BY <1>1, TypesInit DEF LateInv

LEMMA LateStep == LateInv /\ [Next]_vars => LateInv'
<1> SUFFICES ASSUME LateInv, [Next]_vars PROVE LateInv'
  OBVIOUS
<1> USE DEF LateInv
<1>1. CASE Next
  BY <1>1, TypesKeep, LateKeeps
<1>2. CASE UNCHANGED vars
  <2>1. UNCHANGED <<queue, pc, calls, ok, late, faults>>
    BY <1>2 DEF vars, handle, threads, history
  <2> QED
    BY <1>2, <2>1, TypesKeep DEF NothingLate, LiveQueue, LiveEntry, CallsGoOn
<1> QED
  BY <1>1, <1>2

\* Nothing is received into the stack frame of a call that has returned, as long as no
\* ioctl fails: for any number of threads that share the queue and in any order.
THEOREM NothingIsLate == Spec => []NoLateReceive
<1>1. LateInv => NoLateReceive
  BY DEF LateInv, NothingLate, NoLateReceive
<1> QED
  BY <1>1, LateInit, LateStep, PTL DEF Spec

-----------------------------------------------------------------------------
\* What a call receives.  All that is still to come in the queue and what the thread in a
\* section has still to append are one line of entries, which an append only moves along.

Line(t) == queue \o todo[t]

Now == [mode |-> mode, buf |-> buf, chan |-> chan, out |-> out]

ChanOps == {"chan"}

\* A board that has now selected has v selected after the entries m + 1 .. n of l.
From(l, m, n, ops, now, v) ==
    \/ now = v /\ \A j \in m + 1 .. n : l[j].op \notin ops
    \/ \E k \in m + 1 .. n : l[k].op \in ops /\ l[k].arg = v /\ \A j \in k + 1 .. n : l[j].op \notin ops

\* The board b puts a out after those entries.
Reg(l, n, a) == l[n].op = "reg" /\ l[n].arg = Register /\ a = <<Register, 0>>

Meta(b, l, m, n, a) ==
    /\ l[n].op = "reg" /\ l[n].arg = Metadata
    /\ \E v \in Buffers : a = <<Metadata, v>> /\ From(l, m, n - 1, BufOps, b.buf, v)

Wave(b, l, m, n, a) ==
    /\ l[n].op = "addr"
    /\ From(l, m, n - 1, ModeOps, b.mode, "waveforms")
    /\ \E v \in Buffers, c \in Channels :
           /\ a = <<c, v>>
           /\ From(l, m, n - 1, BufOps, b.buf, v)
           /\ From(l, m, n - 1, ChanOps, b.chan, c)

Puts(b, l, m, n, a) ==
    \/ n = m /\ b.out = a
    \/ n > m /\ (Reg(l, n, a) \/ Meta(b, l, m, n, a) \/ Wave(b, l, m, n, a))

\* The entry e receives what the call k of the thread t, made with c, has asked for.
Asks(t, k, c, e) ==
    e.op = "rx" /\ e.dst.thread = t /\ e.dst.call = k /\ e.dst.slot \in DOMAIN Asked(c)

\* Whatever is still to be received for that call is what it has asked for, and the slot s
\* is still to be received.
Right(b, l, m, t, k, c) ==
    \A i \in m + 1 .. Len(l) :
        Asks(t, k, c, l[i]) => Puts(b, l, m, i - 1, Asked(c)[l[i].dst.slot])

Awaits(l, m, t, k, s) ==
    \E i \in m + 1 .. Len(l) :
        l[i].op = "rx" /\ l[i].dst.thread = t /\ l[i].dst.call = k /\ l[i].dst.slot = s

\* The section in which a slot is read, and whether it has still to begin.
SectionOf(c, s) == IF c.kind \in {"event", "status"} THEN s ELSE 0

Later(t, s) == IF pc[t] = "lock" THEN section[t] <= SectionOf(call[t], s)
                                 ELSE section[t] < SectionOf(call[t], s)

Has(t, s) == data[t][s] = Asked(call[t])[s]

Promise(t) == Right(Now, Line(t), sent, t, calls[t], call[t])

Cover(t) == \A s \in DOMAIN Asked(call[t]) :
                Has(t, s) \/ Later(t, s) \/ Awaits(Line(t), sent, t, calls[t], s)

\* In mark_buffers_done everything has been received.
Marking(t) == call[t].kind = "event" /\ section[t] = NumChan + 2

Complete(t) == Marking(t) => \A i \in DOMAIN Line(t) : ~Asks(t, calls[t], call[t], Line(t)[i])

\* The calls that OwnData is about: nothing has disturbed them.  The sections of an event go
\* on whatever ok is.
Sound(t) ==
    /\ ok[t] \/ (pc[t] # "idle" /\ call[t].kind = "event")
    /\ Undisturbed(t)
    /\ call[t].kind = "raw" => faults = 0

Served(t) ==
    Sound(t) => IF pc[t] = "idle" THEN \A s \in DOMAIN Asked(call[t]) : Has(t, s)
                                  ELSE Promise(t) /\ Cover(t) /\ Complete(t)

\* No transfer is for a call that is still to come.
OldEntries == \A i \in DOMAIN queue :
                  queue[i].op = "rx" => queue[i].dst.call <= calls[queue[i].dst.thread]

\* Without a mutex one thread uses the handle.
Sharing ==
    /\ \A t \in Threads : pc[t] # "idle" => calls[t] > 0
    /\ ~enable_locking => \A t, u \in Threads : calls[t] > 0 /\ calls[u] > 0 => t = u

DataInv == OldEntries /\ Sharing /\ \A t \in Threads : Served(t)

\* Selections and answers: nothing is executed twice, and what comes later does not matter.
LEMMA FromNow ==
    ASSUME NEW l, NEW m \in Nat, NEW ops, NEW now, NEW v, From(l, m, m, ops, now, v)
    PROVE  now = v
BY DEF From

LEMMA FromPrefix ==
    ASSUME NEW l, NEW r, NEW m \in Nat, NEW n \in Nat, \A j \in m + 1 .. n : l[j] = r[j],
           NEW ops, NEW now, NEW v, From(l, m, n, ops, now, v)
    PROVE  From(r, m, n, ops, now, v)
<1>1. ASSUME NEW k \in m + 1 .. n, NEW j \in k + 1 .. n PROVE j \in m + 1 .. n
  OBVIOUS
<1> QED
  BY <1>1 DEF From

LEMMA FromPast ==
    ASSUME NEW l, NEW m \in Nat, NEW n \in Nat, m <= n, NEW ops, NEW now, NEW v,
           From(l, m, n, ops, now, v), l[n + 1].op \notin ops
    PROVE  From(l, m, n + 1, ops, now, v)
<1>1. CASE now = v /\ \A j \in m + 1 .. n : l[j].op \notin ops
  <2>1. \A j \in m + 1 .. n + 1 : j \in m + 1 .. n \/ j = n + 1
    OBVIOUS
  <2> QED
    BY <1>1, <2>1 DEF From
<1>2. ASSUME NEW k \in m + 1 .. n, l[k].op \in ops, l[k].arg = v,
             \A j \in k + 1 .. n : l[j].op \notin ops
      PROVE  From(l, m, n + 1, ops, now, v)
  <2>1. k \in m + 1 .. n + 1 /\ \A j \in k + 1 .. n + 1 : j \in k + 1 .. n \/ j = n + 1
    OBVIOUS
  <2> QED
    BY <1>2, <2>1 DEF From
<1> QED
  BY <1>1, <1>2 DEF From

LEMMA FromHere ==
    ASSUME NEW l, NEW m \in Nat, NEW n \in Nat, m <= n, NEW ops, NEW now,
           l[n + 1].op \in ops
    PROVE  From(l, m, n + 1, ops, now, l[n + 1].arg)
<1>1. n + 1 \in m + 1 .. n + 1 /\ (n + 1) + 1 .. n + 1 = {}
  OBVIOUS
<1> QED
  BY <1>1 DEF From

LEMMA FromStep ==
    ASSUME NEW l, NEW m \in Nat, NEW n \in Nat, m < n, NEW ops, NEW now, NEW v,
           From(l, m, n, ops, now, v),
           NEW then, then = IF l[m + 1].op \in ops THEN l[m + 1].arg ELSE now
    PROVE  From(l, m + 1, n, ops, then, v)
<1>1. m + 1 \in m + 1 .. n /\ \A j \in (m + 1) + 1 .. n : j \in m + 1 .. n
  OBVIOUS
<1>2. CASE now = v /\ \A j \in m + 1 .. n : l[j].op \notin ops
  BY <1>1, <1>2 DEF From
<1>3. ASSUME NEW k \in m + 1 .. n, l[k].op \in ops, l[k].arg = v,
             \A j \in k + 1 .. n : l[j].op \notin ops
      PROVE  From(l, m + 1, n, ops, then, v)
  <2>1. CASE k = m + 1
    BY <1>3, <2>1 DEF From
  <2>2. CASE k # m + 1
    <3>1. k \in (m + 1) + 1 .. n
      BY <2>2
    <3> QED
      BY <1>3, <3>1 DEF From
  <2> QED
    BY <2>1, <2>2
<1> QED
  BY <1>2, <1>3 DEF From

LEMMA FromShift ==
    ASSUME NEW l, NEW d, NEW m \in Nat, NEW n \in Nat, \A j \in 1 .. n : l[m + j] = d[j],
           NEW ops, NEW now, NEW v, From(l, m, m + n, ops, now, v)
    PROVE  From(d, 0, n, ops, now, v)
<1>1. CASE now = v /\ \A j \in m + 1 .. m + n : l[j].op \notin ops
  <2>1. ASSUME NEW j \in 0 + 1 .. n PROVE d[j].op \notin ops
    <3>1. m + j \in m + 1 .. m + n /\ j \in 1 .. n
      OBVIOUS
    <3> QED
      BY <1>1, <3>1
  <2> QED
    BY <1>1, <2>1 DEF From
<1>2. ASSUME NEW k \in m + 1 .. m + n, l[k].op \in ops, l[k].arg = v,
             \A j \in k + 1 .. m + n : l[j].op \notin ops
      PROVE  From(d, 0, n, ops, now, v)
  <2>1. k - m \in 1 .. n /\ m + (k - m) = k /\ k - m \in 0 + 1 .. n
    OBVIOUS
  <2>2. d[k - m] = l[k]
    BY <2>1
  <2>3. ASSUME NEW j \in (k - m) + 1 .. n PROVE d[j].op \notin ops
    <3>1. j \in 1 .. n /\ m + j \in k + 1 .. m + n
      BY <2>1
    <3> QED
      BY <1>2, <3>1
  <2> QED
    BY <1>2, <2>1, <2>2, <2>3 DEF From
<1> QED
  BY <1>1, <1>2 DEF From

LEMMA PutsPrefix ==
    ASSUME NEW b, NEW l, NEW r, NEW m \in Nat, NEW n \in Nat, NEW a, m <= n,
           \A j \in m + 1 .. n : l[j] = r[j], Puts(b, l, m, n, a)
    PROVE  Puts(b, r, m, n, a)
<1>1. CASE n = m
  BY <1>1 DEF Puts
<1>2. CASE n > m
  <2>1. n - 1 \in Nat /\ n \in m + 1 .. n /\ \A j \in m + 1 .. n - 1 : l[j] = r[j]
    BY <1>2
  <2>2. \A ops, now, v : From(l, m, n - 1, ops, now, v) => From(r, m, n - 1, ops, now, v)
    BY <2>1, FromPrefix
  <2>3. l[n] = r[n]
    BY <2>1
  <2> QED
    BY <1>2, <2>2, <2>3 DEF Puts, Reg, Meta, Wave
<1> QED
  BY <1>1, <1>2

\* The board after the entry e.
After(b, e, c) ==
    /\ c.mode = IF e.op \in ModeOps THEN e.arg ELSE b.mode
    /\ c.buf = IF e.op \in BufOps THEN e.arg ELSE b.buf
    /\ c.chan = IF e.op \in ChanOps THEN e.arg ELSE b.chan
    /\ c.out = CASE e.op = "reg" -> <<e.arg, IF e.arg = Metadata THEN b.buf ELSE 0>>
                 [] e.op = "addr" -> <<IF b.mode = "waveforms" THEN b.chan ELSE Nothing, b.buf>>
                 [] OTHER -> b.out

LEMMA PutsStep ==
    ASSUME NEW b, NEW c, NEW l, NEW m \in Nat, NEW n \in Nat, m < n, NEW a,
           After(b, l[m + 1], c), Puts(b, l, m, n, a)
    PROVE  Puts(c, l, m + 1, n, a)
<1>1. CASE n = m + 1
  <2> DEFINE e == l[m + 1]
  <2>1. n - 1 = m
    BY <1>1
  <2>2. \A ops, now, v : From(l, m, n - 1, ops, now, v) => now = v
    BY <2>1, FromNow
  <2>3. CASE Reg(l, n, a)
    <3>1. e.op = "reg" /\ e.arg # Metadata /\ a = <<e.arg, 0>>
      BY <1>1, <2>3 DEF Reg, Register, Metadata
    <3>2. c.out = a
      BY <3>1 DEF After
    <3> QED
      BY <1>1, <3>2 DEF Puts
  <2>4. CASE Meta(b, l, m, n, a)
    <3>1. e.op = "reg" /\ e.arg = Metadata /\ a = <<Metadata, b.buf>>
      BY <1>1, <2>2, <2>4 DEF Meta
    <3>2. c.out = a
      BY <3>1 DEF After
    <3> QED
      BY <1>1, <3>2 DEF Puts
  <2>5. CASE Wave(b, l, m, n, a)
    <3>1. e.op = "addr" /\ b.mode = "waveforms" /\ a = <<b.chan, b.buf>>
      BY <1>1, <2>2, <2>5 DEF Wave
    <3>2. c.out = a
      BY <3>1 DEF After
    <3> QED
      BY <1>1, <3>2 DEF Puts
  <2> QED
    BY <2>3, <2>4, <2>5 DEF Puts
<1>2. CASE n > m + 1
  <2>1. n - 1 \in Nat /\ m < n - 1
    BY <1>2
  <2>2. /\ \A v : From(l, m, n - 1, ModeOps, b.mode, v) => From(l, m + 1, n - 1, ModeOps, c.mode, v)
        /\ \A v : From(l, m, n - 1, BufOps, b.buf, v) => From(l, m + 1, n - 1, BufOps, c.buf, v)
        /\ \A v : From(l, m, n - 1, ChanOps, b.chan, v) => From(l, m + 1, n - 1, ChanOps, c.chan, v)
    BY <2>1, FromStep DEF After
  <2>3. Puts(b, l, m, n, a) => Reg(l, n, a) \/ Meta(b, l, m, n, a) \/ Wave(b, l, m, n, a)
    BY DEF Puts
  <2>4. Meta(b, l, m, n, a) => Meta(c, l, m + 1, n, a)
    BY <2>2 DEF Meta
  <2>5. Wave(b, l, m, n, a) => Wave(c, l, m + 1, n, a)
    BY <2>2 DEF Wave
  <2> QED
    BY <1>2, <2>3, <2>4, <2>5 DEF Puts
<1> QED
  BY <1>1, <1>2

LEMMA PutsShift ==
    ASSUME NEW b, NEW l, NEW d, NEW m \in Nat, NEW n \in Nat, NEW a,
           \A j \in 1 .. n : l[m + j] = d[j], Puts(b, l, m, m + n, a)
    PROVE  Puts(b, d, 0, n, a)
<1>1. CASE n = 0
  BY <1>1 DEF Puts
<1>2. CASE n > 0
  <2>1. n - 1 \in Nat /\ (m + n) - 1 = m + (n - 1) /\ \A j \in 1 .. n - 1 : l[m + j] = d[j]
    BY <1>2
  <2>2. \A ops, now, v : From(l, m, (m + n) - 1, ops, now, v) => From(d, 0, n - 1, ops, now, v)
    BY <2>1, FromShift
  <2>3. d[n] = l[m + n] /\ m + n > m
    BY <1>2
  <2> QED
    BY <1>2, <2>2, <2>3 DEF Puts, Reg, Meta, Wave
<1> QED
  BY <1>1, <1>2

LEMMA RightAppend ==
    ASSUME NEW b, NEW l \in Seq(Entry), NEW e \in Entry, NEW m \in 0 .. Len(l),
           NEW t, NEW k, NEW c, Right(b, l, m, t, k, c),
           Asks(t, k, c, e) => Puts(b, l, m, Len(l), Asked(c)[e.dst.slot])
    PROVE  Right(b, Append(l, e), m, t, k, c)
<1> DEFINE r == Append(l, e)
<1>1. /\ Len(l) \in Nat /\ Len(r) = Len(l) + 1 /\ r[Len(l) + 1] = e
      /\ \A j \in 1 .. Len(l) : r[j] = l[j]
  OBVIOUS
<1> HIDE DEF r
<1>2. ASSUME NEW n \in Nat, NEW a, m <= n, n <= Len(l), Puts(b, l, m, n, a) PROVE Puts(b, r, m, n, a)
  <2>1. \A j \in m + 1 .. n : l[j] = r[j]
    BY <1>1, <1>2
  <2> QED
    BY <1>2, <2>1, PutsPrefix
<1>3. ASSUME NEW i \in m + 1 .. Len(r), Asks(t, k, c, r[i])
      PROVE  Puts(b, r, m, i - 1, Asked(c)[r[i].dst.slot])
  <2>1. i - 1 \in Nat /\ m <= i - 1 /\ i - 1 <= Len(l)
    BY <1>1
  <2>2. CASE i = Len(l) + 1
    <3>1. i - 1 = Len(l) /\ r[i] = e
      BY <1>1, <2>2
    <3> QED
      BY <1>2, <1>3, <2>1, <3>1
  <2>3. CASE i # Len(l) + 1
    <3>1. i \in m + 1 .. Len(l) /\ r[i] = l[i]
      BY <1>1, <2>3
    <3> QED
      BY <1>2, <1>3, <2>1, <3>1 DEF Right
  <2> QED
    BY <2>2, <2>3
<1> QED
  BY <1>3 DEF Right, r

LEMMA RightStep ==
    ASSUME NEW b, NEW d, NEW l, NEW m \in Nat, Len(l) \in Nat, NEW t, NEW k, NEW c,
           After(b, l[m + 1], d), Right(b, l, m, t, k, c)
    PROVE  Right(d, l, m + 1, t, k, c)
<1>1. ASSUME NEW i \in (m + 1) + 1 .. Len(l), Asks(t, k, c, l[i])
      PROVE  Puts(d, l, m + 1, i - 1, Asked(c)[l[i].dst.slot])
  <2>1. i \in m + 1 .. Len(l) /\ i - 1 \in Nat /\ m < i - 1
    OBVIOUS
  <2>2. Puts(b, l, m, i - 1, Asked(c)[l[i].dst.slot])
    BY <1>1, <2>1 DEF Right
  <2> QED
    BY <2>1, <2>2, PutsStep
<1> QED
  BY <1>1 DEF Right

\* What is sent leaves the line.
LEMMA Moved ==
    ASSUME NEW q \in Seq(Entry), NEW d \in Seq(Entry)
    PROVE  /\ q \o d \in Seq(Entry) /\ Len(q \o d) = Len(q) + Len(d)
           /\ Len(q) \in Nat /\ Len(d) \in Nat
           /\ \A j \in 1 .. Len(q) : (q \o d)[j] = q[j]
           /\ \A j \in 1 .. Len(d) : (q \o d)[Len(q) + j] = d[j]
           /\ <<>> \o d = d /\ q \o <<>> = q
OBVIOUS

LEMMA RightMoved ==
    ASSUME NEW b, NEW q \in Seq(Entry), NEW d \in Seq(Entry), NEW t, NEW k, NEW c,
           Right(b, q \o d, Len(q), t, k, c)
    PROVE  Right(b, d, 0, t, k, c)
<1> DEFINE l == q \o d
           m == Len(q)
<1>1. m \in Nat /\ Len(d) \in Nat /\ Len(l) = m + Len(d) /\ \A j \in 1 .. Len(d) : l[m + j] = d[j]
  BY Moved
<1>2. Right(b, l, m, t, k, c)
  OBVIOUS
<1> HIDE DEF l, m
<1>3. ASSUME NEW i \in 0 + 1 .. Len(d), Asks(t, k, c, d[i])
      PROVE  Puts(b, d, 0, i - 1, Asked(c)[d[i].dst.slot])
  <2>1. /\ m + i \in m + 1 .. Len(l) /\ l[m + i] = d[i] /\ i - 1 \in Nat /\ (m + i) - 1 = m + (i - 1)
        /\ \A j \in 1 .. i - 1 : j \in 1 .. Len(d)
    BY <1>1
  <2>2. Puts(b, l, m, m + (i - 1), Asked(c)[d[i].dst.slot])
    BY <1>2, <1>3, <2>1 DEF Right
  <2> QED
    BY <1>1, <2>1, <2>2, PutsShift
<1> QED
  BY <1>3 DEF Right

LEMMA AwaitsMoved ==
    ASSUME NEW q \in Seq(Entry), NEW d \in Seq(Entry), NEW t, NEW k, NEW s,
           Awaits(q \o d, Len(q), t, k, s)
    PROVE  Awaits(d, 0, t, k, s)
<1> DEFINE l == q \o d
           m == Len(q)
<1>1. m \in Nat /\ Len(d) \in Nat /\ Len(l) = m + Len(d) /\ \A j \in 1 .. Len(d) : l[m + j] = d[j]
  BY Moved
<1>2. Awaits(l, m, t, k, s)
  OBVIOUS
<1> HIDE DEF l, m
<1>3. PICK i \in m + 1 .. Len(l) :
          l[i].op = "rx" /\ l[i].dst.thread = t /\ l[i].dst.call = k /\ l[i].dst.slot = s
  BY <1>2 DEF Awaits
<1>4. i - m \in 1 .. Len(d) /\ m + (i - m) = i /\ i - m \in 0 + 1 .. Len(d)
  BY <1>1
<1>5. d[i - m] = l[i]
  BY <1>1, <1>4
<1> QED
  BY <1>3, <1>4, <1>5 DEF Awaits

-----------------------------------------------------------------------------
\* What a section appends asks the board for what the call has asked for.

LEMMA CmdLine ==
    ASSUME NEW b, NEW l \in Seq(Entry), NEW e \in Entry, NEW m \in 0 .. Len(l), e.op # "rx",
           NEW t, NEW k, NEW c, Right(b, l, m, t, k, c)
    PROVE  /\ Append(l, e) \in Seq(Entry) /\ m \in 0 .. Len(Append(l, e))
           /\ Right(b, Append(l, e), m, t, k, c)
           /\ \A ops, now : e.op \in ops
                  => From(Append(l, e), m, Len(Append(l, e)), ops, now, e.arg)
           /\ \A ops, now, v : e.op \notin ops /\ From(l, m, Len(l), ops, now, v)
                  => From(Append(l, e), m, Len(Append(l, e)), ops, now, v)
<1> DEFINE r == Append(l, e)
           n == Len(l)
<1>1. /\ n \in Nat /\ Len(r) = n + 1 /\ r[n + 1] = e /\ r \in Seq(Entry)
      /\ \A j \in 1 .. n : l[j] = r[j]
  OBVIOUS
<1>2. Right(b, r, m, t, k, c)
  BY RightAppend DEF Asks
<1> HIDE DEF r, n
<1>3. m \in Nat /\ m <= n /\ \A j \in m + 1 .. n : l[j] = r[j]
  BY <1>1 DEF n
<1>4. ASSUME NEW ops, NEW now, e.op \in ops PROVE From(r, m, n + 1, ops, now, e.arg)
  BY <1>1, <1>3, <1>4, FromHere
<1>5. ASSUME NEW ops, NEW now, NEW v, e.op \notin ops, From(l, m, n, ops, now, v)
      PROVE  From(r, m, n + 1, ops, now, v)
  <2>1. From(r, m, n, ops, now, v)
    BY <1>1, <1>3, <1>5, FromPrefix
  <2> QED
    BY <1>1, <1>3, <1>5, <2>1, FromPast
<1>6. m \in 0 .. Len(r)
  BY <1>1, <1>3
<1> QED
  BY <1>1, <1>2, <1>4, <1>5, <1>6 DEF r, n

LEMMA WhenLine ==
    ASSUME NEW b, NEW l \in Seq(Entry), NEW e \in Entry, NEW m \in 0 .. Len(l), e.op # "rx",
           NEW t, NEW k, NEW c, Right(b, l, m, t, k, c), NEW cond \in BOOLEAN
    PROVE  /\ l \o When(cond, e) \in Seq(Entry) /\ m \in 0 .. Len(l \o When(cond, e))
           /\ Right(b, l \o When(cond, e), m, t, k, c)
           /\ \A ops, now : cond /\ e.op \in ops
                  => From(l \o When(cond, e), m, Len(l \o When(cond, e)), ops, now, e.arg)
           /\ \A ops, now, v : (~cond \/ e.op \notin ops) /\ From(l, m, Len(l), ops, now, v)
                  => From(l \o When(cond, e), m, Len(l \o When(cond, e)), ops, now, v)
<1>1. CASE cond
  <2>1. l \o When(cond, e) = Append(l, e)
    BY <1>1 DEF When
  <2> QED
    BY <1>1, <2>1, CmdLine
<1>2. CASE ~cond
  <2>1. l \o When(cond, e) = l
    BY <1>2 DEF When
  <2> QED
    BY <1>2, <2>1
<1> QED
  BY <1>1, <1>2

\* A command that makes the board put something out, and the transfer that receives it.
LEMMA PairLine ==
    ASSUME NEW b, NEW l \in Seq(Entry), NEW e \in Entry, NEW x \in Entry, NEW m \in 0 .. Len(l),
           e.op # "rx", x.op = "rx", NEW t, NEW k, NEW c, Right(b, l, m, t, k, c),
           x.dst.thread = t, x.dst.call = k,
           Asks(t, k, c, x) => LET a == Asked(c)[x.dst.slot]
                                   r == Append(l, e)
                               IN  \/ Reg(r, Len(l) + 1, a) \/ Meta(b, r, m, Len(l) + 1, a)
                                   \/ Wave(b, r, m, Len(l) + 1, a)
    PROVE  /\ Right(b, l \o <<e, x>>, m, t, k, c)
           /\ Awaits(l \o <<e, x>>, m, t, k, x.dst.slot)
<1> DEFINE r == Append(l, e)
           q == Append(r, x)
<1>1. q = l \o <<e, x>>
  OBVIOUS
<1>2. r \in Seq(Entry) /\ m \in 0 .. Len(r) /\ Right(b, r, m, t, k, c)
  BY CmdLine
<1>3. Len(r) = Len(l) + 1 /\ Len(r) > m /\ Len(l) \in Nat
  OBVIOUS
<1>4. Asks(t, k, c, x) => Puts(b, r, m, Len(r), Asked(c)[x.dst.slot])
  <2> HIDE DEF r
  <2> QED
    BY <1>3 DEF Puts, r
<1> HIDE DEF r
<1>5. Right(b, q, m, t, k, c)
  BY <1>2, <1>4, RightAppend
<1>6. Len(q) \in m + 1 .. Len(q) /\ q[Len(q)] = x
  BY <1>2, <1>3
<1> HIDE DEF q
<1>7. Awaits(q, m, t, k, x.dst.slot)
  BY <1>6 DEF Awaits
<1> QED
  BY <1>1, <1>5, <1>7

LEMMA EntryFields ==
    ASSUME NEW op, NEW arg, NEW t, NEW slot
    PROVE  /\ Cmd(op, arg).op = op /\ Cmd(op, arg).arg = arg
           /\ Rx(t, slot).op = "rx" /\ Rx(t, slot).dst.thread = t
           /\ Rx(t, slot).dst.call = calls[t] /\ Rx(t, slot).dst.slot = slot
BY DEF Cmd, Rx

LEMMA OwnEntry == \A t \in Threads : Own(t) \subseteq Entry
BY DEF Own

\* A register is read, and the call asks for nothing else there.
LEMMA RegisterLine ==
    ASSUME CallType, NEW b, NEW l \in Seq(Entry), NEW m \in 0 .. Len(l), NEW t \in Threads, NEW c,
           NEW reg \in {Metadata, Register}, NEW slot \in Slots,
           Right(b, l, m, t, calls[t], c),
           slot \in DOMAIN Asked(c) =>
               \/ reg = Register /\ Asked(c)[slot] = <<Register, 0>>
               \/ /\ reg = Metadata
                  /\ \E v \in Buffers : /\ Asked(c)[slot] = <<Metadata, v>>
                                        /\ From(l, m, Len(l), BufOps, b.buf, v)
    PROVE  /\ Right(b, l \o ReadRegister(t, reg, slot), m, t, calls[t], c)
           /\ Awaits(l \o ReadRegister(t, reg, slot), m, t, calls[t], slot)
<1> DEFINE e == Cmd("reg", reg)
           x == Rx(t, slot)
           r == Append(l, e)
<1>1. e \in Entry /\ x \in Entry
  <2>1. e \in Own(t)
    BY CmdOwn DEF Ops, Args
  <2> QED
    BY <2>1, RxOwn, OwnEntry
<1>2. e.op = "reg" /\ e.arg = reg /\ x.op = "rx" /\ x.dst.thread = t /\ x.dst.call = calls[t]
      /\ x.dst.slot = slot
  BY EntryFields
<1>3. ReadRegister(t, reg, slot) = <<e, x>>
  BY DEF ReadRegister
<1> HIDE DEF e, x
<1>4. r[Len(l) + 1] = e /\ Len(l) \in Nat /\ \A j \in m + 1 .. Len(l) : l[j] = r[j]
  BY <1>1
<1> HIDE DEF r
<1>5. (Len(l) + 1) - 1 = Len(l) /\ m \in Nat
  BY <1>4
<1>7. ASSUME NEW v, From(l, m, Len(l), BufOps, b.buf, v)
      PROVE  From(r, m, Len(l), BufOps, b.buf, v)
  <2> DEFINE n == Len(l)
  <2>1. n \in Nat /\ From(l, m, n, BufOps, b.buf, v) /\ \A j \in m + 1 .. n : l[j] = r[j]
    BY <1>4, <1>7
  <2> HIDE DEF n
  <2>2. From(r, m, n, BufOps, b.buf, v)
    BY <1>5, <2>1, FromPrefix
  <2> QED
    BY <2>2 DEF n
<1>6. Asks(t, calls[t], c, x) => \/ Reg(r, Len(l) + 1, Asked(c)[x.dst.slot])
                                 \/ Meta(b, r, m, Len(l) + 1, Asked(c)[x.dst.slot])
  BY <1>2, <1>4, <1>5, <1>7 DEF Asks, Reg, Meta
<1> QED
  BY <1>1, <1>2, <1>3, <1>6, PairLine DEF r

\* The waveform of a channel is read, and the call asks for this channel of the buffer.
LEMMA ChunksLine ==
    ASSUME CallType, NEW b, NEW l \in Seq(Entry), NEW m \in 0 .. Len(l), NEW t \in Threads, NEW c,
           NEW ch \in Channels, NEW v \in Buffers,
           Right(b, l, m, t, calls[t], c), Asked(c)[ch] = <<ch, v>>,
           From(l, m, Len(l), ModeOps, b.mode, "waveforms"),
           From(l, m, Len(l), BufOps, b.buf, v)
    PROVE  /\ Right(b, Append(l, Cmd("chan", ch)) \o LoopOverChunks(t, ch), m, t, calls[t], c)
           /\ Awaits(Append(l, Cmd("chan", ch)) \o LoopOverChunks(t, ch), m, t, calls[t], ch)
<1> DEFINE h == Cmd("chan", ch)
           e == Cmd("addr", 0)
           x == Rx(t, ch)
           p == Append(l, h)
           r == Append(p, e)
<1>1. h \in Entry /\ e \in Entry /\ x \in Entry
  <2>1. h \in Own(t)
    BY CmdOwn DEF Ops, Args
  <2>2. e \in Own(t)
    BY CmdOwn, Basics DEF Ops, Args
  <2> QED
    BY <2>1, <2>2, RxOwn, OwnEntry, Basics
<1>2. /\ h.op = "chan" /\ h.arg = ch /\ e.op = "addr" /\ x.op = "rx" /\ x.dst.thread = t
      /\ x.dst.call = calls[t] /\ x.dst.slot = ch
  BY EntryFields
<1>3. LoopOverChunks(t, ch) = <<e, x>>
  BY DEF LoopOverChunks
<1> HIDE DEF h, e, x
<1>4. /\ p \in Seq(Entry) /\ m \in 0 .. Len(p) /\ Right(b, p, m, t, calls[t], c)
      /\ From(p, m, Len(p), ChanOps, b.chan, ch)
      /\ From(p, m, Len(p), ModeOps, b.mode, "waveforms")
      /\ From(p, m, Len(p), BufOps, b.buf, v)
  <2>1. h.op # "rx" /\ h.op \in ChanOps /\ h.op \notin ModeOps /\ h.op \notin BufOps
    BY <1>2 DEF ChanOps, ModeOps, BufOps
  <2> QED
    BY <1>1, <1>2, <2>1, CmdLine
<1> HIDE DEF p
<1>5. r[Len(p) + 1] = e /\ Len(p) \in Nat /\ \A j \in m + 1 .. Len(p) : p[j] = r[j]
  BY <1>1, <1>4
<1> HIDE DEF r
<1>6. (Len(p) + 1) - 1 = Len(p) /\ m \in Nat
  BY <1>4, <1>5
<1>7. ASSUME NEW ops, NEW now, NEW w, From(p, m, Len(p), ops, now, w)
      PROVE  From(r, m, Len(p), ops, now, w)
  <2> DEFINE n == Len(p)
  <2>1. n \in Nat /\ From(p, m, n, ops, now, w) /\ \A j \in m + 1 .. n : p[j] = r[j]
    BY <1>5, <1>7
  <2> HIDE DEF n
  <2>2. From(r, m, n, ops, now, w)
    BY <1>6, <2>1, FromPrefix
  <2> QED
    BY <2>2 DEF n
<1>8. Asks(t, calls[t], c, x) => Wave(b, r, m, Len(p) + 1, Asked(c)[x.dst.slot])
  BY <1>2, <1>4, <1>5, <1>6, <1>7 DEF Wave
<1> QED
  BY <1>1, <1>2, <1>3, <1>4, <1>8, PairLine DEF p, h, r

\* Before anything is appended the board will have selected what the cache lemmas are about.
LEMMA FromLast ==
    ASSUME NEW q \in Seq(Entry), NEW m \in 0 .. Len(q), NEW ops, NEW now, Done(q, m, ops, now)
    PROVE  From(q, m, Len(q), ops, now, Last(q, ops, now))
<1>1. CASE \A j \in DOMAIN q : q[j].op \notin ops
  <2>1. \A j \in m + 1 .. Len(q) : j \in DOMAIN q
    OBVIOUS
  <2> QED
    BY <1>1, <2>1, LastNone DEF From
<1>2. CASE \E j \in DOMAIN q : q[j].op \in ops
  <2>1. PICK k \in DOMAIN q : q[k].op \in ops /\ \A j \in DOMAIN q : q[j].op \in ops => j <= k
    BY <1>2, LastExists
  <2>2. Last(q, ops, now) = q[k].arg
    BY <2>1, LastAt
  <2>3. k \in 1 .. Len(q) /\ \A j \in k + 1 .. Len(q) : q[j].op \notin ops
    BY <2>1
  <2>4. CASE k > m
    <3>1. k \in m + 1 .. Len(q)
      BY <2>3, <2>4
    <3> QED
      BY <2>1, <2>2, <2>3, <3>1 DEF From
  <2>5. CASE k <= m
    <3>1. k \in 1 .. m /\ (\A j \in k + 1 .. m : j \in k + 1 .. Len(q))
          /\ (\A j \in m + 1 .. Len(q) : j \in k + 1 .. Len(q))
      BY <2>3, <2>5
    <3>2. now = q[k].arg
      BY <2>1, <2>3, <3>1 DEF Done
    <3> QED
      BY <2>2, <2>3, <3>1, <3>2 DEF From
  <2> QED
    BY <2>3, <2>4, <2>5
<1> QED
  BY <1>1, <1>2

LEMMA AskedOf ==
    ASSUME NEW c \in Call
    PROVE  /\ c.kind = "event" => /\ DOMAIN Asked(c) = {0} \cup Channels
                                  /\ Asked(c)[0] = <<Metadata, c.buf>>
                                  /\ \A ch \in Channels : Asked(c)[ch] = <<ch, c.buf>>
           /\ c.kind = "raw" => DOMAIN Asked(c) = {1} /\ Asked(c)[1] = <<1, c.buf>>
           /\ c.kind = "status" => /\ DOMAIN Asked(c) = {0, 1}
                                   /\ \A s \in {0, 1} : Asked(c)[s] = <<Register, 0>>
           /\ c.kind = "register" => DOMAIN Asked(c) = {0} /\ Asked(c)[0] = <<Register, 0>>
           /\ c.kind = "clear_buffer" => DOMAIN Asked(c) = {}
<1>1. 0 \notin Channels
  BY Basics DEF Channels
<1>2. CASE c.kind = "event"
  BY <1>1, <1>2 DEF Asked
<1>3. CASE c.kind # "event"
  BY <1>3 DEF Asked
<1> QED
  BY <1>2, <1>3

LEMMA AskedSlots == ASSUME NEW c \in Call PROVE DOMAIN Asked(c) \subseteq Slots
<1>1. c.kind \in AllKinds
  BY CallFields
<1> QED
  BY <1>1, AskedOf, Basics DEF AllKinds

LEMMA DoneLine ==
    ASSUME CallType, NEW b, NEW l \in Seq(Entry), NEW m \in 0 .. Len(l), NEW t \in Threads,
           NEW c \in Call, c.kind \in {"event", "clear_buffer"}, Right(b, l, m, t, calls[t], c)
    PROVE  Right(b, l \o MarkBuffersDone(t), m, t, calls[t], c)
<1> DEFINE e == Cmd("clear", call[t].buf)
           r == Append(l, e)
           d == ReadRegister(t, Register, NumChan + 1)
<1>1. e \in Entry
  <2>1. call[t].buf \in Buffers
    BY CallFields DEF CallType
  <2>2. e \in Own(t)
    BY <2>1, CmdOwn DEF Ops, Args
  <2> QED
    BY <2>2, OwnEntry
<1>2. NumChan + 1 \notin DOMAIN Asked(c)
  BY AskedOf, Basics DEF Channels
<1>3. e.op # "rx"
  BY EntryFields
<1>4. d \in Seq(Own(t))
  BY RegisterOwn, Basics
<1>5. MarkBuffersDone(t) = <<e>> \o d
  BY DEF MarkBuffersDone
<1> HIDE DEF e, d
<1>6. r \in Seq(Entry) /\ m \in 0 .. Len(r) /\ Right(b, r, m, t, calls[t], c)
  BY <1>1, <1>3, CmdLine
<1>7. l \o MarkBuffersDone(t) = r \o d
  BY <1>1, <1>4, <1>5
<1> HIDE DEF r
<1>8. Right(b, r \o d, m, t, calls[t], c)
  BY <1>2, <1>6, RegisterLine, Basics DEF d
<1> QED
  BY <1>7, <1>8

LEMMA Regrouped ==
    ASSUME NEW x \in Seq(Entry), NEW y \in Seq(Entry), NEW z \in Seq(Entry)
    PROVE  x \o (y \o z) = (x \o y) \o z
OBVIOUS

LEMMA Named == \A x, y \in Seq(Entry) : \E z \in Seq(Entry) : z = x \o y
BY Joined

LEMMA ChannelLine ==
    ASSUME Types, Executed, ModeFollows, BufFollows, NEW t \in Threads, pc[t] = "lock",
           call[t].kind = "event", NEW ch \in Channels, section[t] = ch,
           Right(Now, queue, sent, t, calls[t], call[t])
    PROVE  /\ Right(Now, queue \o ReadChannel(t, ch), sent, t, calls[t], call[t])
           /\ Awaits(queue \o ReadChannel(t, ch), sent, t, calls[t], ch)
<1> DEFINE c == call[t]
           v == c.buf
           md == Cmd("mode", "waveforms")
           rb == Cmd("rebuf", v)
           cm == current_mode # "waveforms"
           cb == current_buf # v
           p == queue \o When(cm, md)
           q == p \o When(cb, rb)
<1>1. CallType /\ HandleType /\ queue \in Seq(Entry) /\ sent \in 0 .. Len(queue)
  BY DEF Types, HandleType
<1>2. c \in Call /\ v \in Buffers /\ Asked(c)[ch] = <<ch, v>>
  <2>1. c \in Call
    BY <1>1 DEF CallType
  <2> QED
    BY <2>1, CallFields, AskedOf
<1>3. md \in Entry /\ rb \in Entry
  <2>1. Checked(t)
    BY Basics DEF Checked, Channels
  <2>2. md \in Own(t)
    BY <1>1, <2>1, CmdOwn DEF Ops, Args, Modes
  <2>3. rb \in Own(t)
    BY <1>1, <1>2, CmdOwn DEF Ops, Args
  <2> QED
    BY <2>2, <2>3, OwnEntry
<1>4. md.op = "mode" /\ md.arg = "waveforms" /\ rb.op = "rebuf" /\ rb.arg = v
  BY EntryFields
<1>5. Now.mode = mode /\ Now.buf = buf
  BY DEF Now
<1>6. /\ From(queue, sent, Len(queue), ModeOps, Now.mode, NextMode)
      /\ From(queue, sent, Len(queue), BufOps, Now.buf, NextBuf)
  BY <1>1, <1>5, FromLast DEF Executed, NextMode, NextBuf
<1>7. ~cm => NextMode = "waveforms"
  BY DEF ModeFollows
<1>8. ~cb => NextBuf = v
  <2>1. Reading(t)
    BY DEF Reading
  <2> QED
    BY <2>1 DEF BufFollows
<1>9. ReadChannel(t, ch) = ((When(cm, md) \o When(cb, rb)) \o <<Cmd("chan", ch)>>) \o LoopOverChunks(t, ch)
  BY DEF ReadChannel
<1>10. When(cm, md) \in Seq(Entry) /\ When(cb, rb) \in Seq(Entry)
  BY <1>3, WhenIn
<1>11. Cmd("chan", ch) \in Entry /\ LoopOverChunks(t, ch) \in Seq(Entry)
  <2>1. Cmd("chan", ch) \in Own(t) /\ LoopOverChunks(t, ch) \in Seq(Own(t))
    BY <1>1, CmdOwn, ChunksOwn, Basics DEF Ops, Args
  <2> QED
    BY <2>1, OwnEntry
<1>12. queue \o ReadChannel(t, ch) = Append(q, Cmd("chan", ch)) \o LoopOverChunks(t, ch)
  <2>1. PICK wm \in Seq(Entry), wb \in Seq(Entry) : wm = When(cm, md) /\ wb = When(cb, rb)
    BY <1>10
  <2>2. PICK h \in Entry, d \in Seq(Entry) : h = Cmd("chan", ch) /\ d = LoopOverChunks(t, ch)
    BY <1>11
  <2>3. PICK f \in Seq(Entry) : f = wm \o wb
    BY Named
  <2>4. PICK g \in Seq(Entry) : g = f \o <<h>>
    BY Named, OneOf
  <2>5. queue \in Seq(Entry)
    BY <1>1
  <2>6. queue \o f = (queue \o wm) \o wb
    BY <2>3, <2>5, Regrouped
  <2>7. queue \o g = Append(queue \o f, h)
    BY <2>4, <2>5
  <2>8. queue \o (g \o d) = (queue \o g) \o d
    BY <2>5, Regrouped
  <2> QED
    BY <1>9, <2>1, <2>2, <2>3, <2>4, <2>6, <2>7, <2>8, Zenon
<1> HIDE DEF md, rb, cm, cb, c, v
<1>13. cm \in BOOLEAN /\ cb \in BOOLEAN
  BY DEF cm, cb
<1>14. /\ p \in Seq(Entry) /\ sent \in 0 .. Len(p) /\ Right(Now, p, sent, t, calls[t], c)
       /\ From(p, sent, Len(p), ModeOps, Now.mode, "waveforms")
       /\ From(p, sent, Len(p), BufOps, Now.buf, NextBuf)
  <2>1. md.op # "rx" /\ md.op \in ModeOps /\ md.op \notin BufOps
    BY <1>4 DEF ModeOps, BufOps
  <2>2. Right(Now, queue, sent, t, calls[t], c)
    BY DEF c
  <2> QED
    BY <1>1, <1>3, <1>4, <1>6, <1>7, <1>13, <2>1, <2>2, WhenLine
<1> HIDE DEF p
<1>15. /\ q \in Seq(Entry) /\ sent \in 0 .. Len(q) /\ Right(Now, q, sent, t, calls[t], c)
       /\ From(q, sent, Len(q), ModeOps, Now.mode, "waveforms")
       /\ From(q, sent, Len(q), BufOps, Now.buf, v)
  <2>1. rb.op # "rx" /\ rb.op \in BufOps /\ rb.op \notin ModeOps
    BY <1>4 DEF ModeOps, BufOps
  <2> QED
    BY <1>3, <1>4, <1>8, <1>13, <1>14, <2>1, WhenLine
<1> HIDE DEF q
<1> QED
  BY <1>1, <1>2, <1>12, <1>15, ChunksLine DEF c

LEMMA EntriesLine ==
    ASSUME Types, Executed, ModeFollows, BufFollows, NEW t \in Threads, pc[t] = "lock",
           Right(Now, queue, sent, t, calls[t], call[t])
    PROVE  /\ Right(Now, queue \o Entries(t), sent, t, calls[t], call[t])
           /\ \A s \in DOMAIN Asked(call[t]) : SectionOf(call[t], s) = section[t]
                  => Awaits(queue \o Entries(t), sent, t, calls[t], s)
<1> DEFINE c == call[t]
<1>1. /\ CallType /\ queue \in Seq(Entry) /\ sent \in 0 .. Len(queue) /\ sent \in Nat
      /\ Right(Now, queue, sent, t, calls[t], c) /\ queue \o <<>> = queue
  BY DEF Types, HandleType
<1>2. /\ c \in Call /\ c.kind \in AllKinds /\ c.buf \in Buffers
      /\ section[t] \in 0 .. NumChan + 3 /\ section[t] < NumSections(c)
  BY <1>1, CallFields DEF CallType
<1>3. CASE c.kind = "event"
  <2>1. section[t] \in 0 .. NumChan + 2
    BY <1>2, <1>3, Basics DEF NumSections
  <2>2. /\ NumChan + 1 \notin Channels /\ NumChan + 2 \notin Channels
        /\ NumChan + 1 # 0 /\ NumChan + 2 # 0 /\ NumChan + 1 # NumChan + 2 /\ 0 \notin Channels
    BY Basics DEF Channels
  <2>3. \A s \in DOMAIN Asked(c) : SectionOf(c, s) = s /\ (s = 0 \/ s \in Channels)
    BY <1>2, <1>3, AskedOf DEF SectionOf
  <2>4. CASE section[t] = 0
    <3> DEFINE e == Cmd("buf", c.buf)
               d == ReadRegister(t, Metadata, 0)
               r == Append(queue, e)
    <3>1. Entries(t) = <<e>> \o d
      BY <1>3, <2>2, <2>4 DEF Entries
    <3>2. e \in Own(t) /\ d \in Seq(Own(t))
      BY <1>1, <1>2, CmdOwn, RegisterOwn, Basics DEF Ops, Args
    <3>3. e \in Entry /\ d \in Seq(Entry)
      BY <3>2, OwnEntry
    <3>4. e.op = "buf" /\ e.arg = c.buf
      BY EntryFields
    <3> HIDE DEF e, d, c
    <3>5. queue \o Entries(t) = r \o d
      BY <1>1, <3>1, <3>3
    <3>6. /\ r \in Seq(Entry) /\ sent \in 0 .. Len(r) /\ Right(Now, r, sent, t, calls[t], c)
          /\ From(r, sent, Len(r), BufOps, Now.buf, c.buf)
      <4>1. e.op # "rx" /\ e.op \in BufOps
        BY <3>4 DEF BufOps
      <4> QED
        BY <1>1, <3>3, <3>4, <4>1, CmdLine
    <3> HIDE DEF r
    <3>7. Asked(c)[0] = <<Metadata, c.buf>>
      BY <1>2, <1>3, AskedOf
    <3>8. Right(Now, r \o d, sent, t, calls[t], c) /\ Awaits(r \o d, sent, t, calls[t], 0)
      BY <1>1, <1>2, <3>6, <3>7, RegisterLine, Basics DEF d
    <3> QED
      BY <2>3, <2>4, <3>5, <3>8 DEF c
  <2>5. CASE section[t] \in Channels
    <3>1. Entries(t) = ReadChannel(t, section[t])
      BY <1>3, <2>2, <2>5 DEF Entries
    <3> QED
      BY <1>3, <2>3, <2>5, <3>1, ChannelLine
  <2>6. CASE section[t] = NumChan + 1
    <3>1. Entries(t) = <<>>
      BY <1>3, <2>2, <2>6 DEF Entries
    <3> QED
      BY <1>1, <2>2, <2>3, <2>6, <3>1
  <2>7. CASE section[t] = NumChan + 2
    <3>1. Entries(t) = MarkBuffersDone(t)
      BY <1>3, <2>2, <2>7 DEF Entries
    <3> QED
      BY <1>1, <1>2, <1>3, <2>2, <2>3, <2>7, <3>1, DoneLine
  <2> QED
    BY <2>1, <2>4, <2>5, <2>6, <2>7, Basics DEF Channels
<1>4. CASE c.kind = "raw"
  <2> DEFINE a == Cmd("mode", "waveforms")
             e == Cmd("buf", c.buf)
             h == Cmd("chan", 1)
             d == LoopOverChunks(t, 1)
             p == Append(queue, a)
             q == Append(p, e)
  <2>1. Entries(t) = <<a, e, h>> \o d
    BY <1>4 DEF Entries
  <2>2. a \in Own(t) /\ e \in Own(t) /\ h \in Own(t) /\ d \in Seq(Own(t))
    BY <1>1, <1>2, <1>4, CmdOwn, ChunksOwn, Basics DEF Ops, Args, Modes
  <2>3. a \in Entry /\ e \in Entry /\ h \in Entry /\ d \in Seq(Entry)
    BY <2>2, OwnEntry
  <2>4. a.op = "mode" /\ a.arg = "waveforms" /\ e.op = "buf" /\ e.arg = c.buf
    BY EntryFields
  <2> HIDE DEF a, e, h, d, c
  <2>5. queue \o Entries(t) = Append(q, h) \o d
    BY <1>1, <2>1, <2>3
  <2>6. /\ p \in Seq(Entry) /\ sent \in 0 .. Len(p) /\ Right(Now, p, sent, t, calls[t], c)
        /\ From(p, sent, Len(p), ModeOps, Now.mode, "waveforms")
    <3>1. a.op # "rx" /\ a.op \in ModeOps
      BY <2>4 DEF ModeOps
    <3> QED
      BY <1>1, <2>3, <2>4, <3>1, CmdLine
  <2> HIDE DEF p
  <2>7. /\ q \in Seq(Entry) /\ sent \in 0 .. Len(q) /\ Right(Now, q, sent, t, calls[t], c)
        /\ From(q, sent, Len(q), ModeOps, Now.mode, "waveforms")
        /\ From(q, sent, Len(q), BufOps, Now.buf, c.buf)
    <3>1. e.op # "rx" /\ e.op \notin ModeOps /\ e.op \in BufOps
      BY <2>4 DEF ModeOps, BufOps
    <3> QED
      BY <2>3, <2>4, <2>6, <3>1, CmdLine
  <2> HIDE DEF q
  <2>8. DOMAIN Asked(c) = {1} /\ Asked(c)[1] = <<1, c.buf>>
    BY <1>2, <1>4, AskedOf
  <2>9. /\ Right(Now, Append(q, h) \o d, sent, t, calls[t], c)
        /\ Awaits(Append(q, h) \o d, sent, t, calls[t], 1)
    BY <1>1, <1>2, <2>7, <2>8, ChunksLine, Basics DEF h, d
  <2> QED
    BY <2>5, <2>8, <2>9 DEF c
<1>5. CASE c.kind = "register"
  <2>1. Entries(t) = ReadRegister(t, Register, 0)
    BY <1>5 DEF Entries
  <2>2. DOMAIN Asked(c) = {0} /\ Asked(c)[0] = <<Register, 0>>
    BY <1>2, <1>5, AskedOf
  <2> HIDE DEF c
  <2>3. /\ Right(Now, queue \o ReadRegister(t, Register, 0), sent, t, calls[t], c)
        /\ Awaits(queue \o ReadRegister(t, Register, 0), sent, t, calls[t], 0)
    BY <1>1, <2>2, RegisterLine, Basics
  <2> QED
    BY <2>1, <2>2, <2>3 DEF c
<1>6. CASE c.kind = "status"
  <2>1. section[t] \in {0, 1}
    BY <1>2, <1>6 DEF NumSections
  <2>2. /\ DOMAIN Asked(c) = {0, 1} /\ \A s \in {0, 1} : Asked(c)[s] = <<Register, 0>>
        /\ \A s \in {0, 1} : SectionOf(c, s) = s
    BY <1>2, <1>6, AskedOf DEF SectionOf
  <2>3. CASE section[t] = 0
    <3> DEFINE e == Cmd("mode", "register")
               d == ReadRegister(t, Register, 0)
               r == Append(queue, e)
    <3>1. Entries(t) = <<e>> \o d
      BY <1>6, <2>3 DEF Entries
    <3>2. e \in Own(t) /\ d \in Seq(Own(t))
      BY <1>1, CmdOwn, RegisterOwn, Basics DEF Ops, Args, Modes
    <3>3. e \in Entry /\ d \in Seq(Entry)
      BY <3>2, OwnEntry
    <3>4. e.op # "rx"
      BY EntryFields
    <3> HIDE DEF e, d, c
    <3>5. queue \o Entries(t) = r \o d
      BY <1>1, <3>1, <3>3
    <3>6. r \in Seq(Entry) /\ sent \in 0 .. Len(r) /\ Right(Now, r, sent, t, calls[t], c)
      BY <1>1, <3>3, <3>4, CmdLine
    <3> HIDE DEF r
    <3>7. Right(Now, r \o d, sent, t, calls[t], c) /\ Awaits(r \o d, sent, t, calls[t], 0)
      BY <1>1, <2>2, <3>6, RegisterLine, Basics DEF d
    <3> QED
      BY <2>2, <2>3, <3>5, <3>7 DEF c
  <2>4. CASE section[t] = 1
    <3>1. Entries(t) = ReadRegister(t, Register, 1)
      BY <1>6, <2>4 DEF Entries
    <3> HIDE DEF c
    <3>2. /\ Right(Now, queue \o ReadRegister(t, Register, 1), sent, t, calls[t], c)
          /\ Awaits(queue \o ReadRegister(t, Register, 1), sent, t, calls[t], 1)
      BY <1>1, <2>2, RegisterLine, Basics
    <3> QED
      BY <2>2, <2>4, <3>1, <3>2 DEF c
  <2> QED
    BY <2>1, <2>3, <2>4
<1>7. CASE c.kind = "clear_buffer"
  <2>1. section[t] \in {0, 1}
    BY <1>2, <1>7 DEF NumSections
  <2>2. DOMAIN Asked(c) = {}
    BY <1>2, <1>7, AskedOf
  <2>3. CASE section[t] = 0
    <3>1. Entries(t) = <<>>
      BY <1>7, <2>3 DEF Entries
    <3> QED
      BY <1>1, <2>2, <3>1
  <2>4. CASE section[t] = 1
    <3>1. Entries(t) = MarkBuffersDone(t)
      BY <1>7, <2>4 DEF Entries
    <3> QED
      BY <1>1, <1>2, <1>7, <2>2, <3>1, DoneLine
  <2> QED
    BY <2>1, <2>3, <2>4
<1> QED
  BY <1>2, <1>3, <1>4, <1>5, <1>6, <1>7 DEF AllKinds

-----------------------------------------------------------------------------
\* Who does what.

Act(u) == \/ \E c \in Call : Begin(u, c)
          \/ Lock(u) \/ Append1(u) \/ Full(u) \/ Send(u) \/ EndSection(u)
          \/ Transfer(u) \/ TransferDone(u)
          \/ CheckFails(u) \/ SendFails(u) \/ AppendFails(u) \/ RawFails(u)

LEMMA Actor == ASSUME Next PROVE \E u \in Threads : Act(u)
BY Steps DEF Act

Kept(t) == /\ pc'[t] = pc[t] /\ section'[t] = section[t] /\ call'[t] = call[t]
           /\ calls'[t] = calls[t] /\ ok'[t] = ok[t] /\ todo'[t] = todo[t]

\* A step is of one thread; but for Begin it is within a call, and the calls stay.
LEMMA OthersKept ==
    ASSUME Types, NEW u \in Threads, Act(u), NEW t \in Threads \ {u}
    PROVE  Kept(t)
<1>1. CallType /\ TodoType /\ FlagType
  BY DEF Types
<1>2. CASE \E c \in Call : Begin(u, c)
  <2>1. PICK c \in Call : Begin(u, c)
    BY <1>2
  <2>2. ok' = [ok EXCEPT ![u] = TRUE] /\ todo' = todo
    BY <2>1 DEF Begin
  <2> QED
    BY <1>1, <2>1, <2>2, BeginCall DEF Kept, FlagType
<1>3. ASSUME NEW good, Leave(u, good), UNCHANGED <<call, calls, todo>>, pc[u] # "idle"
      PROVE  Kept(t)
  <2>1. pc'[t] = pc[t] /\ section'[t] = section[t]
    BY <1>1, <1>3, LeaveCall
  <2>2. ok'[t] = ok[t]
    BY <1>1, <1>3 DEF Leave, FlagType
  <2> QED
    BY <1>3, <2>1, <2>2 DEF Kept
<1>4. CASE Lock(u) \/ Append1(u) \/ Full(u) \/ Send(u) \/ Transfer(u)
  BY <1>1, <1>4 DEF Lock, Append1, Full, Send, Transfer, Kept, CallType, TodoType
<1>5. CASE EndSection(u)
  BY <1>3, <1>5 DEF EndSection
<1>6. CASE TransferDone(u)
  <2>1. CASE pc[u] = "full"
    BY <1>1, <1>6, <2>1 DEF TransferDone, Kept, CallType
  <2>2. CASE pc[u] = "send"
    BY <1>3, <1>6, <2>2 DEF TransferDone
  <2> QED
    BY <1>6, <2>1, <2>2 DEF TransferDone
<1>7. CASE CheckFails(u) \/ AppendFails(u)
  BY <1>1, <1>7 DEF CheckFails, AppendFails, Fault, Kept, CallType, TodoType, FlagType
<1>8. CASE RawFails(u)
  BY <1>1, <1>8 DEF RawFails, Fault, Kept, CallType, TodoType, FlagType
<1>9. CASE SendFails(u)
  BY <1>3, <1>9 DEF SendFails, Fault
<1> QED
  BY <1>2, <1>4, <1>5, <1>6, <1>7, <1>8, <1>9 DEF Act

LEMMA WithinCall ==
    ASSUME Types, NEW u \in Threads, Act(u), ~ \E c \in Call : Begin(u, c)
    PROVE  UNCHANGED <<call, calls, enable_locking>> /\ pc[u] # "idle"
BY DEF Act, Lock, Append1, Full, Send, EndSection, Transfer, TransferDone, CheckFails, SendFails,
       AppendFails, RawFails, Fault, handle, Types, CallType

LEMMA SharingKeeps == ASSUME Types, Sharing, Next PROVE Sharing'
<1>1. CallType
  BY DEF Types
<1>2. PICK u \in Threads : Act(u)
  BY Actor
<1>3. \A t \in Threads \ {u} : Kept(t)
  BY <1>2, OthersKept
<1>4. CASE \E c \in Call : Begin(u, c)
  <2>1. PICK c \in Call : Begin(u, c)
    BY <1>4
  <2>2. /\ calls'[u] > 0 /\ enable_locking' = enable_locking
        /\ enable_locking \/ \A v \in Threads \ {u} : calls[v] = 0
    <3>1. calls'[u] = calls[u] + 1 /\ calls[u] \in 0 .. MaxCalls
      BY <1>1, <2>1, BeginCall DEF CallType
    <3> QED
      BY <2>1, <3>1, Basics DEF Begin, handle
  <2>3. \A t \in Threads : pc'[t] # "idle" => calls'[t] > 0
    BY <1>3, <2>2 DEF Sharing, Kept
  <2>4. ASSUME ~enable_locking', NEW t \in Threads, NEW v \in Threads, calls'[t] > 0, calls'[v] > 0
        PROVE  t = v
    <3>1. \A w \in Threads \ {u} : calls'[w] = 0
      BY <1>3, <2>2, <2>4 DEF Kept
    <3> QED
      BY <2>4, <3>1
  <2> QED
    BY <2>3, <2>4 DEF Sharing
<1>5. CASE ~ \E c \in Call : Begin(u, c)
  <2>1. UNCHANGED <<calls, enable_locking>> /\ pc[u] # "idle"
    BY <1>2, <1>5, WithinCall
  <2>2. \A t \in Threads : pc'[t] # "idle" => pc[t] # "idle"
    BY <1>3, <2>1 DEF Kept
  <2> QED
    BY <2>1, <2>2 DEF Sharing
<1> QED
  BY <1>4, <1>5

LEMMA OldKeeps == ASSUME Types, OldEntries, Next PROVE OldEntries'
<1>1. HandleType /\ CallType /\ TodoType
  BY DEF Types
<1>2. queue \in Seq(Entry)
  BY <1>1 DEF HandleType
<1>3. PICK u \in Threads : Act(u)
  BY Actor
<1>4. \A t \in Threads : calls[t] \in Nat /\ calls'[t] \in Nat /\ calls[t] <= calls'[t]
  <2>1. \A t \in Threads \ {u} : calls'[t] = calls[t]
    BY <1>3, OthersKept DEF Kept
  <2>2. calls'[u] = calls[u] \/ calls'[u] = calls[u] + 1
    BY <1>1, <1>3, WithinCall, BeginCall
  <2>3. \A t \in Threads : calls[t] \in Nat
    BY <1>1, Basics DEF CallType
  <2> QED
    BY <2>1, <2>2, <2>3
<1>5. ASSUME NEW e \in Entry, e.op = "rx", e.dst.call <= calls[e.dst.thread]
      PROVE  e.dst.call <= calls'[e.dst.thread]
  <2>1. e.dst.thread \in Threads /\ e.dst.call \in Nat
    BY <1>5 DEF Entry, Dst
  <2> QED
    BY <1>4, <1>5, <2>1
<1>6. CASE Append1(u)
  <2> DEFINE e == Head(todo[u])
  <2>1. queue' = Append(queue, e) /\ calls' = calls /\ todo[u] # <<>>
    BY <1>6 DEF Append1
  <2>2. e \in Own(u) /\ e \in Entry
    BY <1>1, <2>1, HeadEntry
  <2>3. e.op = "rx" => e.dst.call <= calls[e.dst.thread]
    BY <1>4, <2>2 DEF Own
  <2> HIDE DEF e
  <2>4. \A i \in DOMAIN queue' : (i \in DOMAIN queue /\ queue'[i] = queue[i]) \/ queue'[i] = e
    BY <1>2, <2>1, <2>2
  <2> QED
    BY <2>1, <2>3, <2>4 DEF OldEntries
<1>7. CASE ~Append1(u)
  <2>1. queue' = queue \/ queue' = <<>>
    BY <1>3, <1>7 DEF Act, Begin, Lock, Full, Send, EndSection, Transfer, TransferDone, CheckFails,
                      SendFails, AppendFails, RawFails, Fault, handle
  <2>2. \A i \in DOMAIN queue : queue[i] \in Entry
    BY <1>2
  <2> QED
    BY <1>5, <2>1, <2>2 DEF OldEntries
<1> QED
  BY <1>6, <1>7

\* Nobody gets undisturbed, and a fault disturbs every call but one that its thread makes
\* alone: that one goes on as a success only in mark_buffers_done.
LEMMA SoundBefore ==
    ASSUME Types, Sharing, NEW u \in Threads, Act(u), NEW t \in Threads, Sound(t)',
           u = t => ~ \E c \in Call : Begin(t, c)
    PROVE  /\ Sound(t)
           /\ ~CheckFails(u) /\ ~RawFails(u)
           /\ SendFails(u) \/ AppendFails(u) => u = t /\ Marking(t)
<1>1. CallType /\ TodoType /\ FlagType /\ DataType
  BY DEF Types
<1>2. faults \in Nat
  BY <1>1, Basics DEF DataType
<1>3. \A v \in Threads : calls[v] \in Nat /\ (calls'[v] = 0 => calls[v] = 0)
  <2>1. \A v \in Threads \ {u} : calls'[v] = calls[v]
    BY OthersKept DEF Kept
  <2>2. calls'[u] = calls[u] \/ calls'[u] = calls[u] + 1
    BY <1>1, WithinCall, BeginCall
  <2>3. \A v \in Threads : calls[v] \in Nat
    BY <1>1, Basics DEF CallType
  <2> QED
    BY <2>1, <2>2, <2>3
<1>4. faults' = faults \/ (faults' = faults + 1 /\ FaultStep(u))
  BY DEF Act, Begin, Lock, Append1, Full, Send, EndSection, Transfer, TransferDone, CheckFails,
         SendFails, AppendFails, RawFails, FaultStep, Fault, history
<1>5. faults' = 0 => faults = 0
  BY <1>2, <1>4
<1>6. Undisturbed(t)
  BY <1>3, <1>5 DEF Sound, Undisturbed
<1>7. call'[t] = call[t] /\ (pc'[t] # "idle" => pc[t] # "idle")
  BY OthersKept, WithinCall DEF Kept
<1>8. ASSUME FaultStep(u)
      PROVE  u = t /\ faults' # 0 /\ pc[u] # "idle" /\ call[t].kind # "raw"
  <2>1. faults' # 0
    BY <1>2, <1>8 DEF FaultStep, CheckFails, SendFails, AppendFails, RawFails, Fault
  <2>2. pc[u] # "idle" /\ calls' = calls
    BY <1>8 DEF FaultStep, CheckFails, SendFails, AppendFails, RawFails, Fault
  <2>3. calls[u] > 0
    BY <2>2 DEF Sharing
  <2>4. u = t
    BY <1>3, <2>1, <2>2, <2>3 DEF Sound, Undisturbed
  <2> QED
    BY <1>7, <2>1, <2>2, <2>4 DEF Sound
<1>9. ASSUME FaultStep(u)
      PROVE  ~CheckFails(u) /\ ~RawFails(u) /\ u = t /\ Marking(t)
  <2>1. u = t /\ pc[t] # "idle" /\ call[t].kind # "raw"
    BY <1>8, <1>9
  <2>2. ~RawFails(u)
    BY <2>1 DEF RawFails
  <2>3. ~CheckFails(u)
    <3>1. ASSUME CheckFails(u) PROVE FALSE
      <4>1. pc' = [pc EXCEPT ![t] = "idle"] /\ ok' = [ok EXCEPT ![t] = FALSE]
        BY <2>1, <3>1 DEF CheckFails
      <4>2. pc'[t] = "idle" /\ ~ok'[t]
        BY <1>1, <4>1 DEF CallType, FlagType
      <4> QED
        BY <4>2 DEF Sound
    <3> QED
      BY <3>1
  <2>4. ~Checked(t) /\ (SendFails(t) \/ AppendFails(t))
    BY <1>9, <2>1, <2>2, <2>3 DEF FaultStep, SendFails, AppendFails
  <2>5. call[t].kind = "event"
    <3>1. ASSUME call[t].kind # "event" PROVE FALSE
      <4>1. CASE SendFails(t)
        <5>1. ok' = [ok EXCEPT ![t] = FALSE]
          <6>1. ok' = [ok EXCEPT ![t] = (call[t].kind = "event") /\ Answered(t)]
            BY <4>1 DEF SendFails, Leave
          <6>2. ((call[t].kind = "event") /\ Answered(t)) = FALSE
            BY <3>1
          <6> QED
            BY <6>1, <6>2
        <5>2. ~ok'[t]
          BY <1>1, <5>1 DEF FlagType
        <5> QED
          BY <1>7, <3>1, <5>2 DEF Sound
      <4>2. CASE AppendFails(t)
        <5>1. ok' = [ok EXCEPT ![t] = (call[t].kind = "event")]
          BY <4>2 DEF AppendFails
        <5>2. (call[t].kind = "event") = FALSE
          BY <3>1
        <5>3. ~ok'[t]
          BY <1>1, <5>1, <5>2 DEF FlagType
        <5> QED
          BY <1>7, <3>1, <5>3 DEF Sound
      <4> QED
        BY <2>4, <4>1, <4>2
    <3> QED
      BY <3>1
  <2>6. section[t] = NumChan + 2
    <3>1. section[t] \in 0 .. NumChan + 3 /\ section[t] < NumChan + 3
      BY <1>1, <2>1, <2>5 DEF CallType, NumSections
    <3> QED
      BY <2>4, <2>5, <3>1, Basics DEF Checked
  <2> QED
    BY <2>1, <2>2, <2>3, <2>5, <2>6 DEF Marking
<1>10. ok[t] \/ (pc[t] # "idle" /\ call[t].kind = "event")
  <2>1. CASE FaultStep(u)
    BY <1>8, <1>9, <2>1 DEF Marking
  <2>2. CASE ~FaultStep(u) /\ u = t
    <3>1. ASSUME NEW good, Leave(t, good), good = ok[t], ok'[t] PROVE ok[t]
      <4>1. ok' = [ok EXCEPT ![t] = good /\ Answered(t)]
        BY <3>1 DEF Leave
      <4>2. ok'[t] = (good /\ Answered(t))
        BY <1>1, <4>1 DEF FlagType
      <4> QED
        BY <3>1, <4>2
    <3>2. ok'[t] => ok[t]
      <4>1. CASE EndSection(t)
        BY <3>1, <4>1 DEF EndSection
      <4>2. CASE TransferDone(t)
        BY <3>1, <4>2 DEF TransferDone
      <4>3. CASE Lock(t) \/ Append1(t) \/ Full(t) \/ Send(t) \/ Transfer(t)
        BY <4>3 DEF Lock, Append1, Full, Send, Transfer
      <4> QED
        BY <2>2, <4>1, <4>2, <4>3 DEF Act, FaultStep
    <3> QED
      BY <1>7, <3>2 DEF Sound
  <2>3. CASE u # t
    BY <1>7, <2>3, OthersKept DEF Kept, Sound
  <2> QED
    BY <2>1, <2>2, <2>3
<1>11. call[t].kind = "raw" => faults = 0
  BY <1>5, <1>7 DEF Sound
<1> QED
  BY <1>6, <1>9, <1>10, <1>11 DEF Sound, FaultStep

-----------------------------------------------------------------------------
\* What a step does to a call that is being served.

Serving(t) == Promise(t) /\ Cover(t) /\ Complete(t)

LineFrom(l) == l \in Seq(Entry) /\ Len(l) \in Nat /\ DOMAIN l = 1 .. Len(l)

LEMMA Lines ==
    ASSUME Types, NEW t \in Threads
    PROVE  /\ LineFrom(Line(t)) /\ LineFrom(queue) /\ LineFrom(todo[t])
           /\ Len(Line(t)) = Len(queue) + Len(todo[t])
           /\ sent \in 0 .. Len(queue) /\ sent \in 0 .. Len(Line(t)) /\ sent \in Nat
           /\ \A j \in 1 .. Len(queue) : Line(t)[j] = queue[j]
           /\ todo[t] = <<>> => Line(t) = queue
           /\ queue = <<>> => Line(t) = todo[t]
<1>1. queue \in Seq(Entry) /\ todo[t] \in Seq(Entry) /\ sent \in 0 .. Len(queue)
  BY DEF Types, HandleType, TodoType
<1> QED
  BY <1>1, Moved DEF Line, LineFrom

\* Nothing that is served changes.
LEMMA StillServed ==
    ASSUME NEW t \in Threads, Served(t), Sound(t)' => Sound(t), call'[t] = call[t],
           calls'[t] = calls[t], data'[t] = data[t], section'[t] = section[t],
           pc[t] = "idle" <=> pc'[t] = "idle", pc[t] = "lock" <=> pc'[t] = "lock",
           sent' = sent, Now' = Now, Line(t)' = Line(t)
    PROVE  Served(t)'
<1> SUFFICES ASSUME Sound(t)'
             PROVE  IF pc'[t] = "idle" THEN \A s \in DOMAIN Asked(call'[t]) : Has(t, s)'
                                       ELSE Promise(t)' /\ Cover(t)' /\ Complete(t)'
  BY DEF Served
<1>1. CASE pc'[t] = "idle"
  BY <1>1 DEF Served, Has
<1>2. CASE pc'[t] # "idle"
  <2>1. Promise(t) /\ Cover(t) /\ Complete(t)
    BY <1>2 DEF Served
  <2>2. Promise(t)' /\ Complete(t)'
    BY <2>1 DEF Promise, Complete, Marking
  <2>3. Cover(t)'
    BY <2>1 DEF Cover, Has, Later
  <2> QED
    BY <1>2, <2>2, <2>3
<1> QED
  BY <1>1, <1>2

\* The board executes an entry, whoever sends it.
LEMMA TransferServed ==
    ASSUME Types, NEW u \in Threads, Transfer(u), NEW t \in Threads, Served(t), Sound(t)' => Sound(t)
    PROVE  Served(t)'
<1> DEFINE e == queue[sent + 1]
           live == calls[e.dst.thread] = e.dst.call /\ pc[e.dst.thread] # "idle"
           l == Line(t)
           k == calls[t]
           c == call[t]
<1>1. /\ sent < Len(queue) /\ sent' = sent + 1 /\ UNCHANGED <<queue, pc, call, section, todo, calls>>
      /\ mode' = IF e.op = "mode" THEN e.arg ELSE mode
      /\ buf' = IF e.op \in {"buf", "rebuf"} THEN e.arg ELSE buf
      /\ chan' = IF e.op = "chan" THEN e.arg ELSE chan
      /\ out' = Answer(e)
      /\ data' = IF e.op = "rx" /\ live
                 THEN [data EXCEPT ![e.dst.thread][e.dst.slot] = out] ELSE data
  BY DEF Transfer, handle
<1>2. /\ l \in Seq(Entry) /\ Len(l) \in Nat /\ sent \in Nat /\ Len(queue) <= Len(l)
      /\ e = l[sent + 1] /\ sent + 1 \in 1 .. Len(l) /\ e \in Entry
  <2>1. sent + 1 \in 1 .. Len(queue) /\ queue \in Seq(Entry)
    BY <1>1, Lines DEF LineFrom
  <2> QED
    BY <2>1, Lines DEF LineFrom
<1>3. After(Now, l[sent + 1], Now')
  <2>1. /\ Now'.mode = mode' /\ Now'.buf = buf' /\ Now'.chan = chan' /\ Now'.out = out'
        /\ Now.mode = mode /\ Now.buf = buf /\ Now.chan = chan /\ Now.out = out
    BY DEF Now
  <2>2. out' = CASE e.op = "reg" -> <<e.arg, IF e.arg = Metadata THEN buf ELSE 0>>
                 [] e.op = "addr" -> <<IF mode = "waveforms" THEN chan ELSE Nothing, buf>>
                 [] OTHER -> out
    BY <1>1 DEF Answer
  <2> HIDE DEF e
  <2> QED
    BY <1>1, <1>2, <2>1, <2>2 DEF After, ModeOps, BufOps, ChanOps
<1>4. Line(t)' = l
  BY <1>1 DEF Line
<1> HIDE DEF e, live, l
<1>5. ASSUME NEW s, data'[t][s] # data[t][s]
      PROVE  /\ e.op = "rx" /\ live /\ e.dst.thread = t /\ e.dst.slot = s /\ data'[t][s] = out
  <2>1. data \in [Threads -> [Slots -> Output]]
    BY DEF Types, DataType
  <2>2. e.op = "rx" /\ live /\ data' = [data EXCEPT ![e.dst.thread][e.dst.slot] = out]
    BY <1>1, <1>5
  <2>3. e.dst.thread \in Threads /\ e.dst.slot \in Slots
    BY <1>2, <2>2 DEF Entry, Dst
  <2>4. e.dst.thread = t
    BY <1>5, <2>1, <2>2, <2>3
  <2>5. e.dst.slot = s
    BY <1>5, <2>1, <2>2, <2>3, <2>4
  <2> QED
    BY <2>1, <2>2, <2>3, <2>4, <2>5
<1>6. ASSUME Sound(t), pc[t] = "idle", NEW s \in DOMAIN Asked(c) PROVE Has(t, s)'
  <2>1. Has(t, s)
    BY <1>6 DEF Served
  <2>2. data'[t][s] = data[t][s]
    BY <1>5, <1>6 DEF live
  <2> QED
    BY <1>1, <2>1, <2>2 DEF Has
<1>7. ASSUME Sound(t), pc[t] # "idle" PROVE Promise(t)' /\ Cover(t)' /\ Complete(t)'
  <2>1. Promise(t) /\ Cover(t) /\ Complete(t)
    BY <1>7 DEF Served
  <2>2. Right(Now, l, sent, t, k, c)
    BY <2>1 DEF Promise, l
  <2>3. Promise(t)'
    <3>1. Right(Now', l, sent + 1, t, k, c)
      BY <1>2, <1>3, <2>2, RightStep
    <3> QED
      BY <1>1, <1>4, <3>1 DEF Promise
  <2>4. ASSUME NEW s \in DOMAIN Asked(c), e.op = "rx", e.dst.thread = t, e.dst.call = k, e.dst.slot = s
        PROVE  out = Asked(c)[s]
    <3>1. Asks(t, k, c, l[sent + 1])
      BY <1>2, <2>4 DEF Asks
    <3>2. sent + 1 \in sent + 1 .. Len(l) /\ (sent + 1) - 1 = sent
      BY <1>2
    <3>3. Puts(Now, l, sent, sent, Asked(c)[s])
      BY <1>2, <2>2, <2>4, <3>1, <3>2 DEF Right
    <3>4. Now.out = out
      BY DEF Now
    <3> QED
      BY <1>2, <3>3, <3>4 DEF Puts
  <2>5. ASSUME NEW s \in DOMAIN Asked(c) PROVE Has(t, s)' \/ Later(t, s)' \/ Awaits(l, sent + 1, t, k, s)
    <3>1. CASE Later(t, s)
      BY <1>1, <3>1 DEF Later
    <3>2. CASE Has(t, s)
      <4>1. CASE data'[t][s] = data[t][s]
        BY <1>1, <3>2, <4>1 DEF Has
      <4>2. CASE data'[t][s] # data[t][s]
        BY <1>1, <1>5, <2>4, <4>2 DEF Has, live
      <4> QED
        BY <4>1, <4>2
    <3>3. CASE Awaits(l, sent, t, k, s)
      <4>1. PICK i \in sent + 1 .. Len(l) :
                l[i].op = "rx" /\ l[i].dst.thread = t /\ l[i].dst.call = k /\ l[i].dst.slot = s
        BY <3>3 DEF Awaits
      <4>2. CASE i = sent + 1
        <5>1. e.op = "rx" /\ e.dst.thread = t /\ e.dst.call = k /\ e.dst.slot = s
          BY <1>2, <4>1, <4>2
        <5>2. live
          BY <1>7, <5>1 DEF live
        <5>3. data' = [data EXCEPT ![t][s] = out]
          BY <1>1, <5>1, <5>2
        <5>4. data \in [Threads -> [Slots -> Output]] /\ s \in Slots
          BY <1>2, <5>1 DEF Types, DataType, Entry, Dst
        <5>5. data'[t][s] = out
          BY <5>3, <5>4
        <5> QED
          BY <1>1, <2>4, <5>1, <5>5 DEF Has
      <4>3. CASE i # sent + 1
        <5>1. i \in (sent + 1) + 1 .. Len(l)
          BY <1>2, <4>3
        <5> QED
          BY <4>1, <5>1 DEF Awaits
      <4> QED
        BY <4>2, <4>3
    <3> QED
      BY <2>1, <3>1, <3>2, <3>3 DEF Cover, l
  <2>6. Cover(t)'
    BY <1>1, <1>4, <2>5 DEF Cover
  <2>7. Complete(t)'
    BY <1>1, <1>4, <2>1 DEF Complete, Marking, l
  <2> QED
    BY <2>3, <2>6, <2>7
<1> QED
  BY <1>1, <1>6, <1>7 DEF Served

\* What goes out with an ioctl leaves the line.
Passed(t) ==
    /\ \A k, c : Right(Now, Line(t), sent, t, k, c) => Right(Now', Line(t)', sent', t, k, c)
    /\ \A k, s : Awaits(Line(t), sent, t, k, s) => Awaits(Line(t)', sent', t, k, s)
    /\ \A j \in DOMAIN Line(t)' : \E i \in DOMAIN Line(t) : Line(t)'[j] = Line(t)[i]

LEMMA PassedSame ==
    ASSUME NEW t \in Threads, sent' = sent, Now' = Now, queue' = queue, todo'[t] = todo[t]
    PROVE  Passed(t)
BY DEF Passed, Line

LEMMA PassedSent ==
    ASSUME Types, NEW t \in Threads, sent = Len(queue), sent' = 0, queue' = <<>>, Now' = Now,
           todo'[t] = todo[t]
    PROVE  Passed(t)
<1>1. queue \in Seq(Entry) /\ todo[t] \in Seq(Entry)
  BY DEF Types, HandleType, TodoType
<1>2. Line(t) = queue \o todo[t] /\ Line(t)' = todo[t]
  BY <1>1, Moved DEF Line
<1>3. \A k, c : Right(Now, Line(t), sent, t, k, c) => Right(Now', Line(t)', sent', t, k, c)
  BY <1>1, <1>2, RightMoved
<1>4. \A k, s : Awaits(Line(t), sent, t, k, s) => Awaits(Line(t)', sent', t, k, s)
  BY <1>1, <1>2, AwaitsMoved
<1>5. ASSUME NEW j \in DOMAIN Line(t)' PROVE \E i \in DOMAIN Line(t) : Line(t)'[j] = Line(t)[i]
  <2>1. j \in 1 .. Len(todo[t]) /\ Len(todo[t]) \in Nat /\ Len(queue) \in Nat
    BY <1>1, <1>2
  <2>2. Len(queue) + j \in 1 .. Len(Line(t))
    BY <1>1, <1>2, <2>1
  <2>3. Line(t)[Len(queue) + j] = todo[t][j] /\ Len(queue) + j \in DOMAIN Line(t)
    BY <1>1, <1>2, <2>1, <2>2
  <2> QED
    BY <1>2, <2>3
<1> QED
  BY <1>3, <1>4, <1>5 DEF Passed

\* An ioctl succeeds, or nothing happens to the line, and the thread stays where it is.
LEMMA PassedServed ==
    ASSUME NEW t \in Threads, Served(t), Sound(t)' => Sound(t), call'[t] = call[t],
           calls'[t] = calls[t], data'[t] = data[t], section'[t] = section[t],
           pc[t] = "idle" <=> pc'[t] = "idle", pc[t] = "lock" <=> pc'[t] = "lock", Passed(t)
    PROVE  Served(t)'
<1> SUFFICES ASSUME Sound(t)'
             PROVE  IF pc'[t] = "idle" THEN \A s \in DOMAIN Asked(call'[t]) : Has(t, s)'
                                       ELSE Promise(t)' /\ Cover(t)' /\ Complete(t)'
  BY DEF Served
<1>1. CASE pc'[t] = "idle"
  BY <1>1 DEF Served, Has
<1>2. CASE pc'[t] # "idle"
  <2>1. Promise(t) /\ Cover(t) /\ Complete(t)
    BY <1>2 DEF Served
  <2>2. Promise(t)'
    BY <2>1 DEF Promise, Passed
  <2>3. Complete(t)'
    BY <2>1 DEF Complete, Marking, Passed
  <2>4. Cover(t)'
    BY <2>1 DEF Cover, Has, Later, Passed
  <2> QED
    BY <1>2, <2>2, <2>3, <2>4
<1> QED
  BY <1>1, <1>2

\* A section ends and another one follows.
LEMMA NextSection ==
    ASSUME Types, NEW t \in Threads, Serving(t), pc[t] \in {"append", "send"}, todo[t] = <<>>,
           todo'[t] = <<>>, call'[t] = call[t], calls'[t] = calls[t], data'[t] = data[t],
           section'[t] = section[t] + 1, section[t] + 1 # NumSections(call[t]), pc'[t] = "lock",
           Passed(t), Sends(t) => queue' = <<>>
    PROVE  Serving(t)'
<1>1. call[t] \in Call /\ section[t] \in Nat /\ section[t] < NumSections(call[t])
  BY Basics DEF Types, CallType
<1>2. Promise(t)'
  BY DEF Serving, Promise, Passed
<1>3. ASSUME NEW s \in DOMAIN Asked(call[t]) PROVE Later(t, s) => Later(t, s)'
  <2>1. SectionOf(call[t], s) \in Nat
    <3>1. s \in Nat
      BY <1>1, AskedSlots, Basics DEF Slots
    <3> QED
      BY <3>1 DEF SectionOf
  <2> QED
    BY <1>1, <2>1 DEF Later
<1>4. Cover(t)'
  BY <1>3 DEF Serving, Cover, Has, Passed
<1>5. ASSUME Marking(t)' PROVE Line(t)' = <<>>
  <2>1. call[t].kind = "event" /\ section[t] = NumChan + 1
    BY <1>1, <1>5, Basics DEF Marking
  <2>2. Sends(t)
    BY <2>1, Basics DEF Sends, Channels
  <2> QED
    BY <2>2 DEF Line
<1>6. Complete(t)'
  BY <1>5 DEF Complete
<1> QED
  BY <1>2, <1>4, <1>6 DEF Serving

\* In the last section nothing is left to be read, and what has been sent has been received.
LEMMA LastServed ==
    ASSUME Types, NEW t \in Threads, Serving(t), pc[t] \in {"append", "send"}, todo[t] = <<>>,
           section[t] + 1 = NumSections(call[t]), sent = Len(queue) \/ Marking(t)
    PROVE  \A s \in DOMAIN Asked(call[t]) : Has(t, s)
<1> SUFFICES ASSUME NEW s \in DOMAIN Asked(call[t]) PROVE Has(t, s)
  OBVIOUS
<1>1. call[t] \in Call /\ section[t] \in Nat /\ call[t].kind \in AllKinds
  BY CallFields DEF Types, CallType
<1>2. ~Later(t, s)
  <2>1. SectionOf(call[t], s) <= section[t] /\ pc[t] # "lock"
    <3>1. CASE call[t].kind = "event"
      <4>1. s \in 0 .. NumChan /\ section[t] = NumChan + 2
        <5>1. DOMAIN Asked(call[t]) = {0} \cup Channels
          BY <1>1, <3>1, AskedOf
        <5>2. section[t] = NumChan + 2
          BY <1>1, <3>1, Basics DEF NumSections
        <5> QED
          BY <5>1, <5>2, Basics DEF Channels
      <4> QED
        BY <1>1, <3>1, <4>1, Basics DEF SectionOf
    <3>2. CASE call[t].kind = "status"
      <4>1. s \in {0, 1} /\ section[t] = 1
        BY <1>1, <3>2, AskedOf DEF NumSections
      <4> QED
        BY <1>1, <3>2, <4>1 DEF SectionOf
    <3>3. CASE call[t].kind \notin {"event", "status"}
      BY <1>1, <3>3 DEF SectionOf
    <3> QED
      BY <3>1, <3>2, <3>3
  <2>2. SectionOf(call[t], s) \in Nat
    <3>1. s \in Nat
      BY <1>1, AskedSlots, Basics DEF Slots
    <3> QED
      BY <3>1 DEF SectionOf
  <2> QED
    BY <1>1, <2>1, <2>2 DEF Later
<1>3. ~Awaits(Line(t), sent, t, calls[t], s)
  <2> SUFFICES ASSUME NEW i \in sent + 1 .. Len(Line(t)), Line(t)[i].op = "rx",
                      Line(t)[i].dst.thread = t, Line(t)[i].dst.call = calls[t],
                      Line(t)[i].dst.slot = s
               PROVE  FALSE
    BY DEF Awaits
  <2>1. i \in DOMAIN Line(t) /\ Line(t) = queue /\ Len(queue) \in Nat
    BY Lines DEF LineFrom
  <2>2. Marking(t)
    BY <2>1
  <2> QED
    BY <2>1, <2>2 DEF Serving, Complete, Asks
<1> QED
  BY <1>2, <1>3 DEF Serving, Cover

\* A call that is to succeed sends in its last section.
LEMMA SoundSends ==
    ASSUME Types, NEW t \in Threads, Sound(t), pc[t] # "idle",
           section[t] + 1 = NumSections(call[t])
    PROVE  Sends(t)
<1>1. CASE ok[t]
  BY <1>1, LastSends DEF Types
<1>2. CASE call[t].kind = "event"
  <2>1. section[t] = NumChan + 2
    BY <1>2, Basics DEF NumSections, Types, CallType
  <2> QED
    BY <1>2, <2>1, Basics DEF Sends, Channels
<1> QED
  BY <1>1, <1>2 DEF Sound

\* A thread leaves a section, with its transfers sent or with nothing that it has to send.
LEMMA LeaveServed ==
    ASSUME Types, NEW t \in Threads, Served(t), Sound(t)' => Sound(t), NEW good, Leave(t, good),
           pc[t] \in {"append", "send"}, todo[t] = <<>>,
           call' = call, calls' = calls, data' = data, todo' = todo,
           \/ Passed(t) /\ (Sends(t) => queue' = <<>> /\ sent = Len(queue))
           \/ Marking(t)
    PROVE  Served(t)'
<1> SUFFICES ASSUME Sound(t)'
             PROVE  IF pc'[t] = "idle" THEN \A s \in DOMAIN Asked(call'[t]) : Has(t, s)'
                                       ELSE Promise(t)' /\ Cover(t)' /\ Complete(t)'
  BY DEF Served
<1>1. Serving(t)
  BY DEF Served, Serving
<1>2. /\ pc'[t] \in {"lock", "idle"} /\ section'[t] = section[t] + 1
      /\ pc'[t] = "idle" <=> section[t] + 1 = NumSections(call[t])
  BY LeaveCall DEF Types
<1>3. CASE pc'[t] = "idle"
  <2>1. sent = Len(queue) \/ Marking(t)
    BY <1>2, <1>3, SoundSends
  <2>2. \A s \in DOMAIN Asked(call[t]) : Has(t, s)
    BY <1>1, <1>2, <1>3, <2>1, LastServed
  <2> QED
    BY <1>3, <2>2 DEF Has
<1>4. CASE pc'[t] = "lock"
  <2>1. ~Marking(t)
    BY <1>2, <1>4, Basics DEF Marking, NumSections
  <2>2. Serving(t)'
    BY <1>1, <1>2, <1>4, <2>1, NextSection
  <2> QED
    BY <1>4, <2>2 DEF Serving
<1> QED
  BY <1>2, <1>3, <1>4

\* A thread that is in a section has the handle to itself.
LEMMA Excluded ==
    ASSUME Types, Sharing, NEW u \in Threads, NEW t \in Threads \ {u},
           pc[u] \in {"append", "full", "send"}, pc[t] # "idle"
    PROVE  pc[t] = "lock" /\ todo[t] = <<>>
<1>1. enable_locking
  BY DEF Sharing
<1>2. mut = u /\ mut # t
  BY <1>1 DEF Types, Exclusion
<1>3. pc[t] = "lock"
  BY <1>1, <1>2 DEF Types, Exclusion, CallType
<1> QED
  BY <1>3 DEF Types, TodoType

LEMMA AwaitsLonger ==
    ASSUME NEW q \in Seq(Entry), NEW d \in Seq(Entry), NEW m \in Nat, NEW t, NEW k, NEW s,
           Awaits(q, m, t, k, s)
    PROVE  Awaits(q \o d, m, t, k, s)
<1> DEFINE l == q \o d
<1>1. /\ Len(q) \in Nat /\ Len(d) \in Nat /\ Len(l) = Len(q) + Len(d)
      /\ \A j \in 1 .. Len(q) : l[j] = q[j]
  BY Moved
<1> HIDE DEF l
<1>2. PICK i \in m + 1 .. Len(q) :
          q[i].op = "rx" /\ q[i].dst.thread = t /\ q[i].dst.call = k /\ q[i].dst.slot = s
  BY DEF Awaits
<1>3. i \in m + 1 .. Len(l) /\ l[i] = q[i]
  BY <1>1
<1>4. Awaits(l, m, t, k, s)
  BY <1>2, <1>3 DEF Awaits
<1> QED
  BY <1>4 DEF l

\* What another thread appends is not for this call.
LEMMA AppendServed ==
    ASSUME Types, Sharing, NEW u \in Threads, Append1(u), NEW t \in Threads \ {u}, Served(t),
           Sound(t)' => Sound(t)
    PROVE  Served(t)'
<1> DEFINE e == Head(todo[u])
<1>1. /\ pc[u] = "append" /\ todo[u] # <<>> /\ queue' = Append(queue, e)
      /\ todo' = [todo EXCEPT ![u] = Tail(@)] /\ sent' = sent
      /\ UNCHANGED <<mode, buf, chan, out, pc, call, section, data, calls>>
  BY DEF Append1, board
<1>2. e \in Entry /\ (e.op = "rx" => e.dst.thread = u)
  BY <1>1, HeadEntry DEF Types, Own
<1> HIDE DEF e
<1>3. CASE pc[t] = "idle"
  BY <1>1, <1>3 DEF Served, Has
<1>4. CASE pc[t] # "idle"
  <2> SUFFICES ASSUME Sound(t)' PROVE Promise(t)' /\ Cover(t)' /\ Complete(t)'
    BY <1>1, <1>4 DEF Served
  <2>1. Serving(t)
    BY <1>4 DEF Served, Serving
  <2>2. todo[t] = <<>> /\ todo'[t] = <<>>
    BY <1>1, <1>4, Excluded DEF Types, TodoType
  <2>3. /\ queue \in Seq(Entry) /\ queue' \in Seq(Entry) /\ <<e>> \in Seq(Entry)
        /\ queue' = queue \o <<e>> /\ sent \in 0 .. Len(queue) /\ sent \in Nat
    BY <1>1, <1>2 DEF Types, HandleType
  <2>4. Line(t) = queue /\ Line(t)' = queue' /\ Now' = Now
    BY <1>1, <2>2, <2>3, Moved DEF Line, Now
  <2>5. ~Asks(t, calls[t], call[t], e)
    BY <1>2 DEF Asks
  <2>6. Promise(t)'
    <3>1. Right(Now, queue', sent, t, calls[t], call[t])
      BY <1>1, <1>2, <2>1, <2>3, <2>4, <2>5, RightAppend DEF Serving, Promise
    <3> QED
      BY <1>1, <2>4, <3>1 DEF Promise
  <2>7. \A s : Awaits(Line(t), sent, t, calls[t], s) => Awaits(Line(t)', sent', t, calls[t], s)
    BY <1>1, <2>3, <2>4, AwaitsLonger
  <2>8. Cover(t)'
    BY <1>1, <2>1, <2>7 DEF Serving, Cover, Has, Later
  <2>9. Complete(t)'
    <3>1. \A i \in DOMAIN queue' : (i \in DOMAIN queue /\ queue'[i] = queue[i]) \/ queue'[i] = e
      BY <1>1, <1>2, <2>3
    <3> QED
      BY <1>1, <2>1, <2>4, <2>5, <3>1 DEF Serving, Complete, Marking
  <2> QED
    BY <2>6, <2>8, <2>9
<1> QED
  BY <1>3, <1>4

\* What a thread appends itself only moves along its line.
LEMMA MovesOne ==
    ASSUME NEW q \in Seq(Entry), NEW d \in Seq(Entry), d # <<>>
    PROVE  Append(q, Head(d)) \o Tail(d) = q \o d
<1>1. PICK h \in Entry, r \in Seq(Entry) : h = Head(d) /\ r = Tail(d)
  <2>1. Head(d) \in Entry /\ Tail(d) \in Seq(Entry)
    OBVIOUS
  <2> QED
    BY <2>1
<1>2. d = <<h>> \o r
  BY <1>1
<1>3. Append(q, h) = q \o <<h>> /\ <<h>> \in Seq(Entry)
  OBVIOUS
<1>4. q \o (<<h>> \o r) = (q \o <<h>>) \o r
  BY <1>3, Regrouped
<1> QED
  BY <1>1, <1>2, <1>3, <1>4

LEMMA OwnAppendServed ==
    ASSUME Types, NEW t \in Threads, Append1(t), Served(t), Sound(t)' => Sound(t)
    PROVE  Served(t)'
<1>1. /\ todo[t] # <<>> /\ queue' = Append(queue, Head(todo[t]))
      /\ todo' = [todo EXCEPT ![t] = Tail(@)] /\ sent' = sent
      /\ UNCHANGED <<mode, buf, chan, out, pc, call, section, data, calls>>
  BY DEF Append1, board
<1>2. queue \in Seq(Entry) /\ todo[t] \in Seq(Entry) /\ todo'[t] = Tail(todo[t])
  BY <1>1 DEF Types, HandleType, TodoType
<1>3. Line(t)' = Line(t)
  BY <1>1, <1>2, MovesOne DEF Line
<1>4. Now' = Now
  BY <1>1 DEF Now
<1> QED
  BY <1>1, <1>3, <1>4, StillServed

\* A call begins with nothing received and nothing in the queue.
LEMMA BeginServed ==
    ASSUME Types, OldEntries, NEW t \in Threads, NEW c \in Call, Begin(t, c)
    PROVE  Served(t)'
<1>1. CallType /\ TodoType /\ queue \in Seq(Entry)
  BY DEF Types, HandleType
<1>2. /\ pc'[t] = "lock" /\ call'[t] = c /\ section'[t] = 0 /\ calls'[t] = calls[t] + 1
      /\ queue' = queue /\ todo'[t] = <<>>
  BY <1>1, BeginCall DEF Begin, handle, TodoType
<1>3. Line(t)' = queue
  BY <1>1, <1>2, Moved DEF Line
<1>4. \A i \in DOMAIN queue : ~Asks(t, calls'[t], c, queue[i])
  <2>1. calls[t] \in Nat
    BY <1>1, Basics DEF CallType
  <2> QED
    BY <1>2, <2>1 DEF OldEntries, Asks
<1>5. Promise(t)'
  <2>1. sent' \in Nat /\ Len(queue) \in Nat /\ DOMAIN queue = 1 .. Len(queue)
    BY DEF Begin, board, Types, HandleType
  <2>2. \A i \in sent' + 1 .. Len(queue) : i \in DOMAIN queue
    <3>1. PICK m \in Nat : m = sent'
      BY <2>1
    <3>2. \A i \in m + 1 .. Len(queue) : i \in 1 .. Len(queue)
      BY <2>1
    <3> QED
      BY <2>1, <3>1, <3>2, Zenon
  <2> QED
    BY <1>2, <1>3, <1>4, <2>2 DEF Promise, Right
<1>6. ASSUME NEW s \in DOMAIN Asked(c) PROVE Later(t, s)'
  <2>1. s \in Nat
    BY AskedSlots, Basics DEF Slots
  <2> QED
    BY <1>2, <2>1 DEF Later, SectionOf
<1>7. Cover(t)'
  BY <1>2, <1>6 DEF Cover
<1>8. Complete(t)'
  BY <1>2, Basics DEF Complete, Marking
<1> QED
  BY <1>2, <1>5, <1>7, <1>8 DEF Served

LEMMA EitherPart ==
    ASSUME NEW q \in Seq(Entry), NEW d \in Seq(Entry), NEW i \in DOMAIN (q \o d)
    PROVE  \/ i \in DOMAIN q /\ (q \o d)[i] = q[i]
           \/ \E j \in DOMAIN d : (q \o d)[i] = d[j]
<1>1. i \in 1 .. Len(q) + Len(d) /\ Len(q) \in Nat /\ Len(d) \in Nat
  OBVIOUS
<1>2. CASE i <= Len(q)
  BY <1>1, <1>2
<1>3. CASE i > Len(q)
  <2>1. i - Len(q) \in DOMAIN d /\ (q \o d)[i] = d[i - Len(q)]
    BY <1>1, <1>3
  <2> QED
    BY <2>1
<1> QED
  BY <1>1, <1>2, <1>3

\* A section begins: it asks for its slots, and mark_buffers_done for none of the event.
LEMMA LockServed ==
    ASSUME Types, Executed, ModeFollows, BufFollows, NEW t \in Threads, Lock(t), Served(t),
           Sound(t)' => Sound(t)
    PROVE  Served(t)'
<1>1. /\ pc[t] = "lock" /\ pc' = [pc EXCEPT ![t] = "append"]
      /\ todo' = [todo EXCEPT ![t] = Entries(t)]
      /\ UNCHANGED <<queue, sent, mode, buf, chan, out, call, section, data, calls>>
  BY DEF Lock, board
<1>2. /\ CallType /\ queue \in Seq(Entry) /\ sent \in Nat /\ todo[t] = <<>>
      /\ pc'[t] = "append" /\ todo'[t] = Entries(t)
  BY <1>1 DEF Types, HandleType, TodoType, CallType
<1>3. Entries(t) \in Seq(Entry)
  <2>1. Entries(t) \in Seq(Own(t))
    BY <1>1, <1>2, EntriesOwn DEF CallType
  <2> QED
    BY <2>1, OwnEntry
<1>4. Line(t) = queue /\ Line(t)' = queue \o Entries(t) /\ Now' = Now
  BY <1>1, <1>2, Moved DEF Line, Now
<1> SUFFICES ASSUME Sound(t)' PROVE Promise(t)' /\ Cover(t)' /\ Complete(t)'
  BY <1>2 DEF Served
<1>5. Serving(t)
  BY <1>1 DEF Served, Serving
<1>6. /\ Right(Now, queue \o Entries(t), sent, t, calls[t], call[t])
      /\ \A s \in DOMAIN Asked(call[t]) : SectionOf(call[t], s) = section[t]
             => Awaits(queue \o Entries(t), sent, t, calls[t], s)
  BY <1>1, <1>4, <1>5, EntriesLine DEF Serving, Promise
<1>7. Promise(t)'
  BY <1>1, <1>4, <1>6 DEF Promise
<1>8. ASSUME NEW s \in DOMAIN Asked(call[t])
      PROVE  Has(t, s)' \/ Later(t, s)' \/ Awaits(queue \o Entries(t), sent, t, calls[t], s)
  <2>1. section[t] \in Nat /\ SectionOf(call[t], s) \in Nat
    <3>1. call[t] \in Call /\ section[t] \in Nat
      BY <1>2 DEF CallType
    <3>2. s \in Nat
      BY <3>1, AskedSlots, Basics DEF Slots
    <3> QED
      BY <3>1, <3>2 DEF SectionOf
  <2>2. CASE Has(t, s)
    BY <1>1, <2>2 DEF Has
  <2>3. CASE Later(t, s)
    BY <1>1, <1>2, <1>6, <2>1, <2>3 DEF Later
  <2>4. CASE Awaits(queue, sent, t, calls[t], s)
    BY <1>2, <1>3, <2>4, AwaitsLonger
  <2> QED
    BY <1>4, <1>5, <2>2, <2>3, <2>4 DEF Serving, Cover
<1>9. Cover(t)'
  BY <1>1, <1>4, <1>8 DEF Cover
<1>10. ASSUME Marking(t), NEW i \in DOMAIN (queue \o Entries(t))
       PROVE  ~Asks(t, calls[t], call[t], (queue \o Entries(t))[i])
  <2>1. /\ call[t] \in Call /\ NumChan + 2 \notin Channels /\ NumChan + 2 # 0
        /\ NumChan + 2 # NumChan + 1
    BY <1>2, Basics DEF CallType, Channels
  <2>2. Entries(t) = MarkBuffersDone(t)
    BY <1>10, <2>1 DEF Marking, Entries
  <2>3. PICK d \in Seq(Entry), a \in Seq(Entry), r \in Seq(Entry) :
            /\ d = Entries(t) /\ d = a \o r /\ a = <<Cmd("clear", call[t].buf)>>
            /\ r = ReadRegister(t, Register, NumChan + 1)
    <3>1. Cmd("clear", call[t].buf) \in Own(t)
      BY <1>2, <2>1, CallFields, CmdOwn DEF Ops, Args
    <3>2. <<Cmd("clear", call[t].buf)>> \in Seq(Entry)
      BY <3>1, OneOf, OwnEntry
    <3>3. ReadRegister(t, Register, NumChan + 1) \in Seq(Own(t))
      BY <1>2, RegisterOwn, Basics
    <3>4. ReadRegister(t, Register, NumChan + 1) \in Seq(Entry)
      BY <3>3, OwnEntry
    <3> QED
      BY <1>3, <2>2, <3>2, <3>4, Zenon DEF MarkBuffersDone
  <2>4. NumChan + 1 \notin DOMAIN Asked(call[t])
    <3>1. DOMAIN Asked(call[t]) = {0} \cup Channels
      BY <1>10, <2>1, AskedOf DEF Marking
    <3> QED
      BY <3>1, Basics DEF Channels
  <2>5. ~Asks(t, calls[t], call[t], (queue \o d)[i])
    <3>1. \A j \in DOMAIN r : ~Asks(t, calls[t], call[t], r[j])
      BY <2>3, <2>4, EntryFields DEF ReadRegister, Asks
    <3>2. \A j \in DOMAIN a : ~Asks(t, calls[t], call[t], a[j])
      BY <2>3, EntryFields DEF Asks
    <3>3. \A j \in DOMAIN d : ~Asks(t, calls[t], call[t], d[j])
      BY <2>3, <3>1, <3>2, EitherPart
    <3>4. \A j \in DOMAIN queue : ~Asks(t, calls[t], call[t], queue[j])
      BY <1>4, <1>5, <1>10 DEF Serving, Complete
    <3>5. i \in DOMAIN (queue \o d)
      BY <1>10, <2>3
    <3> QED
      BY <1>2, <2>3, <3>3, <3>4, <3>5, EitherPart
  <2> QED
    BY <2>3, <2>5
<1>11. Complete(t)'
  BY <1>1, <1>4, <1>10 DEF Complete, Marking
<1> QED
  BY <1>7, <1>9, <1>11

\* A transfer of mark_buffers_done is left out: the event has been received.
LEMMA SkipServed ==
    ASSUME Types, NEW t \in Threads, AppendFails(t), Served(t), Sound(t)' => Sound(t), Marking(t)
    PROVE  Served(t)'
<1>1. /\ pc[t] = "full" /\ queue' = queue /\ sent' = 0
      /\ pc' = [pc EXCEPT ![t] = "append"] /\ todo' = [todo EXCEPT ![t] = Tail(@)]
      /\ UNCHANGED <<call, section, data, calls>>
  BY DEF AppendFails, Fault
<1>2. /\ queue \in Seq(Entry) /\ todo[t] \in Seq(Entry) /\ todo[t] # <<>>
      /\ pc'[t] = "append" /\ todo'[t] = Tail(todo[t]) /\ call[t] \in Call
  BY <1>1 DEF Types, HandleType, TodoType, CallType
<1> SUFFICES ASSUME Sound(t)' PROVE Promise(t)' /\ Cover(t)' /\ Complete(t)'
  BY <1>2 DEF Served
<1>3. Serving(t)
  BY <1>1 DEF Served, Serving
<1>4. \A j \in DOMAIN Line(t)' : \E i \in DOMAIN Line(t) : Line(t)'[j] = Line(t)[i]
  <2>1. PICK q \in Seq(Entry), d \in Seq(Entry), r \in Seq(Entry) :
            q = queue /\ d = todo[t] /\ r = Tail(d) /\ d # <<>>
    <3>1. Tail(todo[t]) \in Seq(Entry)
      BY <1>2
    <3> QED
      BY <1>2, <3>1
  <2>2. ASSUME NEW j \in DOMAIN (q \o r) PROVE \E i \in DOMAIN (q \o d) : (q \o r)[j] = (q \o d)[i]
    <3>1. /\ Len(q) \in Nat /\ Len(r) \in Nat /\ Len(d) = Len(r) + 1
          /\ \A i \in 1 .. Len(r) : r[i] = d[i + 1]
          /\ j \in 1 .. Len(q) + Len(r)
      BY <2>1, <2>2
    <3>2. CASE j <= Len(q)
      <4>1. j \in DOMAIN (q \o d) /\ (q \o r)[j] = (q \o d)[j]
        BY <3>1, <3>2
      <4> QED
        BY <4>1
    <3>3. CASE j > Len(q)
      <4>1. j - Len(q) \in 1 .. Len(r) /\ (q \o r)[j] = r[j - Len(q)]
        BY <3>1, <3>3
      <4>2. j + 1 \in DOMAIN (q \o d) /\ (q \o d)[j + 1] = d[(j - Len(q)) + 1]
        BY <3>1, <3>3
      <4> QED
        BY <3>1, <4>1, <4>2
    <3> QED
      BY <3>1, <3>2, <3>3
  <2> QED
    BY <1>1, <1>2, <2>1, <2>2 DEF Line
<1>5. Complete(t)'
  BY <1>1, <1>3, <1>4 DEF Serving, Complete, Marking
<1>6. \A j \in DOMAIN Line(t)' : ~Asks(t, calls[t], call[t], Line(t)'[j])
  BY <1>3, <1>4 DEF Serving, Complete
<1>7. Promise(t)'
  <2>1. Line(t)' \in Seq(Entry)
    BY <1>1, <1>2, Joined DEF Line
  <2>2. \A i \in 0 + 1 .. Len(Line(t)') : i \in DOMAIN Line(t)'
    BY <2>1
  <2> QED
    BY <1>1, <1>6, <2>2 DEF Promise, Right
<1>8. ASSUME NEW s \in DOMAIN Asked(call[t]) PROVE Has(t, s)
  <2>1. ~Later(t, s)
    <3>1. s \in 0 .. NumChan
      <4>1. DOMAIN Asked(call[t]) = {0} \cup Channels
        BY <1>2, AskedOf DEF Marking
      <4> QED
        BY <4>1, Basics DEF Channels
    <3> QED
      BY <1>1, <3>1, Basics DEF Later, Marking, SectionOf
  <2>2. ~Awaits(Line(t), sent, t, calls[t], s)
    <3>1. \A i \in sent + 1 .. Len(Line(t)) : i \in DOMAIN Line(t)
      BY Lines DEF LineFrom
    <3> QED
      BY <1>3, <3>1 DEF Serving, Complete, Asks, Awaits
  <2> QED
    BY <1>3, <2>1, <2>2 DEF Serving, Cover
<1>9. Cover(t)'
  BY <1>1, <1>8 DEF Cover, Has
<1> QED
  BY <1>5, <1>7, <1>9

\* The steps that send nothing and append nothing, taken by this thread or another one.
LEMMA QuietServed ==
    ASSUME Types, NEW u \in Threads, Act(u),
           (\E c \in Call : Begin(u, c)) \/ Lock(u) \/ Full(u) \/ Send(u) \/ EndSection(u),
           NEW t \in Threads, Served(t), Sound(t)' => Sound(t), t = u => Full(u) \/ Send(u)
    PROVE  Served(t)'
<1>1. /\ sent' = sent /\ Now' = Now /\ queue' = queue /\ todo'[t] = todo[t]
      /\ data'[t] = data[t] /\ section'[t] = section[t] /\ call'[t] = call[t] /\ calls'[t] = calls[t]
  <2>1. sent' = sent /\ Now' = Now /\ queue' = queue
    BY DEF Begin, Lock, Full, Send, EndSection, handle, board, Now
  <2>2. data'[t] = data[t]
    BY DEF Begin, Lock, Full, Send, EndSection, Types, DataType
  <2>3. CASE t # u
    BY <2>1, <2>2, <2>3, OthersKept DEF Kept
  <2>4. CASE Full(t) \/ Send(t)
    BY <2>1, <2>2, <2>4 DEF Full, Send
  <2> QED
    BY <2>1, <2>3, <2>4
<1>2. (pc[t] = "idle" <=> pc'[t] = "idle") /\ (pc[t] = "lock" <=> pc'[t] = "lock")
  <2>1. CASE t # u
    BY <2>1, OthersKept DEF Kept
  <2>2. CASE Full(t) \/ Send(t)
    BY <2>2 DEF Full, Send, Types, CallType
  <2> QED
    BY <2>1, <2>2
<1>3. Line(t)' = Line(t)
  BY <1>1 DEF Line
<1> QED
  BY <1>1, <1>2, <1>3, StillServed

\* An ioctl succeeds, for the thread that sends and for all others.
LEMMA SentServed ==
    ASSUME Types, NEW u \in Threads, Act(u), TransferDone(u), NEW t \in Threads, Served(t),
           Sound(t)' => Sound(t)
    PROVE  Served(t)'
<1>1. /\ pc[u] \in {"full", "send"} /\ sent = Len(queue) /\ sent' = 0 /\ queue' = <<>>
      /\ Now' = Now /\ UNCHANGED <<call, todo, data, calls>>
  BY DEF TransferDone, Now
<1>2. Passed(t)
  BY <1>1, PassedSent
<1>3. CASE t # u
  BY <1>1, <1>2, <1>3, OthersKept, PassedServed DEF Kept
<1>4. CASE t = u /\ pc[t] = "full"
  <2>1. pc'[t] = "append" /\ section' = section
    BY <1>4 DEF TransferDone, Types, CallType
  <2> QED
    BY <1>1, <1>2, <1>4, <2>1, PassedServed
<1>5. CASE t = u /\ pc[t] = "send"
  <2>1. Leave(t, ok[t]) /\ todo[t] = <<>>
    BY <1>5 DEF TransferDone, Types, TodoType
  <2> QED
    BY <1>1, <1>2, <1>5, <2>1, LeaveServed
<1> QED
  BY <1>1, <1>3, <1>4, <1>5

LEMMA EndServed ==
    ASSUME Types, NEW t \in Threads, EndSection(t), Served(t), Sound(t)' => Sound(t)
    PROVE  Served(t)'
<1>1. /\ pc[t] = "append" /\ todo[t] = <<>> /\ Leave(t, ok[t]) /\ ~(Sends(t) /\ queue # <<>>)
      /\ sent' = sent /\ Now' = Now /\ UNCHANGED <<queue, call, todo, data, calls>>
  BY DEF EndSection, board, Now
<1>2. Passed(t)
  BY <1>1, PassedSame
<1>3. Sends(t) => queue' = <<>> /\ sent = Len(queue)
  <2>1. queue = <<>> => sent = Len(queue)
    BY Lines
  <2> QED
    BY <1>1, <2>1
<1> QED
  BY <1>1, <1>2, <1>3, LeaveServed

\* The send of mark_buffers_done fails.
LEMMA SendFailServed ==
    ASSUME Types, NEW t \in Threads, SendFails(t), Marking(t), Served(t), Sound(t)' => Sound(t)
    PROVE  Served(t)'
<1>1. /\ pc[t] = "send" /\ Leave(t, call[t].kind = "event")
      /\ UNCHANGED <<call, todo, data, calls>>
  BY DEF SendFails, Fault
<1>2. todo[t] = <<>>
  BY <1>1 DEF Types, TodoType
<1> QED
  BY <1>1, <1>2, LeaveServed

LEMMA ServedKeeps ==
    ASSUME CacheInv, OneReader, OldEntries, Sharing, Next, NEW t \in Threads, Served(t)
    PROVE  Served(t)'
<1>1. Types /\ Executed /\ ModeFollows /\ BufFollows
  BY DEF CacheInv
<1>2. PICK u \in Threads : Act(u)
  BY Actor
<1>3. CASE \E c \in Call : u = t /\ Begin(t, c)
  BY <1>1, <1>3, BeginServed
<1>4. CASE ~(\E c \in Call : u = t /\ Begin(t, c)) /\ ~Sound(t)'
  BY <1>4 DEF Served
<1>5. CASE ~(\E c \in Call : u = t /\ Begin(t, c)) /\ Sound(t)'
  <2>1. /\ Sound(t) /\ ~CheckFails(u) /\ ~RawFails(u)
        /\ SendFails(u) \/ AppendFails(u) => u = t /\ Marking(t)
    BY <1>1, <1>2, <1>5, SoundBefore
  <2>2. CASE u # t /\ ((\E c \in Call : Begin(u, c)) \/ Lock(u) \/ EndSection(u))
    BY <1>1, <1>2, <2>1, <2>2, QuietServed
  <2>3. CASE Full(u) \/ Send(u)
    BY <1>1, <1>2, <2>1, <2>3, QuietServed
  <2>4. CASE u = t /\ Lock(t)
    BY <1>1, <2>1, <2>4, LockServed
  <2>5. CASE Append1(u)
    BY <1>1, <2>1, <2>5, AppendServed, OwnAppendServed
  <2>6. CASE u = t /\ EndSection(t)
    BY <1>1, <2>1, <2>6, EndServed
  <2>7. CASE Transfer(u)
    BY <1>1, <2>1, <2>7, TransferServed
  <2>8. CASE TransferDone(u)
    BY <1>1, <1>2, <2>1, <2>8, SentServed
  <2>9. CASE SendFails(u) \/ AppendFails(u)
    BY <1>1, <2>1, <2>9, SendFailServed, SkipServed
  <2> QED
    BY <1>2, <1>5, <2>1, <2>2, <2>3, <2>4, <2>5, <2>6, <2>7, <2>8, <2>9 DEF Act
<1> QED
  BY <1>3, <1>4, <1>5

LEMMA DataInit == Init => DataInv
<1> SUFFICES ASSUME Init PROVE DataInv
  OBVIOUS
<1>1. OldEntries
  BY DEF Init, OldEntries
<1>2. Sharing
  BY DEF Init, Sharing
<1>3. ASSUME NEW t \in Threads PROVE Served(t)
  BY DEF Init, Served, Sound
<1> QED
  BY <1>1, <1>2, <1>3 DEF DataInv

LEMMA DataStep == CacheInv /\ OneReader /\ DataInv /\ [Next]_vars => DataInv'
<1> SUFFICES ASSUME CacheInv, OneReader, DataInv, [Next]_vars PROVE DataInv'
  OBVIOUS
<1>1. CASE Next
  <2>1. OldEntries' /\ Sharing'
    BY <1>1, OldKeeps, SharingKeeps DEF CacheInv, DataInv
  <2>2. \A t \in Threads : Served(t)'
    BY <1>1, ServedKeeps DEF DataInv
  <2> QED
    BY <2>1, <2>2 DEF DataInv
<1>2. CASE UNCHANGED vars
  <2>1. /\ UNCHANGED <<enable_locking, mut, queue, current_mode, current_buf, sent, mode, buf, chan>>
        /\ UNCHANGED <<out, pc, call, section, todo, ok, data, calls, late, faults>>
    BY <1>2 DEF vars, handle, board, threads, history
  <2>2. OldEntries' /\ Sharing'
    BY <2>1 DEF DataInv, OldEntries, Sharing
  <2>3. ASSUME NEW t \in Threads PROVE Served(t)'
    <3>1. Sound(t)' = Sound(t) /\ Line(t)' = Line(t) /\ Now' = Now
      BY <2>1 DEF Sound, Undisturbed, Line, Now
    <3> QED
      BY <2>1, <3>1, StillServed DEF DataInv
  <2> QED
    BY <2>2, <2>3 DEF DataInv
<1> QED
  BY <1>1, <1>2

\* A call that reports success has received exactly what it asked for, from its own buffer
\* and channel: for any number of threads that share the queue, in any order, and for a
\* thread that is alone whatever has failed before.  One thread at most reads events: two
\* of them would share the one cache of the selected buffer.
THEOREM CallsGetTheirOwn == OneReader /\ Spec => []OwnData
<1>1. DataInv => OwnData
  BY DEF DataInv, OwnData, Served, Sound, Has
<1> QED
  BY OneReaderStays, CacheInit, CacheStep, DataInit, DataStep, <1>1, PTL DEF Spec
=============================================================================
