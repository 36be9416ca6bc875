------------------------------- MODULE SpiQueue -------------------------------
(***************************************************************************)
(* The transfer queue of a device handle: d->buf and d->nused, filled by   *)
(* buffer_append and handed to the board by buffer_send in one ioctl, the  *)
(* mutex d->mut around it (USING and DONE), and the two caches of what the *)
(* board has selected, d->current_mode and d->current_buf.                 *)
(*                                                                         *)
(* A thread that reads an event drops the mutex between the channels, with *)
(* its transfers still in the queue: whatever another thread sends in the  *)
(* meantime goes out behind them, and takes them along.                    *)
(*                                                                         *)
(* The board is external: a command selects, and a transfer that receives  *)
(* gets what was selected last.  One pair of address and read stands for   *)
(* all chunks of a channel, one register for all that a call reads in one  *)
(* section.  The second board is left out (NBD(d) is 1).                   *)
(***************************************************************************)
EXTENDS Integers, Sequences, FiniteSets

CONSTANTS
    Threads,
    Nobody,         \* the owner of a mutex that is free
    Readers,        \* the threads that read events
    Kinds,          \* the calls that are made, a subset of AllKinds
    NumBuffer,      \* BN_NUM_BUFFER
    NumChan,        \* BN_NUM_CHAN
    MaxXfers,       \* MAX_XFERS
    MaxCalls,       \* bound: calls of each thread
    MaxFaults       \* bound: ioctls that fail

AllKinds == {"event", "raw", "register", "status", "clear_buffer"}

ASSUME ThreadsAssumption == Nobody \notin Threads /\ Readers \subseteq Threads
ASSUME KindsAssumption == Kinds \subseteq AllKinds
ASSUME SizesAssumption == /\ NumBuffer \in Nat \ {0} /\ NumChan \in Nat \ {0}
                          /\ MaxXfers \in Nat \ {0}
                          /\ MaxCalls \in Nat /\ MaxFaults \in Nat

VARIABLES
    \* the handle
    enable_locking,
    mut,                \* who holds d->mut
    queue,              \* d->buf[0 .. nused - 1]
    current_mode, current_buf,
    \* the board, and how far the ioctl in progress has got
    sent, mode, buf, chan, out,
    \* the threads
    pc, call, section,
    todo,               \* what the section has still to append
    ok,                 \* the call has not failed
    data,               \* what was received, by slot
    calls,              \* calls made so far; names the current one
    \* history
    late,               \* something was received for a call that had returned
    faults

handle  == <<enable_locking, mut, queue, current_mode, current_buf>>
board   == <<sent, mode, buf, chan, out>>
threads == <<pc, call, section, todo, ok, data, calls>>
history == <<late, faults>>
vars    == <<handle, board, threads, history>>

Buffers  == 0 .. NumBuffer - 1
Channels == 1 .. NumChan

\* What the board can put out, next to the waveform of a channel.
Metadata == 0           \* a register that describes the selected buffer
Register == -1          \* any other register
Nothing  == -2

Output  == ({Metadata, Register, Nothing} \cup Channels) \X Buffers
Slots   == 0 .. NumChan + 1     \* registers, channels, a local of mark_buffers_done
Call    == {c \in [kind : AllKinds, buf : Buffers] :
               c.kind \in {"register", "status"} => c.buf = 0}

-----------------------------------------------------------------------------
\* The transfers.  Only "rx" receives; "rebuf" is a REG_BUFFER command that is
\* not noted in current_buf.

NoDst == [thread |-> Nobody, call |-> 0, slot |-> 0]

Cmd(op, arg) == [op |-> op, arg |-> arg, dst |-> NoDst]
Rx(t, slot)  == [op |-> "rx", arg |-> 0,
                 dst |-> [thread |-> t, call |-> calls[t], slot |-> slot]]

\* append_read_register
ReadRegister(t, reg, slot) == <<Cmd("reg", reg), Rx(t, slot)>>

\* loop_over_chunks_half_duplex
LoopOverChunks(t, slot) == <<Cmd("addr", 0), Rx(t, slot)>>

\* mark_buffers_done
MarkBuffersDone(t) == <<Cmd("clear", call[t].buf)>> \o ReadRegister(t, Register, NumChan + 1)

\* if (cond) buffer_append(...)
When(cond, entry) == IF cond THEN <<entry>> ELSE <<>>

\* A fault for the checks to find: the buffer is taken to be selected still.
ReadChannelSameBuf(t, c) ==
    When(current_mode # "waveforms", Cmd("mode", "waveforms"))
    \o <<Cmd("chan", c)>> \o LoopOverChunks(t, c)

\* One channel of an event, appended and not sent.
ReadChannel(t, c) ==
    When(current_mode # "waveforms", Cmd("mode", "waveforms"))
    \o When(current_buf # call[t].buf, Cmd("rebuf", call[t].buf))
    \o <<Cmd("chan", c)>> \o LoopOverChunks(t, c)

\* A call goes through sections, each between a USING and a DONE.
\*   event:        the metadata, the channels, the send, mark_buffers_done
\*   status:       the scalers, then beacon_get_thresholds
\*   clear_buffer: its own USING, then mark_buffers_done with another
NumSections(c) ==
    CASE c.kind = "event" -> NumChan + 3
      [] c.kind \in {"status", "clear_buffer"} -> 2
      [] OTHER -> 1

Entries(t) ==
    LET c == call[t]  s == section[t]
    IN  CASE c.kind = "event" /\ s = 0 ->
                 <<Cmd("buf", c.buf)>> \o ReadRegister(t, Metadata, 0)
          [] c.kind = "event" /\ s \in Channels -> ReadChannel(t, s)
          [] c.kind = "event" /\ s = NumChan + 1 -> <<>>
          [] c.kind = "event" /\ s = NumChan + 2 -> MarkBuffersDone(t)
          [] c.kind = "raw" ->
                 <<Cmd("mode", "waveforms"), Cmd("buf", c.buf), Cmd("chan", 1)>>
                 \o LoopOverChunks(t, 1)
          [] c.kind = "register" -> ReadRegister(t, Register, 0)
          [] c.kind = "status" /\ s = 0 ->
                 <<Cmd("mode", "register")>> \o ReadRegister(t, Register, 0)
          [] c.kind = "status" /\ s = 1 -> ReadRegister(t, Register, 1)
          [] c.kind = "clear_buffer" /\ s = 0 -> <<>>
          [] c.kind = "clear_buffer" /\ s = 1 -> MarkBuffersDone(t)

\* Fault: beacon_read_raw leaves its transfers for the next call to send.
SendsNotRaw(t) ==
    CASE call[t].kind = "event" -> section[t] \notin Channels
      [] call[t].kind = "raw" -> FALSE
      [] call[t].kind = "clear_buffer" -> section[t] = 1
      [] OTHER -> TRUE

\* The section ends in buffer_send; beacon_read_raw leaves it out after an error.
Sends(t) ==
    CASE call[t].kind = "event" -> section[t] \notin Channels
      [] call[t].kind = "raw" -> ok[t]
      [] call[t].kind = "clear_buffer" -> section[t] = 1
      [] OTHER -> TRUE

\* The section does not end in a DONE: the next one locks again.
Nested(t) == call[t].kind = "clear_buffer" /\ section[t] = 0

\* The sections of beacon_read_multiple_ptr in which CHK looks at every result;
\* that of mark_buffers_done is not looked at.
Checked(t) == call[t].kind = "event" /\ section[t] < NumChan + 2

-----------------------------------------------------------------------------
\* The handle after beacon_open, on a board in any state.
Init ==
    /\ enable_locking \in BOOLEAN
    /\ mut = Nobody /\ queue = <<>> /\ current_mode = "none" /\ current_buf = -1
    /\ sent = 0 /\ mode \in {"register", "waveforms"} /\ buf \in Buffers /\ chan = 1
    /\ out = <<Nothing, 0>>
    /\ pc = [t \in Threads |-> "idle"]
    /\ call = [t \in Threads |-> [kind |-> "register", buf |-> 0]]
    /\ section = [t \in Threads |-> 0]
    /\ todo = [t \in Threads |-> <<>>]
    /\ ok = [t \in Threads |-> FALSE]
    /\ data = [t \in Threads |-> [s \in Slots |-> <<Nothing, 0>>]]
    /\ calls = [t \in Threads |-> 0]
    /\ late = FALSE /\ faults = 0

\* A thread makes a call.  A handle without a mutex is used by one thread.
Begin(t, c) ==
    /\ pc[t] = "idle" /\ calls[t] < MaxCalls
    /\ enable_locking \/ \A u \in Threads \ {t} : calls[u] = 0
    /\ c.kind \in Kinds /\ (c.kind = "event" => t \in Readers)
    /\ pc' = [pc EXCEPT ![t] = "lock"]
    /\ call' = [call EXCEPT ![t] = c]
    /\ section' = [section EXCEPT ![t] = 0]
    /\ ok' = [ok EXCEPT ![t] = TRUE]
    /\ data' = [data EXCEPT ![t] = [s \in Slots |-> <<Nothing, 0>>]]
    /\ calls' = [calls EXCEPT ![t] = @ + 1]
    /\ UNCHANGED <<handle, board, todo, history>>

\* USING(d): d->mut is not recursive.
Lock(t) ==
    /\ pc[t] = "lock"
    /\ mut = Nobody
    /\ mut' = IF enable_locking THEN t ELSE Nobody
    /\ todo' = [todo EXCEPT ![t] = Entries(t)]
    /\ pc' = [pc EXCEPT ![t] = "append"]
    /\ UNCHANGED <<enable_locking, queue, current_mode, current_buf, board, call, section,
                   ok, data, calls, history>>

\* beacon_read_register looks at the address that comes back with the value.
Answered(t) == call[t].kind = "register" => data[t][0][1] = Register

\* Fault: beacon_read_raw has no DONE.
LeaveRawLocked(t, good) ==
    /\ mut' = IF Nested(t) \/ call[t].kind = "raw" THEN mut ELSE Nobody
    /\ section' = [section EXCEPT ![t] = @ + 1]
    /\ pc' = [pc EXCEPT ![t] = IF section[t] + 1 < NumSections(call[t]) THEN "lock" ELSE "idle"]
    /\ ok' = [ok EXCEPT ![t] = good /\ Answered(t)]

\* DONE(d), and on to the next section or back to the caller.
Leave(t, good) ==
    /\ mut' = IF Nested(t) THEN mut ELSE Nobody
    /\ section' = [section EXCEPT ![t] = @ + 1]
    /\ pc' = [pc EXCEPT ![t] = IF section[t] + 1 < NumSections(call[t]) THEN "lock" ELSE "idle"]
    /\ ok' = [ok EXCEPT ![t] = good /\ Answered(t)]

\* Faults: one transfer too many is taken, and a raw read does not note its buffer.
RoomForMore == Len(queue) <= MaxXfers
NotedBufEvent(t, e) == IF e.op = "buf" /\ call[t].kind # "raw" THEN e.arg ELSE current_buf

\* d->nused[which] < MAX_XFERS
Room == Len(queue) < MaxXfers

\* The caches after an append.
NotedMode(e)   == IF e.op = "mode" THEN e.arg ELSE current_mode
NotedBuf(t, e) == IF e.op = "buf" THEN e.arg ELSE current_buf

\* buffer_append with room in the queue; the caches follow.
Append1(t) ==
    /\ pc[t] = "append" /\ todo[t] # <<>> /\ Room
    /\ queue' = Append(queue, Head(todo[t]))
    /\ current_mode' = NotedMode(Head(todo[t]))
    /\ current_buf' = NotedBuf(t, Head(todo[t]))
    /\ todo' = [todo EXCEPT ![t] = Tail(@)]
    /\ UNCHANGED <<enable_locking, mut, board, pc, call, section, ok, data, calls, history>>

\* buffer_append with a full queue calls buffer_send first.
Full(t) ==
    /\ pc[t] = "append" /\ todo[t] # <<>> /\ ~Room
    /\ pc' = [pc EXCEPT ![t] = "full"]
    /\ UNCHANGED <<handle, board, call, section, todo, ok, data, calls, history>>

\* The end of a section, with a buffer_send that has something to send ...
Send(t) ==
    /\ pc[t] = "append" /\ todo[t] = <<>> /\ Sends(t) /\ queue # <<>>
    /\ pc' = [pc EXCEPT ![t] = "send"]
    /\ UNCHANGED <<handle, board, call, section, todo, ok, data, calls, history>>

\* ... or without.
EndSection(t) ==
    /\ pc[t] = "append" /\ todo[t] = <<>> /\ ~(Sends(t) /\ queue # <<>>)
    /\ Leave(t, ok[t])
    /\ UNCHANGED <<enable_locking, queue, current_mode, current_buf, board, call, todo, data,
                   calls, history>>

-----------------------------------------------------------------------------
\* do_xfer: one SPI_IOC_MESSAGE ioctl with the whole queue.

\* What the board puts out after the command e.
Answer(e) ==
    CASE e.op = "reg" -> <<e.arg, IF e.arg = Metadata THEN buf ELSE 0>>
      [] e.op = "addr" -> <<IF mode = "waveforms" THEN chan ELSE Nothing, buf>>
      [] OTHER -> out

\* The board executes the next transfer.
Transfer(t) ==
    /\ pc[t] \in {"full", "send"} /\ sent < Len(queue)
    /\ LET e == queue[sent + 1]
           live == calls[e.dst.thread] = e.dst.call /\ pc[e.dst.thread] # "idle"
       IN  /\ sent' = sent + 1
           /\ mode' = IF e.op = "mode" THEN e.arg ELSE mode
           /\ buf' = IF e.op \in {"buf", "rebuf"} THEN e.arg ELSE buf
           /\ chan' = IF e.op = "chan" THEN e.arg ELSE chan
           /\ out' = Answer(e)
           /\ data' = IF e.op = "rx" /\ live
                      THEN [data EXCEPT ![e.dst.thread][e.dst.slot] = out] ELSE data
           /\ late' = (late \/ (e.op = "rx" /\ ~live))
    /\ UNCHANGED <<handle, pc, call, section, todo, ok, calls, faults>>

\* The ioctl succeeds: d->nused = 0.
TransferDone(t) ==
    /\ pc[t] \in {"full", "send"} /\ sent = Len(queue)
    /\ sent' = 0 /\ queue' = <<>>
    /\ IF pc[t] = "full"
       THEN pc' = [pc EXCEPT ![t] = "append"] /\ UNCHANGED <<mut, section, ok>>
       ELSE Leave(t, ok[t])
    /\ UNCHANGED <<enable_locking, current_mode, current_buf, mode, buf, chan, out, call, todo,
                   data, calls, history>>

\* The ioctl fails, at any transfer: d->nused stays as it is.
Fault == /\ faults < MaxFaults /\ faults' = faults + 1
         /\ sent' = 0
         /\ UNCHANGED <<enable_locking, queue, current_buf, mode, buf, chan, out, call, data,
                        calls, late>>

\* CHK jumps to the end of beacon_read_multiple_ptr, past every DONE.
CheckFails(t) ==
    /\ pc[t] \in {"full", "send"} /\ Checked(t)
    /\ Fault
    /\ pc' = [pc EXCEPT ![t] = "idle"]
    /\ ok' = [ok EXCEPT ![t] = FALSE]
    /\ todo' = [todo EXCEPT ![t] = <<>>]
    /\ UNCHANGED <<mut, section, current_mode>>

\* A buffer_send at the end of another section fails: the call returns an error,
\* but for the mark_buffers_done of an event.
SendFails(t) ==
    /\ pc[t] = "send" /\ ~Checked(t)
    /\ Fault
    /\ Leave(t, call[t].kind = "event")
    /\ UNCHANGED <<todo, current_mode>>

\* A buffer_append fails.  The transfer is left out; beacon_read_status has set
\* current_mode all the same.
AppendFails(t) ==
    /\ pc[t] = "full" /\ ~Checked(t) /\ call[t].kind # "raw"
    /\ Fault
    /\ ok' = [ok EXCEPT ![t] = call[t].kind = "event"]
    /\ todo' = [todo EXCEPT ![t] = Tail(@)]
    /\ current_mode' = NotedMode(Head(todo[t]))
    /\ pc' = [pc EXCEPT ![t] = "append"]
    /\ UNCHANGED <<mut, section>>

\* beacon_read_raw returns 0 and keeps the mutex when one of its first three
\* transfers cannot be appended, and an error when a later one cannot.
RawFails(t) ==
    /\ pc[t] = "full" /\ call[t].kind = "raw"
    /\ Fault
    /\ todo' = [todo EXCEPT ![t] = <<>>]
    /\ IF Head(todo[t]).op \in {"mode", "buf", "chan"}
       THEN pc' = [pc EXCEPT ![t] = "idle"] /\ UNCHANGED ok
       ELSE pc' = [pc EXCEPT ![t] = "append"] /\ ok' = [ok EXCEPT ![t] = FALSE]
    /\ UNCHANGED <<mut, section, current_mode>>

-----------------------------------------------------------------------------
\* A thread inside a call goes on.
Step(t) == \/ Lock(t) \/ Append1(t) \/ Full(t) \/ Send(t) \/ EndSection(t)
           \/ Transfer(t) \/ TransferDone(t)

Next == \E t \in Threads :
            \/ \E c \in Call : Begin(t, c)
            \/ Step(t)
            \/ CheckFails(t) \/ SendFails(t) \/ AppendFails(t) \/ RawFails(t)

Spec     == Init /\ [][Next]_vars
FairSpec == Spec /\ \A t \in Threads : WF_vars(Step(t))

-----------------------------------------------------------------------------
TypeOK ==
    /\ enable_locking \in BOOLEAN /\ mut \in Threads \cup {Nobody}
    /\ Len(queue) <= MaxXfers
    /\ current_mode \in {"none", "register", "waveforms"}
    /\ current_buf \in Buffers \cup {-1}
    /\ sent \in 0 .. Len(queue)
    /\ mode \in {"register", "waveforms"} /\ buf \in Buffers /\ chan \in Channels
    /\ out \in Output
    /\ pc \in [Threads -> {"idle", "lock", "append", "full", "send"}]
    /\ call \in [Threads -> Call] /\ section \in [Threads -> 0 .. NumChan + 3]
    /\ ok \in [Threads -> BOOLEAN]
    /\ data \in [Threads -> [Slots -> Output]]
    /\ calls \in [Threads -> 0 .. MaxCalls]
    /\ late \in BOOLEAN /\ faults \in 0 .. MaxFaults
    /\ enable_locking => \A t \in Threads : pc[t] \in {"append", "full", "send"} => mut = t

\* What a call has asked for.
Asked(c) ==
    CASE c.kind = "event"  -> [s \in {0} \cup Channels |->
                                   <<IF s = 0 THEN Metadata ELSE s, c.buf>>]
      [] c.kind = "raw"    -> [s \in {1} |-> <<1, c.buf>>]
      [] c.kind = "status" -> [s \in {0, 1} |-> <<Register, 0>>]
      [] c.kind = "register" -> [s \in {0} |-> <<Register, 0>>]
      [] c.kind = "clear_buffer" -> <<>>

\* No ioctl has failed, or nobody else has used the handle.
Undisturbed(t) == faults = 0 \/ \A u \in Threads \ {t} : calls[u] = 0

\* A call that reports success has received exactly what it asked for, from its
\* own buffer and channel: whoever else has used the queue, selected another
\* buffer or mode or sent its transfers in the meantime, and, for a thread that
\* is alone, whatever failed before.  (After a fault beacon_read_raw may return
\* 0 without having read anything.)
OwnData ==
    \A t \in Threads :
        pc[t] = "idle" /\ ok[t] /\ Undisturbed(t) /\ (call[t].kind = "raw" => faults = 0)
        => \A s \in DOMAIN Asked(call[t]) : data[t][s] = Asked(call[t])[s]

\* As long as no ioctl fails nothing is received for a call that has returned: its
\* transfers, which point into its stack frame, have left the queue by then.
NoLateReceive == faults = 0 => ~late

\* What the board will have selected once the queue has gone out.
Selected(ops, now) ==
    LET at == {i \in DOMAIN queue : queue[i].op \in ops}
    IN  IF at = {} THEN now
        ELSE queue[CHOOSE i \in at : \A j \in at : j <= i].arg

\* A command that is left out because the cache says so is not needed: the board
\* will be in waveform mode when the cache says it is, and on the buffer of an
\* event that is being read when the cache names that buffer.
CachesHold ==
    /\ current_mode = "waveforms" => Selected({"mode"}, mode) = "waveforms"
    /\ \A t \in Threads :
          pc[t] # "idle" /\ call[t].kind = "event" /\ section[t] \in Channels
              /\ current_buf = call[t].buf
          => Selected({"buf", "rebuf"}, buf) = call[t].buf

\* As long as no ioctl fails every call returns: nobody waits for the mutex for
\* ever.
CallsReturn ==
    \A t \in Threads : (pc[t] # "idle" /\ faults = 0) ~> (pc[t] = "idle" \/ faults > 0)
=============================================================================
