----------------------------- MODULE EventReadout -----------------------------
(***************************************************************************)
(* The event path of libbeacon: the board stores triggered events in a     *)
(* ring of BN_NUM_BUFFER buffers, and one DAQ thread waits for them, reads *)
(* them with beacon_read_multiple_ptr, clears them, and now and then calls *)
(* beacon_reset (the BN_RESET_COUNTERS path; the calibration of the        *)
(* stronger resets is not in this module).                                 *)
(*                                                                         *)
(* The board is external: what it does is what the code in beacondaq.c     *)
(* relies on.  Software and board each keep a pointer into the ring        *)
(* (next_read_buffer and wr) and a count of events (event_counter and      *)
(* counter); nothing but the order of the calls keeps them in step.        *)
(*                                                                         *)
(* A transfer that fails (a short SPI_IOC_MESSAGE ioctl) may or may not    *)
(* have reached the board, and leaves its commands in d->buf.  Of those    *)
(* only the clear commands matter here: they are the set `queued`, and     *)
(* they are executed again by the next transfer that succeeds.             *)
(***************************************************************************)
EXTENDS Integers, FiniteSets

CONSTANTS
    NumBuffer,      \* BN_NUM_BUFFER
    Calls,          \* the optional calls the client makes, a subset of AllCalls
    MaxTriggers,    \* bound: events the board stores
    MaxReads,       \* bound: value of d->event_counter when a read starts
    MaxResets,      \* bound: calls of beacon_reset
    MaxFaults       \* bound: transfers that fail

AllCalls == {"single", "clear", "cancel", "sw_trigger", "ext_trigger", "drop"}

ASSUME NumBufferAssumption == NumBuffer \in Nat \ {0}
ASSUME CallsAssumption == Calls \subseteq AllCalls
ASSUME BoundsAssumption == /\ MaxTriggers \in Nat /\ MaxReads \in Nat
                           /\ MaxResets \in Nat /\ MaxFaults \in Nat

VARIABLES
    \* the board
    full,               \* buffers that hold an event not cleared yet
    wr,                 \* the buffer the next event goes to
    held,               \* the event last written to each buffer
    stored,             \* history: serial number of the newest stored event
    counter,            \* the event counter, what REG_EVENT_COUNTER_* reads
    trig_on,            \* phased trigger readout
    ext_on,             \* external trigger input used as a trigger
    \* the device handle
    next_read_buffer, event_counter, hardware_next,
    queued,             \* buffers whose clear command is still in d->buf
    \* the call the DAQ thread is in
    pc, mask, iibuf, ibuf, hdr,
    \* history
    delivered,          \* the last record returned to the client
    handed,             \* serial of the newest event handed over or discarded by a reset
    drift,              \* event_counter when the board's counter was last reset
    sound,              \* no transfer has failed since the last reset began
    clean,              \* reading has been in order, without faults, since the last reset
    resets, faults

board   == <<full, wr, held, stored, counter, trig_on, ext_on>>
handle  == <<next_read_buffer, event_counter, hardware_next, queued>>
call    == <<pc, mask, iibuf, ibuf, hdr>>
history == <<delivered, handed, drift, sound, clean, resets, faults>>
vars    == <<board, handle, call, history>>

Buffers == 0 .. NumBuffer - 1

Event    == [serial : Nat, count : Nat]
NoEvent  == [serial |-> 0, count |-> 0]

PCs == {"idle", "ready", "loop", "wave", "mark",
        "reset_clear", "reset_ptr", "reset_abort", "reset_count"}

TypeOK ==
    /\ full \subseteq Buffers /\ wr \in Buffers
    /\ held \in [Buffers -> Event]
    /\ stored \in Nat /\ counter \in Nat
    /\ trig_on \in BOOLEAN /\ ext_on \in BOOLEAN
    /\ next_read_buffer \in Buffers /\ hardware_next \in Buffers
    /\ event_counter \in Nat
    /\ queued \subseteq Buffers
    /\ pc \in PCs
    /\ mask \subseteq Buffers /\ iibuf \in Nat /\ ibuf \in Buffers
    /\ hdr \in Event
    /\ delivered \in [hd : Event, ev : Event]
    /\ handed \in Nat /\ drift \in Nat
    /\ sound \in BOOLEAN /\ clean \in BOOLEAN
    /\ resets \in Nat /\ faults \in Nat

-----------------------------------------------------------------------------
\* Helpers.

\* A fault for the checks to find: the pointer does not wrap around.
NextBufferNoWrap(b) == b + 1

\* (b + 1) % BN_NUM_BUFFER, the ring order of board and software.
NextBuffer(b) == (b + 1) % NumBuffer

\* b is __builtin_ctz(m), for a mask m that is not empty.
IsLowest(b, m) == b \in m /\ \A c \in m : b <= c

\* The buffer with the oldest event among those of f.
Oldest(f) == {b \in f : \A c \in f : held[b].serial <= held[c].serial}

\* The buffer the board reports in bits 20-21 of REG_STATUS when f are full.
BoardNext(f) == IF f = {} THEN {wr} ELSE Oldest(f)

\* A transfer that succeeds: everything left in d->buf goes out before the
\* commands of this call, which clear the buffers `done`.
Send(done) == /\ full' = full \ (queued \cup done)
              /\ queued' = {}

\* A transfer that fails: it reached the board or not, and d->nused keeps
\* its value, so the commands go out again with the next transfer.
SendFails(done) ==
    /\ faults < MaxFaults
    /\ faults' = faults + 1
    /\ full' \in {full, full \ (queued \cup done)}
    /\ queued' = queued \cup done
    /\ sound' = FALSE /\ clean' = FALSE

-----------------------------------------------------------------------------
\* The board after a successful beacon_open, and the handle it returns: memset
\* to zero, then beacon_reset(d, BN_RESET_COUNTERS).
Init ==
    /\ full = {} /\ wr = 0 /\ held = [b \in Buffers |-> NoEvent]
    /\ stored = 0 /\ counter = 0 /\ trig_on = FALSE /\ ext_on = FALSE
    /\ next_read_buffer = 0 /\ event_counter = 0 /\ hardware_next = 0
    /\ queued = {}
    /\ pc = "idle" /\ mask = {} /\ iibuf = 0 /\ ibuf = 0 /\ hdr = NoEvent
    /\ delivered = [hd |-> NoEvent, ev |-> NoEvent]
    /\ handed = 0 /\ drift = 0 /\ sound = TRUE /\ clean = TRUE
    /\ resets = 0 /\ faults = 0

-----------------------------------------------------------------------------
\* The board.

\* An event is stored in the buffer the board's pointer names, when it is free.
Store ==
    /\ stored < MaxTriggers
    /\ wr \notin full
    /\ full' = full \cup {wr}
    /\ held' = [held EXCEPT ![wr] = [serial |-> stored + 1, count |-> counter + 1]]
    /\ stored' = stored + 1
    /\ counter' = counter + 1
    /\ wr' = NextBuffer(wr)
    /\ UNCHANGED <<trig_on, ext_on, handle, history>>

\* A phased or an external trigger, at any moment of the thread's call.
Trigger == (trig_on \/ ext_on) /\ Store /\ UNCHANGED call

-----------------------------------------------------------------------------
\* Calls that only write one register.

\* beacon_sw_trigger
SwTrigger == "sw_trigger" \in Calls /\ pc = "idle" /\ Store /\ UNCHANGED call

\* beacon_phased_trigger_readout, called by the client
PhasedTriggerReadout ==
    /\ pc = "idle"
    /\ trig_on' = ~trig_on
    /\ UNCHANGED <<full, wr, held, stored, counter, ext_on, handle, call, history>>

\* beacon_configure_ext_trigger_in
ConfigureExtTrigger ==
    /\ "ext_trigger" \in Calls /\ pc = "idle"
    /\ ext_on' = ~ext_on
    /\ UNCHANGED <<full, wr, held, stored, counter, trig_on, handle, call, history>>

-----------------------------------------------------------------------------
\* beacon_wait: one turn of its polling loop, beacon_check_buffers.
Poll ==
    /\ pc = "idle"
    /\ Send({})
    /\ mask' = full'
    /\ hardware_next' \in BoardNext(full')
    /\ pc' = IF mask' = {} THEN "idle" ELSE "ready"
    /\ UNCHANGED <<wr, held, stored, counter, trig_on, ext_on, next_read_buffer,
                   event_counter, iibuf, ibuf, hdr, history>>

\* The result of buffer_send is not looked at and `result` is uninitialized:
\* the loop ends or goes on with whatever the stack holds.
PollFails ==
    /\ pc = "idle"
    /\ SendFails({})
    /\ mask' \in SUBSET Buffers
    /\ hardware_next' \in Buffers
    /\ pc' = IF mask' = {} THEN "idle" ELSE "ready"
    /\ UNCHANGED <<wr, held, stored, counter, trig_on, ext_on, next_read_buffer,
                   event_counter, iibuf, ibuf, hdr,
                   delivered, handed, drift, resets>>

\* beacon_wait returns EAGAIN (a cancel is pending) without writing *ready, and
\* beacon_wait_for_and_read_multiple_events goes on with its uninitialized mask.
WaitNotRun ==
    /\ "cancel" \in Calls /\ pc = "idle"
    /\ mask' \in SUBSET Buffers
    /\ pc' = IF mask' = {} THEN "idle" ELSE "ready"
    /\ clean' = FALSE
    /\ UNCHANGED <<board, handle, iibuf, ibuf, hdr,
                   delivered, handed, drift, sound, resets, faults>>

\* The client does not read what it waited for.
Drop ==
    /\ "drop" \in Calls /\ pc = "ready"
    /\ pc' = "idle"
    /\ UNCHANGED <<board, handle, mask, iibuf, ibuf, hdr, history>>

-----------------------------------------------------------------------------
\* beacon_read_multiple_ptr.

\* beacon_read_multiple_array with the mask of beacon_wait.
ReadMultiple ==
    /\ pc = "ready" /\ event_counter < MaxReads
    /\ pc' = "loop" /\ iibuf' = 0
    /\ UNCHANGED <<board, handle, mask, ibuf, hdr, history>>

\* beacon_read_single on any buffer ("does not check if there is anything
\* available in the buffer"); in order only for the oldest full one.
ReadSingle(b) ==
    /\ "single" \in Calls /\ pc = "idle" /\ event_counter < MaxReads
    /\ mask' = {b} /\ pc' = "loop" /\ iibuf' = 0
    /\ clean' = (clean /\ b \in Oldest(full))
    /\ UNCHANGED <<board, handle, ibuf, hdr,
                   delivered, handed, drift, sound, resets, faults>>

\* Faults: event_counter or next_read_buffer keeps its value.
AdvanceNoCount ==
    /\ pc = "loop" /\ next_read_buffer \in mask
    /\ ibuf' = next_read_buffer
    /\ next_read_buffer' = NextBuffer(next_read_buffer)
    /\ UNCHANGED <<hardware_next, event_counter>>
AdvanceNoPointer ==
    /\ pc = "loop" /\ next_read_buffer \in mask
    /\ ibuf' = next_read_buffer
    /\ event_counter' = event_counter + 1
    /\ UNCHANGED <<hardware_next, next_read_buffer>>

\* Select the buffer, read its metadata registers, fill the header.  Both
\* counters of the handle advance before the transfer.
Advance ==
    /\ pc = "loop" /\ next_read_buffer \in mask
    /\ ibuf' = next_read_buffer
    /\ event_counter' = event_counter + 1
    /\ next_read_buffer' = NextBuffer(next_read_buffer)
    /\ UNCHANGED hardware_next

ReadMetadata ==
    /\ Advance
    /\ Send({})
    /\ hdr' = held[next_read_buffer]
    /\ pc' = "wave"
    /\ UNCHANGED <<wr, held, stored, counter, trig_on, ext_on, mask, iibuf, history>>

\* CHK: the call returns at once, the counters stay advanced.
ReadMetadataFails ==
    /\ Advance
    /\ SendFails({})
    /\ pc' = "idle"
    /\ UNCHANGED <<wr, held, stored, counter, trig_on, ext_on, mask, iibuf, hdr,
                   delivered, handed, drift, resets>>

\* next_read_buffer is not in the mask: it is set to the lowest buffer of the
\* mask, and `break` skips the header and the waveforms but not what follows
\* the loop over boards.  The record is returned as it is.
SyncIssue ==
    /\ pc = "loop" /\ next_read_buffer \notin mask
    /\ \E b \in mask : IsLowest(b, mask) /\ next_read_buffer' = b /\ ibuf' = b
    /\ hdr' = NoEvent
    /\ delivered' = [hd |-> NoEvent, ev |-> NoEvent]
    /\ pc' = "mark"
    /\ UNCHANGED <<board, event_counter, hardware_next, queued, mask, iibuf,
                   handed, drift, sound, clean, resets, faults>>

\* Fault: the waveforms come from the buffer that is read next.
ReadWaveformsOfNext ==
    /\ pc = "wave"
    /\ Send({})
    /\ delivered' = [hd |-> hdr, ev |-> held[next_read_buffer]]
    /\ handed' = hdr.serial
    /\ pc' = "mark"
    /\ UNCHANGED <<wr, held, stored, counter, trig_on, ext_on, next_read_buffer,
                   event_counter, hardware_next, mask, iibuf, ibuf, hdr,
                   drift, sound, clean, resets, faults>>

\* The waveforms of all channels of ibuf, in one transfer.
ReadWaveforms ==
    /\ pc = "wave"
    /\ Send({})
    /\ delivered' = [hd |-> hdr, ev |-> held[ibuf]]
    /\ handed' = hdr.serial
    /\ pc' = "mark"
    /\ UNCHANGED <<wr, held, stored, counter, trig_on, ext_on, next_read_buffer,
                   event_counter, hardware_next, mask, iibuf, ibuf, hdr,
                   drift, sound, clean, resets, faults>>

ReadWaveformsFails ==
    /\ pc = "wave"
    /\ SendFails({})
    /\ pc' = "idle"
    /\ UNCHANGED <<wr, held, stored, counter, trig_on, ext_on, next_read_buffer,
                   event_counter, hardware_next, mask, iibuf, ibuf, hdr,
                   delivered, handed, drift, resets>>

\* iout++, iibuf++ and the loop condition iibuf < popcount(mask).
NextIteration ==
    /\ iibuf' = iibuf + 1
    /\ pc' = IF iibuf + 1 < Cardinality(mask) THEN "loop" ELSE "idle"
    /\ UNCHANGED <<mask, ibuf, hdr>>

\* Faults: the whole mask is marked, or nothing is.
MarkedAll == mask
MarkedNone == {}

\* 1 << ibuf
Marked == {ibuf}

\* mark_buffers_done(d, 1 << ibuf)
MarkDone ==
    /\ pc = "mark"
    /\ Send(Marked)
    /\ NextIteration
    /\ UNCHANGED <<wr, held, stored, counter, trig_on, ext_on, next_read_buffer,
                   event_counter, hardware_next, history>>

\* Its return value is ignored: the loop goes on.
MarkDoneFails ==
    /\ pc = "mark"
    /\ SendFails(Marked)
    /\ NextIteration
    /\ UNCHANGED <<wr, held, stored, counter, trig_on, ext_on, next_read_buffer,
                   event_counter, hardware_next, delivered, handed, drift, resets>>

\* beacon_clear_buffer: in order only when it clears nothing.
ClearBuffer(m) ==
    /\ "clear" \in Calls /\ pc = "idle"
    /\ Send(m)
    /\ clean' = (clean /\ m \cap full = {})
    /\ UNCHANGED <<wr, held, stored, counter, trig_on, ext_on, next_read_buffer,
                   event_counter, hardware_next, call,
                   delivered, handed, drift, sound, resets, faults>>

-----------------------------------------------------------------------------
\* beacon_reset(d, BN_RESET_COUNTERS).  Its register writes are single
\* do_write calls that do not go through d->buf.

Fault == faults < MaxFaults /\ faults' = faults + 1 /\ sound' = FALSE /\ clean' = FALSE

\* beacon_phased_trigger_readout(d, 0)
ResetBegin ==
    /\ pc = "idle" /\ resets < MaxResets
    /\ resets' = resets + 1
    /\ trig_on' = FALSE
    /\ sound' = TRUE
    /\ pc' = "reset_clear"
    /\ UNCHANGED <<full, wr, held, stored, counter, ext_on, handle, mask, iibuf, ibuf,
                   hdr, delivered, handed, drift, clean, faults>>

\* The write fails and beacon_phased_trigger_readout returns 0 all the same.
ResetBeginFails ==
    /\ pc = "idle" /\ resets < MaxResets
    /\ Fault
    /\ resets' = resets + 1
    /\ trig_on' \in {FALSE, trig_on}
    /\ pc' = "reset_clear"
    /\ UNCHANGED <<full, wr, held, stored, counter, ext_on, handle, mask, iibuf, ibuf,
                   hdr, delivered, handed, drift>>

\* buf_clear[0xf]: every buffer is discarded.
ResetClear ==
    /\ pc = "reset_clear"
    /\ full' = {}
    /\ handed' = stored
    /\ clean' = FALSE
    /\ pc' = "reset_ptr"
    /\ UNCHANGED <<wr, held, stored, counter, trig_on, ext_on, handle, mask, iibuf, ibuf,
                   hdr, delivered, drift, sound, resets, faults>>

ResetClearFails ==
    /\ pc = "reset_clear"
    /\ Fault
    /\ full' \in {full, {}}
    /\ pc' = "reset_abort"
    /\ UNCHANGED <<wr, held, stored, counter, trig_on, ext_on, handle, mask, iibuf, ibuf,
                   hdr, delivered, handed, drift, resets>>

\* Fault: next_read_buffer keeps its value.
ResetPtrOfBoard ==
    /\ pc = "reset_ptr"
    /\ wr' = 0
    /\ clean' = (sound /\ ~ext_on /\ queued = {})
    /\ pc' = "reset_count"
    /\ UNCHANGED <<full, held, stored, counter, trig_on, ext_on, handle, mask, iibuf, ibuf,
                   hdr, delivered, handed, drift, sound, resets, faults>>

\* buf_reset_buf and next_read_buffer = 0: both pointers are at zero again, and
\* reading is in order if nothing came in between and nothing is left in d->buf.
ResetPtr ==
    /\ pc = "reset_ptr"
    /\ wr' = 0
    /\ next_read_buffer' = 0
    /\ clean' = (sound /\ ~ext_on /\ queued = {})
    /\ pc' = "reset_count"
    /\ UNCHANGED <<full, held, stored, counter, trig_on, ext_on, event_counter,
                   hardware_next, queued, mask, iibuf, ibuf, hdr,
                   delivered, handed, drift, sound, resets, faults>>

\* One of the two writes failed: return 1 before next_read_buffer = 0.
ResetAbort ==
    /\ \/ pc = "reset_ptr" /\ Fault /\ wr' \in {wr, 0}
       \/ pc = "reset_abort" /\ wr' = 0 /\ UNCHANGED <<sound, clean, faults>>
    /\ pc' = "idle"
    /\ UNCHANGED <<full, held, stored, counter, trig_on, ext_on, handle, mask, iibuf, ibuf,
                   hdr, delivered, handed, drift, resets>>

\* buf_reset_counter.  d->event_counter keeps its value.
ResetCount ==
    /\ pc = "reset_count"
    /\ counter' = 0
    /\ drift' = event_counter
    /\ pc' = "idle"
    /\ UNCHANGED <<full, wr, held, stored, trig_on, ext_on, handle, mask, iibuf, ibuf, hdr,
                   delivered, handed, sound, clean, resets, faults>>

ResetCountFails ==
    /\ pc = "reset_count"
    /\ Fault
    /\ counter' \in {counter, 0}
    /\ pc' = "idle"
    /\ UNCHANGED <<full, wr, held, stored, trig_on, ext_on, handle, mask, iibuf, ibuf, hdr,
                   delivered, handed, drift, resets>>

-----------------------------------------------------------------------------
Read  == \/ ReadMultiple
         \/ \E b \in Buffers : ReadSingle(b)
         \/ ReadMetadata \/ SyncIssue \/ ReadWaveforms \/ MarkDone
         \/ ReadMetadataFails \/ ReadWaveformsFails \/ MarkDoneFails

Reset == \/ ResetBegin \/ ResetClear \/ ResetPtr \/ ResetCount
         \/ ResetBeginFails \/ ResetClearFails \/ ResetAbort \/ ResetCountFails

Next == \/ Trigger \/ SwTrigger \/ PhasedTriggerReadout \/ ConfigureExtTrigger
        \/ Poll \/ PollFails \/ WaitNotRun \/ Drop
        \/ Read
        \/ \E m \in SUBSET Buffers : ClearBuffer(m)
        \/ Reset

Spec == Init /\ [][Next]_vars

\* A client that calls beacon_wait_for_and_read_multiple_events again and again:
\* its thread goes on, inside a call and from one call to the next.  Nothing is
\* assumed of the board and of the calls the client may choose to make.
DAQLoop == \/ Poll \/ ReadMultiple \/ ReadMetadata \/ ReadWaveforms \/ MarkDone
           \/ ResetClear \/ ResetPtr \/ ResetCount

FairSpec == Spec /\ WF_vars(DAQLoop)

-----------------------------------------------------------------------------
\* Properties.  "In order" is `clean`: no transfer has failed and the client has
\* not read or cleared out of order since beacon_open or the last reset.

\* While reading is in order, the buffer software wants next is always one of
\* those it was told are ready: the "Sync issue?" branch of
\* beacon_read_multiple_ptr is not taken.
NoSyncIssue == clean /\ pc = "loop" => next_read_buffer \in mask

\* While reading is in order, every event the board stored and software has not
\* handed over is still in a buffer: none is cleared or overwritten unread.
NothingLost ==
    clean => \A s \in (handed + 1) .. stored : \E b \in full : held[b].serial = s

\* While reading is in order, between calls the only full buffers are those of
\* events not handed over yet: each buffer that was read has been cleared, so
\* the ring cannot fill up with read events and stop the board.
NoBufferLeak ==
    clean /\ pc \in {"idle", "ready"} => Cardinality(full) = stored - handed

\* While reading is in order, each record returned has the header and the
\* waveforms of the same event, the one after the event returned before it.
\* The two are read in different transfers, with triggers in between.
DeliveredInOrder ==
    [][clean /\ delivered' # delivered
         => /\ delivered'.hd = delivered'.ev
            /\ delivered'.hd.serial = handed + 1]_vars

\* While reading is in order, d->event_counter and the event counter read from
\* the board differ by what d->event_counter was at the last reset.
CounterTracksBoard ==
    clean /\ pc = "wave" => event_counter = drift + hdr.count

\* While reading is in order, the buffer the board reports as its next one is
\* the one software reads next.
HardwareAgrees ==
    clean /\ pc = "ready" => hardware_next = next_read_buffer

\* The readout implements the lossless in-order stream of EventStream.
Stream == INSTANCE EventStream WITH
    Capacity <- NumBuffer,
    freed    <- stored - Cardinality(full),
    header   <- delivered.hd.serial,
    waveform <- delivered.ev.serial,
    insync   <- clean

ImplementsStream == Stream!Spec

-----------------------------------------------------------------------------
\* The inductive invariant behind them.

\* Serial of the oldest event that is still in a buffer: between the delivery
\* of an event and the clear of its buffer, that event.
First == IF pc = "mark" THEN handed ELSE handed + 1

\* The full buffers hold the events First .. stored, once each,
Window   == \A b \in full : held[b].serial \in First .. stored
Complete == \A s \in First .. stored : \E b \in full : held[b].serial = s
Distinct == \A b, c \in full : held[b].serial = held[c].serial => b = c
Count    == Cardinality(full) = stored + 1 - First
\* one after the other in ring order up to the board's write pointer,
Chain    == \A b \in full :
                IF held[b].serial = stored
                THEN NextBuffer(b) = wr
                ELSE /\ NextBuffer(b) \in full
                     /\ held[NextBuffer(b)].serial = held[b].serial + 1
Ring == Window /\ Complete /\ Distinct /\ Count /\ Chain

\* Software's pointer is where the next event to read is or will be.
Head ==
    CASE pc = "wave" -> /\ ibuf \in full /\ held[ibuf].serial = handed + 1
                        /\ hdr = held[ibuf] /\ next_read_buffer = NextBuffer(ibuf)
      [] pc = "mark" -> /\ ibuf \in full /\ held[ibuf].serial = handed
                        /\ next_read_buffer = NextBuffer(ibuf)
      [] OTHER       -> IF handed = stored
                        THEN next_read_buffer = wr
                        ELSE /\ next_read_buffer \in full
                             /\ held[next_read_buffer].serial = handed + 1

\* Buffers of the mask still to be read, the current one included.
Pending == IF pc = "ready" THEN Cardinality(mask) ELSE Cardinality(mask) - iibuf

\* That many events are stored, and the mask has their buffers.
MaskCovers ==
    pc \in {"ready", "loop", "wave", "mark"} =>
        /\ Pending >= 1 /\ First + Pending <= stored + 1
        /\ \A b \in full : held[b].serial < First + Pending => b \in mask

\* d->event_counter as of the newest event handed over.
Counted == IF pc = "wave" THEN event_counter - 1 ELSE event_counter

Counters ==
    pc # "reset_count" =>
        /\ drift + counter = Counted + stored - handed
        /\ \A b \in full : drift + held[b].count = Counted + held[b].serial - handed

InOrder ==
    /\ handed <= stored /\ queued = {}
    /\ Ring /\ Head /\ MaskCovers /\ Counters
    /\ pc = "ready" => hardware_next = next_read_buffer
    /\ pc = "reset_count" => ~trig_on /\ ~ext_on /\ handed = stored
    /\ pc \notin {"reset_ptr", "reset_abort"}

\* While a reset whose writes have succeeded is under way the phased trigger is
\* off; once it has cleared the buffers they stay empty.
Quiet ==
    /\ sound /\ pc \in {"reset_clear", "reset_ptr"} => ~trig_on
    /\ sound /\ ~ext_on /\ pc = "reset_ptr" => full = {} /\ handed = stored

IInv == TypeOK /\ Quiet /\ (clean => InOrder)
==============================================================================
