-------------------------- MODULE EventReadoutProofs --------------------------
(* Theorems about EventReadout, for every ring size and every bound. *)
EXTENDS EventReadout, FiniteSetTheorems, TLAPS

-----------------------------------------------------------------------------
\* Operators.

LEMMA ZeroInBuffers == 0 \in Buffers
BY NumBufferAssumption DEF Buffers

LEMMA NextInBuffers == ASSUME NEW b \in Buffers PROVE NextBuffer(b) \in Buffers
BY NumBufferAssumption DEF Buffers, NextBuffer

LEMMA BuffersFinite == ASSUME NEW f \in SUBSET Buffers PROVE IsFiniteSet(f)
<1>1. IsFiniteSet(Buffers)
  BY NumBufferAssumption, FS_Interval DEF Buffers
<1> QED
  BY <1>1, FS_Subset

LEMMA NoEventIsEvent == NoEvent \in Event
BY DEF NoEvent, Event

-----------------------------------------------------------------------------
\* The type invariant holds of every behaviour.

LEMMA TypeInit == Init => TypeOK
<1>1. /\ [b \in Buffers |-> NoEvent] \in [Buffers -> Event]
      /\ [hd |-> NoEvent, ev |-> NoEvent] \in [hd : Event, ev : Event]
  BY NoEventIsEvent
<1> SUFFICES ASSUME Init PROVE TypeOK
  OBVIOUS
<1>2. trig_on \in BOOLEAN /\ ext_on \in BOOLEAN /\ sound \in BOOLEAN /\ clean \in BOOLEAN
  BY DEF Init
<1>3. /\ full \subseteq Buffers /\ wr \in Buffers /\ held \in [Buffers -> Event]
      /\ stored \in Nat /\ counter \in Nat
  BY <1>1, ZeroInBuffers DEF Init
<1>4. /\ next_read_buffer \in Buffers /\ hardware_next \in Buffers
      /\ event_counter \in Nat /\ queued \subseteq Buffers
      /\ pc \in PCs /\ mask \subseteq Buffers /\ iibuf \in Nat /\ ibuf \in Buffers
  BY ZeroInBuffers DEF Init, PCs
<1>5. /\ hdr \in Event /\ delivered \in [hd : Event, ev : Event]
      /\ handed \in Nat /\ drift \in Nat /\ resets \in Nat /\ faults \in Nat
  BY <1>1, NoEventIsEvent DEF Init
<1> QED
  BY <1>2, <1>3, <1>4, <1>5 DEF TypeOK

LEMMA SendFailsType ==
    ASSUME TypeOK, NEW done \in SUBSET Buffers, SendFails(done)
    PROVE  /\ full' \subseteq Buffers /\ queued' \subseteq Buffers
           /\ sound' \in BOOLEAN /\ clean' \in BOOLEAN /\ faults' \in Nat
<1>1. full' \subseteq Buffers /\ queued' \subseteq Buffers
  BY DEF TypeOK, SendFails
<1>2. sound' \in BOOLEAN /\ clean' \in BOOLEAN
  BY DEF SendFails
<1>3. faults' \in Nat
  BY DEF TypeOK, SendFails
<1> QED
  BY <1>1, <1>2, <1>3

LEMMA FaultType ==
    ASSUME TypeOK, Fault
    PROVE  sound' \in BOOLEAN /\ clean' \in BOOLEAN /\ faults' \in Nat
<1>1. sound' \in BOOLEAN /\ clean' \in BOOLEAN
  BY DEF Fault
<1>2. faults' \in Nat
  BY DEF TypeOK, Fault
<1> QED
  BY <1>1, <1>2

LEMMA StoreType ==
    ASSUME TypeOK, Store
    PROVE  /\ full' \in SUBSET Buffers /\ held' \in [Buffers -> Event]
           /\ stored' \in Nat /\ counter' \in Nat /\ wr' \in Buffers
BY NextInBuffers DEF TypeOK, Store, Event

LEMMA TypeNext == TypeOK /\ [Next]_vars => TypeOK'
<1> SUFFICES ASSUME TypeOK, [Next]_vars PROVE TypeOK'
  OBVIOUS
<1> USE DEF TypeOK, board, handle, call, history
<1>1. CASE Trigger
  BY <1>1, StoreType DEF Trigger, Store
<1>2. CASE SwTrigger
  BY <1>2, StoreType DEF SwTrigger, Store
<1>3. CASE PhasedTriggerReadout
  BY <1>3 DEF PhasedTriggerReadout
<1>4. CASE ConfigureExtTrigger
  BY <1>4 DEF ConfigureExtTrigger
<1>5. CASE Poll
  BY <1>5 DEF Poll, Send, BoardNext, Oldest, PCs
<1>6. CASE PollFails
  BY <1>6, SendFailsType DEF PollFails, PCs
<1>7. CASE WaitNotRun
  BY <1>7 DEF WaitNotRun, PCs
<1>8. CASE Drop
  BY <1>8 DEF Drop, PCs
<1>9. CASE Read
  <2>1. CASE ReadMultiple
    BY <2>1 DEF ReadMultiple, PCs
  <2>2. ASSUME NEW b \in Buffers, ReadSingle(b) PROVE TypeOK'
    BY <2>2 DEF ReadSingle, PCs
  <2>3. CASE ReadMetadata
    BY <2>3, NextInBuffers DEF ReadMetadata, Advance, Send, PCs
  <2>4. CASE SyncIssue
    BY <2>4, NoEventIsEvent DEF SyncIssue, PCs
  <2>5. CASE ReadWaveforms
    BY <2>5 DEF ReadWaveforms, Send, PCs, Event
  <2>6. CASE MarkDone
    BY <2>6 DEF MarkDone, Marked, Send, NextIteration, PCs
  <2>7. CASE ReadMetadataFails
    BY <2>7, SendFailsType, NextInBuffers DEF ReadMetadataFails, Advance, PCs
  <2>8. CASE ReadWaveformsFails
    BY <2>8, SendFailsType DEF ReadWaveformsFails, PCs
  <2>9. CASE MarkDoneFails
    BY <2>9, SendFailsType DEF MarkDoneFails, Marked, NextIteration, PCs
  <2> QED
    BY <1>9, <2>1, <2>2, <2>3, <2>4, <2>5, <2>6, <2>7, <2>8, <2>9 DEF Read
<1>10. ASSUME NEW m \in SUBSET Buffers, ClearBuffer(m) PROVE TypeOK'
  BY <1>10 DEF ClearBuffer, Send
<1>11. CASE Reset
  <2> USE DEF PCs
  <2>1. CASE ResetBegin
    <3>1. trig_on' \in BOOLEAN /\ sound' \in BOOLEAN
      BY <2>1 DEF ResetBegin
    <3>2. resets' \in Nat /\ pc' \in PCs
      BY <2>1 DEF ResetBegin
    <3>3. UNCHANGED <<full, wr, held, stored, counter, ext_on, handle, mask, iibuf, ibuf,
                      hdr, delivered, handed, drift, clean, faults>>
      BY <2>1 DEF ResetBegin
    <3> QED
      BY <3>1, <3>2, <3>3
  <2>2. CASE ResetClear
    BY <2>2 DEF ResetClear
  <2>3. CASE ResetPtr
    BY <2>3, ZeroInBuffers DEF ResetPtr
  <2>4. CASE ResetCount
    BY <2>4 DEF ResetCount
  <2>5. CASE ResetBeginFails
    <3>1. trig_on' \in BOOLEAN
      BY <2>5 DEF ResetBeginFails
    <3>2. resets' \in Nat /\ pc' \in PCs
      BY <2>5 DEF ResetBeginFails
    <3>3. UNCHANGED <<full, wr, held, stored, counter, ext_on, handle, mask, iibuf, ibuf,
                      hdr, delivered, handed, drift>>
      BY <2>5 DEF ResetBeginFails
    <3>4. Fault
      BY <2>5 DEF ResetBeginFails
    <3> QED
      BY <3>1, <3>2, <3>3, <3>4, FaultType
  <2>6. CASE ResetClearFails
    BY <2>6, FaultType DEF ResetClearFails
  <2>7. CASE ResetAbort
    BY <2>7, ZeroInBuffers, FaultType DEF ResetAbort
  <2>8. CASE ResetCountFails
    BY <2>8, FaultType DEF ResetCountFails
  <2> QED
    BY <1>11, <2>1, <2>2, <2>3, <2>4, <2>5, <2>6, <2>7, <2>8 DEF Reset
<1>12. CASE UNCHANGED vars
  BY <1>12 DEF vars
<1> QED
  BY <1>1, <1>2, <1>3, <1>4, <1>5, <1>6, <1>7, <1>8, <1>9, <1>10, <1>11, <1>12 DEF Next

THEOREM TypeCorrect == Spec => []TypeOK
<1> QED
  BY TypeInit, TypeNext, PTL DEF Spec

-----------------------------------------------------------------------------
\* The ring of full buffers under the steps that change it.

LEMMA RingUnchanged ==
    ASSUME Ring, UNCHANGED <<full, wr, held, stored>>, First' = First
    PROVE  Ring'
BY DEF Ring, Window, Complete, Distinct, Count, Chain

\* The board stores an event.
LEMMA RingStore ==
    ASSUME TypeOK, Ring, handed <= stored, Store, First' = First
    PROVE  Ring'
<1>1. /\ wr \notin full /\ full' = full \cup {wr} /\ wr \in Buffers
      /\ stored' = stored + 1 /\ wr' = NextBuffer(wr)
      /\ held'[wr].serial = stored + 1
      /\ \A b \in full : held'[b] = held[b]
  BY DEF TypeOK, Store
<1>2. First \in Nat /\ First <= stored + 1 /\ stored \in Nat
  BY DEF TypeOK, First
<1>3. \A b \in full : held[b].serial \in First .. stored
  BY DEF Ring, Window
<1>4. Window'
  BY <1>1, <1>2, <1>3 DEF Window
<1>5. Complete'
  <2> SUFFICES ASSUME NEW s \in First .. stored + 1
               PROVE  \E b \in full' : held'[b].serial = s
    BY <1>1 DEF Complete
  <2>1. CASE s = stored + 1
    BY <2>1, <1>1
  <2>2. CASE s # stored + 1
    <3>1. s \in First .. stored
      BY <2>2, <1>2
    <3>2. PICK b \in full : held[b].serial = s
      BY <3>1 DEF Ring, Complete
    <3> QED
      BY <3>2, <1>1
  <2> QED
    BY <2>1, <2>2
<1>6. Distinct'
  <2> SUFFICES ASSUME NEW b \in full', NEW c \in full', held'[b].serial = held'[c].serial
               PROVE  b = c
    BY DEF Distinct
  <2>1. \A d \in full : held'[d].serial # held'[wr].serial
    BY <1>1, <1>2, <1>3
  <2>2. CASE b \in full /\ c \in full
    BY <2>2, <1>1 DEF Ring, Distinct
  <2> QED
    BY <2>1, <2>2, <1>1
<1>7. Count'
  <2>1. IsFiniteSet(full)
    BY BuffersFinite DEF TypeOK
  <2>2. Cardinality(full') = Cardinality(full) + 1
    BY <2>1, <1>1, FS_AddElement
  <2> QED
    BY <2>2, <1>1, <1>2 DEF Ring, Count
<1>8. Chain'
  <2> SUFFICES ASSUME NEW b \in full'
               PROVE  IF held'[b].serial = stored + 1
                      THEN NextBuffer(b) = NextBuffer(wr)
                      ELSE /\ NextBuffer(b) \in full'
                           /\ held'[NextBuffer(b)].serial = held'[b].serial + 1
    BY <1>1 DEF Chain
  <2>1. CASE b = wr
    BY <2>1, <1>1
  <2>2. CASE b \in full
    <3>1. held'[b] = held[b] /\ held[b].serial # stored + 1
      BY <2>2, <1>1, <1>2, <1>3
    <3>2. CASE held[b].serial = stored
      <4>1. NextBuffer(b) = wr
        BY <2>2, <3>2 DEF Ring, Chain
      <4> QED
        BY <3>1, <3>2, <4>1, <1>1
    <3>3. CASE held[b].serial # stored
      <4>1. NextBuffer(b) \in full /\ held[NextBuffer(b)].serial = held[b].serial + 1
        BY <2>2, <3>3 DEF Ring, Chain
      <4> QED
        BY <3>1, <4>1, <1>1
    <3> QED
      BY <3>2, <3>3
  <2> QED
    BY <2>1, <2>2, <1>1
<1> QED
  BY <1>4, <1>5, <1>6, <1>7, <1>8 DEF Ring

\* The buffer of the oldest event is cleared.
LEMMA RingClear ==
    ASSUME TypeOK, Ring, NEW b0 \in full, held[b0].serial = First, First \in Nat,
           full' = full \ {b0}, UNCHANGED <<wr, held, stored>>, First' = First + 1
    PROVE  Ring'
<1>1. stored \in Nat
  BY DEF TypeOK
<1>2. \A b \in full : held[b].serial \in First .. stored
  BY DEF Ring, Window
<1>3. \A b \in full : held[b].serial = First => b = b0
  BY DEF Ring, Distinct
<1>4. Window'
  BY <1>1, <1>2, <1>3 DEF Window
<1>5. Complete'
  <2> SUFFICES ASSUME NEW s \in First + 1 .. stored
               PROVE  \E b \in full' : held[b].serial = s
    BY DEF Complete
  <2>1. s \in First .. stored /\ s # First
    BY <1>1
  <2>2. PICK b \in full : held[b].serial = s
    BY <2>1 DEF Ring, Complete
  <2> QED
    BY <2>1, <2>2
<1>6. Distinct'
  BY DEF Ring, Distinct
<1>7. Count'
  <2>1. IsFiniteSet(full)
    BY BuffersFinite DEF TypeOK
  <2>2. Cardinality(full') = Cardinality(full) - 1
    BY <2>1, FS_RemoveElement
  <2> QED
    BY <2>2, <1>1 DEF Ring, Count
<1>8. Chain'
  <2> SUFFICES ASSUME NEW b \in full', held[b].serial # stored
               PROVE  NextBuffer(b) # b0
    BY DEF Ring, Chain
  <2>1. held[NextBuffer(b)].serial = held[b].serial + 1
    BY DEF Ring, Chain
  <2> QED
    BY <2>1, <1>1, <1>2
<1> QED
  BY <1>4, <1>5, <1>6, <1>7, <1>8 DEF Ring

-----------------------------------------------------------------------------
\* While reading is in order, each step keeps it in order.

\* A sync issue is impossible: the next event to read is stored, so it is at
\* next_read_buffer, and the mask has its buffer.
LEMMA NextIsPending ==
    ASSUME TypeOK, InOrder, pc = "loop"
    PROVE  /\ next_read_buffer \in full /\ next_read_buffer \in mask
           /\ held[next_read_buffer].serial = handed + 1 /\ handed < stored
<1>1. /\ stored \in Nat /\ handed \in Nat /\ iibuf \in Nat
      /\ First = handed + 1
  BY DEF TypeOK, First
<1>2. Cardinality(mask) \in Nat
  BY BuffersFinite, FS_CardinalityType DEF TypeOK
<1>3. Pending \in Int
  BY <1>1, <1>2 DEF Pending
<1>4. /\ Pending >= 1 /\ First + Pending <= stored + 1
      /\ \A b \in full : held[b].serial < First + Pending => b \in mask
  BY DEF InOrder, MaskCovers
<1>5. handed < stored
  BY <1>1, <1>3, <1>4
<1>6. next_read_buffer \in full /\ held[next_read_buffer].serial = handed + 1
  BY <1>1, <1>5 DEF InOrder, Head
<1> QED
  BY <1>1, <1>3, <1>4, <1>5, <1>6

\* When the ring is in order, the oldest event is the next one to read.
LEMMA OldestIsNext ==
    ASSUME TypeOK, InOrder, pc = "idle", NEW b \in Oldest(full)
    PROVE  b = next_read_buffer /\ handed < stored
<1>1. stored \in Nat /\ handed \in Nat /\ First = handed + 1
  BY DEF TypeOK, First
<1>2. b \in full /\ \A c \in full : held[b].serial <= held[c].serial
  BY DEF Oldest
<1>3. held[b].serial \in handed + 1 .. stored
  BY <1>1, <1>2 DEF InOrder, Ring, Window
<1>4. handed < stored
  BY <1>1, <1>3
<1>5. next_read_buffer \in full /\ held[next_read_buffer].serial = handed + 1
  BY <1>1, <1>4 DEF InOrder, Head
<1>6. held[b].serial = handed + 1
  BY <1>1, <1>2, <1>3, <1>5
<1> QED
  BY <1>2, <1>4, <1>5, <1>6 DEF InOrder, Ring, Distinct

LEMMA StoreInOrder ==
    ASSUME TypeOK, InOrder, Store, UNCHANGED call, pc # "reset_count"
    PROVE  InOrder'
<1> USE DEF handle, history, call
<1>1. /\ wr \notin full /\ full' = full \cup {wr} /\ wr \in Buffers
      /\ stored' = stored + 1 /\ counter' = counter + 1
      /\ held'[wr] = [serial |-> stored + 1, count |-> counter + 1]
      /\ \A b \in full : held'[b] = held[b]
      /\ UNCHANGED <<pc, mask, iibuf, ibuf, hdr, next_read_buffer, event_counter,
                     hardware_next, queued, handed, drift>>
  BY DEF TypeOK, Store
<1>2. /\ stored \in Nat /\ handed \in Nat /\ counter \in Nat /\ drift \in Nat
      /\ event_counter \in Nat /\ iibuf \in Nat
  BY DEF TypeOK
<1>3. First' = First /\ First <= stored + 1 /\ First \in Nat
  BY <1>1, <1>2 DEF First, InOrder
<1>4. Ring'
  BY <1>3, RingStore DEF InOrder
<1>5. Head'
  <2>1. CASE pc = "wave"
    BY <2>1, <1>1 DEF InOrder, Head
  <2>2. CASE pc = "mark"
    BY <2>2, <1>1 DEF InOrder, Head
  <2>3. CASE pc \notin {"wave", "mark"}
    <3>1. CASE handed = stored
      <4>1. next_read_buffer = wr
        BY <2>3, <3>1 DEF InOrder, Head
      <4>2. next_read_buffer' \in full' /\ held'[next_read_buffer'].serial = handed' + 1
        BY <3>1, <4>1, <1>1
      <4> QED
        BY <2>3, <3>1, <4>2, <1>1, <1>2 DEF Head
    <3>2. CASE handed # stored
      <4>1. next_read_buffer \in full /\ held[next_read_buffer].serial = handed + 1
        BY <2>3, <3>2 DEF InOrder, Head
      <4>2. handed < stored
        BY <3>2, <1>2 DEF InOrder
      <4> QED
        BY <2>3, <4>1, <4>2, <1>1, <1>2 DEF Head
    <3> QED
      BY <3>1, <3>2
  <2> QED
    BY <2>1, <2>2, <2>3
<1>6. MaskCovers'
  <2> SUFFICES ASSUME pc \in {"ready", "loop", "wave", "mark"}
               PROVE  /\ Pending >= 1 /\ First + Pending <= stored + 1 + 1
                      /\ \A b \in full' : held'[b].serial < First + Pending => b \in mask
    BY <1>1, <1>3 DEF MaskCovers, Pending
  <2>1. Cardinality(mask) \in Nat
    BY BuffersFinite, FS_CardinalityType DEF TypeOK
  <2>2. Pending \in Int
    BY <1>2, <2>1 DEF Pending
  <2>3. /\ Pending >= 1 /\ First + Pending <= stored + 1
        /\ \A b \in full : held[b].serial < First + Pending => b \in mask
    BY DEF InOrder, MaskCovers
  <2> QED
    BY <1>1, <1>2, <1>3, <2>2, <2>3
<1>7. Counters'
  <2>1. Counted' = Counted /\ Counted \in Int
    BY <1>1, <1>2 DEF Counted
  <2>2. /\ drift + counter = Counted + stored - handed
        /\ \A b \in full : drift + held[b].count = Counted + held[b].serial - handed
    BY DEF InOrder, Counters
  <2> QED
    BY <1>1, <1>2, <2>1, <2>2 DEF Counters
<1> QED
  BY <1>1, <1>2, <1>4, <1>5, <1>6, <1>7 DEF InOrder

\* Steps that leave the ring, the pointers and the counters alone and end
\* outside beacon_read_multiple_ptr.
LEMMA FrameInOrder ==
    ASSUME InOrder,
           pc \in {"idle", "ready", "reset_clear"},
           pc' \in {"idle", "reset_clear"},
           UNCHANGED <<full, wr, held, stored, counter, next_read_buffer, event_counter,
                       queued, handed, drift>>
    PROVE  InOrder'
<1>1. First' = First
  BY DEF First
<1>2. Ring'
  BY <1>1, RingUnchanged DEF InOrder
<1>3. Head' /\ MaskCovers'
  BY DEF InOrder, Head, MaskCovers
<1>4. Counters'
  BY DEF InOrder, Counters, Counted
<1> QED
  BY <1>2, <1>3, <1>4 DEF InOrder

LEMMA PollInOrder ==
    ASSUME TypeOK, InOrder, Poll
    PROVE  InOrder'
<1>1. /\ full' = full /\ queued' = {} /\ mask' = full /\ pc = "idle"
      /\ hardware_next' \in BoardNext(full)
      /\ UNCHANGED <<wr, held, stored, counter, next_read_buffer, event_counter,
                     handed, drift>>
  BY DEF InOrder, Poll, Send, history
<1>2. CASE full = {}
  <2>1. pc' = "idle"
    BY <1>1, <1>2 DEF Poll
  <2> QED
    BY <1>1, <2>1, FrameInOrder DEF InOrder
<1>3. CASE full # {}
  <2>1. pc' = "ready"
    BY <1>1, <1>3 DEF Poll
  <2>2. stored \in Nat /\ handed \in Nat /\ First = handed + 1 /\ First' = First
    BY <1>1, <2>1 DEF TypeOK, First
  <2>3. Ring'
    BY <1>1, <2>2, RingUnchanged DEF InOrder
  <2>4. Head'
    BY <1>1, <2>1 DEF InOrder, Head
  <2>5. Counters'
    BY <1>1, <2>1 DEF InOrder, Counters, Counted
  <2>6. MaskCovers'
    <3>1. Pending' = Cardinality(full)
      BY <1>1, <2>1 DEF Pending
    <3>2. Cardinality(full) \in Nat /\ Cardinality(full) # 0
      BY <1>3, BuffersFinite, FS_CardinalityType, FS_EmptySet DEF TypeOK
    <3>3. Cardinality(full) = stored + 1 - First
      BY DEF InOrder, Ring, Count
    <3> QED
      BY <1>1, <2>2, <3>1, <3>2, <3>3 DEF MaskCovers
  <2>7. hardware_next' = next_read_buffer
    BY <1>1, <1>3, OldestIsNext DEF BoardNext
  <2> QED
    BY <1>1, <2>1, <2>3, <2>4, <2>5, <2>6, <2>7 DEF InOrder
<1> QED
  BY <1>2, <1>3

LEMMA ReadMultipleInOrder ==
    ASSUME TypeOK, InOrder, ReadMultiple
    PROVE  InOrder'
<1>1. /\ pc = "ready" /\ pc' = "loop" /\ iibuf' = 0
      /\ UNCHANGED <<full, wr, held, stored, counter, next_read_buffer, event_counter,
                     queued, handed, drift, mask>>
  BY DEF ReadMultiple, board, handle, history
<1>2. First' = First
  BY <1>1 DEF First
<1>3. Cardinality(mask) \in Nat
  BY BuffersFinite, FS_CardinalityType DEF TypeOK
<1>4. Pending' = Pending
  BY <1>1, <1>3 DEF Pending
<1>5. Ring'
  BY <1>1, <1>2, RingUnchanged DEF InOrder
<1>6. Head' /\ MaskCovers'
  BY <1>1, <1>2, <1>4 DEF InOrder, Head, MaskCovers
<1>7. Counters'
  BY <1>1 DEF InOrder, Counters, Counted
<1> QED
  BY <1>1, <1>5, <1>6, <1>7 DEF InOrder

LEMMA ReadSingleInOrder ==
    ASSUME TypeOK, InOrder, NEW b \in Buffers, ReadSingle(b), clean'
    PROVE  InOrder'
<1>1. /\ pc = "idle" /\ pc' = "loop" /\ iibuf' = 0 /\ mask' = {b}
      /\ b \in Oldest(full)
      /\ UNCHANGED <<full, wr, held, stored, counter, next_read_buffer, event_counter,
                     queued, handed, drift>>
  BY DEF ReadSingle, board, handle
<1>2. /\ stored \in Nat /\ handed \in Nat /\ First = handed + 1 /\ First' = First
  BY <1>1 DEF TypeOK, First
<1>3. b = next_read_buffer /\ handed < stored
  BY <1>1, OldestIsNext
<1>4. b \in full /\ held[b].serial = handed + 1
  BY <1>1, <1>2, <1>3 DEF InOrder, Head
<1>5. Pending' = 1
  BY <1>1, FS_Singleton DEF Pending
<1>6. Ring'
  BY <1>1, <1>2, RingUnchanged DEF InOrder
<1>7. Head'
  BY <1>1 DEF InOrder, Head
<1>8. MaskCovers'
  <2>1. \A c \in full : held[c].serial \in First .. stored
    BY DEF InOrder, Ring, Window
  <2>2. ASSUME NEW c \in full, held[c].serial < First + 1 PROVE c = b
    BY <1>2, <1>4, <2>1, <2>2 DEF InOrder, Ring, Distinct
  <2> QED
    BY <1>1, <1>2, <1>3, <1>5, <2>2 DEF MaskCovers
<1>9. Counters'
  BY <1>1 DEF InOrder, Counters, Counted
<1> QED
  BY <1>1, <1>6, <1>7, <1>8, <1>9 DEF InOrder

LEMMA ReadMetadataInOrder ==
    ASSUME TypeOK, InOrder, ReadMetadata
    PROVE  InOrder'
<1>1. /\ pc = "loop" /\ pc' = "wave" /\ full' = full /\ queued' = {}
      /\ ibuf' = next_read_buffer /\ next_read_buffer' = NextBuffer(next_read_buffer)
      /\ hdr' = held[next_read_buffer] /\ event_counter' = event_counter + 1
      /\ UNCHANGED <<wr, held, stored, counter, handed, drift, mask, iibuf>>
  BY DEF InOrder, ReadMetadata, Advance, Send, history
<1>2. First' = First /\ Pending' = Pending
  BY <1>1 DEF First, Pending
<1>3. event_counter \in Nat
  BY DEF TypeOK
<1>4. Ring'
  BY <1>1, <1>2, RingUnchanged DEF InOrder
<1>5. Head'
  BY <1>1, NextIsPending DEF Head
<1>6. MaskCovers'
  BY <1>1, <1>2 DEF InOrder, MaskCovers
<1>7. Counters'
  BY <1>1, <1>3 DEF InOrder, Counters, Counted
<1> QED
  BY <1>1, <1>4, <1>5, <1>6, <1>7 DEF InOrder

LEMMA ReadWaveformsInOrder ==
    ASSUME TypeOK, InOrder, ReadWaveforms
    PROVE  InOrder'
<1>1. /\ pc = "wave" /\ pc' = "mark" /\ full' = full /\ queued' = {}
      /\ handed' = hdr.serial
      /\ UNCHANGED <<wr, held, stored, counter, drift, mask, iibuf, ibuf,
                     event_counter, next_read_buffer>>
  BY DEF InOrder, ReadWaveforms, Send
<1>2. /\ ibuf \in full /\ held[ibuf].serial = handed + 1
      /\ hdr = held[ibuf] /\ next_read_buffer = NextBuffer(ibuf)
  BY <1>1 DEF InOrder, Head
<1>3. /\ event_counter \in Nat /\ handed \in Nat /\ stored \in Nat /\ counter \in Nat
      /\ drift \in Nat /\ \A b \in full : held[b] \in Event
  BY DEF TypeOK
<1>4. First' = First /\ Pending' = Pending /\ handed' = handed + 1
  BY <1>1, <1>2, <1>3 DEF First, Pending
<1>5. handed' <= stored
  BY <1>2, <1>3, <1>4 DEF InOrder, Ring, Window
<1>6. Ring'
  BY <1>1, <1>4, RingUnchanged DEF InOrder
<1>7. Head'
  BY <1>1, <1>2, <1>4 DEF Head
<1>8. MaskCovers'
  BY <1>1, <1>4 DEF InOrder, MaskCovers
<1>9. Counters'
  <2>1. /\ drift + counter = event_counter - 1 + stored - handed
        /\ \A b \in full :
              drift + held[b].count = event_counter - 1 + held[b].serial - handed
    BY <1>1 DEF InOrder, Counters, Counted
  <2> QED
    BY <1>1, <1>3, <1>4, <2>1 DEF Counters, Counted, Event
<1> QED
  BY <1>1, <1>5, <1>6, <1>7, <1>8, <1>9 DEF InOrder

LEMMA MarkDoneInOrder ==
    ASSUME TypeOK, InOrder, MarkDone
    PROVE  InOrder'
<1>1. /\ pc = "mark" /\ full' = full \ {ibuf} /\ queued' = {} /\ iibuf' = iibuf + 1
      /\ pc' = IF iibuf + 1 < Cardinality(mask) THEN "loop" ELSE "idle"
      /\ UNCHANGED <<wr, held, stored, counter, handed, drift, mask, ibuf,
                     event_counter, next_read_buffer>>
  BY DEF InOrder, MarkDone, Marked, Send, NextIteration, history
<1>2. /\ ibuf \in full /\ held[ibuf].serial = handed
      /\ next_read_buffer = NextBuffer(ibuf)
  BY <1>1 DEF InOrder, Head
<1>3. handed \in Nat /\ stored \in Nat /\ iibuf \in Nat
  BY DEF TypeOK
<1>4. First = handed /\ First' = First + 1
  BY <1>1 DEF First
<1>5. Ring'
  BY <1>1, <1>2, <1>3, <1>4, RingClear DEF InOrder
<1>6. Head'
  <2>1. CASE handed = stored
    BY <2>1, <1>1, <1>2 DEF InOrder, Ring, Chain, Head
  <2>2. CASE handed # stored
    <3>1. /\ next_read_buffer \in full
          /\ held[next_read_buffer].serial = handed + 1
      BY <2>2, <1>2 DEF InOrder, Ring, Chain
    <3>2. next_read_buffer # ibuf
      BY <3>1, <1>2, <1>3
    <3> QED
      BY <2>2, <3>1, <3>2, <1>1 DEF Head
  <2> QED
    BY <2>1, <2>2
<1>7. MaskCovers'
  <2>1. Cardinality(mask) \in Nat
    BY BuffersFinite, FS_CardinalityType DEF TypeOK
  <2>2. SUFFICES ASSUME pc' = "loop" PROVE MaskCovers'
    BY <1>1 DEF MaskCovers
  <2>3. Pending' = Pending - 1 /\ Pending' >= 1 /\ Pending \in Int
    BY <1>1, <1>3, <2>1, <2>2 DEF Pending
  <2>4. First' + Pending' = First + Pending
    BY <1>3, <1>4, <2>3
  <2>5. /\ First + Pending <= stored + 1
        /\ \A b \in full : held[b].serial < First + Pending => b \in mask
    BY <1>1 DEF InOrder, MaskCovers
  <2> QED
    BY <1>1, <2>3, <2>4, <2>5 DEF MaskCovers
<1>8. Counters'
  BY <1>1 DEF InOrder, Counters, Counted
<1> QED
  BY <1>1, <1>5, <1>6, <1>7, <1>8 DEF InOrder

LEMMA ResetPtrInOrder ==
    ASSUME TypeOK, Quiet, ResetPtr, clean'
    PROVE  InOrder'
<1>1. /\ pc = "reset_ptr" /\ pc' = "reset_count" /\ wr' = 0 /\ next_read_buffer' = 0
      /\ sound /\ ~ext_on /\ queued = {}
      /\ UNCHANGED <<full, held, stored, handed, queued, trig_on, ext_on>>
  BY DEF ResetPtr
<1>2. full = {} /\ handed = stored /\ ~trig_on /\ handed \in Nat
  BY <1>1 DEF Quiet, TypeOK
<1>3. First' = stored + 1 /\ stored \in Nat
  BY <1>1, <1>2 DEF First
<1>4. Ring'
  BY <1>1, <1>2, <1>3, FS_EmptySet DEF Ring, Window, Complete, Distinct, Count, Chain
<1>5. Head' /\ MaskCovers' /\ Counters'
  BY <1>1, <1>2 DEF Head, MaskCovers, Counters
<1> QED
  BY <1>1, <1>2, <1>4, <1>5 DEF InOrder

LEMMA ResetCountInOrder ==
    ASSUME TypeOK, InOrder, ResetCount
    PROVE  InOrder'
<1>1. /\ pc = "reset_count" /\ pc' = "idle" /\ counter' = 0 /\ drift' = event_counter
      /\ UNCHANGED <<full, wr, held, stored, handed, queued, next_read_buffer, event_counter>>
  BY DEF ResetCount, handle
<1>2. handed = stored /\ stored \in Nat /\ event_counter \in Nat
  BY <1>1 DEF InOrder, TypeOK
<1>3. First' = First /\ First = stored + 1
  BY <1>1, <1>2 DEF First
<1>4. full = {}
  BY <1>2, <1>3 DEF InOrder, Ring, Window
<1>5. Ring'
  BY <1>1, <1>3, RingUnchanged DEF InOrder
<1>6. Head' /\ MaskCovers'
  BY <1>1 DEF InOrder, Head, MaskCovers
<1>7. Counters'
  BY <1>1, <1>2, <1>4 DEF Counters, Counted
<1> QED
  BY <1>1, <1>5, <1>6, <1>7 DEF InOrder

-----------------------------------------------------------------------------
\* The invariant.

LEMMA InOrderNext ==
    ASSUME TypeOK, Quiet, clean => InOrder, [Next]_vars, clean'
    PROVE  InOrder'
<1> USE DEF board, handle, call, history
<1>1. CASE Trigger
  <2>1. clean /\ InOrder /\ pc # "reset_count"
    BY <1>1 DEF Trigger, Store, InOrder
  <2> QED
    BY <1>1, <2>1, StoreInOrder DEF Trigger
<1>2. CASE SwTrigger
  BY <1>2, StoreInOrder DEF SwTrigger, Store
<1>3. CASE PhasedTriggerReadout
  BY <1>3, FrameInOrder DEF PhasedTriggerReadout
<1>4. CASE ConfigureExtTrigger
  BY <1>4, FrameInOrder DEF ConfigureExtTrigger
<1>5. CASE Poll
  BY <1>5, PollInOrder DEF Poll
<1>6. CASE PollFails
  BY <1>6 DEF PollFails, SendFails
<1>7. CASE WaitNotRun
  BY <1>7 DEF WaitNotRun
<1>8. CASE Drop
  BY <1>8, FrameInOrder DEF Drop
<1>9. CASE Read
  <2>1. CASE ReadMultiple
    BY <2>1, ReadMultipleInOrder DEF ReadMultiple
  <2>2. ASSUME NEW b \in Buffers, ReadSingle(b) PROVE InOrder'
    BY <2>2, ReadSingleInOrder DEF ReadSingle
  <2>3. CASE ReadMetadata
    BY <2>3, ReadMetadataInOrder DEF ReadMetadata
  <2>4. CASE SyncIssue
    BY <2>4, NextIsPending DEF SyncIssue
  <2>5. CASE ReadWaveforms
    BY <2>5, ReadWaveformsInOrder DEF ReadWaveforms
  <2>6. CASE MarkDone
    BY <2>6, MarkDoneInOrder DEF MarkDone, Marked
  <2>7. CASE ReadMetadataFails \/ ReadWaveformsFails \/ MarkDoneFails
    BY <2>7 DEF ReadMetadataFails, ReadWaveformsFails, MarkDoneFails, SendFails
  <2> QED
    BY <1>9, <2>1, <2>2, <2>3, <2>4, <2>5, <2>6, <2>7 DEF Read
<1>10. ASSUME NEW m \in SUBSET Buffers, ClearBuffer(m) PROVE InOrder'
  <2>1. clean /\ InOrder /\ m \cap full = {}
    BY <1>10 DEF ClearBuffer
  <2>2. full' = full /\ queued' = queued
    BY <1>10, <2>1 DEF ClearBuffer, Send, InOrder
  <2> QED
    BY <1>10, <2>1, <2>2, FrameInOrder DEF ClearBuffer
<1>11. CASE Reset
  <2>1. CASE ResetBegin
    BY <2>1, FrameInOrder DEF ResetBegin
  <2>2. CASE ResetClear
    BY <2>2 DEF ResetClear
  <2>3. CASE ResetPtr
    BY <2>3, ResetPtrInOrder
  <2>4. CASE ResetCount
    BY <2>4, ResetCountInOrder DEF ResetCount
  <2>5. CASE ResetBeginFails \/ ResetClearFails \/ ResetCountFails
    BY <2>5 DEF ResetBeginFails, ResetClearFails, ResetCountFails, Fault
  <2>6. CASE ResetAbort
    <3>1. CASE pc = "reset_ptr" /\ Fault
      BY <3>1 DEF Fault
    <3>2. CASE pc = "reset_abort" /\ UNCHANGED clean
      BY <3>2 DEF InOrder
    <3> QED
      BY <2>6, <3>1, <3>2 DEF ResetAbort
  <2> QED
    BY <1>11, <2>1, <2>2, <2>3, <2>4, <2>5, <2>6 DEF Reset
<1>12. CASE UNCHANGED vars
  BY <1>12, RingUnchanged DEF vars, InOrder, First, Head, MaskCovers, Pending,
                              Counters, Counted
<1> QED
  BY <1>1, <1>2, <1>3, <1>4, <1>5, <1>6, <1>7, <1>8, <1>9, <1>10, <1>11, <1>12 DEF Next

LEMMA QuietNext == TypeOK /\ Quiet /\ [Next]_vars => Quiet'
<1> SUFFICES ASSUME TypeOK, Quiet, [Next]_vars PROVE Quiet'
  OBVIOUS
<1> USE DEF Quiet, board, handle, call, history
<1>1. CASE Trigger
  BY <1>1 DEF Trigger, Store
<1>2. CASE ResetBegin
  BY <1>2 DEF ResetBegin
<1>3. CASE ResetClear
  BY <1>3 DEF ResetClear
<1>4. CASE ResetBeginFails \/ ResetClearFails \/ ResetCountFails
  BY <1>4 DEF ResetBeginFails, ResetClearFails, ResetCountFails, Fault
<1>5. CASE ResetPtr \/ ResetCount \/ ResetAbort
  BY <1>5 DEF ResetPtr, ResetCount, ResetAbort
<1>6. CASE SwTrigger \/ PhasedTriggerReadout \/ ConfigureExtTrigger \/ WaitNotRun \/ Drop
  BY <1>6 DEF SwTrigger, Store, PhasedTriggerReadout, ConfigureExtTrigger, WaitNotRun, Drop
<1>7. CASE Poll \/ PollFails
  BY <1>7 DEF Poll, PollFails
<1>8. CASE Read
  BY <1>8 DEF Read, ReadMultiple, ReadSingle, ReadMetadata, SyncIssue, ReadWaveforms,
              MarkDone, Marked, NextIteration, ReadMetadataFails, ReadWaveformsFails, MarkDoneFails
<1>9. ASSUME NEW m \in SUBSET Buffers, ClearBuffer(m) PROVE Quiet'
  BY <1>9 DEF ClearBuffer
<1>10. CASE UNCHANGED vars
  BY <1>10 DEF vars
<1> QED
  BY <1>1, <1>2, <1>3, <1>4, <1>5, <1>6, <1>7, <1>8, <1>9, <1>10 DEF Next, Reset

LEMMA InvInit == Init => IInv
<1> SUFFICES ASSUME Init PROVE IInv
  OBVIOUS
<1>1. TypeOK
  BY TypeInit
<1>2. Quiet
  BY DEF Init, Quiet
<1>3. First = 1
  BY DEF Init, First
<1>4. Ring
  BY <1>3, FS_EmptySet DEF Init, Ring, Window, Complete, Distinct, Count, Chain
<1>5. Head /\ MaskCovers
  BY DEF Init, Head, MaskCovers
<1>6. Counters
  BY DEF Init, Counters, Counted
<1>7. InOrder
  BY <1>4, <1>5, <1>6 DEF Init, InOrder
<1> QED
  BY <1>1, <1>2, <1>7 DEF IInv

LEMMA InvNext == IInv /\ [Next]_vars => IInv'
BY TypeNext, QuietNext, InOrderNext DEF IInv

\* The inductive invariant holds of every behaviour, for rings of every size and
\* any number of events, reads, resets and failed transfers.
THEOREM InvCorrect == Spec => []IInv
<1> QED
  BY InvInit, InvNext, PTL DEF Spec

-----------------------------------------------------------------------------
\* What follows from it.

\* In order, no event is lost between the trigger and the client: each one that
\* is stored and not handed over is in a buffer.
THEOREM LosslessReadout == Spec => []NothingLost
<1>1. ASSUME IInv PROVE NothingLost
  <2> SUFFICES ASSUME clean, NEW s \in (handed + 1) .. stored
               PROVE  \E b \in full : held[b].serial = s
    BY DEF NothingLost
  <2>1. s \in First .. stored
    BY <1>1 DEF IInv, TypeOK, First
  <2> QED
    BY <1>1, <2>1 DEF IInv, InOrder, Ring, Complete
<1> QED
  BY <1>1, InvCorrect, PTL

\* In order, the "Sync issue?" branch of beacon_read_multiple_ptr is dead.
THEOREM SyncIssueFree == Spec => []NoSyncIssue
<1>1. IInv => NoSyncIssue
  BY NextIsPending DEF IInv, NoSyncIssue
<1> QED
  BY <1>1, InvCorrect, PTL

\* In order, each buffer that was read is free again once the call returns.
THEOREM LeakFreeReadout == Spec => []NoBufferLeak
<1>1. IInv => NoBufferLeak
  BY DEF IInv, NoBufferLeak, InOrder, Ring, Count, First, TypeOK
<1> QED
  BY <1>1, InvCorrect, PTL

\* In order, software's count of events follows the board's.
THEOREM CounterCorrect == Spec => []CounterTracksBoard
<1>1. ASSUME IInv, clean, pc = "wave" PROVE event_counter = drift + hdr.count
  <2>1. /\ ibuf \in full /\ hdr = held[ibuf] /\ held[ibuf].serial = handed + 1
    BY <1>1 DEF IInv, InOrder, Head
  <2>2. drift + held[ibuf].count = event_counter - 1 + held[ibuf].serial - handed
    BY <1>1, <2>1 DEF IInv, InOrder, Counters, Counted
  <2> QED
    BY <1>1, <2>1, <2>2 DEF IInv, TypeOK
<1>2. IInv => CounterTracksBoard
  BY <1>1 DEF CounterTracksBoard
<1> QED
  BY <1>2, InvCorrect, PTL

\* In order, board and software agree on the next buffer.
THEOREM PointersAgree == Spec => []HardwareAgrees
<1>1. IInv => HardwareAgrees
  BY DEF IInv, InOrder, HardwareAgrees
<1> QED
  BY <1>1, InvCorrect, PTL

\* In order, records are whole and come in the order of the events.
LEMMA DeliveryStep ==
    ASSUME IInv, [Next]_vars, clean, delivered' # delivered
    PROVE  /\ delivered'.hd = delivered'.ev
           /\ delivered'.hd.serial = handed + 1
<1> USE DEF board, handle, call, history
<1>1. CASE ReadWaveforms
  <2>1. /\ hdr = held[ibuf] /\ held[ibuf].serial = handed + 1
    BY <1>1 DEF ReadWaveforms, IInv, InOrder, Head
  <2> QED
    BY <1>1, <2>1 DEF ReadWaveforms
<1>2. ~SyncIssue
  BY NextIsPending DEF SyncIssue, IInv
<1>3. ~ReadWaveforms /\ [Next]_vars => delivered' = delivered
  BY <1>2 DEF Next, vars, Trigger, SwTrigger, Store, PhasedTriggerReadout,
     ConfigureExtTrigger, Poll, PollFails, WaitNotRun, Drop, Read, ReadMultiple,
     ReadSingle, ReadMetadata, MarkDone, Marked, ReadMetadataFails, ReadWaveformsFails,
     MarkDoneFails, ClearBuffer, Reset, ResetBegin, ResetClear, ResetPtr, ResetCount,
     ResetBeginFails, ResetClearFails, ResetAbort, ResetCountFails
<1> QED
  BY <1>1, <1>3

THEOREM WholeRecordsInOrder == Spec => DeliveredInOrder
<1>1. IInv /\ [Next]_vars
        => [clean /\ delivered' # delivered
              => /\ delivered'.hd = delivered'.ev
                 /\ delivered'.hd.serial = handed + 1]_vars
  BY DeliveryStep
<1> QED
  BY <1>1, InvCorrect, PTL DEF Spec, DeliveredInOrder

-----------------------------------------------------------------------------
\* EventReadout implements EventStream.

LEMMA StreamInit == Init => Stream!Init
BY FS_EmptySet DEF Init, Stream!Init, NoEvent

LEMMA CardFull == TypeOK => Cardinality(full) \in Nat
BY BuffersFinite, FS_CardinalityType DEF TypeOK

\* A step out of sync is an OutOfSync step, whatever it does.
LEMMA OutOfSyncStep ==
    ASSUME TypeOK, TypeOK', [Next]_vars, ~clean'
    PROVE  Stream!OutOfSync
<1>1. stored' \in {stored, stored + 1}
  BY DEF vars, board, Next, Trigger, SwTrigger, Store, PhasedTriggerReadout,
     ConfigureExtTrigger, Poll, PollFails, WaitNotRun, Drop, Read, ReadMultiple,
     ReadSingle, ReadMetadata, SyncIssue, ReadWaveforms, MarkDone, Marked, ReadMetadataFails,
     ReadWaveformsFails, MarkDoneFails, ClearBuffer, Reset, ResetBegin, ResetClear,
     ResetPtr, ResetCount, ResetBeginFails, ResetClearFails, ResetAbort, ResetCountFails
<1>2. Cardinality(full') \in Nat
  BY BuffersFinite, FS_CardinalityType DEF TypeOK
<1>3. /\ handed' \in Int /\ stored' - Cardinality(full') \in Int
      /\ delivered'.hd.serial \in Int /\ delivered'.ev.serial \in Int
  BY <1>2 DEF TypeOK, Event
<1>4. clean' = FALSE
  BY DEF TypeOK
<1> QED
  BY <1>1, <1>3, <1>4 DEF Stream!OutOfSync

LEMMA StoreStep ==
    ASSUME TypeOK, InOrder, clean, Store, UNCHANGED call
    PROVE  Stream!Store
<1>1. /\ wr \in Buffers /\ wr \notin full /\ full \subseteq Buffers
      /\ full' = full \cup {wr} /\ stored' = stored + 1 /\ stored \in Nat
      /\ UNCHANGED <<handed, delivered, clean>>
  BY DEF TypeOK, Store, history
<1>2. IsFiniteSet(full) /\ Cardinality(full) \in Nat
  BY BuffersFinite, CardFull DEF TypeOK
<1>3. Cardinality(full') = Cardinality(full) + 1
  BY <1>1, <1>2, FS_AddElement
<1>4. IsFiniteSet(Buffers) /\ Cardinality(Buffers) = NumBuffer
  BY NumBufferAssumption, FS_Interval DEF Buffers
<1>5. Cardinality(full) < NumBuffer
  <2>1. Cardinality(full) <= NumBuffer /\ (NumBuffer = Cardinality(full) => Buffers = full)
    BY <1>1, <1>4, FS_Subset
  <2> QED
    BY <1>1, <1>2, <2>1, NumBufferAssumption
<1>6. stored - (stored - Cardinality(full)) < NumBuffer
  BY <1>1, <1>2, <1>5, NumBufferAssumption
<1>7. stored' - Cardinality(full') = stored - Cardinality(full)
  BY <1>1, <1>2, <1>3
<1> QED
  BY <1>1, <1>6, <1>7 DEF Stream!Store

LEMMA HandOverStep ==
    ASSUME TypeOK, InOrder, clean, ReadWaveforms
    PROVE  Stream!HandOver
<1>1. /\ pc = "wave" /\ full' = full /\ handed' = hdr.serial /\ stored' = stored
      /\ delivered' = [hd |-> hdr, ev |-> held[ibuf]] /\ clean' = clean
  BY DEF InOrder, ReadWaveforms, Send
<1>2. ibuf \in full /\ hdr = held[ibuf] /\ held[ibuf].serial = handed + 1
  BY <1>1 DEF InOrder, Head
<1>3. handed \in Nat /\ stored \in Nat
  BY DEF TypeOK
<1>4. handed < stored
  BY <1>2, <1>3 DEF InOrder, Ring, Window
<1> QED
  BY <1>1, <1>2, <1>4 DEF Stream!HandOver

LEMMA FreeStep ==
    ASSUME TypeOK, InOrder, clean, MarkDone
    PROVE  Stream!Free
<1>1. /\ pc = "mark" /\ full' = full \ {ibuf}
      /\ UNCHANGED <<stored, handed, delivered, clean>>
  BY DEF InOrder, MarkDone, Marked, Send, history
<1>2. ibuf \in full
  BY <1>1 DEF InOrder, Head
<1>3. IsFiniteSet(full) /\ Cardinality(full) \in Nat
  BY BuffersFinite, CardFull DEF TypeOK
<1>4. Cardinality(full') = Cardinality(full) - 1
  BY <1>1, <1>2, <1>3, FS_RemoveElement
<1>5. stored \in Nat /\ handed \in Nat
  BY DEF TypeOK
<1>6. Cardinality(full) = stored + 1 - handed
  BY <1>1 DEF InOrder, Ring, Count, First
<1>7. /\ stored - Cardinality(full) < handed
      /\ stored' - Cardinality(full') = stored - Cardinality(full) + 1
  BY <1>1, <1>3, <1>4, <1>5, <1>6
<1> QED
  BY <1>1, <1>7 DEF Stream!Free

LEMMA ResyncStep ==
    ASSUME TypeOK, Quiet, ResetPtr, clean', ~clean
    PROVE  Stream!Resync
<1>1. full = {} /\ handed = stored /\ stored \in Nat
  BY DEF TypeOK, Quiet, ResetPtr
<1>2. UNCHANGED <<full, stored, handed, delivered>>
  BY DEF ResetPtr
<1>3. stored' - Cardinality(full') = stored
  BY <1>1, <1>2, FS_EmptySet
<1>4. clean' = TRUE
  BY DEF ResetPtr, TypeOK
<1> QED
  BY <1>1, <1>2, <1>3, <1>4 DEF Stream!Resync

LEMMA StreamNext == IInv /\ IInv' /\ [Next]_vars => [Stream!Next]_(Stream!svars)
<1> SUFFICES ASSUME IInv, IInv', [Next]_vars PROVE [Stream!Next]_(Stream!svars)
  OBVIOUS
<1> USE DEF board, handle, call, history
<1>0. TypeOK /\ TypeOK' /\ Quiet /\ (clean => InOrder)
  BY DEF IInv
<1>1. CASE ~clean'
  BY <1>0, <1>1, OutOfSyncStep DEF Stream!Next
<1>2. CASE clean' /\ ResetPtr
  <2>1. ~clean
    BY <1>0, <1>2 DEF ResetPtr, InOrder
  <2> QED
    BY <1>0, <1>2, <2>1, ResyncStep DEF Stream!Next
<1>3. CASE clean' /\ ~ResetPtr
  <2>1. clean
    BY <1>3 DEF vars, Next, Trigger, SwTrigger, Store, PhasedTriggerReadout,
     ConfigureExtTrigger, Poll, PollFails, SendFails, WaitNotRun, Drop, Read, ReadMultiple,
     ReadSingle, ReadMetadata, SyncIssue, ReadWaveforms, MarkDone, Marked, ReadMetadataFails,
     ReadWaveformsFails, MarkDoneFails, ClearBuffer, Reset, ResetBegin, ResetClear,
     ResetCount, ResetBeginFails, ResetClearFails, ResetAbort, ResetCountFails, Fault
  <2>2. clean' = clean
    BY <1>0, <1>3, <2>1 DEF TypeOK
  <2>3. InOrder
    BY <1>0, <2>1
  <2>4. CASE Trigger \/ SwTrigger
    BY <1>0, <2>1, <2>3, <2>4, StoreStep DEF Trigger, SwTrigger, Stream!Next
  <2>5. CASE ReadWaveforms
    BY <1>0, <2>1, <2>3, <2>5, HandOverStep DEF Stream!Next
  <2>6. CASE MarkDone
    BY <1>0, <2>1, <2>3, <2>6, FreeStep DEF Stream!Next
  <2>7. ASSUME UNCHANGED <<full, stored, handed, delivered>>
        PROVE  UNCHANGED Stream!svars
    BY <2>2, <2>7 DEF Stream!svars
  <2>8. CASE PhasedTriggerReadout \/ ConfigureExtTrigger \/ Drop
    BY <2>7, <2>8 DEF PhasedTriggerReadout, ConfigureExtTrigger, Drop
  <2>9. CASE Poll
    BY <2>3, <2>7, <2>9 DEF Poll, Send, InOrder
  <2>10. ASSUME NEW m \in SUBSET Buffers, ClearBuffer(m) PROVE UNCHANGED Stream!svars
    <3>1. m \cap full = {} /\ queued = {}
      BY <1>3, <2>3, <2>10 DEF ClearBuffer, InOrder
    <3> QED
      BY <2>7, <2>10, <3>1 DEF ClearBuffer, Send
  <2>11. CASE ReadMultiple \/ \E b \in Buffers : ReadSingle(b)
    BY <2>7, <2>11 DEF ReadMultiple, ReadSingle
  <2>12. CASE ReadMetadata
    BY <2>3, <2>7, <2>12 DEF ReadMetadata, Send, InOrder
  <2>13. ~SyncIssue
    BY <1>0, <2>3, NextIsPending DEF SyncIssue
  <2>14. CASE ResetBegin \/ ResetCount
    BY <2>7, <2>14 DEF ResetBegin, ResetCount
  <2>15. ~(PollFails \/ WaitNotRun \/ ReadMetadataFails \/ ReadWaveformsFails
            \/ MarkDoneFails \/ ResetBeginFails \/ ResetClear \/ ResetClearFails
            \/ ResetCountFails)
    BY <1>3 DEF PollFails, WaitNotRun, ReadMetadataFails, ReadWaveformsFails,
       MarkDoneFails, SendFails, ResetBeginFails, ResetClear, ResetClearFails,
       ResetCountFails, Fault
  <2>16. ~ResetAbort
    BY <1>3, <2>3 DEF ResetAbort, Fault, InOrder
  <2>17. CASE UNCHANGED vars
    BY <2>7, <2>17 DEF vars
  <2> QED
    BY <1>3, <2>4, <2>5, <2>6, <2>8, <2>9, <2>10, <2>11, <2>12, <2>13, <2>14, <2>15,
       <2>16, <2>17 DEF Next, Read, Reset
<1> QED
  BY <1>1, <1>2, <1>3

\* The readout implements the lossless in-order stream, whatever the size of the
\* ring: each step of it is a step of EventStream or leaves its variables alone.
THEOREM Refinement == Spec => ImplementsStream
<1> QED
  BY StreamInit, StreamNext, InvCorrect, PTL DEF Spec, ImplementsStream, Stream!Spec
==============================================================================
