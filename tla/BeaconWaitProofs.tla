---------------------------- MODULE BeaconWaitProofs ----------------------------
(* Theorems about BeaconWait, for any number of threads and calls. *)
EXTENDS BeaconWait, TLAPS

-----------------------------------------------------------------------------
LEMMA Disjoint ==
    /\ \A t \in Waiters : t # Closer /\ t \in Threads /\ t # Nobody /\ t # Destroyed
    /\ \A t \in Users : t # Closer /\ t \notin Waiters /\ t \in Threads
    /\ Closer \in Threads /\ Closer \notin Waiters /\ Closer \notin Users
    /\ Nobody # Destroyed
BY ThreadsAssumption DEF Threads

\* What a step of thread t does to the program counters.
LEMMA GotoType ==
    ASSUME TypeOK, NEW t \in Threads, NEW label, Goto(t, label),
           label \in WaiterPCs \cup UserPCs \cup CloserPCs
    PROVE  /\ pc' \in [Threads -> WaiterPCs \cup UserPCs \cup CloserPCs]
           /\ pc'[t] = label
           /\ \A u \in Threads : u # t => pc'[u] = pc[u]
BY DEF TypeOK, Goto

LEMMA UsingType ==
    ASSUME TypeOK, NEW t \in Threads, Using(t)
    PROVE  mut' \in Threads \cup {Nobody, Destroyed} /\ stale' \in BOOLEAN
<1>1. mut' \in Threads \cup {Nobody, Destroyed}
  BY DEF TypeOK, Using
<1>2. stale' \in BOOLEAN
  BY DEF TypeOK, Using
<1> QED
  BY <1>1, <1>2

LEMMA DoneType ==
    ASSUME TypeOK, NEW t \in Threads, Done(t)
    PROVE  mut' \in Threads \cup {Nobody, Destroyed}
BY DEF TypeOK, Done

LEMMA SetCancelType ==
    ASSUME TypeOK, SetCancel
    PROVE  /\ cancel_wait' \in BOOLEAN
           /\ hit' \in [Waiters -> BOOLEAN]
<1>1. cancel_wait' \in BOOLEAN
  BY DEF SetCancel
<1>2. hit' \in [Waiters -> BOOLEAN]
  BY DEF TypeOK, SetCancel
<1> QED
  BY <1>1, <1>2

-----------------------------------------------------------------------------
\* Initially.

LEMMA InvInit == Init => WaitInv
<1> SUFFICES ASSUME Init PROVE WaitInv
  OBVIOUS
<1>1. TypeOK
  <2>1. /\ data \in BOOLEAN /\ cancel_wait \in BOOLEAN /\ freed \in BOOLEAN
        /\ stale \in BOOLEAN
    BY DEF Init
  <2>2. /\ timed \in [Waiters -> BOOLEAN] /\ something \in [Waiters -> BOOLEAN]
        /\ interrupted \in [Waiters -> BOOLEAN] /\ hit \in [Waiters -> BOOLEAN]
    BY DEF Init
  <2>3. /\ ready \in [Waiters -> {"unset", "empty", "some"}]
        /\ ret \in [Waiters -> Returns]
    BY DEF Init, Returns
  <2>4. /\ pc \in [Threads -> WaiterPCs \cup UserPCs \cup CloserPCs]
        /\ \A t \in Threads : pc[t] \in WaiterPCs \cap UserPCs \cap CloserPCs
    BY DEF Init, WaiterPCs, UserPCs, CloserPCs
  <2>5. /\ wait_mut \in Threads \cup {Nobody, Destroyed}
        /\ mut \in Threads \cup {Nobody, Destroyed}
        /\ waits \in Nat /\ cancels \in Nat /\ uses \in Nat
    BY DEF Init
  <2> QED
    BY <2>1, <2>2, <2>3, <2>4, <2>5, Disjoint DEF TypeOK
<1>2. \A t \in Threads : pc[t] = "out"
  BY DEF Init
<1>3. WaitLock
  BY <1>2, Disjoint DEF Init, WaitLock, Holding
<1>4. CancelKept /\ ReasonKept
  BY <1>2, Disjoint DEF Init, CancelKept, ReasonKept, Polling
<1> QED
  BY <1>1, <1>3, <1>4 DEF WaitInv

-----------------------------------------------------------------------------
\* The type invariant, one step per action.

LEMMA WaitType ==
    ASSUME TypeOK, NEW t \in Waiters, CallWait(t) \/ Wait(t)
    PROVE  TypeOK'
<1> USE Disjoint DEF TypeOK, locals, counts, WaiterPCs, Holding
<1>1. CASE CallWait(t)
  BY <1>1, GotoType DEF CallWait, Returns
<1>2. CASE CheckCancel(t)
  BY <1>2, GotoType DEF CheckCancel
<1>3. CASE ReturnAgain(t)
  BY <1>3, GotoType DEF ReturnAgain, Returns
<1>4. CASE LockPoll(t)
  BY <1>4, GotoType, UsingType DEF LockPoll
<1>5. CASE SendPoll(t)
  BY <1>5, GotoType, DoneType DEF SendPoll
<1>6. CASE Seen(t)
  BY <1>6, GotoType DEF Seen
<1>7. CASE Finish(t)
  BY <1>7, GotoType DEF Finish, Cancelled
<1>8. CASE ClearCancel(t)
  BY <1>8, GotoType DEF ClearCancel
<1>9. CASE ReturnWait(t)
  BY <1>9, GotoType DEF ReturnWait, Returns
<1> QED
  BY <1>1, <1>2, <1>3, <1>4, <1>5, <1>6, <1>7, <1>8, <1>9 DEF Wait

LEMMA UseType ==
    ASSUME TypeOK, NEW t \in Users, CallUse(t) \/ LockUse(t) \/ DoneUse(t)
    PROVE  TypeOK'
<1> USE Disjoint DEF TypeOK, locals, counts, UserPCs
<1>1. CASE CallUse(t)
  BY <1>1, GotoType DEF CallUse
<1>2. CASE LockUse(t)
  BY <1>2, GotoType, UsingType DEF LockUse
<1>3. CASE DoneUse(t)
  BY <1>3, GotoType, DoneType DEF DoneUse
<1> QED
  BY <1>1, <1>2, <1>3

LEMMA CloseType ==
    ASSUME TypeOK, CallClose \/ Close
    PROVE  TypeOK'
<1> USE Disjoint DEF TypeOK, locals, counts, CloserPCs
<1>1. CASE CallClose
  BY <1>1, GotoType, SetCancelType DEF CallClose
<1>2. CASE LockClose
  BY <1>2, GotoType, UsingType DEF LockClose
<1>3. CASE FlushClose
  BY <1>3, GotoType, DoneType DEF FlushClose
<1>4. CASE DestroyMut
  BY <1>4, GotoType DEF DestroyMut
<1>5. CASE TryWaitMut
  BY <1>5, GotoType DEF TryWaitMut
<1>6. CASE CancelClose
  BY <1>6, GotoType, SetCancelType DEF CancelClose
<1>7. CASE LockWaitMut
  BY <1>7, GotoType DEF LockWaitMut
<1>8. CASE UnlockWaitMut
  BY <1>8, GotoType DEF UnlockWaitMut
<1>9. CASE DestroyWaitMut
  BY <1>9, GotoType DEF DestroyWaitMut
<1>10. CASE Free
  BY <1>10, GotoType DEF Free
<1> QED
  BY <1>1, <1>2, <1>3, <1>4, <1>5, <1>6, <1>7, <1>8, <1>9, <1>10 DEF Close

LEMMA TypeNext == TypeOK /\ [Next]_vars => TypeOK'
<1> SUFFICES ASSUME TypeOK, [Next]_vars PROVE TypeOK'
  OBVIOUS
<1>1. CASE BoardStep
  BY <1>1 DEF BoardStep, TypeOK, locals, counts
<1>2. CASE CancelWait
  BY <1>2, SetCancelType DEF CancelWait, TypeOK, locals
<1>3. CASE CallClose \/ Close
  BY <1>3, CloseType
<1>4. ASSUME NEW t \in Waiters, CallWait(t) \/ Wait(t) PROVE TypeOK'
  BY <1>4, WaitType
<1>5. ASSUME NEW t \in Users, CallUse(t) \/ LockUse(t) \/ DoneUse(t) PROVE TypeOK'
  BY <1>5, UseType
<1>6. CASE UNCHANGED vars
  BY <1>6 DEF vars, TypeOK, locals, counts
<1> QED
  BY <1>1, <1>2, <1>3, <1>4, <1>5, <1>6 DEF Next

\* Steps of the users and of the board leave the waiters' state alone.
LEMMA OthersFrame ==
    ASSUME TypeOK, \/ BoardStep
                   \/ \E t \in Users : CallUse(t) \/ LockUse(t) \/ DoneUse(t)
                   \/ UNCHANGED vars
    PROVE  /\ UNCHANGED <<cancel_wait, wait_mut, freed, locals, hit>>
           /\ pc'[Closer] = pc[Closer] /\ \A t \in Waiters : pc'[t] = pc[t]
BY Disjoint, GotoType DEF BoardStep, CallUse, LockUse, DoneUse, vars, UserPCs

LEMMA CloserFrame ==
    ASSUME TypeOK, CallClose \/ Close
    PROVE  /\ UNCHANGED locals /\ \A t \in Waiters : pc'[t] = pc[t]
           /\ cancel_wait => cancel_wait'
<1> USE Disjoint, GotoType DEF CloserPCs
<1>1. CASE CallClose
  BY <1>1 DEF CallClose, SetCancel
<1>2. CASE LockClose
  BY <1>2 DEF LockClose
<1>3. CASE FlushClose
  BY <1>3 DEF FlushClose
<1>4. CASE DestroyMut
  BY <1>4 DEF DestroyMut
<1>5. CASE TryWaitMut
  BY <1>5 DEF TryWaitMut
<1>6. CASE CancelClose
  BY <1>6 DEF CancelClose, SetCancel
<1>7. CASE LockWaitMut
  BY <1>7 DEF LockWaitMut
<1>8. CASE UnlockWaitMut
  BY <1>8 DEF UnlockWaitMut
<1>9. CASE DestroyWaitMut
  BY <1>9 DEF DestroyWaitMut
<1>10. CASE Free
  BY <1>10 DEF Free
<1> QED
  BY <1>1, <1>2, <1>3, <1>4, <1>5, <1>6, <1>7, <1>8, <1>9, <1>10 DEF Close

-----------------------------------------------------------------------------
\* wait_mut keeps the other waiters, and beacon_close, out.

LEMMA LockNext == TypeOK /\ WaitLock /\ [Next]_vars => WaitLock'
<1> SUFFICES ASSUME TypeOK, WaitLock, [Next]_vars PROVE WaitLock'
  OBVIOUS
<1> USE Disjoint DEF WaitLock
<1>1. CASE \/ BoardStep
           \/ \E t \in Users : CallUse(t) \/ LockUse(t) \/ DoneUse(t)
           \/ UNCHANGED vars
  BY <1>1, OthersFrame
<1>2. CASE CancelWait
  BY <1>2 DEF CancelWait
<1>3. ASSUME NEW t \in Waiters, CallWait(t) \/ Wait(t) PROVE WaitLock'
  <2> USE GotoType DEF WaiterPCs, Holding
  <2>1. CASE CallWait(t)
    BY <2>1 DEF CallWait, MayCall
  <2>2. CASE CheckCancel(t)
    BY <2>2 DEF CheckCancel
  <2>3. CASE ReturnAgain(t)
    BY <2>3 DEF ReturnAgain
  <2>4. CASE LockPoll(t)
    BY <2>4 DEF LockPoll
  <2>5. CASE SendPoll(t)
    BY <2>5 DEF SendPoll
  <2>6. CASE Seen(t)
    BY <2>6 DEF Seen
  <2>7. CASE Finish(t)
    BY <2>7 DEF Finish, Cancelled
  <2>8. CASE ClearCancel(t)
    BY <2>8 DEF ClearCancel
  <2>9. CASE ReturnWait(t)
    BY <2>9 DEF ReturnWait
  <2> QED
    BY <1>3, <2>1, <2>2, <2>3, <2>4, <2>5, <2>6, <2>7, <2>8, <2>9 DEF Wait
<1>4. CASE CallClose \/ Close
  <2> USE GotoType, CloserFrame DEF CloserPCs
  <2>1. CASE CallClose
    BY <2>1 DEF CallClose
  <2>2. CASE LockClose
    BY <2>2 DEF LockClose
  <2>3. CASE FlushClose
    BY <2>3 DEF FlushClose
  <2>4. CASE DestroyMut
    BY <2>4 DEF DestroyMut
  <2>5. CASE TryWaitMut
    BY <2>5 DEF TryWaitMut
  <2>6. CASE CancelClose
    BY <2>6 DEF CancelClose
  <2>7. CASE LockWaitMut
    BY <2>7 DEF LockWaitMut
  <2>8. CASE UnlockWaitMut
    BY <2>8 DEF UnlockWaitMut
  <2>9. CASE DestroyWaitMut
    BY <2>9 DEF DestroyWaitMut
  <2>10. CASE Free
    BY <2>10 DEF Free
  <2> QED
    BY <1>4, <2>1, <2>2, <2>3, <2>4, <2>5, <2>6, <2>7, <2>8, <2>9, <2>10 DEF Close
<1> QED
  BY <1>1, <1>2, <1>3, <1>4 DEF Next

-----------------------------------------------------------------------------
\* A cancel that came in time reaches the result, and each result has its reason.

LEMMA CancelNext == TypeOK /\ WaitLock /\ CancelKept /\ [Next]_vars => CancelKept'
<1> SUFFICES ASSUME TypeOK, WaitLock, CancelKept, [Next]_vars PROVE CancelKept'
  OBVIOUS
<1> USE Disjoint DEF CancelKept, Polling
<1>1. CASE \/ BoardStep
           \/ \E t \in Users : CallUse(t) \/ LockUse(t) \/ DoneUse(t)
           \/ UNCHANGED vars
  BY <1>1, OthersFrame DEF locals
<1>2. ASSUME SetCancel, UNCHANGED locals, \A t \in Waiters : pc'[t] = pc[t]
      PROVE  CancelKept'
  BY <1>2 DEF SetCancel, locals, TypeOK
<1>3. CASE CancelWait
  BY <1>2, <1>3 DEF CancelWait
<1>4. CASE CallClose \/ Close
  <2>1. CASE SetCancel
    BY <1>2, <1>4, <2>1, CloserFrame
  <2>2. CASE UNCHANGED hit
    BY <1>4, <2>2, CloserFrame DEF locals
  <2> QED
    BY <1>4, <2>1, <2>2 DEF CallClose, Close, LockClose, FlushClose, DestroyMut, TryWaitMut,
       CancelClose, LockWaitMut, UnlockWaitMut, DestroyWaitMut, Free
<1>5. ASSUME NEW t \in Waiters, CallWait(t) \/ Wait(t) PROVE CancelKept'
  <2>0. \A u \in Waiters : pc[t] \in Holding /\ u # t => pc[u] = "out"
    BY DEF WaitLock, TypeOK, WaiterPCs
  <2> USE GotoType DEF WaiterPCs, Holding, locals, TypeOK
  <2>1. CASE CallWait(t)
    BY <2>1 DEF CallWait
  <2>2. CASE CheckCancel(t)
    BY <2>0, <2>2 DEF CheckCancel
  <2>3. CASE ReturnAgain(t)
    BY <2>0, <2>3 DEF ReturnAgain
  <2>4. CASE LockPoll(t)
    BY <2>0, <2>4 DEF LockPoll
  <2>5. CASE SendPoll(t)
    BY <2>0, <2>5 DEF SendPoll
  <2>6. CASE Seen(t)
    BY <2>0, <2>6 DEF Seen
  <2>7. CASE Finish(t)
    BY <2>0, <2>7 DEF Finish, Cancelled
  <2>8. CASE ClearCancel(t)
    BY <2>0, <2>8 DEF ClearCancel
  <2>9. CASE ReturnWait(t)
    BY <2>0, <2>9 DEF ReturnWait
  <2> QED
    BY <1>5, <2>1, <2>2, <2>3, <2>4, <2>5, <2>6, <2>7, <2>8, <2>9 DEF Wait
<1> QED
  BY <1>1, <1>3, <1>4, <1>5 DEF Next

LEMMA ReasonNext == TypeOK /\ WaitLock /\ ReasonKept /\ [Next]_vars => ReasonKept'
<1> SUFFICES ASSUME TypeOK, WaitLock, ReasonKept, [Next]_vars PROVE ReasonKept'
  OBVIOUS
<1> USE Disjoint DEF ReasonKept
<1>1. CASE \/ BoardStep
           \/ \E t \in Users : CallUse(t) \/ LockUse(t) \/ DoneUse(t)
           \/ UNCHANGED vars
  BY <1>1, OthersFrame DEF locals
<1>2. CASE CancelWait
  BY <1>2 DEF CancelWait, SetCancel, locals
<1>3. CASE CallClose \/ Close
  BY <1>3, CloserFrame DEF locals
<1>4. ASSUME NEW t \in Waiters, CallWait(t) \/ Wait(t) PROVE ReasonKept'
  <2>0. \A u \in Waiters : pc[t] \in Holding /\ u # t => pc[u] = "out"
    BY DEF WaitLock, TypeOK, WaiterPCs
  <2> USE GotoType DEF WaiterPCs, Holding, locals, TypeOK
  <2>1. CASE CallWait(t)
    BY <2>1 DEF CallWait
  <2>2. CASE CheckCancel(t)
    BY <2>0, <2>2 DEF CheckCancel
  <2>3. CASE ReturnAgain(t)
    BY <2>0, <2>3 DEF ReturnAgain
  <2>4. CASE LockPoll(t)
    BY <2>0, <2>4 DEF LockPoll
  <2>5. CASE SendPoll(t)
    BY <2>0, <2>5 DEF SendPoll
  <2>6. CASE Seen(t)
    BY <2>0, <2>6 DEF Seen
  <2>7. CASE Finish(t)
    BY <2>0, <2>7 DEF Finish, Cancelled
  <2>8. CASE ClearCancel(t)
    BY <2>0, <2>8 DEF ClearCancel
  <2>9. CASE ReturnWait(t)
    BY <2>0, <2>9 DEF ReturnWait
  <2> QED
    BY <1>4, <2>1, <2>2, <2>3, <2>4, <2>5, <2>6, <2>7, <2>8, <2>9 DEF Wait
<1> QED
  BY <1>1, <1>2, <1>3, <1>4 DEF Next

-----------------------------------------------------------------------------
\* The invariant holds in every reachable state: the locks have the owners that the program
\* counters tell, and a cancel that came in time is on its way to the result.
THEOREM InvCorrect == Spec => []WaitInv
<1>1. WaitInv /\ [Next]_vars => WaitInv'
  BY TypeNext, LockNext, CancelNext, ReasonNext DEF WaitInv
<1> QED
  BY InvInit, <1>1, PTL DEF Spec

\* The variables keep their types, for any number of threads.
THEOREM TypeCorrect == Spec => []TypeOK
<1>1. WaitInv => TypeOK
  BY DEF WaitInv
<1> QED
  BY <1>1, InvCorrect, PTL

\* Only one thread at a time is inside beacon_wait.
THEOREM MutualExclusion == Spec => []OneWaiter
<1>1. WaitInv => OneWaiter
  BY DEF WaitInv, WaitLock, OneWaiter
<1> QED
  BY <1>1, InvCorrect, PTL

\* beacon_close frees the handle only after the waiter has left beacon_wait.
THEOREM CloseWaits == Spec => []FreedAfterWait
<1>1. WaitInv => FreedAfterWait
  BY DEF WaitInv, WaitLock, FreedAfterWait
<1> QED
  BY <1>1, InvCorrect, PTL

\* A cancel that comes while a thread polls makes its beacon_wait return EINTR,
\* whatever the other threads do.
THEOREM CancelWorks == Spec => []CancelInterrupts
<1>1. WaitInv => CancelInterrupts
  BY DEF WaitInv, CancelKept, CancelInterrupts
<1> QED
  BY <1>1, InvCorrect, PTL

\* A wait without a timeout that returns 0 has a buffer ready.
THEOREM SuccessMeansData == Spec => []SuccessHasData
<1>1. WaitInv => SuccessHasData
  BY DEF WaitInv, ReasonKept, SuccessHasData
<1> QED
  BY <1>1, InvCorrect, PTL
==============================================================================
