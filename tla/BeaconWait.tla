------------------------------ MODULE BeaconWait ------------------------------
(***************************************************************************)
(* beacon_wait, beacon_cancel_wait and beacon_close on a handle opened     *)
(* with thread_safe = 1, called from several threads.                      *)
(*                                                                         *)
(* A waiter polls the board under `mut` until a buffer is ready, it is     *)
(* cancelled or its timeout has passed; wait_mut, taken with trylock,      *)
(* keeps a second waiter out.  The only word between the canceller (a      *)
(* thread or a signal handler) and the waiter is the flag cancel_wait,     *)
(* which both write without a lock, so every access to it is a step.       *)
(* Masks are abstracted to "some buffer is ready".                         *)
(***************************************************************************)
EXTENDS Integers

CONSTANTS
    Waiters,        \* threads that call beacon_wait
    Users,          \* threads that make other calls, between USING and DONE
    Closer,         \* the thread that calls beacon_close
    Closes,         \* beacon_close is called
    Nobody,         \* owner of a free mutex
    Destroyed,      \* owner of a destroyed mutex
    MaxWaits,       \* bound: calls of beacon_wait, over all waiters
    MaxCancels,     \* bound: calls of beacon_cancel_wait
    MaxUses         \* bound: calls by Users

Threads == Waiters \cup Users \cup {Closer}

ASSUME ThreadsAssumption ==
    /\ Waiters \cap Users = {} /\ Closer \notin Waiters \cup Users
    /\ Nobody \notin Threads /\ Destroyed \notin Threads /\ Nobody # Destroyed
ASSUME ClosesAssumption == Closes \in BOOLEAN
ASSUME BoundsAssumption == MaxWaits \in Nat /\ MaxCancels \in Nat /\ MaxUses \in Nat

VARIABLES
    data,           \* the board has a buffer ready
    cancel_wait, wait_mut, mut, freed,
    pc,             \* of each thread
    timed,          \* each waiter's last call has a timeout > 0
    something,      \* local of each waiter: its last poll saw a buffer ready
    interrupted,    \* local of each waiter
    ready,          \* *ready_buffers of each waiter's last call
    ret,            \* what each waiter's last call returned
    \* history
    hit,            \* a cancel came while this waiter was polling
    stale,          \* a destroyed mutex has been locked
    waits, cancels, uses

locals == <<timed, something, interrupted, ready, ret>>
counts == <<waits, cancels, uses>>
vars   == <<data, cancel_wait, wait_mut, mut, freed, pc, locals, hit, stale, counts>>

Returns == {"none", "ok", "EBUSY", "EAGAIN", "EINTR"}
Holding == {"check", "again", "poll", "send", "seen", "finish", "clear", "unlock"}
WaiterPCs == {"out"} \cup Holding
UserPCs   == {"out", "want", "in"}
CloserPCs == {"out", "lock", "flush", "destroy", "trywait", "cancel", "lockwait",
              "unlockwait", "destroywait", "free", "done"}

TypeOK ==
    /\ data \in BOOLEAN /\ cancel_wait \in BOOLEAN /\ freed \in BOOLEAN
    /\ wait_mut \in Threads \cup {Nobody, Destroyed}
    /\ mut \in Threads \cup {Nobody, Destroyed}
    /\ pc \in [Threads -> WaiterPCs \cup UserPCs \cup CloserPCs]
    /\ \A t \in Waiters : pc[t] \in WaiterPCs
    /\ \A t \in Users : pc[t] \in UserPCs
    /\ pc[Closer] \in CloserPCs
    /\ timed \in [Waiters -> BOOLEAN]
    /\ something \in [Waiters -> BOOLEAN] /\ interrupted \in [Waiters -> BOOLEAN]
    /\ ready \in [Waiters -> {"unset", "empty", "some"}]
    /\ ret \in [Waiters -> Returns]
    /\ hit \in [Waiters -> BOOLEAN] /\ stale \in BOOLEAN
    /\ waits \in Nat /\ cancels \in Nat /\ uses \in Nat

Init ==
    /\ data = FALSE /\ cancel_wait = FALSE /\ freed = FALSE
    /\ wait_mut = Nobody /\ mut = Nobody
    /\ pc = [t \in Threads |-> "out"]
    /\ timed = [t \in Waiters |-> FALSE]
    /\ something = [t \in Waiters |-> FALSE] /\ interrupted = [t \in Waiters |-> FALSE]
    /\ ready = [t \in Waiters |-> "unset"] /\ ret = [t \in Waiters |-> "none"]
    /\ hit = [t \in Waiters |-> FALSE] /\ stale = FALSE
    /\ waits = 0 /\ cancels = 0 /\ uses = 0

-----------------------------------------------------------------------------
Goto(t, label) == pc' = [pc EXCEPT ![t] = label]

\* USING(d): wait for mut.  Locking a destroyed mutex is undefined; here it
\* fails and, as nobody looks at the result, the thread goes on without it.
Using(t) ==
    \/ mut = Nobody /\ mut' = t /\ UNCHANGED stale
    \/ mut = Destroyed /\ stale' = TRUE /\ UNCHANGED mut

\* DONE(d)
Done(t) == mut' = IF mut = t THEN Nobody ELSE mut

\* The client of the handle: the doc of beacon_close forbids calls after it.
MayCall == pc[Closer] = "out"

-----------------------------------------------------------------------------
\* The board, and the client that reads what is ready.
BoardStep ==
    /\ data' = ~data
    /\ UNCHANGED <<cancel_wait, wait_mut, mut, freed, pc, locals, hit, stale, counts>>

\* beacon_cancel_wait, from a thread or a signal handler.
SetCancel ==
    /\ cancel_wait' = TRUE
    /\ hit' = [t \in Waiters |-> hit[t] \/ pc[t] \in {"poll", "send", "seen", "finish"}]

CancelWait ==
    /\ MayCall /\ cancels < MaxCancels
    /\ cancels' = cancels + 1
    /\ SetCancel
    /\ UNCHANGED <<data, wait_mut, mut, freed, pc, locals, stale, waits, uses>>

-----------------------------------------------------------------------------
\* beacon_wait

\* A fault for the checks to find: nobody is kept out.
CallWaitUnlocked(t) ==
    /\ MayCall /\ pc[t] = "out" /\ waits < MaxWaits
    /\ waits' = waits + 1
    /\ wait_mut' = t
    /\ Goto(t, "check")
    /\ \E b \in BOOLEAN : timed' = [timed EXCEPT ![t] = b]
    /\ ready' = [ready EXCEPT ![t] = "unset"]
    /\ hit' = [hit EXCEPT ![t] = FALSE]
    /\ UNCHANGED <<data, cancel_wait, mut, freed, something, interrupted, ret, stale,
                   cancels, uses>>

\* pthread_mutex_trylock(&d->wait_mut)
CallWait(t) ==
    /\ MayCall /\ pc[t] = "out" /\ waits < MaxWaits
    /\ waits' = waits + 1
    /\ \/ /\ wait_mut = Nobody
          /\ wait_mut' = t
          /\ Goto(t, "check")
          /\ UNCHANGED ret
       \/ /\ wait_mut # Nobody
          /\ ret' = [ret EXCEPT ![t] = "EBUSY"]
          /\ UNCHANGED <<wait_mut, pc>>
    /\ \E b \in BOOLEAN : timed' = [timed EXCEPT ![t] = b]
    /\ ready' = [ready EXCEPT ![t] = "unset"]
    /\ hit' = [hit EXCEPT ![t] = FALSE]
    /\ UNCHANGED <<data, cancel_wait, mut, freed, something, interrupted, stale,
                   cancels, uses>>

\* A pending cancel is consumed, *ready_buffers is not written.
CheckCancel(t) ==
    /\ pc[t] = "check"
    /\ \/ /\ cancel_wait
          /\ cancel_wait' = FALSE
          /\ Goto(t, "again")
          /\ UNCHANGED something
       \/ /\ ~cancel_wait
          /\ something' = [something EXCEPT ![t] = FALSE]
          /\ Goto(t, "poll")
          /\ UNCHANGED cancel_wait
    /\ UNCHANGED <<data, wait_mut, mut, freed, timed, interrupted, ready, ret, hit, stale,
                   counts>>

\* Fault: the early return keeps wait_mut.
ReturnAgainLocked(t) ==
    /\ pc[t] = "again"
    /\ ret' = [ret EXCEPT ![t] = "EAGAIN"]
    /\ Goto(t, "out")
    /\ UNCHANGED <<data, cancel_wait, wait_mut, mut, freed, timed, something, interrupted,
                   ready, hit, stale, counts>>

ReturnAgain(t) ==
    /\ pc[t] = "again"
    /\ wait_mut' = Nobody
    /\ ret' = [ret EXCEPT ![t] = "EAGAIN"]
    /\ Goto(t, "out")
    /\ UNCHANGED <<data, cancel_wait, mut, freed, timed, something, interrupted, ready,
                   hit, stale, counts>>

\* Fault: each turn of the loop starts with d->cancel_wait = 0.
LockPollUncancelled(t) ==
    /\ pc[t] = "poll"
    /\ Using(t)
    /\ cancel_wait' = FALSE
    /\ Goto(t, "send")
    /\ UNCHANGED <<data, wait_mut, freed, locals, hit, counts>>

\* beacon_check_buffers
LockPoll(t) ==
    /\ pc[t] = "poll"
    /\ Using(t)
    /\ Goto(t, "send")
    /\ UNCHANGED <<data, cancel_wait, wait_mut, freed, locals, hit, counts>>

SendPoll(t) ==
    /\ pc[t] = "send"
    /\ something' = [something EXCEPT ![t] = data]
    /\ Done(t)
    /\ Goto(t, "seen")
    /\ UNCHANGED <<data, cancel_wait, wait_mut, freed, timed, interrupted, ready, ret, hit,
                   stale, counts>>

\* Fault: the loop does not look at cancel_wait.
SeenDeaf(t) ==
    /\ pc[t] = "seen"
    /\ \/ (something[t] \/ timed[t]) /\ Goto(t, "finish")
       \/ ~something[t] /\ Goto(t, "poll")
    /\ UNCHANGED <<data, cancel_wait, wait_mut, mut, freed, locals, hit, stale, counts>>

\* if (d->cancel_wait) break; and the loop condition.  A timeout is only looked
\* at after a sleep.
Seen(t) ==
    /\ pc[t] = "seen"
    /\ \/ (cancel_wait \/ something[t] \/ timed[t]) /\ Goto(t, "finish")
       \/ ~cancel_wait /\ ~something[t] /\ Goto(t, "poll")
    /\ UNCHANGED <<data, cancel_wait, wait_mut, mut, freed, locals, hit, stale, counts>>

\* Faults: a cancel does not count when there is data, or not at all.
CancelledWithoutData(t) == cancel_wait /\ ~something[t]
NotCancelled(t) == FALSE

Cancelled(t) == cancel_wait

\* interrupted = d->cancel_wait; *ready_buffers = something;
Finish(t) ==
    /\ pc[t] = "finish"
    /\ interrupted' = [interrupted EXCEPT ![t] = Cancelled(t)]
    /\ ready' = [ready EXCEPT ![t] = IF something[t] THEN "some" ELSE "empty"]
    /\ Goto(t, "clear")
    /\ UNCHANGED <<data, cancel_wait, wait_mut, mut, freed, timed, something, ret, hit,
                   stale, counts>>

\* d->cancel_wait = 0;
ClearCancel(t) ==
    /\ pc[t] = "clear"
    /\ cancel_wait' = FALSE
    /\ Goto(t, "unlock")
    /\ UNCHANGED <<data, wait_mut, mut, freed, locals, hit, stale, counts>>

\* Fault: what was ready is returned in place of 0.
ReturnWaitMask(t) ==
    /\ pc[t] = "unlock"
    /\ wait_mut' = Nobody
    /\ ret' = [ret EXCEPT ![t] = IF interrupted[t] THEN "EINTR" ELSE ready[t]]
    /\ Goto(t, "out")
    /\ UNCHANGED <<data, cancel_wait, mut, freed, timed, something, interrupted, ready, hit,
                   stale, counts>>

ReturnWait(t) ==
    /\ pc[t] = "unlock"
    /\ wait_mut' = Nobody
    /\ ret' = [ret EXCEPT ![t] = IF interrupted[t] THEN "EINTR" ELSE "ok"]
    /\ Goto(t, "out")
    /\ UNCHANGED <<data, cancel_wait, mut, freed, timed, something, interrupted, ready, hit,
                   stale, counts>>

Wait(t) == \/ CheckCancel(t) \/ ReturnAgain(t) \/ LockPoll(t) \/ SendPoll(t)
           \/ Seen(t) \/ Finish(t) \/ ClearCancel(t) \/ ReturnWait(t)

-----------------------------------------------------------------------------
\* Any other call that talks to the board, between USING and DONE.
CallUse(t) ==
    /\ MayCall /\ pc[t] = "out" /\ uses < MaxUses
    /\ uses' = uses + 1
    /\ Goto(t, "want")
    /\ UNCHANGED <<data, cancel_wait, wait_mut, mut, freed, locals, hit, stale,
                   waits, cancels>>

LockUse(t) ==
    /\ pc[t] = "want"
    /\ Using(t)
    /\ Goto(t, "in")
    /\ UNCHANGED <<data, cancel_wait, wait_mut, freed, locals, hit, counts>>

DoneUse(t) ==
    /\ pc[t] = "in"
    /\ Done(t)
    /\ Goto(t, "out")
    /\ UNCHANGED <<data, cancel_wait, wait_mut, freed, locals, hit, stale, counts>>

-----------------------------------------------------------------------------
\* beacon_close

CallClose ==
    /\ Closes /\ pc[Closer] = "out"
    /\ SetCancel
    /\ Goto(Closer, "lock")
    /\ UNCHANGED <<data, wait_mut, mut, freed, locals, stale, counts>>

LockClose ==
    /\ pc[Closer] = "lock"
    /\ Using(Closer)
    /\ Goto(Closer, "flush")
    /\ UNCHANGED <<data, cancel_wait, wait_mut, freed, locals, hit, counts>>

\* buffer_send of what is left, then pthread_mutex_unlock(&d->mut)
FlushClose ==
    /\ pc[Closer] = "flush"
    /\ Done(Closer)
    /\ Goto(Closer, "destroy")
    /\ UNCHANGED <<data, cancel_wait, wait_mut, freed, locals, hit, stale, counts>>

\* pthread_mutex_destroy(&d->mut) fails with EBUSY when the mutex is held.
DestroyMut ==
    /\ pc[Closer] = "destroy"
    /\ mut' = IF mut = Nobody THEN Destroyed ELSE mut
    /\ Goto(Closer, "trywait")
    /\ UNCHANGED <<data, cancel_wait, wait_mut, freed, locals, hit, stale, counts>>

\* Fault: a trylock that fails is taken for one that succeeds.
TryWaitMutCareless ==
    /\ pc[Closer] = "trywait"
    /\ Goto(Closer, "unlockwait")
    /\ UNCHANGED <<data, cancel_wait, wait_mut, mut, freed, locals, hit, stale, counts>>

TryWaitMut ==
    /\ pc[Closer] = "trywait"
    /\ \/ wait_mut = Nobody /\ wait_mut' = Closer /\ Goto(Closer, "unlockwait")
       \/ wait_mut # Nobody /\ Goto(Closer, "cancel") /\ UNCHANGED wait_mut
    /\ UNCHANGED <<data, cancel_wait, mut, freed, locals, hit, stale, counts>>

CancelClose ==
    /\ pc[Closer] = "cancel"
    /\ SetCancel
    /\ Goto(Closer, "lockwait")
    /\ UNCHANGED <<data, wait_mut, mut, freed, locals, stale, counts>>

LockWaitMut ==
    /\ pc[Closer] = "lockwait" /\ wait_mut = Nobody
    /\ wait_mut' = Closer
    /\ Goto(Closer, "unlockwait")
    /\ UNCHANGED <<data, cancel_wait, mut, freed, locals, hit, stale, counts>>

UnlockWaitMut ==
    /\ pc[Closer] = "unlockwait"
    /\ wait_mut' = Nobody
    /\ Goto(Closer, "destroywait")
    /\ UNCHANGED <<data, cancel_wait, mut, freed, locals, hit, stale, counts>>

DestroyWaitMut ==
    /\ pc[Closer] = "destroywait"
    /\ wait_mut' = IF wait_mut = Nobody THEN Destroyed ELSE wait_mut
    /\ Goto(Closer, "free")
    /\ UNCHANGED <<data, cancel_wait, mut, freed, locals, hit, stale, counts>>

Free ==
    /\ pc[Closer] = "free"
    /\ freed' = TRUE
    /\ Goto(Closer, "done")
    /\ UNCHANGED <<data, cancel_wait, wait_mut, mut, locals, hit, stale, counts>>

Close == \/ LockClose \/ FlushClose \/ DestroyMut \/ TryWaitMut \/ CancelClose
         \/ LockWaitMut \/ UnlockWaitMut \/ DestroyWaitMut \/ Free

-----------------------------------------------------------------------------
Next == \/ BoardStep \/ CancelWait \/ CallClose \/ Close
        \/ \E t \in Waiters : CallWait(t) \/ Wait(t)
        \/ \E t \in Users : CallUse(t) \/ LockUse(t) \/ DoneUse(t)

Spec == Init /\ [][Next]_vars

\* A thread inside a call goes on.  Nobody has to start one, the board has to
\* do nothing, and since uses are bounded weak fairness of the locks is enough.
Fairness == /\ WF_vars(Close)
            /\ \A t \in Waiters : WF_vars(Wait(t))
            /\ \A t \in Users : WF_vars(LockUse(t) \/ DoneUse(t))

FairSpec == Spec /\ Fairness

-----------------------------------------------------------------------------
\* At most one thread is between the trylock and the unlock of beacon_wait: the
\* flag cancel_wait is cleared by the waiter it was meant for.
OneWaiter == \A t, u \in Waiters : pc[t] \in Holding /\ pc[u] \in Holding => t = u

\* beacon_close does not free the handle under a waiter that is in beacon_wait.
FreedAfterWait == freed => \A t \in Waiters : pc[t] \notin Holding

\* A wait during whose polling a cancel came returns EINTR, although another
\* thread may call beacon_wait, and have its own cancel cleared, meanwhile.
CancelInterrupts == \A t \in Waiters : hit[t] /\ pc[t] = "out" => ret[t] = "EINTR"

\* A wait without a timeout that returns 0 has a buffer ready: the flag that broke
\* the loop is the flag that makes it return EINTR.
SuccessHasData ==
    \A t \in Waiters :
        pc[t] = "out" /\ ret[t] = "ok" /\ ~timed[t] => ready[t] = "some"

\* A cancelled wait returns, even if no event ever comes.
CancelEndsWait == \A t \in Waiters : (hit[t] /\ pc[t] \in Holding) ~> (pc[t] = "out")

\* beacon_close returns, even if a thread is in a wait without a timeout and no
\* event ever comes.
CloseReturns == (pc[Closer] # "out") ~> (pc[Closer] = "done")

-----------------------------------------------------------------------------
\* The inductive invariant behind the four invariants above.

Polling == {"poll", "send", "seen", "finish"}

\* wait_mut belongs to the waiter inside beacon_wait; none is left inside once
\* beacon_close has had it.
WaitLock ==
    /\ \A t \in Waiters : pc[t] \in Holding => wait_mut = t
    /\ freed => pc[Closer] = "done"
    /\ pc[Closer] \in {"unlockwait", "destroywait", "free", "done"} =>
           \A t \in Waiters : pc[t] \notin Holding

\* A cancel that came while t was polling is still in the flag, then in the
\* local copy, then in the result.
CancelKept ==
    \A t \in Waiters : hit[t] =>
        /\ pc[t] \notin {"check", "again"}
        /\ pc[t] \in Polling => cancel_wait
        /\ pc[t] \in {"clear", "unlock"} => interrupted[t]
        /\ pc[t] = "out" => ret[t] = "EINTR"

\* A wait that leaves its loop has a reason, and reports it.
ReasonKept ==
    \A t \in Waiters : ~timed[t] =>
        /\ pc[t] = "finish" => cancel_wait \/ something[t]
        /\ pc[t] \in {"clear", "unlock"} => interrupted[t] \/ ready[t] = "some"
        /\ pc[t] = "out" /\ ret[t] = "ok" => ready[t] = "some"

WaitInv == TypeOK /\ WaitLock /\ CancelKept /\ ReasonKept

-----------------------------------------------------------------------------
\* What the documentation says and the code does not do.

\* beacondaq.h: the mutex of a thread-safe handle controls "concurrent access to
\* this device from multiple threads": nobody goes ahead without it.
LocksLiveMutex == ~stale
==============================================================================
