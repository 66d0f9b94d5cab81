----------------------------- MODULE SharedMutex ------------------------------
(***************************************************************************)
(* libcxx's std::shared_timed_mutex (libcxx/src/shared_mutex.cpp and       *)
(* libcxx/include/shared_mutex).  __mut_ is held from the start of a call  *)
(* or the end of a wait to the next wait or the return, so such a stretch  *)
(* is one step.  gate1 and gate2 are the threads blocked on the two        *)
(* condition variables; a notified thread leaves the set and tests its     *)
(* condition again in a later step.                                        *)
(*                                                                         *)
(* Clients keep the contract of a mutex: who unlocks owns it, and no       *)
(* thread locks it twice.                                                  *)
(***************************************************************************)
EXTENDS Naturals, FiniteSets

CONSTANTS
  Threads,
  MaxReaders    \* __n_readers_, which is 2^31 - 1

ASSUME ThreadsAssumption == IsFiniteSet(Threads)
ASSUME ReadersAssumption == MaxReaders \in Nat \ {0}
\* A process has fewer than 2^31 threads: at most one finds the count full.
ASSUME CapacityAssumption == Cardinality(Threads) <= MaxReaders + 1

VARIABLES
  entered,      \* __state_ & __write_entered_
  count,        \* __state_ & __n_readers_
  gate1, gate2,
  pc,           \* where each thread is
  timed,        \* threads whose call has a deadline
  expired       \* threads whose last wait_until returned cv_status::timeout

vars == <<entered, count, gate1, gate2, pc, timed, expired>>

Places == {"out", "lock", "drain", "writer", "lock_shared", "reader"}

Init ==
  /\ entered = FALSE /\ count = 0
  /\ gate1 = {} /\ gate2 = {}
  /\ pc = [t \in Threads |-> "out"]
  /\ timed = {} /\ expired = {}

\* Thread t runs in the place p: it is not blocked there.
Runs(t, p) == pc[t] = p /\ t \notin gate1 \union gate2

\* Thread t ends its call, or owns the mutex, in the place p.
Return(t, p) ==
  /\ pc' = [pc EXCEPT ![t] = p]
  /\ timed' = timed \ {t}
  /\ expired' = expired \ {t}

-------------------------------------------------------------------------------
(* Exclusive ownership. *)

\* lock() and try_lock_until() are called.
CallLock(t) ==
  /\ pc[t] = "out"
  /\ pc' = [pc EXCEPT ![t] = "lock"]
  /\ timed' \in {timed, timed \union {t}}
  /\ UNCHANGED <<entered, count, gate1, gate2, expired>>

LockWait(t) ==
  /\ Runs(t, "lock") /\ entered /\ t \notin expired
  /\ gate1' = gate1 \union {t}
  /\ UNCHANGED <<entered, count, gate2, pc, timed, expired>>

LockGiveUp(t) ==
  /\ Runs(t, "lock") /\ entered /\ t \in expired
  /\ Return(t, "out")
  /\ UNCHANGED <<entered, count, gate1, gate2>>

\* No other writer: from now on readers are kept out; wait for those inside.
LockEnter(t) ==
  /\ Runs(t, "lock") /\ ~entered
  /\ entered' = TRUE
  /\ \/ /\ count = 0
        /\ Return(t, "writer")
        /\ UNCHANGED gate2
     \/ /\ count > 0
        /\ pc' = [pc EXCEPT ![t] = "drain"]
        /\ gate2' = gate2 \union {t}
        /\ expired' = expired \ {t}
        /\ UNCHANGED timed
  /\ UNCHANGED <<count, gate1>>

DrainWait(t) ==
  /\ Runs(t, "drain") /\ count > 0 /\ t \notin expired
  /\ gate2' = gate2 \union {t}
  /\ UNCHANGED <<entered, count, gate1, pc, timed, expired>>

DrainDone(t) ==
  /\ Runs(t, "drain") /\ count = 0
  /\ Return(t, "writer")
  /\ UNCHANGED <<entered, count, gate1, gate2>>

\* Out of time behind the readers: let in whoever was kept out.
DrainGiveUpMutant(t) ==
  /\ Runs(t, "drain") /\ count > 0 /\ t \in expired
  /\ entered' = FALSE
  /\ Return(t, "out")
  /\ UNCHANGED <<count, gate1, gate2>>

DrainGiveUp(t) ==
  /\ Runs(t, "drain") /\ count > 0 /\ t \in expired
  /\ entered' = FALSE
  /\ gate1' = {}
  /\ Return(t, "out")
  /\ UNCHANGED <<count, gate2>>

TryLockMutant(t) ==
  /\ pc[t] = "out" /\ ~entered
  /\ entered' = TRUE /\ count' = 0
  /\ Return(t, "writer")
  /\ UNCHANGED <<gate1, gate2>>

\* try_lock() that succeeds; one that fails changes nothing.
TryLock(t) ==
  /\ pc[t] = "out" /\ ~entered /\ count = 0
  /\ entered' = TRUE /\ count' = 0
  /\ Return(t, "writer")
  /\ UNCHANGED <<gate1, gate2>>

\* condition_variable::notify_one.
NotifyOne(gate) == IF gate = {} THEN {{}} ELSE {gate \ {w} : w \in gate}

UnlockMutant(t) ==
  /\ pc[t] = "writer"
  /\ entered' = FALSE /\ count' = 0
  /\ gate1' \in NotifyOne(gate1)
  /\ Return(t, "out")
  /\ UNCHANGED gate2

Unlock(t) ==
  /\ pc[t] = "writer"
  /\ entered' = FALSE /\ count' = 0
  /\ gate1' = {}
  /\ Return(t, "out")
  /\ UNCHANGED gate2

-------------------------------------------------------------------------------
(* Shared ownership. *)

CallLockShared(t) ==
  /\ pc[t] = "out"
  /\ pc' = [pc EXCEPT ![t] = "lock_shared"]
  /\ timed' \in {timed, timed \union {t}}
  /\ UNCHANGED <<entered, count, gate1, gate2, expired>>

Closed == entered \/ count = MaxReaders

SharedWait(t) ==
  /\ Runs(t, "lock_shared") /\ Closed /\ t \notin expired
  /\ gate1' = gate1 \union {t}
  /\ UNCHANGED <<entered, count, gate2, pc, timed, expired>>

SharedGiveUp(t) ==
  /\ Runs(t, "lock_shared") /\ Closed /\ t \in expired
  /\ Return(t, "out")
  /\ UNCHANGED <<entered, count, gate1, gate2>>

\* lock_shared() gets through, or try_lock_shared() succeeds.
SharedEnter(t) ==
  /\ Runs(t, "lock_shared") \/ pc[t] = "out"
  /\ ~Closed
  /\ count' = count + 1
  /\ Return(t, "reader")
  /\ UNCHANGED <<entered, gate1, gate2>>

UnlockSharedMutant(t) ==
  /\ pc[t] = "reader"
  /\ count' = count - 1
  /\ gate2' = gate2
  /\ gate1' \in IF ~entered /\ count' = MaxReaders - 1 THEN NotifyOne(gate1) ELSE {gate1}
  /\ Return(t, "out")
  /\ UNCHANGED entered

\* The last reader lets the writer in; one that leaves a full house, a reader.
UnlockShared(t) ==
  /\ pc[t] = "reader"
  /\ count' = count - 1
  /\ gate2' \in IF entered /\ count' = 0 THEN NotifyOne(gate2) ELSE {gate2}
  /\ gate1' \in IF ~entered /\ count' = MaxReaders - 1 THEN NotifyOne(gate1) ELSE {gate1}
  /\ Return(t, "out")
  /\ UNCHANGED entered

-------------------------------------------------------------------------------
\* A wait ends by itself: at its deadline, or spuriously.
WakeUp(t) ==
  /\ t \in gate1 \union gate2
  /\ gate1' = gate1 \ {t} /\ gate2' = gate2 \ {t}
  /\ \/ t \in timed /\ expired' = expired \union {t}
     \/ UNCHANGED expired
  /\ UNCHANGED <<entered, count, pc, timed>>

\* What a thread inside a call does by itself.
Step(t) ==
  \/ LockWait(t) \/ LockGiveUp(t) \/ LockEnter(t)
  \/ DrainWait(t) \/ DrainDone(t) \/ DrainGiveUp(t)
  \/ SharedWait(t) \/ SharedGiveUp(t)
  \/ pc[t] # "out" /\ SharedEnter(t)

Leave(t) == Unlock(t) \/ UnlockShared(t)

Call(t) ==
  \/ CallLock(t) \/ TryLock(t) \/ CallLockShared(t)
  \/ pc[t] = "out" /\ SharedEnter(t)

Next == \E t \in Threads : Step(t) \/ Leave(t) \/ Call(t) \/ WakeUp(t)

Spec == Init /\ [][Next]_vars

\* Threads inside a call go on, and owners unlock.
FairSpec == Spec /\ \A t \in Threads : WF_vars(Step(t)) /\ WF_vars(Leave(t))

-------------------------------------------------------------------------------
Writers == {t \in Threads : pc[t] = "writer"}
Readers == {t \in Threads : pc[t] = "reader"}

\* Only one thread owns the mutex exclusively, and then none owns it shared:
\* the mutex behaves as the lock that RWLock describes, although the owners are
\* known to it only as a bit and a count, and unlock() simply writes 0.
Lock == INSTANCE RWLock WITH writers <- Writers, readers <- Readers
LockSpec == Lock!Spec

\* Nobody sleeps without a reason: behind gate1 there is a writer or a full
\* count, behind gate2 there are readers, whose last will notify it.
NoLostWakeup ==
  /\ gate1 # {} => Closed
  /\ gate2 # {} => entered /\ count > 0

\* A writer that has closed gate1 gets the mutex or runs out of time, however
\* many readers come: none passes it any more.
EnteredWriterIsServed ==
  \A t \in Threads : pc[t] = "drain" ~> pc[t] \in {"writer", "out"}

\* Whoever waits at a gate is woken.
WaitersAreWoken ==
  \A t \in Threads : t \in gate1 \union gate2 ~> t \notin gate1 \union gate2

\* The values of the variables: the count of the readers never outgrows its bits,
\* and only a call with a deadline runs out of time.
TypeOK ==
  /\ entered \in BOOLEAN /\ count \in 0 .. MaxReaders
  /\ gate1 \in SUBSET Threads /\ gate2 \in SUBSET Threads
  /\ pc \in [Threads -> Places]
  /\ timed \in SUBSET Threads /\ expired \in SUBSET timed
===============================================================================
