-------------------------- MODULE SharedMutexProofs ---------------------------
(***************************************************************************)
(* SharedMutex implements the lock of RWLock and loses no wakeup, for any  *)
(* finite set of threads that CapacityAssumption admits.                   *)
(***************************************************************************)
EXTENDS SharedMutex, FiniteSetTheorems, TLAPS

\* The thread that has set __write_entered_: it drains the readers or owns.
Inside(t) == pc[t] \in {"drain", "writer"}

\* The bit and the count are exactly who is inside.
OneInside ==
  /\ \A t, u \in Threads : Inside(t) /\ Inside(u) => t = u
  /\ entered <=> \E t \in Threads : Inside(t)
  /\ Writers # {} => count = 0

CountExact == count = Cardinality(Readers)

\* Who blocks at a gate.
Blocked ==
  /\ \A t \in gate1 : pc[t] \in {"lock", "lock_shared"}
  /\ \A t \in gate2 : pc[t] = "drain"

IInv == TypeOK /\ OneInside /\ CountExact /\ Blocked /\ NoLostWakeup

LEMMA ReadersFinite == IsFiniteSet(Readers) /\ Cardinality(Readers) \in Nat
BY ThreadsAssumption, FS_Subset, FS_CardinalityType DEF Readers

\* When the count is full, the threads that do not own leave room for one sleeper.
LEMMA OneSleeper ==
  ASSUME IInv, count = MaxReaders, NEW w \in gate1
  PROVE  gate1 = {w}
<1>1. /\ IsFiniteSet(gate1) /\ Cardinality(gate1) \in Nat
      /\ Readers \cup gate1 \subseteq Threads /\ Readers \cap gate1 = {}
  BY ThreadsAssumption, FS_Subset, FS_CardinalityType DEF IInv, TypeOK, Blocked, Readers
<1>2. Cardinality(Readers \cup gate1) = MaxReaders + Cardinality(gate1)
  <2>1. Cardinality(Readers \cup gate1)
          = Cardinality(Readers) + Cardinality(gate1) - Cardinality(Readers \cap gate1)
    BY <1>1, ReadersFinite, FS_Union
  <2>2. Cardinality(Readers \cap gate1) = 0 /\ Cardinality(Readers) = MaxReaders
    BY <1>1, FS_EmptySet DEF IInv, CountExact
  <2> QED BY <1>1, <2>1, <2>2, ReadersAssumption
<1>3. Cardinality(gate1) <= 1
  <2>1. Cardinality(Readers \cup gate1) <= Cardinality(Threads)
    BY <1>1, ThreadsAssumption, FS_Subset
  <2>2. Cardinality(Threads) \in Nat
    BY ThreadsAssumption, FS_CardinalityType
  <2> QED BY <1>1, <1>2, <2>1, <2>2, ReadersAssumption, CapacityAssumption
<1>4. Cardinality(gate1) = 1
  <2>1. Cardinality(gate1) # 0
    BY <1>1, FS_EmptySet
  <2> QED BY <1>1, <1>3, <2>1
<1> QED BY <1>1, <1>4, FS_Singleton

LEMMA InitIInv == Init => IInv
<1> SUFFICES ASSUME Init PROVE IInv
  OBVIOUS
<1>1. Readers = {} /\ Writers = {}
  BY DEF Init, Readers, Writers
<1>2. TypeOK
  <2>1. pc \in [Threads -> Places]
    BY DEF Init, Places
  <2>2. 0 \in 0 .. MaxReaders
    BY ReadersAssumption
  <2>3. entered \in BOOLEAN /\ count = 0 /\ gate1 = {} /\ gate2 = {} /\ timed = {} /\ expired = {}
    BY DEF Init
  <2> QED BY <2>1, <2>2, <2>3 DEF TypeOK
<1> QED
  BY <1>1, <1>2, FS_EmptySet
     DEF Init, IInv, OneInside, CountExact, Blocked, NoLostWakeup, Inside

\* How a step moves the thread t, and what that does to the owners.
LEMMA Moves ==
  ASSUME TypeOK, NEW t \in Threads, NEW p \in Places,
         pc' = [pc EXCEPT ![t] = p]
  PROVE  /\ pc' \in [Threads -> Places] /\ pc'[t] = p
         /\ \A u \in Threads : u # t => pc'[u] = pc[u]
         /\ Readers' = IF p = "reader" THEN Readers \cup {t} ELSE Readers \ {t}
         /\ Writers' = IF p = "writer" THEN Writers \cup {t} ELSE Writers \ {t}
BY DEF TypeOK, Readers, Writers, Places

LEMMA NextIInv == IInv /\ [Next]_vars => IInv'
<1> SUFFICES ASSUME IInv, [Next]_vars PROVE IInv'
  OBVIOUS
<1> USE DEF IInv
<1>r. IsFiniteSet(Readers) /\ count \in Nat /\ MaxReaders \in Nat \ {0}
  BY ReadersFinite, ReadersAssumption DEF TypeOK
<1>1. ASSUME NEW t \in Threads, LockWait(t) \/ DrainWait(t) \/ SharedWait(t) \/ WakeUp(t)
      PROVE  IInv'
  <2>1. pc' = pc /\ entered' = entered /\ count' = count
        /\ Readers' = Readers /\ Writers' = Writers
    BY <1>1 DEF LockWait, DrainWait, SharedWait, WakeUp, Readers, Writers
  <2>2. TypeOK'
    BY <1>1 DEF LockWait, DrainWait, SharedWait, WakeUp, TypeOK
  <2>3. Blocked'
    BY <1>1 DEF LockWait, DrainWait, SharedWait, WakeUp, Blocked, Runs
  <2>4. NoLostWakeup'
    <3>1. Runs(t, "drain") => entered
      BY DEF Runs, OneInside, Inside
    <3> QED
      BY <1>1, <2>1, <3>1
         DEF LockWait, DrainWait, SharedWait, WakeUp, NoLostWakeup, Closed
  <2> QED BY <2>1, <2>2, <2>3, <2>4 DEF OneInside, CountExact, Inside
<1>2. ASSUME NEW t \in Threads,
             CallLock(t) \/ CallLockShared(t) \/ LockGiveUp(t) \/ SharedGiveUp(t)
      PROVE  IInv'
  <2>1. PICK p \in {"lock", "lock_shared", "out"} :
          /\ pc' = [pc EXCEPT ![t] = p]
          /\ pc[t] \in {"out", "lock", "lock_shared"} /\ t \notin gate1
          /\ UNCHANGED <<entered, count, gate1, gate2>>
    BY <1>2 DEF CallLock, CallLockShared, LockGiveUp, SharedGiveUp, Return, Runs, Blocked
  <2>2. /\ pc' \in [Threads -> Places] /\ pc'[t] = p
        /\ \A u \in Threads : u # t => pc'[u] = pc[u]
        /\ Readers' = Readers /\ Writers' = Writers
    BY <2>1, Moves DEF Places, Readers, Writers
  <2>3. TypeOK'
    BY <1>2, <2>1, <2>2
       DEF CallLock, CallLockShared, LockGiveUp, SharedGiveUp, Return, TypeOK
  <2>4. Blocked' /\ NoLostWakeup'
    BY <2>1, <2>2 DEF Blocked, NoLostWakeup, Closed, TypeOK
  <2> QED BY <2>1, <2>2, <2>3, <2>4 DEF OneInside, CountExact, Inside
<1>3. ASSUME NEW t \in Threads, LockEnter(t) PROVE IInv'
  <2>1. PICK p \in {"drain", "writer"} :
          /\ pc' = [pc EXCEPT ![t] = p] /\ pc[t] = "lock" /\ t \notin gate1
          /\ ~entered /\ entered' = TRUE /\ count' = count /\ gate1' = gate1
          /\ p = "writer" => count = 0 /\ gate2' = gate2
          /\ p = "drain" => count > 0 /\ gate2' = gate2 \cup {t}
    BY <1>3 DEF LockEnter, Return, Runs
  <2>2. /\ pc' \in [Threads -> Places] /\ pc'[t] = p
        /\ \A u \in Threads : u # t => pc'[u] = pc[u]
        /\ Readers' = Readers
    BY <2>1, Moves DEF Places, Readers
  <2>3. TypeOK'
    BY <1>3, <2>1, <2>2 DEF LockEnter, Return, TypeOK
  <2>4. OneInside'
    BY <2>1, <2>2 DEF OneInside, Inside, Writers, TypeOK
  <2>5. Blocked' /\ NoLostWakeup'
    BY <2>1, <2>2 DEF Blocked, NoLostWakeup, Closed, TypeOK
  <2> QED BY <2>1, <2>2, <2>3, <2>4, <2>5 DEF CountExact
<1>4. ASSUME NEW t \in Threads, DrainDone(t) PROVE IInv'
  <2>1. /\ pc' = [pc EXCEPT ![t] = "writer"] /\ pc[t] = "drain" /\ count = 0
        /\ t \notin gate2 /\ UNCHANGED <<entered, count, gate1, gate2>>
    BY <1>4 DEF DrainDone, Return, Runs
  <2>2. /\ pc' \in [Threads -> Places] /\ pc'[t] = "writer"
        /\ \A u \in Threads : u # t => pc'[u] = pc[u]
        /\ Readers' = Readers
    BY <2>1, Moves DEF Places, Readers
  <2>3. TypeOK'
    BY <1>4, <2>1, <2>2 DEF DrainDone, Return, TypeOK
  <2>4. OneInside'
    BY <2>1, <2>2 DEF OneInside, Inside, Writers, TypeOK
  <2>5. Blocked' /\ NoLostWakeup'
    BY <2>1, <2>2 DEF Blocked, NoLostWakeup, Closed, TypeOK
  <2> QED BY <2>1, <2>2, <2>3, <2>4, <2>5 DEF CountExact
<1>5. ASSUME NEW t \in Threads, DrainGiveUp(t) \/ Unlock(t) PROVE IInv'
  <2>1. /\ pc' = [pc EXCEPT ![t] = "out"] /\ Inside(t)
        /\ entered' = FALSE /\ count' = count /\ gate1' = {} /\ gate2' = gate2
        /\ t \notin gate2
    BY <1>5 DEF DrainGiveUp, Unlock, Return, Runs, Inside, OneInside, Writers, Blocked
  <2>2. /\ pc' \in [Threads -> Places] /\ pc'[t] = "out"
        /\ \A u \in Threads : u # t => pc'[u] = pc[u]
        /\ Readers' = Readers
    BY <2>1, Moves DEF Places, Readers, Inside
  <2>3. TypeOK'
    BY <1>5, <2>1, <2>2 DEF DrainGiveUp, Unlock, Return, TypeOK
  <2>4. \A u \in Threads : u # t => ~Inside(u)
    BY <2>1 DEF OneInside
  <2>5. OneInside'
    BY <2>1, <2>2, <2>4 DEF OneInside, Inside, Writers
  <2>6. gate2 = {}
    BY <2>1, <2>4 DEF Blocked, Inside, TypeOK
  <2>7. Blocked' /\ NoLostWakeup'
    BY <2>1, <2>6 DEF Blocked, NoLostWakeup
  <2> QED BY <2>1, <2>2, <2>3, <2>5, <2>7 DEF CountExact
<1>6. ASSUME NEW t \in Threads, TryLock(t) PROVE IInv'
  <2>1. /\ pc' = [pc EXCEPT ![t] = "writer"] /\ pc[t] = "out" /\ count = 0
        /\ ~entered /\ entered' = TRUE /\ count' = count /\ UNCHANGED <<gate1, gate2>>
    BY <1>6 DEF TryLock, Return
  <2>2. /\ pc' \in [Threads -> Places] /\ pc'[t] = "writer"
        /\ \A u \in Threads : u # t => pc'[u] = pc[u]
        /\ Readers' = Readers
    BY <2>1, Moves DEF Places, Readers
  <2>3. TypeOK'
    BY <1>6, <2>1, <2>2 DEF TryLock, Return, TypeOK
  <2>4. OneInside'
    BY <2>1, <2>2 DEF OneInside, Inside, Writers, TypeOK
  <2>5. Blocked' /\ NoLostWakeup'
    BY <2>1, <2>2 DEF Blocked, NoLostWakeup, Closed, TypeOK
  <2> QED BY <2>1, <2>2, <2>3, <2>4, <2>5 DEF CountExact
<1>7. ASSUME NEW t \in Threads, SharedEnter(t) PROVE IInv'
  <2>1. /\ pc' = [pc EXCEPT ![t] = "reader"] /\ pc[t] \in {"lock_shared", "out"}
        /\ ~entered /\ count # MaxReaders /\ count' = count + 1
        /\ gate1 = {} /\ gate2 = {} /\ UNCHANGED <<entered, gate1, gate2>>
    BY <1>7 DEF SharedEnter, Return, Runs, Closed, NoLostWakeup
  <2>2. /\ pc' \in [Threads -> Places] /\ pc'[t] = "reader"
        /\ \A u \in Threads : u # t => pc'[u] = pc[u]
        /\ Readers' = Readers \cup {t} /\ Writers' = Writers
    BY <2>1, Moves DEF Places, Writers
  <2>3. TypeOK'
    BY <1>7, <1>r, <2>1, <2>2 DEF SharedEnter, Return, TypeOK
  <2>4. OneInside'
    BY <2>1, <2>2 DEF OneInside, Inside, Writers
  <2>5. CountExact'
    <3>1. t \notin Readers
      BY <2>1 DEF Readers
    <3> QED BY <1>r, <2>1, <2>2, <3>1, FS_AddElement DEF CountExact
  <2>6. Blocked' /\ NoLostWakeup'
    BY <2>1 DEF Blocked, NoLostWakeup
  <2> QED BY <2>3, <2>4, <2>5, <2>6
<1>8. ASSUME NEW t \in Threads, UnlockShared(t) PROVE IInv'
  <2>1. /\ pc' = [pc EXCEPT ![t] = "out"] /\ pc[t] = "reader"
        /\ count' = count - 1 /\ entered' = entered
        /\ gate1' \subseteq gate1 /\ gate2' \subseteq gate2
    BY <1>8 DEF UnlockShared, Return, NotifyOne
  <2>2. /\ pc' \in [Threads -> Places] /\ pc'[t] = "out"
        /\ \A u \in Threads : u # t => pc'[u] = pc[u]
        /\ Readers' = Readers \ {t} /\ Writers' = Writers
    BY <2>1, Moves DEF Places, Writers
  <2>3. t \in Readers /\ Cardinality(Readers) = count
    BY <2>1 DEF Readers, CountExact
  <2>4. CountExact' /\ count > 0
    <3>1. Readers # {}
      BY <2>3
    <3> QED BY <1>r, <2>1, <2>2, <2>3, <3>1, FS_RemoveElement, FS_EmptySet DEF CountExact
  <2>5. TypeOK'
    BY <1>8, <1>r, <2>1, <2>2, <2>4 DEF UnlockShared, Return, TypeOK
  <2>6. OneInside'
    BY <2>1, <2>2, <2>4 DEF OneInside, Inside
  <2>7. Blocked'
    BY <2>1, <2>2 DEF Blocked, TypeOK
  <2>8. ASSUME gate1' # {} PROVE Closed'
    <3>1. SUFFICES ASSUME ~entered PROVE FALSE
      BY <2>1 DEF Closed
    <3>2. count = MaxReaders /\ gate1 # {}
      BY <2>1, <2>8, <3>1 DEF NoLostWakeup, Closed
    <3>3. PICK w \in gate1 : gate1' = gate1 \ {w}
      BY <1>8, <1>r, <2>1, <3>1, <3>2 DEF UnlockShared, NotifyOne
    <3>4. gate1 = {w}
      BY <3>2, OneSleeper
    <3> QED BY <2>8, <3>3, <3>4
  <2>9. ASSUME gate2' # {} PROVE entered' /\ count' > 0
    <3>1. gate2 # {} /\ entered
      BY <2>1, <2>9 DEF NoLostWakeup
    <3>2. SUFFICES ASSUME count' = 0 PROVE FALSE
      BY <1>r, <2>1, <2>4, <3>1
    <3>3. PICK w \in gate2 : gate2' = gate2 \ {w}
      BY <1>8, <3>1, <3>2 DEF UnlockShared, NotifyOne
    <3>4. \A u \in gate2 : u = w
      BY <3>3 DEF OneInside, Inside, Blocked, TypeOK
    <3> QED BY <2>9, <3>3, <3>4
  <2> QED BY <2>4, <2>5, <2>6, <2>7, <2>8, <2>9 DEF NoLostWakeup
<1>9. CASE UNCHANGED vars
  BY <1>9 DEF vars, TypeOK, OneInside, CountExact, Blocked, NoLostWakeup, Closed,
              Inside, Readers, Writers
<1> QED
  BY <1>1, <1>2, <1>3, <1>4, <1>5, <1>6, <1>7, <1>8, <1>9 DEF Next, Step, Leave, Call

LEMMA Invariance == Spec => []IInv
BY InitIInv, NextIInv, PTL DEF Spec

\* Types: the count of readers stays within __n_readers_.
THEOREM TypeCorrect == Spec => []TypeOK
<1>1. IInv => TypeOK
  BY DEF IInv
<1> QED BY <1>1, Invariance, PTL

\* No thread sleeps on a condition variable of the mutex after the condition
\* it waits for has come true.
THEOREM NoneLost == Spec => []NoLostWakeup
<1>1. IInv => NoLostWakeup
  BY DEF IInv
<1> QED BY <1>1, Invariance, PTL

\* Each step of the owners is a step that RWLock allows.
LEMMA StepRefines == IInv /\ [Next]_vars => [Lock!Next]_(Lock!vars)
<1> SUFFICES ASSUME IInv, [Next]_vars PROVE Lock!Next \/ UNCHANGED <<Writers, Readers>>
  BY DEF Lock!vars
<1> USE DEF IInv
<1>1. ASSUME NEW t \in Threads,
             \/ LockWait(t) \/ DrainWait(t) \/ SharedWait(t) \/ WakeUp(t)
             \/ UNCHANGED vars
      PROVE  UNCHANGED <<Writers, Readers>>
  BY <1>1 DEF LockWait, DrainWait, SharedWait, WakeUp, vars, Writers, Readers
<1>2. ASSUME NEW t \in Threads,
             \/ CallLock(t) \/ CallLockShared(t)
             \/ LockGiveUp(t) \/ SharedGiveUp(t) \/ DrainGiveUp(t)
      PROVE  UNCHANGED <<Writers, Readers>>
  <2>1. PICK p \in {"lock", "lock_shared", "out"} :
          pc' = [pc EXCEPT ![t] = p] /\ pc[t] \notin {"reader", "writer"}
    BY <1>2 DEF CallLock, CallLockShared, LockGiveUp, SharedGiveUp, DrainGiveUp, Return, Runs
  <2> QED BY <2>1, Moves DEF Places, Readers, Writers
<1>3. ASSUME NEW t \in Threads, LockEnter(t) \/ DrainDone(t) \/ TryLock(t)
      PROVE  Lock!Next \/ UNCHANGED <<Writers, Readers>>
  <2>1. CASE pc' = [pc EXCEPT ![t] = "drain"] /\ pc[t] = "lock"
    BY <2>1, Moves DEF Places, Readers, Writers
  <2>2. CASE pc' = [pc EXCEPT ![t] = "writer"] /\ pc[t] \in {"lock", "drain", "out"}
    <3>1. count = 0 /\ (~entered \/ pc[t] = "drain")
      BY <1>3, <2>2, ReadersAssumption
         DEF LockEnter, DrainDone, TryLock, Return, Runs, TypeOK, Places
    <3>2. Writers = {}
      BY <2>2, <3>1 DEF OneInside, Inside, Writers
    <3>3. Readers = {}
      BY <3>1, ReadersFinite, FS_EmptySet DEF CountExact
    <3>4. Writers' = {t} /\ Readers' = Readers
      BY <2>2, <3>2, <3>3, Moves DEF Places
    <3> QED BY <3>2, <3>3, <3>4 DEF Lock!Next, Lock!Acquire
  <2> QED BY <1>3, <2>1, <2>2 DEF LockEnter, DrainDone, TryLock, Return, Runs
<1>4. ASSUME NEW t \in Threads, Unlock(t) PROVE Lock!Next
  <2>1. pc[t] = "writer" /\ pc' = [pc EXCEPT ![t] = "out"]
    BY <1>4 DEF Unlock, Return
  <2>2. t \in Writers /\ Writers' = Writers \ {t} /\ Readers' = Readers
    BY <2>1, Moves DEF Places, Readers, Writers
  <2> QED BY <2>2 DEF Lock!Next, Lock!Release
<1>5. ASSUME NEW t \in Threads, SharedEnter(t) PROVE Lock!Next
  <2>1. /\ pc' = [pc EXCEPT ![t] = "reader"] /\ pc[t] \in {"lock_shared", "out"}
        /\ ~entered /\ count # MaxReaders
    BY <1>5 DEF SharedEnter, Return, Runs, Closed
  <2>2. t \notin Readers /\ Readers' = Readers \cup {t} /\ Writers' = Writers
    BY <2>1, Moves DEF Places, Readers, Writers
  <2>3. Writers = {}
    BY <2>1 DEF OneInside, Inside, Writers
  <2> QED BY <2>2, <2>3 DEF Lock!Next, Lock!AcquireShared
<1>6. ASSUME NEW t \in Threads, UnlockShared(t) PROVE Lock!Next
  <2>1. pc[t] = "reader" /\ pc' = [pc EXCEPT ![t] = "out"]
    BY <1>6 DEF UnlockShared, Return
  <2>2. t \in Readers /\ Readers' = Readers \ {t} /\ Writers' = Writers
    BY <2>1, Moves DEF Places, Readers, Writers
  <2> QED BY <2>2 DEF Lock!Next, Lock!ReleaseShared
<1> QED
  BY <1>1, <1>2, <1>3, <1>4, <1>5, <1>6
     DEF Next, Step, Leave, Call, vars, Readers, Writers

\* The bit and the count implement a readers-writer lock: exclusive ownership
\* excludes all other ownership, and no release takes it from another thread.
THEOREM Refines == Spec => LockSpec
<1>1. Init => Lock!Init
  BY DEF Init, Lock!Init, Writers, Readers
<1> QED BY <1>1, StepRefines, Invariance, PTL DEF Spec, LockSpec, Lock!Spec
-------------------------------------------------------------------------------
(* The safety core of EnteredWriterIsServed. *)

\* Who owns the mutex exclusively owns it alone.
MutualExclusion == \A w \in Writers : Writers = {w} /\ Readers = {}

THEOREM Excludes == Spec => []MutualExclusion
<1>1. IInv => MutualExclusion
  <2> SUFFICES ASSUME IInv, NEW w \in Writers PROVE Writers = {w} /\ Readers = {}
    BY DEF MutualExclusion
  <2>1. Writers = {w}
    BY DEF IInv, OneInside, Inside, Writers
  <2>2. Cardinality(Readers) = 0
    BY DEF IInv, OneInside, CountExact
  <2> QED BY <2>1, <2>2, ReadersFinite, FS_EmptySet
<1> QED BY <1>1, Invariance, PTL

\* While a writer waits behind gate2 for the readers to leave, none is added to
\* them and no other writer gets the mutex: what it waits for only shrinks, however
\* many calls of lock(), try_lock(), lock_shared() and try_lock_shared() are made.
NobodyOvertakes ==
  \A t \in Threads : pc[t] = "drain" /\ pc'[t] = "drain" =>
    Readers' \subseteq Readers /\ Writers' = {}

THEOREM NoOvertaking == Spec => [][NobodyOvertakes]_vars
<1>1. IInv /\ IInv' /\ [Next]_vars => [NobodyOvertakes]_vars
  <2> SUFFICES ASSUME IInv, IInv', Next, NEW t \in Threads, pc[t] = "drain", pc'[t] = "drain"
               PROVE  Readers' \subseteq Readers /\ Writers' = {}
    BY DEF NobodyOvertakes
  <2>1. Writers' = {}
    BY DEF IInv, OneInside, Inside, Writers
  <2>2. entered
    BY DEF IInv, OneInside, Inside
  <2>3. \A u \in Threads : ~SharedEnter(u)
    BY <2>2 DEF SharedEnter, Closed
  <2>4. ASSUME NEW u \in Threads, pc'[u] = "reader" PROVE pc[u] = "reader"
    <3>1. ASSUME NEW v \in Threads, NEW q \in Places, q # "reader", pc' = [pc EXCEPT ![v] = q]
          PROVE  pc[u] = "reader"
      BY <2>4, <3>1 DEF IInv, TypeOK
    <3>2. PICK v \in Threads :
            \/ pc' = pc
            \/ \E q \in Places : q # "reader" /\ pc' = [pc EXCEPT ![v] = q]
      BY <2>3 DEF Next, Step, Leave, Call, LockWait, LockGiveUp, LockEnter, DrainWait, DrainDone,
                  DrainGiveUp, SharedWait, SharedGiveUp, Unlock, UnlockShared, CallLock, TryLock,
                  CallLockShared, WakeUp, Return, Places
    <3> QED BY <2>4, <3>1, <3>2
  <2> QED BY <2>1, <2>4 DEF Readers
<1> QED BY <1>1, Invariance, PTL DEF Spec
===============================================================================
