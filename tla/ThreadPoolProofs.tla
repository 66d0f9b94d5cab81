--------------------------- MODULE ThreadPoolProofs ---------------------------
(***************************************************************************)
(* The safety properties of ThreadPool for every finite, non-empty set of  *)
(* workers and every set of clients and tasks.  IInv (ThreadPool.tla) is   *)
(* inductive; there is one lemma per conjunct of IInv, each with one step  *)
(* per action.                                                             *)
(***************************************************************************)
EXTENDS ThreadPool, FiniteSetTheorems, SequenceTheorems, TLAPS

\* What push and pop do to the set of queued tasks.
LEMMA RangeAppend ==
  ASSUME NEW S, NEW s \in Seq(S), NEW e \in S
  PROVE  Range(Append(s, e)) = Range(s) \cup {e}
<1>1. DOMAIN Append(s, e) = DOMAIN s \cup {Len(s) + 1}
  OBVIOUS
<1>2. /\ \A i \in DOMAIN s : Append(s, e)[i] = s[i]
      /\ Append(s, e)[Len(s) + 1] = e
  OBVIOUS
<1> QED
  BY <1>1, <1>2 DEF Range

LEMMA RangeTail ==
  ASSUME NEW S, NEW s \in Seq(S), s # <<>>
  PROVE  /\ Head(s) \in S /\ Tail(s) \in Seq(S)
         /\ Range(s) = {Head(s)} \cup Range(Tail(s))
<1>1. /\ Head(s) \in S /\ Tail(s) \in Seq(S)
      /\ Len(s) \in Nat \ {0} /\ Head(s) = s[1]
      /\ DOMAIN s = 1..Len(s)
  OBVIOUS
<1>2. DOMAIN Tail(s) = 1..(Len(s) - 1)
  BY <1>1
<1>3. \A i \in 1..(Len(s) - 1) : Tail(s)[i] = s[i + 1]
  BY <1>1
<1>4. ASSUME NEW x \in Range(s) PROVE x \in {Head(s)} \cup Range(Tail(s))
  <2>1. PICK i \in 1..Len(s) : x = s[i]
    BY <1>1 DEF Range
  <2>2. CASE i = 1
    BY <1>1, <2>1, <2>2
  <2>3. CASE i # 1
    <3>1. i - 1 \in 1..(Len(s) - 1) /\ Tail(s)[i - 1] = x
      BY <1>1, <1>3, <2>1, <2>3
    <3> QED
      BY <1>2, <3>1 DEF Range
  <2> QED
    BY <2>2, <2>3
<1>5. ASSUME NEW x \in Range(Tail(s)) PROVE x \in Range(s)
  <2>1. PICK i \in 1..(Len(s) - 1) : x = s[i + 1]
    BY <1>2, <1>3 DEF Range
  <2> QED
    BY <1>1, <2>1 DEF Range
<1>6. Head(s) \in Range(s)
  BY <1>1 DEF Range
<1> QED
  BY <1>1, <1>4, <1>5, <1>6

\* Every submitted task is a task.
LEMMA SubmittedTyped ==
  ASSUME TypeOK
  PROVE  Submitted \subseteq TaskIds
<1>1. Range(Tasks) \subseteq TaskIds
  BY DEF TypeOK, Range
<1> QED
  BY <1>1 DEF TypeOK, Submitted, Queued, InFlight

\* A worker that counts itself keeps the counter positive, and with the counter
\* at zero no worker holds a task.
LEMMA CounterMeaning ==
  ASSUME TypeOK, CounterExact, RunningTyped
  PROVE  /\ IsFiniteSet({w \in Workers : pc[w] \in ActivePcs})
         /\ \A w \in Workers : pc[w] \in ActivePcs => ActiveThreads # 0
         /\ ActiveThreads = 0 => InFlight = {}
<1> DEFINE Active == {w \in Workers : pc[w] \in ActivePcs}
<1>1. IsFiniteSet(Active)
  BY ThreadsAssumption, FS_Subset, Active \subseteq Workers
<1>2. ActiveThreads = 0 => Active = {}
  BY <1>1, FS_EmptySet DEF CounterExact
<1>3. \A w \in Workers : running[w] # NoTask => w \in Active
  BY DEF RunningTyped, ActivePcs
<1> QED
  BY <1>1, <1>2, <1>3 DEF InFlight

\* Every step keeps the types.
LEMMA TypeStep ==
  ASSUME IInv, [Next]_vars
  PROVE  TypeOK'
<1> USE ThreadsAssumption DEF IInv, TypeOK, Threads, WorkerPcs, ClientPcs, ActivePcs, RunningTyped, ArgTyped, Goto
<1>1. ASSUME NEW w \in Workers, WorkerLock(w) PROVE TypeOK'
  BY <1>1 DEF WorkerLock, ExitCondition
<1>2. ASSUME NEW w \in Workers, WorkerActivate(w) PROVE TypeOK'
  BY <1>2 DEF WorkerActivate
<1>3. ASSUME NEW w \in Workers, WorkerPop(w) PROVE TypeOK'
  BY <1>3 DEF WorkerPop, Established
<1>4. ASSUME NEW w \in Workers, WorkerRun(w) PROVE TypeOK'
  BY <1>4 DEF WorkerRun
<1>5. ASSUME NEW w \in Workers, WorkerComplete(w) PROVE TypeOK'
  <2>1. ActiveThreads - 1 \in Nat
    BY <1>5, CounterMeaning DEF WorkerComplete
  <2> QED
    BY <1>5, <2>1 DEF WorkerComplete
<1>6. ASSUME NEW w \in Workers, WorkerNotify(w) PROVE TypeOK'
  BY <1>6 DEF WorkerNotify, CompletionNotified, ConditionsMatch
<1>7. ASSUME NEW t \in Threads, AsyncPush(t) PROVE TypeOK'
  BY <1>7 DEF AsyncPush
<1>8. ASSUME NEW t \in Threads, AsyncNotify(t) PROVE TypeOK'
  BY <1>8 DEF AsyncNotify, WokenByAsync
<1>9. ASSUME NEW t \in Threads, SpuriousWakeup(t) PROVE TypeOK'
  BY <1>9, SpuriousAssumption DEF SpuriousWakeup
<1>10. ASSUME NEW t \in Threads, NEW k \in TaskIds, AsyncLock(t, k) PROVE TypeOK'
  BY <1>10 DEF AsyncLock, MayCallAsync
<1>11. ASSUME NEW c \in Clients, WaitCall(c) PROVE TypeOK'
  BY <1>11, SubmittedTyped DEF WaitCall
<1>12. ASSUME NEW c \in Clients, WaitLock(c) PROVE TypeOK'
  BY <1>12 DEF WaitLock
<1>13. ASSUME NEW c \in Clients, WaitTestActive(c) PROVE TypeOK'
  BY <1>13 DEF WaitTestActive, Block, NoneActive
<1>14. ASSUME NEW c \in Clients, WaitTestTasks(c) PROVE TypeOK'
  BY <1>14 DEF WaitTestTasks, Block
<1>15. ASSUME DtorDisable PROVE TypeOK'
  BY <1>15 DEF DtorDisable
<1>16. ASSUME DtorNotify PROVE TypeOK'
  BY <1>16 DEF DtorNotify, WokenByDtor
<1>17. ASSUME DtorJoin PROVE TypeOK'
  BY <1>17 DEF DtorJoin
<1>18. CASE UNCHANGED vars
  BY <1>18 DEF vars
<1> QED
  BY <1>1, <1>2, <1>3, <1>4, <1>5, <1>6, <1>7, <1>8, <1>9, <1>10, <1>11, <1>12,
     <1>13, <1>14, <1>15, <1>16, <1>17, <1>18
  DEF Next, WorkerStep, AsyncStep, WaitStep, Destroyed

\* What entering and leaving do to the size of a finite set.
LEMMA SizeSteps ==
  ASSUME NEW S, NEW x, IsFiniteSet(S)
  PROVE  /\ x \notin S => Cardinality(S \cup {x}) = Cardinality(S) + 1
         /\ x \in S => Cardinality(S \ {x}) = Cardinality(S) - 1
BY FS_AddElement, FS_RemoveElement

\* ++ and --ActiveThreads follow the workers that enter and leave the active
\* part of the loop.
\* The counter stays exact.
LEMMA CounterStep ==
  ASSUME IInv, [Next]_vars
  PROVE  CounterExact'
<1> USE ThreadsAssumption, CounterMeaning DEF IInv, TypeOK, Threads, WorkerPcs, ClientPcs, ActivePcs, CounterExact, Goto
<1> DEFINE Active == {v \in Workers : pc[v] \in ActivePcs}
<1>1. ASSUME NEW w \in Workers, WorkerLock(w) PROVE CounterExact'
  BY <1>1 DEF WorkerLock, ExitCondition
<1>2. ASSUME NEW w \in Workers, WorkerActivate(w) PROVE CounterExact'
  <2>1. w \notin Active /\ Active' = Active \cup {w}
    BY <1>2 DEF WorkerActivate
  <2>2. IsFiniteSet(Active) /\ Cardinality(Active) = ActiveThreads
    OBVIOUS
  <2>3. Cardinality(Active') = ActiveThreads + 1
    <3> HIDE DEF Active
    <3> QED
      BY ONLY <2>1, <2>2, SizeSteps
  <2> QED
    BY <1>2, <2>3 DEF WorkerActivate
<1>3. ASSUME NEW w \in Workers, WorkerPop(w) PROVE CounterExact'
  BY <1>3 DEF WorkerPop
<1>4. ASSUME NEW w \in Workers, WorkerRun(w) PROVE CounterExact'
  BY <1>4 DEF WorkerRun
<1>5. ASSUME NEW w \in Workers, WorkerComplete(w) PROVE CounterExact'
  <2>1. w \in Active /\ Active' = Active \ {w}
    BY <1>5 DEF WorkerComplete
  <2>2. IsFiniteSet(Active) /\ Cardinality(Active) = ActiveThreads
    OBVIOUS
  <2>3. Cardinality(Active') = ActiveThreads - 1
    <3> HIDE DEF Active
    <3> QED
      BY ONLY <2>1, <2>2, SizeSteps
  <2> QED
    BY <1>5, <2>3 DEF WorkerComplete
<1>6. ASSUME NEW w \in Workers, WorkerNotify(w) PROVE CounterExact'
  <2>1. Active' = Active
    BY <1>6 DEF WorkerNotify, CompletionNotified, ConditionsMatch
  <2> QED
    BY <1>6, <2>1 DEF WorkerNotify
<1>7. ASSUME NEW t \in Threads, AsyncPush(t) PROVE CounterExact'
  BY <1>7 DEF AsyncPush
<1>8. ASSUME NEW t \in Threads, AsyncNotify(t) PROVE CounterExact'
  <2>1. Active' = Active
    BY <1>8 DEF AsyncNotify, WokenByAsync, ConditionsMatch
  <2> QED
    BY <1>8, <2>1 DEF AsyncNotify
<1>9. ASSUME NEW t \in Threads, SpuriousWakeup(t) PROVE CounterExact'
  <2>1. Active' = Active
    BY <1>9 DEF SpuriousWakeup, ConditionsMatch
  <2> QED
    BY <1>9, <2>1 DEF SpuriousWakeup
<1>10. ASSUME NEW t \in Threads, NEW k \in TaskIds, AsyncLock(t, k) PROVE CounterExact'
  BY <1>10 DEF AsyncLock, MayCallAsync
<1>11. ASSUME NEW c \in Clients, WaitCall(c) PROVE CounterExact'
  BY <1>11 DEF WaitCall
<1>12. ASSUME NEW c \in Clients, WaitLock(c) PROVE CounterExact'
  BY <1>12 DEF WaitLock
<1>13. ASSUME NEW c \in Clients, WaitTestActive(c) PROVE CounterExact'
  BY <1>13 DEF WaitTestActive, Block, NoneActive
<1>14. ASSUME NEW c \in Clients, WaitTestTasks(c) PROVE CounterExact'
  BY <1>14 DEF WaitTestTasks, Block
<1>15. ASSUME DtorDisable PROVE CounterExact'
  BY <1>15 DEF DtorDisable
<1>16. ASSUME DtorNotify PROVE CounterExact'
  <2>1. Active' = Active
    BY <1>16 DEF DtorNotify, WokenByDtor, ConditionsMatch
  <2> QED
    BY <1>16, <2>1 DEF DtorNotify
<1>17. ASSUME DtorJoin PROVE CounterExact'
  BY <1>17 DEF DtorJoin
<1>18. CASE UNCHANGED vars
  BY <1>18 DEF vars
<1> QED
  BY <1>1, <1>2, <1>3, <1>4, <1>5, <1>6, <1>7, <1>8, <1>9, <1>10, <1>11, <1>12,
     <1>13, <1>14, <1>15, <1>16, <1>17, <1>18
  DEF Next, WorkerStep, AsyncStep, WaitStep, Destroyed

\* A worker has a task, and a caller an argument, exactly while it needs it.
LEMMA HoldStep ==
  ASSUME IInv, [Next]_vars
  PROVE  (RunningTyped /\ ArgTyped)'
<1> USE ThreadsAssumption DEF IInv, TypeOK, Threads, WorkerPcs, ClientPcs, ActivePcs, RunningTyped, ArgTyped, Goto
<1>1. ASSUME NEW w \in Workers, WorkerLock(w) PROVE (RunningTyped /\ ArgTyped)'
  BY <1>1 DEF WorkerLock, ExitCondition
<1>2. ASSUME NEW w \in Workers, WorkerActivate(w) PROVE (RunningTyped /\ ArgTyped)'
  BY <1>2 DEF WorkerActivate
<1>3. ASSUME NEW w \in Workers, WorkerPop(w) PROVE (RunningTyped /\ ArgTyped)'
  BY <1>3 DEF WorkerPop, Established
<1>4. ASSUME NEW w \in Workers, WorkerRun(w) PROVE (RunningTyped /\ ArgTyped)'
  BY <1>4 DEF WorkerRun
<1>5. ASSUME NEW w \in Workers, WorkerComplete(w) PROVE (RunningTyped /\ ArgTyped)'
  BY <1>5 DEF WorkerComplete
<1>6. ASSUME NEW w \in Workers, WorkerNotify(w) PROVE (RunningTyped /\ ArgTyped)'
  BY <1>6 DEF WorkerNotify, CompletionNotified, ConditionsMatch
<1>7. ASSUME NEW t \in Threads, AsyncPush(t) PROVE (RunningTyped /\ ArgTyped)'
  BY <1>7 DEF AsyncPush
<1>8. ASSUME NEW t \in Threads, AsyncNotify(t) PROVE (RunningTyped /\ ArgTyped)'
  BY <1>8 DEF AsyncNotify, WokenByAsync, ConditionsMatch
<1>9. ASSUME NEW t \in Threads, SpuriousWakeup(t) PROVE (RunningTyped /\ ArgTyped)'
  BY <1>9 DEF SpuriousWakeup, ConditionsMatch
<1>10. ASSUME NEW t \in Threads, NEW k \in TaskIds, AsyncLock(t, k) PROVE (RunningTyped /\ ArgTyped)'
  BY <1>10 DEF AsyncLock, MayCallAsync
<1>11. ASSUME NEW c \in Clients, WaitCall(c) PROVE (RunningTyped /\ ArgTyped)'
  BY <1>11 DEF WaitCall
<1>12. ASSUME NEW c \in Clients, WaitLock(c) PROVE (RunningTyped /\ ArgTyped)'
  BY <1>12 DEF WaitLock
<1>13. ASSUME NEW c \in Clients, WaitTestActive(c) PROVE (RunningTyped /\ ArgTyped)'
  BY <1>13 DEF WaitTestActive, Block, NoneActive
<1>14. ASSUME NEW c \in Clients, WaitTestTasks(c) PROVE (RunningTyped /\ ArgTyped)'
  BY <1>14 DEF WaitTestTasks, Block
<1>15. ASSUME DtorDisable PROVE (RunningTyped /\ ArgTyped)'
  BY <1>15 DEF DtorDisable
<1>16. ASSUME DtorNotify PROVE (RunningTyped /\ ArgTyped)'
  BY <1>16 DEF DtorNotify, WokenByDtor, ConditionsMatch
<1>17. ASSUME DtorJoin PROVE (RunningTyped /\ ArgTyped)'
  BY <1>17 DEF DtorJoin
<1>18. CASE UNCHANGED vars
  BY <1>18 DEF vars
<1> QED
  BY <1>1, <1>2, <1>3, <1>4, <1>5, <1>6, <1>7, <1>8, <1>9, <1>10, <1>11, <1>12,
     <1>13, <1>14, <1>15, <1>16, <1>17, <1>18
  DEF Next, WorkerStep, AsyncStep, WaitStep, Destroyed

\* Locks and condition variables agree with the program counters.
LEMMA LockStep ==
  ASSUME IInv, [Next]_vars
  PROVE  (LocksHeld /\ ConditionsMatch)'
<1> USE ThreadsAssumption DEF IInv, TypeOK, Threads, WorkerPcs, ClientPcs, ActivePcs, LocksHeld, ConditionsMatch, Goto
<1>1. ASSUME NEW w \in Workers, WorkerLock(w) PROVE (LocksHeld /\ ConditionsMatch)'
  BY <1>1 DEF WorkerLock, ExitCondition
<1>2. ASSUME NEW w \in Workers, WorkerActivate(w) PROVE (LocksHeld /\ ConditionsMatch)'
  BY <1>2 DEF WorkerActivate
<1>3. ASSUME NEW w \in Workers, WorkerPop(w) PROVE (LocksHeld /\ ConditionsMatch)'
  BY <1>3 DEF WorkerPop
<1>4. ASSUME NEW w \in Workers, WorkerRun(w) PROVE (LocksHeld /\ ConditionsMatch)'
  BY <1>4 DEF WorkerRun
<1>5. ASSUME NEW w \in Workers, WorkerComplete(w) PROVE (LocksHeld /\ ConditionsMatch)'
  BY <1>5 DEF WorkerComplete
<1>6. ASSUME NEW w \in Workers, WorkerNotify(w) PROVE (LocksHeld /\ ConditionsMatch)'
  BY <1>6 DEF WorkerNotify, CompletionNotified
<1>7. ASSUME NEW t \in Threads, AsyncPush(t) PROVE (LocksHeld /\ ConditionsMatch)'
  BY <1>7 DEF AsyncPush
<1>8. ASSUME NEW t \in Threads, AsyncNotify(t) PROVE (LocksHeld /\ ConditionsMatch)'
  BY <1>8 DEF AsyncNotify, WokenByAsync
<1>9. ASSUME NEW t \in Threads, SpuriousWakeup(t) PROVE (LocksHeld /\ ConditionsMatch)'
  BY <1>9 DEF SpuriousWakeup
<1>10. ASSUME NEW t \in Threads, NEW k \in TaskIds, AsyncLock(t, k) PROVE (LocksHeld /\ ConditionsMatch)'
  BY <1>10 DEF AsyncLock, MayCallAsync
<1>11. ASSUME NEW c \in Clients, WaitCall(c) PROVE (LocksHeld /\ ConditionsMatch)'
  BY <1>11 DEF WaitCall
<1>12. ASSUME NEW c \in Clients, WaitLock(c) PROVE (LocksHeld /\ ConditionsMatch)'
  BY <1>12 DEF WaitLock
<1>13. ASSUME NEW c \in Clients, WaitTestActive(c) PROVE (LocksHeld /\ ConditionsMatch)'
  BY <1>13 DEF WaitTestActive, Block, NoneActive
<1>14. ASSUME NEW c \in Clients, WaitTestTasks(c) PROVE (LocksHeld /\ ConditionsMatch)'
  BY <1>14 DEF WaitTestTasks, Block
<1>15. ASSUME DtorDisable PROVE (LocksHeld /\ ConditionsMatch)'
  BY <1>15 DEF DtorDisable
<1>16. ASSUME DtorNotify PROVE (LocksHeld /\ ConditionsMatch)'
  BY <1>16 DEF DtorNotify, WokenByDtor
<1>17. ASSUME DtorJoin PROVE (LocksHeld /\ ConditionsMatch)'
  BY <1>17 DEF DtorJoin
<1>18. CASE UNCHANGED vars
  BY <1>18 DEF vars
<1> QED
  BY <1>1, <1>2, <1>3, <1>4, <1>5, <1>6, <1>7, <1>8, <1>9, <1>10, <1>11, <1>12,
     <1>13, <1>14, <1>15, <1>16, <1>17, <1>18
  DEF Next, WorkerStep, AsyncStep, WaitStep, Destroyed

\* No step loses a submitted task: it goes from the queue to a worker to finished.
LEMMA SubmittedGrows ==
  ASSUME IInv, [Next]_vars
  PROVE  Submitted \subseteq Submitted'
<1> USE ThreadsAssumption, TasksAssumption DEF IInv, TypeOK, Threads, WorkerPcs, ClientPcs, ActivePcs, Submitted, Queued, InFlight, RunningTyped
<1>1. ASSUME NEW w \in Workers, WorkerLock(w) PROVE Submitted \subseteq Submitted'
  BY <1>1 DEF WorkerLock, ExitCondition
<1>2. ASSUME NEW w \in Workers, WorkerActivate(w) PROVE Submitted \subseteq Submitted'
  BY <1>2 DEF WorkerActivate
<1>3. ASSUME NEW w \in Workers, WorkerPop(w) PROVE Submitted \subseteq Submitted'
  <2>1. /\ Tasks # <<>> /\ running[w] = NoTask
        /\ running' = [running EXCEPT ![w] = Head(Tasks)]
        /\ Tasks' = Tail(Tasks) /\ finished' = finished
    BY <1>3 DEF WorkerPop, Established
  <2>2. Range(Tasks) = {Head(Tasks)} \cup Range(Tasks') /\ Head(Tasks) \in TaskIds
    BY <2>1, RangeTail
  <2>3. InFlight' = InFlight \cup {Head(Tasks)}
    BY <2>1, <2>2
  <2> QED
    BY <2>1, <2>2, <2>3
<1>4. ASSUME NEW w \in Workers, WorkerRun(w) PROVE Submitted \subseteq Submitted'
  BY <1>4 DEF WorkerRun
<1>5. ASSUME NEW w \in Workers, WorkerComplete(w) PROVE Submitted \subseteq Submitted'
  BY <1>5 DEF WorkerComplete
<1>6. ASSUME NEW w \in Workers, WorkerNotify(w) PROVE Submitted \subseteq Submitted'
  BY <1>6 DEF WorkerNotify, CompletionNotified
<1>7. ASSUME NEW t \in Threads, AsyncPush(t) PROVE Submitted \subseteq Submitted'
  <2>1. Range(Tasks') = Range(Tasks) \cup {arg[t]}
    BY <1>7, RangeAppend DEF AsyncPush, ArgTyped
  <2> QED
    BY <1>7, <2>1 DEF AsyncPush
<1>8. ASSUME NEW t \in Threads, AsyncNotify(t) PROVE Submitted \subseteq Submitted'
  BY <1>8 DEF AsyncNotify, WokenByAsync
<1>9. ASSUME NEW t \in Threads, SpuriousWakeup(t) PROVE Submitted \subseteq Submitted'
  BY <1>9 DEF SpuriousWakeup
<1>10. ASSUME NEW t \in Threads, NEW k \in TaskIds, AsyncLock(t, k) PROVE Submitted \subseteq Submitted'
  BY <1>10 DEF AsyncLock, MayCallAsync
<1>11. ASSUME NEW c \in Clients, WaitCall(c) PROVE Submitted \subseteq Submitted'
  BY <1>11 DEF WaitCall
<1>12. ASSUME NEW c \in Clients, WaitLock(c) PROVE Submitted \subseteq Submitted'
  BY <1>12 DEF WaitLock
<1>13. ASSUME NEW c \in Clients, WaitTestActive(c) PROVE Submitted \subseteq Submitted'
  BY <1>13 DEF WaitTestActive, Block, NoneActive
<1>14. ASSUME NEW c \in Clients, WaitTestTasks(c) PROVE Submitted \subseteq Submitted'
  BY <1>14 DEF WaitTestTasks, Block
<1>15. ASSUME DtorDisable PROVE Submitted \subseteq Submitted'
  BY <1>15 DEF DtorDisable
<1>16. ASSUME DtorNotify PROVE Submitted \subseteq Submitted'
  BY <1>16 DEF DtorNotify, WokenByDtor
<1>17. ASSUME DtorJoin PROVE Submitted \subseteq Submitted'
  BY <1>17 DEF DtorJoin
<1>18. CASE UNCHANGED vars
  BY <1>18 DEF vars
<1> QED
  BY <1>1, <1>2, <1>3, <1>4, <1>5, <1>6, <1>7, <1>8, <1>9, <1>10, <1>11, <1>12,
     <1>13, <1>14, <1>15, <1>16, <1>17, <1>18
  DEF Next, WorkerStep, AsyncStep, WaitStep, Destroyed

\* What a lock holder established stays true until it lets go of the lock.
LEMMA EstablishedStep ==
  ASSUME IInv, [Next]_vars
  PROVE  Established'
<1> USE ThreadsAssumption, SubmittedGrows DEF IInv, TypeOK, Threads, WorkerPcs, ClientPcs, ActivePcs, Established, LocksHeld, Goto
<1>1. ASSUME NEW w \in Workers, WorkerLock(w) PROVE Established'
  BY <1>1 DEF WorkerLock, ExitCondition
<1>2. ASSUME NEW w \in Workers, WorkerActivate(w) PROVE Established'
  BY <1>2 DEF WorkerActivate
<1>3. ASSUME NEW w \in Workers, WorkerPop(w) PROVE Established'
  BY <1>3 DEF WorkerPop
<1>4. ASSUME NEW w \in Workers, WorkerRun(w) PROVE Established'
  BY <1>4 DEF WorkerRun
<1>5. ASSUME NEW w \in Workers, WorkerComplete(w) PROVE Established'
  BY <1>5 DEF WorkerComplete
<1>6. ASSUME NEW w \in Workers, WorkerNotify(w) PROVE Established'
  BY <1>6 DEF WorkerNotify, CompletionNotified
<1>7. ASSUME NEW t \in Threads, AsyncPush(t) PROVE Established'
  BY <1>7 DEF AsyncPush
<1>8. ASSUME NEW t \in Threads, AsyncNotify(t) PROVE Established'
  BY <1>8 DEF AsyncNotify, WokenByAsync
<1>9. ASSUME NEW t \in Threads, SpuriousWakeup(t) PROVE Established'
  BY <1>9 DEF SpuriousWakeup
<1>10. ASSUME NEW t \in Threads, NEW k \in TaskIds, AsyncLock(t, k) PROVE Established'
  BY <1>10 DEF AsyncLock, MayCallAsync
<1>11. ASSUME NEW c \in Clients, WaitCall(c) PROVE Established'
  BY <1>11 DEF WaitCall
<1>12. ASSUME NEW c \in Clients, WaitLock(c) PROVE Established'
  BY <1>12 DEF WaitLock
<1>13. ASSUME NEW c \in Clients, WaitTestActive(c) PROVE Established'
  BY <1>13 DEF WaitTestActive, Block, NoneActive
<1>14. ASSUME NEW c \in Clients, WaitTestTasks(c) PROVE Established'
  BY <1>14 DEF WaitTestTasks, Block
<1>15. ASSUME DtorDisable PROVE Established'
  BY <1>15 DEF DtorDisable
<1>16. ASSUME DtorNotify PROVE Established'
  BY <1>16 DEF DtorNotify, WokenByDtor
<1>17. ASSUME DtorJoin PROVE Established'
  BY <1>17 DEF DtorJoin
<1>18. CASE UNCHANGED vars
  BY <1>18 DEF vars
<1> QED
  BY <1>1, <1>2, <1>3, <1>4, <1>5, <1>6, <1>7, <1>8, <1>9, <1>10, <1>11, <1>12,
     <1>13, <1>14, <1>15, <1>16, <1>17, <1>18
  DEF Next, WorkerStep, AsyncStep, WaitStep, Destroyed

\* The destructor's phases.
LEMMA DrainingStep ==
  ASSUME IInv, [Next]_vars
  PROVE  Draining'
<1> USE ThreadsAssumption DEF IInv, TypeOK, Threads, WorkerPcs, ClientPcs, ActivePcs, Draining, Goto
<1>1. ASSUME NEW w \in Workers, WorkerLock(w) PROVE Draining'
  BY <1>1 DEF WorkerLock, ExitCondition, ConditionsMatch, LocksHeld, Established
<1>2. ASSUME NEW w \in Workers, WorkerActivate(w) PROVE Draining'
  BY <1>2 DEF WorkerActivate, ConditionsMatch, LocksHeld, Established
<1>3. ASSUME NEW w \in Workers, WorkerPop(w) PROVE Draining'
  BY <1>3 DEF WorkerPop, ConditionsMatch, LocksHeld, Established
<1>4. ASSUME NEW w \in Workers, WorkerRun(w) PROVE Draining'
  BY <1>4 DEF WorkerRun, ConditionsMatch, LocksHeld, Established
<1>5. ASSUME NEW w \in Workers, WorkerComplete(w) PROVE Draining'
  BY <1>5 DEF WorkerComplete, ConditionsMatch, LocksHeld, Established
<1>6. ASSUME NEW w \in Workers, WorkerNotify(w) PROVE Draining'
  BY <1>6 DEF WorkerNotify, CompletionNotified, ConditionsMatch, LocksHeld, Established
<1>7. ASSUME NEW t \in Threads, AsyncPush(t) PROVE Draining'
  BY <1>7 DEF AsyncPush, ConditionsMatch, LocksHeld, Established
<1>8. ASSUME NEW t \in Threads, AsyncNotify(t) PROVE Draining'
  BY <1>8 DEF AsyncNotify, WokenByAsync, ConditionsMatch, LocksHeld, Established
<1>9. ASSUME NEW t \in Threads, SpuriousWakeup(t) PROVE Draining'
  BY <1>9 DEF SpuriousWakeup, ConditionsMatch, LocksHeld, Established
<1>10. ASSUME NEW t \in Threads, NEW k \in TaskIds, AsyncLock(t, k) PROVE Draining'
  BY <1>10 DEF AsyncLock, MayCallAsync, ConditionsMatch, LocksHeld, Established
<1>11. ASSUME NEW c \in Clients, WaitCall(c) PROVE Draining'
  BY <1>11 DEF WaitCall, ConditionsMatch, LocksHeld, Established
<1>12. ASSUME NEW c \in Clients, WaitLock(c) PROVE Draining'
  BY <1>12 DEF WaitLock, ConditionsMatch, LocksHeld, Established
<1>13. ASSUME NEW c \in Clients, WaitTestActive(c) PROVE Draining'
  BY <1>13 DEF WaitTestActive, Block, NoneActive, ConditionsMatch, LocksHeld, Established
<1>14. ASSUME NEW c \in Clients, WaitTestTasks(c) PROVE Draining'
  BY <1>14 DEF WaitTestTasks, Block, ConditionsMatch, LocksHeld, Established
<1>15. ASSUME DtorDisable PROVE Draining'
  BY <1>15 DEF DtorDisable, ConditionsMatch, LocksHeld, Established
<1>16. ASSUME DtorNotify PROVE Draining'
  BY <1>16 DEF DtorNotify, WokenByDtor, ConditionsMatch, LocksHeld, Established
<1>17. ASSUME DtorJoin PROVE Draining'
  BY <1>17 DEF DtorJoin, ConditionsMatch, LocksHeld, Established
<1>18. CASE UNCHANGED vars
  BY <1>18 DEF vars
<1> QED
  BY <1>1, <1>2, <1>3, <1>4, <1>5, <1>6, <1>7, <1>8, <1>9, <1>10, <1>11, <1>12,
     <1>13, <1>14, <1>15, <1>16, <1>17, <1>18
  DEF Next, WorkerStep, AsyncStep, WaitStep, Destroyed

\* wait() returns only when what was submitted before it is finished.
LEMMA WaitStepSafe ==
  ASSUME IInv, [Next]_vars
  PROVE  WaitCoversEarlierTasks'
<1> USE ThreadsAssumption DEF IInv, TypeOK, Threads, WorkerPcs, ClientPcs, ActivePcs, WaitCoversEarlierTasks, Goto
<1>1. ASSUME NEW w \in Workers, WorkerLock(w) PROVE WaitCoversEarlierTasks'
  BY <1>1 DEF WorkerLock, ExitCondition, ConditionsMatch
<1>2. ASSUME NEW w \in Workers, WorkerActivate(w) PROVE WaitCoversEarlierTasks'
  BY <1>2 DEF WorkerActivate, ConditionsMatch
<1>3. ASSUME NEW w \in Workers, WorkerPop(w) PROVE WaitCoversEarlierTasks'
  BY <1>3 DEF WorkerPop, ConditionsMatch
<1>4. ASSUME NEW w \in Workers, WorkerRun(w) PROVE WaitCoversEarlierTasks'
  BY <1>4 DEF WorkerRun, ConditionsMatch
<1>5. ASSUME NEW w \in Workers, WorkerComplete(w) PROVE WaitCoversEarlierTasks'
  BY <1>5 DEF WorkerComplete, ConditionsMatch
<1>6. ASSUME NEW w \in Workers, WorkerNotify(w) PROVE WaitCoversEarlierTasks'
  BY <1>6 DEF WorkerNotify, CompletionNotified, ConditionsMatch
<1>7. ASSUME NEW t \in Threads, AsyncPush(t) PROVE WaitCoversEarlierTasks'
  BY <1>7 DEF AsyncPush, ConditionsMatch
<1>8. ASSUME NEW t \in Threads, AsyncNotify(t) PROVE WaitCoversEarlierTasks'
  BY <1>8 DEF AsyncNotify, WokenByAsync, ConditionsMatch
<1>9. ASSUME NEW t \in Threads, SpuriousWakeup(t) PROVE WaitCoversEarlierTasks'
  BY <1>9 DEF SpuriousWakeup, ConditionsMatch
<1>10. ASSUME NEW t \in Threads, NEW k \in TaskIds, AsyncLock(t, k) PROVE WaitCoversEarlierTasks'
  BY <1>10 DEF AsyncLock, MayCallAsync, ConditionsMatch
<1>11. ASSUME NEW c \in Clients, WaitCall(c) PROVE WaitCoversEarlierTasks'
  BY <1>11 DEF WaitCall, ConditionsMatch
<1>12. ASSUME NEW c \in Clients, WaitLock(c) PROVE WaitCoversEarlierTasks'
  BY <1>12 DEF WaitLock, ConditionsMatch
<1>13. ASSUME NEW c \in Clients, WaitTestActive(c) PROVE WaitCoversEarlierTasks'
  BY <1>13 DEF WaitTestActive, Block, NoneActive, ConditionsMatch
<1>14. ASSUME NEW c \in Clients, WaitTestTasks(c) PROVE WaitCoversEarlierTasks'
  <2>1. CASE Block(c)
    BY <1>14, <2>1 DEF WaitTestTasks, Block
  <2>2. CASE Goto(c, "returned") /\ TRUE \in EmptyReads
    <3>1. Tasks = <<>>
      BY <2>2 DEF EmptyReads
    <3>2. Queued = {}
      BY <3>1 DEF Queued, Range
    <3>3. InFlight = {}
      BY <1>14, CounterMeaning DEF WaitTestTasks, Established
    <3>4. before[c] \subseteq finished
      BY <3>2, <3>3 DEF Established, Submitted
    <3> QED
      BY <1>14, <2>2, <3>4 DEF WaitTestTasks
  <2> QED
    BY <1>14, <2>1, <2>2 DEF WaitTestTasks
<1>15. ASSUME DtorDisable PROVE WaitCoversEarlierTasks'
  BY <1>15 DEF DtorDisable, ConditionsMatch
<1>16. ASSUME DtorNotify PROVE WaitCoversEarlierTasks'
  BY <1>16 DEF DtorNotify, WokenByDtor, ConditionsMatch
<1>17. ASSUME DtorJoin PROVE WaitCoversEarlierTasks'
  BY <1>17 DEF DtorJoin, ConditionsMatch
<1>18. CASE UNCHANGED vars
  BY <1>18 DEF vars
<1> QED
  BY <1>1, <1>2, <1>3, <1>4, <1>5, <1>6, <1>7, <1>8, <1>9, <1>10, <1>11, <1>12,
     <1>13, <1>14, <1>15, <1>16, <1>17, <1>18
  DEF Next, WorkerStep, AsyncStep, WaitStep, Destroyed

LEMMA InitInvariant == Init => IInv
<1> SUFFICES ASSUME Init PROVE IInv
  OBVIOUS
<1> USE DEF Init, Threads
<1>1. TypeOK
  BY ThreadsAssumption, SpuriousAssumption DEF TypeOK, WorkerPcs, ClientPcs, ActivePcs
<1>2. CounterExact
  <2>1. {w \in Workers : pc[w] \in ActivePcs} = {}
    BY ThreadsAssumption DEF ActivePcs
  <2> QED
    BY <2>1, FS_EmptySet DEF CounterExact
<1>3. RunningTyped /\ ArgTyped /\ LocksHeld /\ ConditionsMatch
  BY ThreadsAssumption DEF RunningTyped, ArgTyped, LocksHeld, ConditionsMatch
<1>4. Established /\ Draining /\ WaitCoversEarlierTasks
  BY ThreadsAssumption DEF Established, Draining, WaitCoversEarlierTasks
<1> QED
  BY <1>1, <1>2, <1>3, <1>4 DEF IInv

\* IInv is an invariant of the pool.
THEOREM Invariance == Spec => []IInv
<1>1. IInv /\ [Next]_vars => IInv'
  BY TypeStep, CounterStep, HoldStep, LockStep, EstablishedStep, DrainingStep,
     WaitStepSafe DEF IInv
<1> QED
  BY InitInvariant, <1>1, PTL DEF Spec

\* The state of ThreadPool keeps its types; in particular --ActiveThreads never
\* goes below zero.
THEOREM TypeCorrect == Spec => []TypeOK
<1>1. IInv => TypeOK
  BY DEF IInv
<1> QED
  BY Invariance, <1>1, PTL

\* ThreadPool::wait() returns only after every task submitted before the call
\* has run, for any number of workers, clients, tasks and spurious wakeups.
THEOREM WaitCorrect == Spec => []WaitCoversEarlierTasks
<1>1. IInv => WaitCoversEarlierTasks
  BY DEF IInv
<1> QED
  BY Invariance, <1>1, PTL

\* ~ThreadPool() returns only when every accepted task has run.
THEOREM DestructorCorrect == Spec => []DestructorDrains
<1>1. IInv => DestructorDrains
  BY ThreadsAssumption
  DEF IInv, Draining, DestructorDrains, InFlight, Passing, RunningTyped, ArgTyped
<1> QED
  BY Invariance, <1>1, PTL

-------------------------------------------------------------------------------
(* No wakeup is lost. *)

WorkersWoken ==
  /\ IsFiniteSet(Waking)
  /\ QueueCondition # {} => Len(Tasks) <= Cardinality(Coming) + Cardinality(Waking)

\* The sizes that are compared are numbers.
LEMMA Sizes ==
  ASSUME TypeOK, IsFiniteSet(Waking)
  PROVE  /\ IsFiniteSet(Coming) /\ Cardinality(Coming) \in Nat
         /\ Cardinality(Waking) \in Nat /\ Len(Tasks) \in Nat
<1>1. IsFiniteSet(Coming)
  BY ThreadsAssumption, FS_Subset, Coming \subseteq Workers DEF Coming
<1>2. Len(Tasks) \in Nat
  BY LenProperties DEF TypeOK
<1> QED BY <1>1, <1>2, FS_CardinalityType

\* More workers may be coming, and fewer be asleep.
LEMMA MoreComing ==
  ASSUME TypeOK, TypeOK', WorkersWoken, Tasks' = Tasks, Waking' = Waking,
         Coming \subseteq Coming', QueueCondition' \subseteq QueueCondition
  PROVE  WorkersWoken'
<1>1. /\ IsFiniteSet(Waking) /\ IsFiniteSet(Waking)' /\ IsFiniteSet(Coming)
      /\ Cardinality(Coming) \in Nat /\ Cardinality(Waking) \in Nat /\ Len(Tasks) \in Nat
  BY Sizes DEF WorkersWoken
<1>2. IsFiniteSet(Coming') /\ Cardinality(Coming') \in Nat
  BY ThreadsAssumption, FS_Subset, FS_CardinalityType, Coming' \subseteq Workers DEF Coming
<1>3. Cardinality(Coming) <= Cardinality(Coming')
  BY <1>1, <1>2, FS_Subset
<1> QED BY <1>1, <1>2, <1>3 DEF WorkersWoken

LEMMA WorkersWokenStep ==
  ASSUME IInv, IInv', WorkersWoken, [Next]_vars
  PROVE  WorkersWoken'
<1> USE DEF Goto
<1>0. TypeOK /\ TypeOK' /\ pc \in [Threads -> WorkerPcs \cup ClientPcs] /\ Threads = Workers \cup Clients
      /\ Workers \cap Clients = {} /\ ConditionsMatch
      /\ \A w \in Workers : pc[w] \in WorkerPcs
      /\ \A c \in Clients : pc[c] \in ClientPcs
  BY ThreadsAssumption DEF IInv, TypeOK, Threads
<1>1. ASSUME NEW w \in Workers, WorkerLock(w) PROVE WorkersWoken'
  <2>1. CASE Tasks = <<>>
    <3>1. Waking' = Waking /\ Tasks' = Tasks
      BY <1>0, <1>1 DEF WorkerLock, Waking
    <3>2. IsFiniteSet(Coming') /\ Cardinality(Coming') \in Nat
      BY ThreadsAssumption, FS_Subset, FS_CardinalityType, Coming' \subseteq Workers DEF Coming
    <3>3. IsFiniteSet(Waking) /\ Cardinality(Waking) \in Nat /\ Len(Tasks) = 0
      BY <1>0, <2>1, Sizes DEF WorkersWoken
    <3> QED BY <3>1, <3>2, <3>3 DEF WorkersWoken
  <2>2. CASE Tasks # <<>>
    <3>1. Waking' = Waking /\ Tasks' = Tasks /\ Coming \subseteq Coming'
          /\ QueueCondition' = QueueCondition
      BY <1>0, <1>1, <2>2 DEF WorkerLock, Waking, Coming, ExitCondition
    <3> QED BY <1>0, <3>1, MoreComing
  <2> QED BY <2>1, <2>2
<1>2. ASSUME NEW w \in Workers, WorkerActivate(w) \/ WorkerRun(w) \/ WorkerComplete(w) \/ WorkerNotify(w)
      PROVE  WorkersWoken'
  <2>1. /\ Tasks' = Tasks /\ QueueCondition' = QueueCondition
        /\ \A t \in Threads \ {w} : pc'[t] = pc[t] \/ (t \in CompletionCondition /\ pc'[t] = "wlock")
        /\ pc[w] # "notifyone" /\ pc'[w] \in {"pop", "complete", "notifyall", "loop"}
    BY <1>0, <1>2
       DEF WorkerActivate, WorkerRun, WorkerComplete, WorkerNotify, CompletionNotified
  <2>2. \A c \in CompletionCondition : pc[c] = "cwait"
    BY <1>0 DEF ConditionsMatch
  <2>3. Waking' = Waking /\ Coming \subseteq Coming'
    BY <1>0, <2>1, <2>2 DEF Waking, Coming
  <2> QED BY <1>0, <2>1, <2>3, MoreComing
<1>3. ASSUME NEW w \in Workers, WorkerPop(w) PROVE WorkersWoken'
  <2>1. Waking' = Waking /\ Coming' = Coming \ {w} /\ w \in Coming
        /\ QueueCondition' = QueueCondition /\ Tasks' = Tail(Tasks)
    BY <1>0, <1>3 DEF WorkerPop, Waking, Coming
  <2>2. Tasks \in Seq(TaskIds) /\ Tasks # <<>>
    BY <1>3 DEF IInv, TypeOK, Established, WorkerPop
  <2>3. Len(Tasks') = Len(Tasks) - 1
    BY <2>1, <2>2
  <2>4. /\ IsFiniteSet(Waking) /\ IsFiniteSet(Coming) /\ Cardinality(Coming) \in Nat
        /\ Cardinality(Waking) \in Nat /\ Len(Tasks) \in Nat
    BY <1>0, Sizes DEF WorkersWoken
  <2>5. Cardinality(Coming') = Cardinality(Coming) - 1
    BY <2>1, <2>4, SizeSteps
  <2> QED BY <2>1, <2>3, <2>4, <2>5 DEF WorkersWoken
<1>4. ASSUME NEW t \in Threads, AsyncPush(t) PROVE WorkersWoken'
  <2>1. Waking' = Waking \cup {t} /\ Coming' = Coming /\ t \notin Waking
        /\ QueueCondition' = QueueCondition /\ Tasks' = Append(Tasks, arg[t])
    BY <1>0, <1>4 DEF AsyncPush, Waking, Coming
  <2>2. Len(Tasks') = Len(Tasks) + 1
    BY <1>0, <2>1, AppendProperties DEF TypeOK
  <2>3. /\ IsFiniteSet(Waking) /\ IsFiniteSet(Coming) /\ Cardinality(Coming) \in Nat
        /\ Cardinality(Waking) \in Nat /\ Len(Tasks) \in Nat
    BY <1>0, Sizes DEF WorkersWoken
  <2>4. Cardinality(Waking') = Cardinality(Waking) + 1 /\ IsFiniteSet(Waking')
    BY <2>1, <2>3, SizeSteps, FS_AddElement
  <2> QED BY <2>1, <2>2, <2>3, <2>4 DEF WorkersWoken
<1>5. ASSUME NEW t \in Threads, AsyncNotify(t) PROVE WorkersWoken'
  <2>1. PICK S \in WokenByAsync :
          /\ QueueCondition' = QueueCondition \ S
          /\ pc' = [u \in Threads |-> IF u \in S THEN "loop"
                                      ELSE IF u # t THEN pc[u]
                                      ELSE IF t \in Workers THEN "run" ELSE "idle"]
    BY <1>5 DEF AsyncNotify
  <2>2. /\ IsFiniteSet(Waking) /\ IsFiniteSet(Coming) /\ Cardinality(Coming) \in Nat
        /\ Cardinality(Waking) \in Nat /\ Len(Tasks) \in Nat /\ Tasks' = Tasks
    BY <1>0, <1>5, Sizes DEF WorkersWoken, AsyncNotify
  <2>3. QueueCondition \subseteq Workers /\ \A w \in QueueCondition : pc[w] = "qwait"
    BY <1>0 DEF TypeOK, ConditionsMatch
  <2>4. S \subseteq QueueCondition /\ pc[t] = "notifyone"
    BY <1>5 DEF WokenByAsync, AsyncNotify
  <2>5. Waking' = Waking \ {t} /\ t \in Waking
    BY <1>0, <2>1, <2>3, <2>4 DEF Waking
  <2>6. IsFiniteSet(Waking') /\ Cardinality(Waking') = Cardinality(Waking) - 1
    BY <2>2, <2>5, SizeSteps, FS_RemoveElement
  <2>7. CASE QueueCondition = {}
    BY <2>1, <2>6, <2>7 DEF WorkersWoken
  <2>8. CASE QueueCondition # {}
    <3>1. PICK w \in QueueCondition : S = {w}
      BY <2>8 DEF WokenByAsync
    <3>2. Coming' = Coming \cup {w} /\ w \notin Coming
      BY <1>0, <2>1, <2>3, <2>4, <3>1 DEF Coming
    <3>3. Cardinality(Coming') = Cardinality(Coming) + 1
      BY <2>2, <3>2, SizeSteps
    <3> QED BY <2>2, <2>6, <2>8, <3>3 DEF WorkersWoken
  <2> QED BY <2>7, <2>8
<1>6. ASSUME NEW t \in Threads, NEW k \in TaskIds, AsyncLock(t, k) PROVE WorkersWoken'
  <2>1. Tasks' = Tasks /\ QueueCondition' = QueueCondition /\ Waking' = Waking /\ Coming' = Coming
    BY <1>0, <1>6 DEF AsyncLock, MayCallAsync, Waking, Coming
  <2> QED BY <1>0, <2>1, MoreComing
<1>7. ASSUME NEW c \in Clients, WaitCall(c) \/ WaitStep(c) PROVE WorkersWoken'
  <2>1. /\ Tasks' = Tasks /\ QueueCondition' = QueueCondition
        /\ \E l \in ClientPcs \ {"notifyone"} : pc' = [pc EXCEPT ![c] = l]
        /\ pc[c] # "notifyone"
    BY <1>7 DEF WaitCall, WaitStep, WaitLock, WaitTestActive, WaitTestTasks, Block, ClientPcs
  <2>2. Waking' = Waking /\ Coming' = Coming
    BY <1>0, <2>1 DEF Waking, Coming
  <2> QED BY <1>0, <2>1, <2>2, MoreComing
<1>8. ASSUME NEW t \in Threads, SpuriousWakeup(t) PROVE WorkersWoken'
  <2>1. Tasks' = Tasks /\ QueueCondition' \subseteq QueueCondition
    BY <1>8 DEF SpuriousWakeup
  <2>2. (t \in Workers /\ pc[t] = "qwait" /\ pc' = [pc EXCEPT ![t] = "loop"])
        \/ (t \in Clients /\ pc[t] = "cwait" /\ pc' = [pc EXCEPT ![t] = "wlock"])
    BY <1>0, <1>8 DEF SpuriousWakeup, TypeOK, ConditionsMatch
  <2>3. Waking' = Waking /\ Coming \subseteq Coming'
    BY <1>0, <2>2 DEF Waking, Coming
  <2> QED BY <1>0, <2>1, <2>3, MoreComing
<1>9. ASSUME DtorDisable \/ DtorJoin \/ UNCHANGED vars PROVE WorkersWoken'
  BY <1>9 DEF DtorDisable, DtorJoin, vars, WorkersWoken, Waking, Coming
<1>10. ASSUME DtorNotify PROVE WorkersWoken'
  <2>1. QueueCondition' = {} /\ \A t \in Threads : pc'[t] = "notifyone" => pc[t] = "notifyone"
    BY <1>0, <1>10 DEF DtorNotify, WokenByDtor
  <2>2. Waking' \subseteq Waking
    BY <2>1 DEF Waking
  <2> QED BY <2>1, <2>2, FS_Subset DEF WorkersWoken
<1> QED
  BY <1>1, <1>2, <1>3, <1>4, <1>5, <1>6, <1>7, <1>8, <1>9, <1>10
     DEF Next, WorkerStep, AsyncStep, Destroyed

LEMMA WaitersWokenStep ==
  ASSUME IInv, IInv', CompletionCondition # {} => NotificationAhead, [Next]_vars
  PROVE  CompletionCondition' # {} => NotificationAhead'
<1> SUFFICES ASSUME CompletionCondition' # {} PROVE NotificationAhead'
  OBVIOUS
<1> USE DEF Goto, NotificationAhead
<1>0. /\ pc \in [Threads -> WorkerPcs \cup ClientPcs] /\ Threads = Workers \cup Clients
      /\ Workers \cap Clients = {} /\ ConditionsMatch /\ Tasks \in Seq(TaskIds)
      /\ \A w \in Workers : pc[w] \in WorkerPcs
  BY ThreadsAssumption DEF IInv, TypeOK, Threads
<1>1. ASSUME NEW w \in Workers, WorkerStep(w) PROVE NotificationAhead'
  <2>1. CASE WorkerNotify(w)
    BY <1>0, <2>1 DEF WorkerNotify, CompletionNotified
  <2>2. CASE WorkerLock(w)
    BY <1>0, <2>2 DEF WorkerLock, ActivePcs
  <2>3. CASE WorkerActivate(w) \/ WorkerPop(w) \/ WorkerRun(w) \/ WorkerComplete(w)
    <3>1. pc'[w] \in ActivePcs \cup {"notifyall"}
      BY <1>0, <2>3 DEF WorkerActivate, WorkerPop, WorkerRun, WorkerComplete, ActivePcs
    <3> QED BY <3>1
  <2> QED BY <1>1, <2>1, <2>2, <2>3 DEF WorkerStep
<1>2. ASSUME NEW t \in Threads, AsyncPush(t) PROVE NotificationAhead'
  <2>1. Tasks' # <<>>
    BY <1>0, <1>2, AppendProperties, IInv DEF AsyncPush, IInv, ArgTyped
  <2> QED BY <2>1
<1>3. ASSUME NEW t \in Threads, AsyncNotify(t) PROVE NotificationAhead'
  <2>1. Tasks' = Tasks /\ CompletionCondition' = CompletionCondition
        /\ \A u \in Threads : pc'[u] = pc[u] \/ pc[u] = "qwait"
                                \/ (u = t /\ pc[u] = "notifyone" /\ (t \in Workers => pc'[t] = "run"))
    BY <1>0, <1>3 DEF AsyncNotify, WokenByAsync, ConditionsMatch
  <2> QED BY <1>0, <2>1 DEF ActivePcs
<1>4. ASSUME NEW t \in Threads, NEW k \in TaskIds, AsyncLock(t, k) PROVE NotificationAhead'
  BY <1>0, <1>4 DEF AsyncLock
<1>5. ASSUME NEW c \in Clients, WaitCall(c) \/ WaitLock(c) PROVE NotificationAhead'
  BY <1>0, <1>5 DEF WaitCall, WaitLock
<1>6. ASSUME NEW c \in Clients, WaitTestActive(c) PROVE NotificationAhead'
  <2>1. CASE NoneActive
    BY <1>0, <1>6, <2>1 DEF WaitTestActive
  <2>2. CASE ~NoneActive
    <3>1. {w \in Workers : pc[w] \in ActivePcs} # {}
      BY <2>2, FS_EmptySet DEF NoneActive, IInv, CounterExact
    <3>2. \A w \in Workers : pc'[w] = pc[w]
      BY <1>0, <1>6 DEF WaitTestActive, Block
    <3> QED BY <3>1, <3>2
  <2> QED BY <2>1, <2>2
<1>7. ASSUME NEW c \in Clients, WaitTestTasks(c) PROVE NotificationAhead'
  <2>1. pc[c] = "wtasks" /\ Tasks' = Tasks /\ \A t \in Threads \ {c} : pc'[t] = pc[t]
    BY <1>0, <1>7 DEF WaitTestTasks, Block
  <2>2. CASE CompletionCondition' = CompletionCondition
    BY <1>0, <2>1, <2>2
  <2>3. CASE Tasks # <<>> \/ \E t \in Threads : pc[t] = "push"
    BY <1>0, <2>1, <2>3
  <2> QED BY <1>7, <2>2, <2>3 DEF WaitTestTasks, EmptyReads
<1>8. ASSUME NEW t \in Threads, SpuriousWakeup(t) PROVE NotificationAhead'
  BY <1>0, <1>8 DEF SpuriousWakeup, ConditionsMatch, ActivePcs
<1>9. CASE DtorDisable \/ DtorJoin \/ UNCHANGED vars
  BY <1>9 DEF DtorDisable, DtorJoin, vars
<1>10. CASE DtorNotify
  <2>1. Tasks' = Tasks /\ CompletionCondition' = CompletionCondition
        /\ \A u \in Threads : pc'[u] = pc[u] \/ pc[u] = "qwait"
    BY <1>0, <1>10 DEF DtorNotify, WokenByDtor, ConditionsMatch
  <2> QED BY <1>0, <2>1 DEF ActivePcs
<1> QED
  BY <1>1, <1>2, <1>3, <1>4, <1>5, <1>6, <1>7, <1>8, <1>9, <1>10
     DEF Next, AsyncStep, WaitStep, Destroyed

LEMMA JoinStep ==
  ASSUME IInv, dtor \in {"join", "destroyed"} => QueueCondition = {}, [Next]_vars
  PROVE  dtor' \in {"join", "destroyed"} => QueueCondition' = {}
<1>1. dtor # "alive" => ~EnableFlag
  BY DEF IInv, Draining, TypeOK
<1>2. ASSUME NEW w \in Workers, WorkerLock(w)
      PROVE  dtor' \in {"join", "destroyed"} => QueueCondition' = {}
  BY <1>1, <1>2 DEF WorkerLock
<1>3. ASSUME NEW t \in Threads, AsyncNotify(t) \/ SpuriousWakeup(t)
      PROVE  QueueCondition' \subseteq QueueCondition /\ dtor' = dtor
  BY <1>3 DEF AsyncNotify, SpuriousWakeup
<1>4. CASE DtorDisable \/ DtorJoin
  BY <1>4 DEF DtorDisable, DtorJoin
<1>5. CASE DtorNotify
  BY <1>5 DEF DtorNotify, WokenByDtor
<1>6. CASE UNCHANGED <<QueueCondition, dtor>>
  BY <1>6
<1>7. ASSUME NEW t \in Threads,
             \/ (t \in Workers /\ ~WorkerLock(t) /\ WorkerStep(t))
             \/ AsyncPush(t) \/ (\E k \in TaskIds : AsyncLock(t, k))
             \/ (t \in Clients /\ (WaitCall(t) \/ WaitStep(t)))
      PROVE  UNCHANGED <<QueueCondition, dtor>>
  BY <1>7 DEF WorkerStep, WorkerActivate, WorkerPop, WorkerRun, WorkerComplete, WorkerNotify,
              AsyncPush, AsyncLock, WaitCall, WaitStep, WaitLock, WaitTestActive, WaitTestTasks,
              Block
<1> QED
  BY <1>2, <1>3, <1>4, <1>5, <1>6, <1>7 DEF Next, WorkerStep, AsyncStep, Destroyed, vars, Threads

\* async() notifies one worker, after unlocking; the last worker of a task
\* notifies after it has counted itself out; the destructor notifies once.  Still
\* no worker sleeps over a task, no waiter over the end of the last one and
\* nobody while the pool is destroyed.
THEOREM WakeupsReach == Spec => []NoLostWakeup
<1> DEFINE J == /\ WorkersWoken /\ (CompletionCondition # {} => NotificationAhead)
                /\ (dtor \in {"join", "destroyed"} => QueueCondition = {})
<1>1. Init => J
  <2> SUFFICES ASSUME Init PROVE J
    OBVIOUS
  <2>1. Waking = {}
    BY DEF Init, Waking
  <2> QED BY <2>1, FS_EmptySet DEF Init, WorkersWoken
<1>2. IInv /\ IInv' /\ J /\ [Next]_vars => J'
  BY WorkersWokenStep, WaitersWokenStep, JoinStep
<1>3. J => NoLostWakeup
  BY DEF NoLostWakeup, WorkersWoken
<1> QED BY <1>1, <1>2, <1>3, Invariance, PTL DEF Spec
=============================================================================
