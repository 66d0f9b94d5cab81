--------------------------- MODULE KmpTaskingProofs ---------------------------
(***************************************************************************)
(* For every finite team, every program and every size of the deques: the  *)
(* barrier drains (NothingLeft, from IInv), every task is begun and ended  *)
(* once and a taskwait waits for its children (EachTaskOnce and            *)
(* TaskwaitWaits, from Accounts), and the tied tasks of a thread nest      *)
(* (TiedTasksNest, from Nesting).                                          *)
(***************************************************************************)
EXTENDS KmpTasking, FiniteSetTheorems, SequenceTheorems, TLAPS

PCs == {"run", "loop", "doze", "asleep", "seek", "steal", "taken", "starved", "out"}
Phases == {"region", "gather", "final", "release", "out"}

\* The values of the deques; what is in a slot does not matter here.
DequeShape ==
  /\ deque \in [Threads -> [Slots -> 0 .. NTasks]]
  /\ head \in [Threads -> Slots] /\ tail \in [Threads -> Slots]
  /\ ntasks \in [Threads -> Nat]

\* What the steps need of the other values.
Shape ==
  /\ DequeShape
  /\ lock \in [Threads -> Threads \union {"free"}]
  /\ stack \in [Threads -> Seq(0 .. NTasks)]
  /\ created \subseteq Tasks
  /\ phase \in [Threads -> Phases]
  /\ pc \in [Threads -> PCs]
  /\ finished \in [Threads -> BOOLEAN]
  /\ held \in [Threads -> [victim : Threads \union {"none"}, task : 0 .. NTasks]]

Unfinished == {t \in Threads : ~finished[t]}
Counted == unfinished = Cardinality(Unfinished)

\* A thread that has reported has nothing, and gets nothing but by stealing.
FinishedIdle ==
  \A t \in Threads : finished[t] =>
    /\ phase[t] \in {"final", "release", "out"}
    /\ stack[t] = <<>> /\ ntasks[t] = 0 /\ pc[t] \notin {"run", "taken"}

\* How far a thread is tells where it can be.
Stages ==
  \A t \in Threads :
    /\ phase[t] \in {"gather", "release"} => t = Master
    /\ phase[t] = "release" => pc[t] = "loop"
    /\ phase[t] = "out" => pc[t] = "out"
    /\ phase[t] # "region" => t \notin waiting /\ (pc[t] = "run" => stack[t] # <<>>)
    /\ pc[t] = "run" /\ stack[t] = <<>> => t \notin waiting

\* A thief has the lock, and the count still shows the task that it takes.
Thieves ==
  \A t \in Threads : pc[t] = "taken" =>
    /\ held[t].victim \in Threads
    /\ lock[held[t].victim] = t /\ ntasks[held[t].victim] > 0

\* In the final spin a thread steals when its own deque is empty.
OwnFirst ==
  \A t \in Threads : 
    pc[t] \in {"steal", "starved"} /\ phase[t] = "final" /\ stack[t] = <<>> => ntasks[t] = 0

NoneFound ==
  ~found => \A t \in Threads : stack[t] = <<>> /\ ntasks[t] = 0 /\ pc[t] # "taken"

\* After the wait of the master all have arrived and, if tasks were found, reported.
Ended == ~Active => \A t \in Threads : phase[t] # "region" /\ (found => finished[t])

Idle == FinishedIdle /\ Stages /\ Thieves /\ OwnFirst /\ NoneFound /\ Ended
IInv == Shape /\ Counted /\ Idle

-------------------------------------------------------------------------------

LEMMA Slotted == \A i \in Nat : Wrap(i) \in Slots
BY DequeAssumption DEF Wrap, Slots

LEMMA PushShape ==
  ASSUME DequeShape, NEW v \in Threads, NEW k \in Tasks, Push(v, k)
  PROVE  DequeShape'
<1>1. tail[v] + 1 \in Nat /\ k \in 0 .. NTasks
  BY DEF DequeShape, Slots, Tasks
<1>2. Wrap(tail[v] + 1) \in Slots
  BY <1>1, Slotted
<1> QED
  BY <1>1, <1>2 DEF DequeShape, Push

LEMMA PopShape ==
  ASSUME DequeShape, NEW v \in Threads, ntasks[v] > 0
  PROVE  /\ TailTask(v) \in 0 .. NTasks
         /\ Pop(v) => DequeShape'
<1>1. tail[v] + DequeSize - 1 \in Nat
  <2>1. tail[v] \in Nat
    BY DequeAssumption DEF DequeShape, Slots
  <2> QED BY <2>1, DequeAssumption
<1>2. Wrap(tail[v] + DequeSize - 1) \in Slots
  BY <1>1, Slotted
<1>3. ntasks[v] - 1 \in Nat
  BY DEF DequeShape
<1>4. TailTask(v) \in 0 .. NTasks
  BY <1>2 DEF DequeShape, TailTask
<1>5. Pop(v) => DequeShape'
  BY <1>2, <1>3 DEF DequeShape, Pop
<1> QED BY <1>4, <1>5

LEMMA TakeShape ==
  ASSUME DequeShape, NEW v \in Threads, NEW i \in Nat
  PROVE  /\ deque[v][Slot(v, i)] \in 0 .. NTasks
         /\ Take(v, i) => DequeShape'
<1>1. /\ tail[v] + DequeSize - 1 \in Nat /\ head[v] + 1 \in Nat /\ head[v] + i \in Nat
      /\ \A s \in Slots : s + 1 \in Nat
  <2>1. head[v] \in Nat /\ tail[v] \in Nat /\ Slots \subseteq Nat
    BY DequeAssumption DEF DequeShape, Slots
  <2> QED BY <2>1, DequeAssumption
<1>2. /\ Wrap(tail[v] + DequeSize - 1) \in Slots /\ Wrap(head[v] + 1) \in Slots
      /\ Slot(v, i) \in Slots /\ \A s \in Slots : Wrap(s + 1) \in Slots
  BY <1>1, Slotted DEF Slot
<1>3. Shifted(v, i) \in [Slots -> 0 .. NTasks]
  BY <1>2 DEF DequeShape, Shifted
<1> QED
  BY <1>2, <1>3 DEF DequeShape, Take

-------------------------------------------------------------------------------

\* t goes to l; another thread stays where it is, or is resumed.
Moved(t, l) ==
  /\ pc' \in [Threads -> PCs] /\ pc'[t] = l
  /\ \A u \in Threads \ {t} : pc'[u] = pc[u] \/ (pc[u] = "asleep" /\ pc'[u] = "loop")

LEMMA Moves ==
  ASSUME Shape, NEW t \in Threads, NEW l \in PCs
  PROVE  /\ Goto(t, l) => Moved(t, l)
         /\ \A others : GotoAndResume(t, l, others) => Moved(t, l)
<1>1. Goto(t, l) => Moved(t, l)
  BY DEF Shape, PCs, Goto, Moved
<1>2. ASSUME NEW others, GotoAndResume(t, l, others) PROVE Moved(t, l)
  <2>1. \A u \in Threads : pc'[u] = IF u = t THEN l
                                ELSE IF u \in others /\ pc[u] = "asleep" THEN "loop" ELSE pc[u]
    BY <1>2 DEF GotoAndResume
  <2>2. pc' \in [Threads -> PCs]
    BY <1>2 DEF Shape, PCs, GotoAndResume
  <2> QED BY <2>1, <2>2 DEF Moved
<1> QED BY <1>1, <1>2

LEMMA CurrentTask ==
  ASSUME Shape, NEW t \in Threads
  PROVE  /\ stack[t] = <<>> => Current(t) = t
         /\ stack[t] # <<>> => Current(t) \notin Threads
<1>1. CASE stack[t] # <<>>
  <2>1. stack[t] \in Seq(0 .. NTasks) /\ Len(stack[t]) \in 1 .. Len(stack[t])
    BY <1>1 DEF Shape
  <2> QED BY <2>1, <1>1, ProgramsAssumption DEF Current, Last
<1> QED BY <1>1 DEF Current

LEMMA Spinning ==
  ASSUME Shape, Stages, NEW t \in Threads
  PROVE  FinalSpin(t) <=> phase[t] = "final" /\ stack[t] = <<>>
BY CurrentTask DEF Stages, FinalSpin, InTaskwait

\* When the master is through, nobody has anything.
LEMMA Drained ==
  ASSUME IInv, ~Active, NEW t \in Threads
  PROVE  stack[t] = <<>> /\ ntasks[t] = 0 /\ pc[t] \notin {"run", "taken"}
<1>1. CASE found
  BY <1>1 DEF IInv, Idle, FinishedIdle, Ended
<1>2. CASE ~found
  BY <1>2 DEF IInv, Idle, NoneFound, Stages, Ended
<1> QED BY <1>1, <1>2

-------------------------------------------------------------------------------
(* The steps that move a thread and leave the tasks where they are. *)

Quiet(t, l, p) ==
  /\ Moved(t, l) /\ phase' = [phase EXCEPT ![t] = p]
  /\ UNCHANGED <<deques, team, found, stack, tasks, held>>

LEMMA QuietStep ==
  ASSUME IInv, NEW t \in Threads, NEW l \in PCs \ {"taken"}, NEW p \in Phases, Quiet(t, l, p),
         finished[t] => p \in {"final", "release", "out"} /\ l # "run",
         l \in {"steal", "starved"} /\ p = "final" /\ stack[t] = <<>> => ntasks[t] = 0,
         p \in {"gather", "release"} => t = Master,
         p = "release" => l = "loop",
         p = "out" => l = "out",
         p # "region" => t \notin waiting' /\ (l = "run" => stack[t] # <<>>),
         l = "run" /\ stack[t] = <<>> => t \notin waiting',
         \A u \in Threads \ {t} : u \in waiting' => u \in waiting,
         p = "region" => phase[t] = "region",
         t = Master /\ p \in {"release", "out"} =>
           ~Active \/ \A u \in Threads : (u # t => phase[u] # "region") /\ (found => finished[u])
  PROVE  IInv'
<1>1. /\ UNCHANGED <<deque, head, tail, ntasks, lock, unfinished, found, stack, finished,
                     created, held>>
      /\ pc' \in [Threads -> PCs] /\ pc'[t] = l
      /\ phase' \in [Threads -> Phases] /\ phase'[t] = p
      /\ \A u \in Threads \ {t} :
           /\ phase'[u] = phase[u]
           /\ pc'[u] = pc[u] \/ (pc[u] = "asleep" /\ pc'[u] = "loop")
  BY DEF Quiet, Moved, IInv, Shape, deques, team, tasks
<1>2. Shape'
  BY <1>1 DEF IInv, Shape, DequeShape
<1>3. Counted'
  BY <1>1 DEF IInv, Counted, Unfinished
<1>4. FinishedIdle'
  BY <1>1 DEF IInv, Idle, FinishedIdle
<1>5. Stages'
  BY <1>1 DEF IInv, Idle, Stages
<1>6. Thieves'
  BY <1>1 DEF IInv, Idle, Thieves
<1>7. OwnFirst'
  BY <1>1 DEF IInv, Idle, OwnFirst
<1>8. NoneFound'
  BY <1>1 DEF IInv, Idle, NoneFound
<1>9. Ended'
  BY <1>1, ThreadsAssumption DEF IInv, Idle, Ended, Active, Stages
<1> QED
  BY <1>2, <1>3, <1>4, <1>5, <1>6, <1>7, <1>8, <1>9 DEF IInv, Idle

\* The steps of this kind, each with where it leads.
QuietSteps(t) ==
  \/ Taskwait(t) \/ Arrive(t) \/ TaskwaitDone(t) \/ GatherDone(t) \/ TeamWaitDone(t)
  \/ Release(t) \/ Released(t) \/ LookForTasks(t) \/ Doze(t) \/ Suspend(t)
  \/ NoTaskOfMine(t) \/ \E v \in Threads \ {t} : WakeVictim(t, v) \/ StealFails(t, v)

LEMMA QuietKeepsIInv == ASSUME IInv, NEW t \in Threads, QuietSteps(t) PROVE IInv'
<1>0. /\ Shape /\ Stages /\ FinishedIdle
      /\ phase = [phase EXCEPT ![t] = phase[t]] /\ phase[t] \in Phases
      /\ finished[t] => phase[t] \in {"final", "release", "out"} /\ pc[t] # "run"
      /\ phase[t] # "region" => t \notin waiting /\ (pc[t] = "run" => stack[t] # <<>>)
      /\ pc[t] = "run" /\ stack[t] = <<>> => t \notin waiting
      /\ phase[t] \in {"gather", "release"} => t = Master
      /\ phase[t] = "out" => pc[t] = "out"
      /\ phase[t] = "release" => pc[t] = "loop"
  BY DEF IInv, Idle, Shape, Stages, FinishedIdle
<1>1. CASE Taskwait(t)
  <2>1. Quiet(t, "loop", phase[t])
    BY <1>0, <1>1, Moves DEF Taskwait, Quiet, PCs, deques, team, tasks
  <2>2. /\ t \in waiting' => t \in waiting \/ stack[t] = <<>>
        /\ \A u \in Threads \ {t} : u \in waiting' => u \in waiting
    BY <1>0, <1>1, CurrentTask DEF Taskwait
  <2> QED
    BY <1>0, <1>1, <2>1, <2>2, QuietStep DEF Taskwait, PCs, Active
<1>2. CASE Arrive(t)
  <2> DEFINE p == IF t = Master THEN "gather" ELSE "final"
  <2>1. Quiet(t, "loop", p)
    BY <1>0, <1>2, Moves DEF Arrive, Quiet, PCs, deques, team, tasks
  <2>2. p \in Phases /\ (p = "gather" => t = Master) /\ p \in {"gather", "final"}
    BY DEF Phases
  <2> HIDE DEF p
  <2> QED
    BY <1>0, <1>2, <2>1, <2>2, QuietStep DEF Arrive, PCs
<1>3. CASE TaskwaitDone(t)
  <2>1. Quiet(t, "run", phase[t])
    BY <1>0, <1>3, Moves DEF TaskwaitDone, Quiet, PCs, deques, team, tasks
  <2>2. stack[t] = <<>> => t \in waiting /\ t \notin waiting'
    BY <1>0, <1>3, CurrentTask DEF TaskwaitDone, InTaskwait
  <2>3. finished[t] => stack[t] = <<>>
    BY <1>0 DEF FinishedIdle
  <2>4. phase[t] \notin {"release", "out"}
    BY <1>0, <1>3, <2>2, Drained DEF TaskwaitDone, Active
  <2>5. \A u \in Threads \ {t} : u \in waiting' => u \in waiting
    BY <1>3 DEF TaskwaitDone
  <2>6. phase[t] # "region" => t \notin waiting' /\ stack[t] # <<>>
    BY <1>0, <2>2, <1>3 DEF TaskwaitDone
  <2> QED
    BY <1>0, <2>1, <2>2, <2>3, <2>4, <2>5, <2>6, QuietStep DEF PCs
<1>4. CASE GatherDone(t)
  <2>1. Quiet(t, "loop", IF found THEN "final" ELSE "release")
    BY <1>0, <1>4 DEF GatherDone, Quiet, Moved, Shape, PCs, deques, team, tasks
  <2>2. \A u \in Threads \ {t} : phase[u] # "region"
    BY <1>4 DEF GatherDone, FlagDone, FinalSpin
  <2>3. phase[t] = "gather" /\ t = Master /\ ~finished[t]
    BY <1>0, <1>4 DEF GatherDone
  <2> QED
    BY <1>0, <1>4, <2>1, <2>2, <2>3, QuietStep DEF GatherDone, PCs, Phases
<1>5. CASE TeamWaitDone(t)
  <2>1. Quiet(t, "loop", "release")
    BY <1>0, <1>5 DEF TeamWaitDone, Quiet, Moved, Shape, PCs, deques, team, tasks
  <2>2. unfinished = 0 /\ phase[t] = "final"
    BY <1>5 DEF TeamWaitDone, FlagDone, FinalSpin
  <2>3. Unfinished = {}
    BY <2>2, ThreadsAssumption, FS_Subset, FS_EmptySet DEF IInv, Counted, Unfinished
  <2>4. \A u \in Threads : finished[u] /\ phase[u] # "region"
    BY <1>0, <2>3 DEF Unfinished, FinishedIdle
  <2> QED
    BY <1>0, <1>5, <2>1, <2>2, <2>4, QuietStep DEF TeamWaitDone, PCs, Phases
<1>6. CASE Release(t)
  <2>1. Quiet(t, "out", "out")
    BY <1>0, <1>6, Moves DEF Release, Quiet, PCs, deques, team, tasks
  <2> QED
    BY <1>0, <1>6, <2>1, QuietStep DEF Release, PCs, Phases, Active
<1>7. CASE Released(t)
  <2>1. Quiet(t, "out", "out")
    BY <1>0, <1>7, Moves DEF Released, Quiet, PCs, deques, team, tasks
  <2>2. phase[t] = "final"
    BY <1>7 DEF Released, FinalSpin
  <2> QED
    BY <1>0, <1>7, <2>1, <2>2, QuietStep DEF Released, PCs, Phases
<1>8. CASE LookForTasks(t)
  <2>1. Quiet(t, "seek", phase[t])
    BY <1>0, <1>8, Moves DEF LookForTasks, Quiet, PCs, deques, team, tasks
  <2> QED
    BY <1>0, <1>8, <2>1, QuietStep DEF LookForTasks, PCs, Active
<1>9. CASE Doze(t)
  <2>1. Quiet(t, "doze", phase[t])
    BY <1>0, <1>9, Moves DEF Doze, Quiet, PCs, deques, team, tasks
  <2> QED
    BY <1>0, <1>9, <2>1, QuietStep DEF Doze, PCs, Active
<1>10. CASE Suspend(t)
  <2> DEFINE l == IF FlagDone(t) THEN "loop" ELSE "asleep"
  <2>1. Quiet(t, l, phase[t])
    BY <1>0, <1>10, Moves DEF Suspend, Quiet, PCs, deques, team, tasks
  <2>2. l \in PCs \ {"taken"} /\ l \notin {"run", "steal", "starved"}
    BY DEF PCs
  <2> HIDE DEF l
  <2> QED
    BY <1>0, <1>10, <2>1, <2>2, QuietStep DEF Suspend, Active
<1>11. CASE NoTaskOfMine(t)
  <2>1. Quiet(t, "steal", phase[t])
    BY <1>0, <1>11, Moves DEF NoTaskOfMine, Quiet, PCs, deques, team, tasks
  <2>2. phase[t] = "final" /\ stack[t] = <<>> => ntasks[t] = 0
    <3>1. ASSUME phase[t] = "final", stack[t] = <<>>
          PROVE  Allowed(t, TailTask(t))
      BY <1>0, <3>1, Spinning DEF Allowed, FinalSpin
    <3> QED BY <1>11, <3>1 DEF NoTaskOfMine
  <2> QED
    BY <1>0, <1>11, <2>1, <2>2, QuietStep DEF NoTaskOfMine, PCs, Active
<1>12. ASSUME NEW v \in Threads \ {t}, WakeVictim(t, v) PROVE IInv'
  <2>1. Quiet(v, "loop", phase[v])
    BY <1>0, <1>12, Moves DEF WakeVictim, Quiet, PCs, Shape, deques, team, tasks
  <2> QED
    BY <1>12, <2>1, QuietStep
       DEF WakeVictim, PCs, Active, IInv, Idle, Shape, Stages, FinishedIdle
<1>13. ASSUME NEW v \in Threads \ {t}, StealFails(t, v) PROVE IInv'
  <2>1. Quiet(t, "starved", phase[t])
    BY <1>0, <1>13, Moves DEF StealFails, Quiet, PCs, deques, team, tasks
  <2>2. phase[t] = "final" /\ stack[t] = <<>> => ntasks[t] = 0
    BY <1>13 DEF StealFails, IInv, Idle, OwnFirst
  <2> QED
    BY <1>0, <1>13, <2>1, <2>2, QuietStep DEF StealFails, PCs, Active
<1> QED
  BY <1>1, <1>2, <1>3, <1>4, <1>5, <1>6, <1>7, <1>8, <1>9, <1>10, <1>11, <1>12, <1>13
     DEF QuietSteps

-------------------------------------------------------------------------------
(* The steps that move a task.  None of them is possible once all is drained. *)

\* What does not concern the values: where t may go, and what the others keep.
Busy(t, l) ==
  /\ Active /\ Moved(t, l) /\ UNCHANGED <<phase, waiting>>
  /\ \A u \in Threads \ {t} : stack'[u] = stack[u]

LEMMA BusyStages ==
  ASSUME IInv, NEW t \in Threads, NEW l, Busy(t, l), phase[t] \notin {"release", "out"},
         l = "run" /\ stack'[t] = <<>> => phase[t] = "region" /\ t \notin waiting
  PROVE  Stages' /\ Ended'
<1>1. /\ phase' = phase /\ waiting' = waiting /\ Active
      /\ pc' \in [Threads -> PCs] /\ pc'[t] = l
      /\ \A u \in Threads \ {t} :
           /\ stack'[u] = stack[u]
           /\ pc'[u] = pc[u] \/ (pc[u] = "asleep" /\ pc'[u] = "loop")
  BY DEF Busy, Moved
<1>2. Stages'
  BY <1>1 DEF IInv, Idle, Stages
<1>3. Ended'
  BY <1>1 DEF Ended, Active
<1> QED BY <1>2, <1>3

\* Who has a task has not reported, and the master is not through.
LEMMA Awake ==
  ASSUME IInv, NEW t \in Threads,
         pc[t] \in {"run", "taken"} \/ ntasks[t] # 0 \/ stack[t] # <<>>
  PROVE  Active /\ ~finished[t]
BY Drained DEF IInv, Idle, FinishedIdle

LEMMA Under ==
  ASSUME IInv, NEW t \in Threads, pc[t] \notin {"loop", "out"}
  PROVE  phase[t] \notin {"release", "out"}
BY DEF IInv, Idle, Stages

LEMMA Appended ==
  ASSUME NEW S, NEW q \in Seq(S), NEW x \in S
  PROVE  Append(q, x) \in Seq(S) /\ Append(q, x) # <<>>
<1>1. Append(q, x) \in Seq(S) /\ Len(Append(q, x)) = Len(q) + 1 /\ Len(q) \in Nat
  OBVIOUS
<1> QED BY <1>1

LEMMA Fronted ==
  ASSUME NEW S, NEW q \in Seq(S), q # <<>>
  PROVE  Front(q) \in Seq(S) /\ (Front(q) = <<>> => Len(q) = 1)
<1>1. Len(q) \in Nat \ {0}
  OBVIOUS
<1>2. Front(q) = SubSeq(q, 1, Len(q) - 1)
  BY DEF Front
<1>3. SubSeq(q, 1, Len(q) - 1) \in Seq(S) /\ Len(SubSeq(q, 1, Len(q) - 1)) = Len(q) - 1
  <2>1. \A i \in 1 .. Len(q) - 1 : q[i] \in S
    <3> SUFFICES ASSUME NEW i \in 1 .. Len(q) - 1 PROVE q[i] \in S
      OBVIOUS
    <3>1. i \in 1 .. Len(q)
      BY <1>1
    <3> QED BY <3>1, ElementOfSeq
  <2>2. Len(q) - 1 \in Int /\ 1 \in Int
    BY <1>1
  <2>3. /\ SubSeq(q, 1, Len(q) - 1) \in Seq(S)
        /\ Len(SubSeq(q, 1, Len(q) - 1)) = IF 1 <= Len(q) - 1 THEN (Len(q) - 1) - 1 + 1 ELSE 0
    BY <2>1, <2>2, SubSeqProperties
  <2>4. \A n \in Nat \ {0} : (IF 1 <= n - 1 THEN (n - 1) - 1 + 1 ELSE 0) = n - 1
    OBVIOUS
  <2> QED BY <1>1, <2>3, <2>4
<1>4. Len(Front(q)) = Len(q) - 1 /\ Len(<<>>) = 0
  BY <1>2, <1>3
<1>5. Front(q) = <<>> => Len(q) - 1 = 0
  BY <1>4
<1> QED BY <1>1, <1>2, <1>3, <1>5

LEMMA CreateTaskIInv == ASSUME IInv, NEW t \in Threads, CreateTask(t) PROVE IInv'
<1>1. PICK k \in ToCreate(t) : CreateTask(t)!(k)
  BY DEF CreateTask
<1>2. /\ pc[t] = "run" /\ k \in Tasks /\ k \in 0 .. NTasks /\ ~finished[t] /\ Active
      /\ phase[t] \notin {"release", "out"} /\ ntasks[t] \in Nat
      /\ stack[t] = <<>> => phase[t] = "region" /\ t \notin waiting
  <2>1. pc[t] = "run" /\ k \in Tasks
    BY <1>1 DEF ToCreate
  <2>2. ~finished[t] /\ Active /\ phase[t] \notin {"release", "out"}
    BY <2>1, Awake, Under
  <2>3. stack[t] = <<>> => phase[t] = "region" /\ t \notin waiting
    BY <2>1 DEF IInv, Idle, Stages
  <2>4. k \in 0 .. NTasks /\ ntasks[t] \in Nat
    BY <2>1 DEF Tasks, IInv, Shape, DequeShape
  <2> QED BY <2>1, <2>2, <2>3, <2>4
<1>3. /\ UNCHANGED <<lock, unfinished, finished, waiting, phase, held>>
      /\ created' \subseteq Tasks
  BY <1>1, <1>2 DEF team, IInv, Shape
<1>4. CASE ntasks[t] >= DequeSize
  <2>1. /\ stack' = [stack EXCEPT ![t] = Append(@, k)]
        /\ UNCHANGED <<deque, head, tail, ntasks, found, pc>>
    BY <1>1, <1>2, <1>4, DequeAssumption
  <2>2. found /\ stack'[t] # <<>>
    <3>1. found
      BY <1>2, <1>4, DequeAssumption DEF IInv, Idle, NoneFound
    <3>2. stack[t] \in Seq(0 .. NTasks) /\ stack'[t] = Append(stack[t], k)
      BY <2>1 DEF IInv, Shape
    <3> QED BY <1>2, <3>1, <3>2, Appended
  <2>3. Shape'
    BY <1>2, <1>3, <2>1, Appended DEF IInv, Shape, DequeShape
  <2>4. Busy(t, "run")
    BY <1>2, <1>3, <2>1 DEF Busy, Moved, IInv, Shape
  <2>5. Stages' /\ Ended'
    BY <1>2, <2>2, <2>4, BusyStages
  <2>6. Counted' /\ FinishedIdle' /\ Thieves' /\ OwnFirst' /\ NoneFound'
    BY <1>2, <1>3, <2>1, <2>2
       DEF IInv, Idle, Shape, Counted, Unfinished, FinishedIdle, Thieves, OwnFirst, NoneFound
  <2> QED BY <2>3, <2>5, <2>6 DEF IInv, Idle
<1>5. CASE ntasks[t] < DequeSize
  <2>1. /\ Push(t, k) /\ found' = TRUE /\ UNCHANGED stack /\ lock[t] = "free"
        /\ Moved(t, "run")
    BY <1>1, <1>2, <1>5, Moves, DequeAssumption DEF IInv, PCs
  <2>2. Shape'
    BY <1>2, <1>3, <2>1, PushShape DEF IInv, Shape, Moved
  <2>3. Stages' /\ Ended'
    BY <1>2, <1>3, <2>1, BusyStages DEF Busy
  <2>4. \A u \in Threads : ntasks'[u] = IF u = t THEN ntasks[t] + 1 ELSE ntasks[u]
    BY <2>1 DEF Push, IInv, Shape, DequeShape
  <2>5. Counted' /\ FinishedIdle' /\ NoneFound'
    BY <1>2, <1>3, <2>1, <2>4
       DEF IInv, Idle, Moved, Counted, Unfinished, FinishedIdle, NoneFound
  <2>6. OwnFirst'
    BY <1>2, <1>3, <2>1, <2>4 DEF IInv, Idle, Moved, OwnFirst
  <2>7. Thieves'
    BY <1>2, <1>3, <2>1, <2>4, ThreadsAssumption DEF IInv, Idle, Moved, Thieves
  <2> QED BY <2>2, <2>3, <2>5, <2>6, <2>7 DEF IInv, Idle
<1> QED BY <1>2, <1>4, <1>5, DequeAssumption

LEMMA FinishTaskIInv == ASSUME IInv, NEW t \in Threads, FinishTask(t) PROVE IInv'
<1>1. /\ pc[t] = "run" /\ stack[t] # <<>> /\ ~finished[t] /\ Active /\ found
      /\ phase[t] \notin {"release", "out"} /\ stack[t] \in Seq(0 .. NTasks)
  BY Awake, Under DEF FinishTask, IInv, Idle, NoneFound, Shape
<1>2. /\ UNCHANGED <<deque, head, tail, ntasks, lock, unfinished, finished, found, created,
                     waiting, phase, held>>
      /\ stack' = [stack EXCEPT ![t] = Front(@)]
  BY DEF FinishTask, deques, team
<1>3. Front(stack[t]) \in Seq(0 .. NTasks)
  BY <1>1, Fronted
<1>4. PICK l \in {"run", "loop", "seek"} :
        /\ Goto(t, l)
        /\ l = "run" /\ Len(stack[t]) = 1 => phase[t] = "region" /\ t \notin waiting
  <2> DEFINE below == IF Len(stack[t]) = 1 THEN t ELSE stack[t][Len(stack[t]) - 1]
             l == IF below \in waiting THEN "loop"
                  ELSE IF below # t \/ phase[t] = "region" THEN "run"
                  ELSE IF phase[t] = "final" THEN "seek" ELSE "loop"
  <2>1. Goto(t, l)
    BY DEF FinishTask
  <2> QED BY <2>1
<1>5. l = "run" /\ Front(stack[t]) = <<>> => phase[t] = "region" /\ t \notin waiting
  <2>1. Front(stack[t]) = <<>> => Len(stack[t]) = 1
    BY <1>1, Fronted
  <2> QED BY <1>4, <2>1
<1>6. Moved(t, l)
  BY <1>4, Moves DEF IInv, PCs
<1>7. Shape'
  BY <1>2, <1>3, <1>6 DEF IInv, Shape, DequeShape, Moved
<1>8. Stages' /\ Ended'
  BY <1>1, <1>2, <1>5, <1>6, BusyStages DEF Busy, IInv, Shape
<1>9. Counted' /\ FinishedIdle' /\ NoneFound'
  BY <1>1, <1>2, <1>6 DEF IInv, Idle, Moved, Counted, Unfinished, FinishedIdle, NoneFound, Shape
<1>10. Thieves' /\ OwnFirst'
  BY <1>1, <1>2, <1>4, <1>6 DEF IInv, Idle, Moved, Thieves, OwnFirst, Shape
<1> QED BY <1>7, <1>8, <1>9, <1>10 DEF IInv, Idle

LEMMA RemoveMyTaskIInv == ASSUME IInv, NEW t \in Threads, RemoveMyTask(t) PROVE IInv'
<1>1. /\ pc[t] = "seek" /\ ntasks[t] > 0 /\ lock[t] = "free"
      /\ ~finished[t] /\ Active /\ found /\ phase[t] \notin {"release", "out"}
  <2>1. pc[t] = "seek" /\ ntasks[t] > 0 /\ lock[t] = "free" /\ ntasks[t] # 0
    BY DEF RemoveMyTask, IInv, Shape, DequeShape
  <2> QED BY <2>1, Awake, Under DEF IInv, Idle, NoneFound
<1>2. /\ UNCHANGED <<lock, unfinished, finished, found, created, waiting, phase, held>>
      /\ stack' = [stack EXCEPT ![t] = Append(@, TailTask(t))]
      /\ Pop(t) /\ Moved(t, "run")
  BY Moves DEF RemoveMyTask, team, tasks, IInv, PCs
<1>3. Shape'
  BY <1>1, <1>2, PopShape, Appended DEF IInv, Shape, Moved
<1>4. stack'[t] # <<>> /\ \A u \in Threads \ {t} : stack'[u] = stack[u] /\ ntasks'[u] = ntasks[u]
  BY <1>1, <1>2, PopShape, Appended DEF IInv, Shape, DequeShape, Pop
<1>5. Stages' /\ Ended'
  BY <1>1, <1>2, <1>4, BusyStages DEF Busy
<1>6. Counted' /\ FinishedIdle' /\ NoneFound'
  BY <1>1, <1>2, <1>4 DEF IInv, Idle, Moved, Counted, Unfinished, FinishedIdle, NoneFound
<1>7. OwnFirst'
  BY <1>1, <1>2, <1>4 DEF IInv, Idle, Moved, OwnFirst
<1>8. Thieves'
  BY <1>1, <1>2, <1>4, ThreadsAssumption DEF IInv, Idle, Moved, Thieves
<1> QED BY <1>3, <1>5, <1>6, <1>7, <1>8 DEF IInv, Idle

\* Reporting, and taking a report back, moves the count by one.
LEMMA Recount ==
  ASSUME Shape, Counted, NEW t \in Threads
  PROVE  /\ /\ ~finished[t] /\ finished' = [finished EXCEPT ![t] = TRUE]
            /\ unfinished' = unfinished - 1
            => Counted'
         /\ /\ finished[t] /\ finished' = [finished EXCEPT ![t] = FALSE]
            /\ unfinished' = unfinished + 1
            => Counted'
<1>1. IsFiniteSet(Unfinished)
  BY ThreadsAssumption, FS_Subset DEF Unfinished
<1>2. ASSUME ~finished[t], finished' = [finished EXCEPT ![t] = TRUE] , unfinished' = unfinished - 1
      PROVE  Counted'
  <2>1. Unfinished' = Unfinished \ {t} /\ t \in Unfinished
    BY <1>2 DEF Unfinished, Shape
  <2> QED BY <1>1, <1>2, <2>1, FS_RemoveElement DEF Counted
<1>3. ASSUME finished[t], finished' = [finished EXCEPT ![t] = FALSE], unfinished' = unfinished + 1
      PROVE  Counted'
  <2>1. Unfinished' = Unfinished \union {t} /\ t \notin Unfinished
    BY <1>3 DEF Unfinished, Shape
  <2> QED BY <1>1, <1>3, <2>1, FS_AddElement DEF Counted
<1> QED BY <1>2, <1>3

LEMMA StealTakeIInv ==
  ASSUME IInv, NEW t \in Threads, NEW v \in Threads \ {t}, StealTake(t, v)
  PROVE  IInv'
<1>1. /\ pc[t] = "steal" /\ ntasks[v] > 0 /\ lock[v] = "free"
      /\ Active /\ found /\ phase[t] \notin {"release", "out"}
  <2>1. pc[t] = "steal" /\ ntasks[v] > 0 /\ lock[v] = "free" /\ ntasks[v] # 0
    BY DEF StealTake, IInv, Shape, DequeShape
  <2> QED BY <2>1, Awake, Under DEF IInv, Idle, NoneFound
<1>2. PICK i \in Candidates(t, v) :
        /\ held' = [held EXCEPT ![t] = [victim |-> v, task |-> deque[v][Slot(v, i)]]]
        /\ Take(v, i)
  BY DEF StealTake
<1>3. i \in Nat
  BY DEF Candidates, IInv, Shape, DequeShape
<1>4. /\ DequeShape' /\ UNCHANGED <<ntasks, found, stack, created, waiting, phase>>
      /\ lock' = [lock EXCEPT ![v] = t] /\ Moved(t, "taken")
      /\ deque[v][Slot(v, i)] \in 0 .. NTasks
  BY <1>2, <1>3, TakeShape, Moves DEF StealTake, Take, tasks, IInv, Shape, PCs
<1>5. /\ Counted' /\ finished' \in [Threads -> BOOLEAN] /\ ~finished'[t]
      /\ \A u \in Threads \ {t} : finished'[u] = finished[u]
  <2>1. finished[t] => FinalSpin(t)
    BY <1>1, Spinning DEF IInv, Idle, FinishedIdle
  <2>2. CASE finished[t]
    BY <2>1, <2>2, Recount DEF StealTake, IInv, Shape
  <2>3. CASE ~finished[t]
    <3>1. UNCHANGED <<unfinished, finished>>
      BY <2>3 DEF StealTake, team
    <3> QED BY <2>3, <3>1 DEF IInv, Shape, Counted, Unfinished
  <2> QED BY <2>2, <2>3
<1>6. Shape'
  BY <1>2, <1>4, <1>5 DEF IInv, Shape, Moved
<1>7. Stages' /\ Ended'
  BY <1>1, <1>4, BusyStages DEF Busy
<1>8. FinishedIdle' /\ OwnFirst' /\ NoneFound'
  BY <1>1, <1>4, <1>5 DEF IInv, Idle, Moved, FinishedIdle, OwnFirst, NoneFound
<1>9. Thieves'
  BY <1>1, <1>2, <1>4, ThreadsAssumption DEF IInv, Idle, Moved, Thieves, Shape
<1> QED BY <1>5, <1>6, <1>7, <1>8, <1>9 DEF IInv, Idle

LEMMA StealDoneIInv == ASSUME IInv, NEW t \in Threads, StealDone(t) PROVE IInv'
<1> DEFINE v == held[t].victim
<1>1. /\ pc[t] = "taken" /\ v \in Threads /\ lock[v] = t /\ ntasks[v] > 0
      /\ ~finished[t] /\ ~finished[v] /\ Active /\ found
      /\ phase[t] \notin {"release", "out"}
  <2>1. pc[t] = "taken" /\ v \in Threads /\ lock[v] = t /\ ntasks[v] > 0 /\ ntasks[v] # 0
    BY DEF StealDone, IInv, Idle, Thieves, Shape, DequeShape
  <2> HIDE DEF v
  <2> QED BY <2>1, Awake, Under DEF IInv, Idle, NoneFound
<1>2. /\ UNCHANGED <<deque, head, tail, unfinished, finished, found, created, waiting, phase>>
      /\ ntasks' = [ntasks EXCEPT ![v] = @ - 1]
      /\ lock' = [lock EXCEPT ![v] = "free"]
      /\ stack' = [stack EXCEPT ![t] = Append(@, held[t].task)]
      /\ held' = [held EXCEPT ![t] = Nothing]
      /\ Moved(t, "run")
  BY Moves DEF StealDone, team, tasks, IInv, PCs
<1> HIDE DEF v
<1>3. Shape'
  <2>1. held[t].task \in 0 .. NTasks /\ ntasks[v] - 1 \in Nat
    BY <1>1 DEF IInv, Shape, DequeShape
  <2>2. Nothing \in [victim : Threads \union {"none"}, task : 0 .. NTasks]
    BY ProgramsAssumption DEF Nothing
  <2> QED BY <1>1, <1>2, <2>1, <2>2, Appended DEF IInv, Shape, DequeShape, Moved
<1>4. /\ stack'[t] # <<>> /\ \A u \in Threads \ {t} : stack'[u] = stack[u]
      /\ \A u \in Threads \ {v} : ntasks'[u] = ntasks[u] /\ lock'[u] = lock[u]
      /\ \A u \in Threads \ {t} : held'[u] = held[u]
  <2>1. held[t].task \in 0 .. NTasks
    BY DEF IInv, Shape
  <2>2. stack[t] \in Seq(0 .. NTasks) /\ stack'[t] = Append(stack[t], held[t].task)
    BY <1>2 DEF IInv, Shape
  <2>3. stack'[t] # <<>>
    BY <2>1, <2>2, Appended
  <2> QED BY <1>1, <1>2, <2>3 DEF IInv, Shape, DequeShape
<1>5. Stages' /\ Ended'
  BY <1>1, <1>2, <1>4, BusyStages DEF Busy
<1>6. Counted' /\ FinishedIdle' /\ NoneFound'
  BY <1>1, <1>2, <1>4 DEF IInv, Idle, Moved, Counted, Unfinished, FinishedIdle, NoneFound
<1>7. OwnFirst'
  BY <1>1, <1>2, <1>4 DEF IInv, Idle, Moved, OwnFirst
<1>8. Thieves'
  BY <1>1, <1>2, <1>4 DEF IInv, Idle, Moved, Thieves
<1> QED BY <1>3, <1>5, <1>6, <1>7, <1>8 DEF IInv, Idle

LEMMA StarvedIInv == ASSUME IInv, NEW t \in Threads, Starved(t) PROVE IInv'
<1>1. /\ pc[t] = "starved" /\ Moved(t, "loop")
      /\ UNCHANGED <<deque, head, tail, ntasks, lock, found, stack, created, waiting, phase, held>>
  BY Moves DEF Starved, deques, tasks, IInv, PCs
<1>2. CASE FinalSpin(t) /\ ~finished[t] /\ finished' = [finished EXCEPT ![t] = TRUE]
  <2>1. phase[t] = "final" /\ stack[t] = <<>> /\ ntasks[t] = 0
    BY <1>1, <1>2, Spinning DEF IInv, Idle, OwnFirst
  <2>2. Counted'
    <3>1. unfinished' = unfinished - 1
      BY <1>2 DEF Starved, team, IInv, Shape
    <3> QED BY <1>2, <3>1, Recount DEF IInv
  <2>3. \A u \in Threads : finished'[u] = (u = t \/ finished[u])
    BY <1>2 DEF IInv, Shape
  <2>4. Shape'
    BY <1>1, <1>2 DEF IInv, Moved, Shape, DequeShape
  <2>5. FinishedIdle'
    BY <1>1, <2>1, <2>3 DEF IInv, Idle, Moved, FinishedIdle
  <2>6. Thieves' /\ OwnFirst' /\ NoneFound'
    BY <1>1, <2>1 DEF IInv, Idle, Moved, Thieves, OwnFirst, NoneFound
  <2>7. Stages'
    BY <1>1, <2>1 DEF IInv, Idle, Moved, Stages
  <2>8. Ended'
    BY <1>1, <2>3 DEF IInv, Idle, Ended, Active
  <2> QED BY <2>2, <2>4, <2>5, <2>6, <2>7, <2>8 DEF IInv, Idle
<1>3. CASE UNCHANGED team
  <2>1. Quiet(t, "loop", phase[t])
    BY <1>1, <1>3 DEF Starved, Quiet, IInv, Shape, deques, tasks
  <2> QED
    BY <1>1, <2>1, QuietStep
       DEF PCs, Active, IInv, Idle, Shape, Stages, FinishedIdle
<1> QED BY <1>2, <1>3 DEF Starved

-------------------------------------------------------------------------------

LEMMA InitIInv == Init => IInv
<1> SUFFICES ASSUME Init PROVE IInv
  OBVIOUS
<1>1. Shape
  <2>1. 0 \in Slots /\ 0 \in 0 .. NTasks
    BY DequeAssumption, ProgramsAssumption DEF Slots
  <2>2. <<>> \in Seq(0 .. NTasks)
    OBVIOUS
  <2> QED BY <2>1, <2>2 DEF Init, Shape, DequeShape, Phases, PCs, Nothing
<1>2. Counted
  <2>1. Unfinished = Threads
    BY DEF Init, Unfinished
  <2> QED BY <2>1 DEF Init, Counted
<1> QED
  BY <1>1, <1>2, ThreadsAssumption
     DEF Init, IInv, Idle, FinishedIdle, Stages, Thieves, OwnFirst, NoneFound, Ended, Active

LEMMA NextIInv == IInv /\ [Next]_vars => IInv'
<1> SUFFICES ASSUME IInv, [Next]_vars PROVE IInv'
  OBVIOUS
<1>1. ASSUME NEW t \in Threads, Step(t) \/ Taskwait(t) \/ Doze(t) PROVE IInv'
  <2>1. CASE CreateTask(t)
    BY <2>1, CreateTaskIInv
  <2>2. CASE FinishTask(t)
    BY <2>2, FinishTaskIInv
  <2>3. CASE RemoveMyTask(t)
    BY <2>3, RemoveMyTaskIInv
  <2>4. CASE \E v \in Threads \ {t} : StealTake(t, v)
    BY <2>4, StealTakeIInv
  <2>5. CASE StealDone(t)
    BY <2>5, StealDoneIInv
  <2>6. CASE Starved(t)
    BY <2>6, StarvedIInv
  <2>7. CASE QuietSteps(t)
    BY <2>7, QuietKeepsIInv
  <2> QED
    BY <1>1, <2>1, <2>2, <2>3, <2>4, <2>5, <2>6, <2>7 DEF Step, Victim, QuietSteps
<1>2. CASE UNCHANGED vars
  BY <1>2 DEF vars, IInv, Idle, Shape, DequeShape, Counted, Unfinished, FinishedIdle, Stages,
              Thieves, OwnFirst, NoneFound, Ended, Active
<1> QED BY <1>1, <1>2 DEF Next

LEMMA Invariance == Spec => []IInv
BY InitIInv, NextIInv, PTL DEF Spec

\* The barrier drains: when the master has left __kmp_task_team_wait no task is
\* in a deque, none is on its way to a thief and none is begun and not ended.
THEOREM BarrierDrains == Spec => []NothingLeft
<1>1. IInv => NothingLeft
  BY Drained DEF NothingLeft
<1> QED BY <1>1, Invariance, PTL

-------------------------------------------------------------------------------
(* The tasks above a task.  The least-number principle stands for induction. *)

LEMMA LeastNumber ==
  ASSUME NEW S \in SUBSET Nat, S # {}
  PROVE  \E x \in S : \A y \in S : x <= y
<1> DEFINE Less == {p \in Nat \X Nat : p[1] < p[2]}
<1>1. OpToRel(<, Nat) = Less
  BY DEF OpToRel
<1>2. IsWellFoundedOn(Less, Nat)
  BY <1>1, NatLessThanWellFounded
<1>3. \E x \in S : \A y \in S : <<y, x>> \notin Less
  BY <1>2, WFMin
<1>4. ASSUME NEW x \in S, NEW y \in S, <<y, x>> \notin Less PROVE x <= y
  <2>1. x \in Nat /\ y \in Nat /\ ~ (y < x)
    BY <1>4
  <2> QED BY <2>1
<1> HIDE DEF Less
<1> QED BY <1>3, <1>4

LEMMA Parents ==
  ASSUME program \in Programs, NEW k \in Tasks
  PROVE  /\ k \in Nat \ {0} /\ Parent(k) \in Threads \union Tasks
         /\ Parent(k) \in Tasks => Parent(k) < k
BY ProgramsAssumption DEF Parent, Tasks

\* Ancestors is what its recursive definition says.
LEMMA AncestorsOf ==
  ASSUME program \in Programs, NEW k \in Tasks
  PROVE  Ancestors[k] = {Parent(k)} \union IF Parent(k) \in Tasks THEN Ancestors[Parent(k)] ELSE {}
<1> DEFINE Above(f, j) == {Parent(j)} \union IF Parent(j) \in Tasks THEN f[Parent(j)] ELSE {}
           Upto(n) == \E f : f = [j \in 1 .. n |-> Above(f, j)]
           Bad == {n \in 0 .. NTasks : ~ Upto(n)}
<1>0. NTasks \in Nat
  BY ProgramsAssumption
<1>1. Bad = {}
  <2> SUFFICES ASSUME Bad # {} PROVE FALSE
    OBVIOUS
  <2>1. PICK n \in Bad : \A m \in Bad : n <= m
    <3>1. Bad \in SUBSET Nat
      BY <1>0
    <3> HIDE DEF Bad
    <3> QED BY <3>1, LeastNumber
  <2>2. n # 0
    <3>1. [j \in 1 .. 0 |-> {}] = [j \in 1 .. 0 |-> Above([i \in 1 .. 0 |-> {}], j)]
      OBVIOUS
    <3>2. Upto(0)
      BY <3>1
    <3> QED BY <2>1, <3>2
  <2>3. n \in Tasks /\ n - 1 \in 0 .. NTasks /\ n - 1 \notin Bad
    <3>1. n \in 0 .. NTasks
      BY <2>1
    <3> HIDE DEF Bad
    <3> QED BY <1>0, <2>1, <2>2, <3>1 DEF Tasks
  <2>4. PICK f : f = [j \in 1 .. n - 1 |-> Above(f, j)]
    BY <2>3
  <2> DEFINE g == [j \in 1 .. n |-> IF j < n THEN f[j] ELSE Above(f, n)]
  <2>5. \A j \in 1 .. n : g[j] = Above(g, j)
    <3> SUFFICES ASSUME NEW j \in 1 .. n PROVE g[j] = Above(g, j)
      OBVIOUS
    <3>1. j \in Tasks /\ n \in Nat /\ j \in Nat /\ j <= n
      BY <1>0, <2>3 DEF Tasks
    <3>2. Parent(j) \in Tasks => Parent(j) \in 1 .. n /\ Parent(j) < n /\ Parent(j) < j
      BY <3>1, Parents DEF Tasks
    <3>3. Above(g, j) = Above(f, j)
      BY <3>2
    <3>4. CASE j < n
      <4>1. j \in 1 .. n - 1
        BY <3>1, <3>4
      <4>2. f[j] = Above(f, j)
        BY <2>4, <4>1
      <4> QED BY <3>3, <3>4, <4>2
    <3>5. CASE j = n
      BY <3>3, <3>5, <3>1
    <3>6. j < n \/ j = n
      BY <3>1
    <3> QED BY <3>4, <3>5, <3>6
  <2>6. g = [j \in 1 .. n |-> Above(g, j)]
    BY <2>5
  <2> QED BY <2>1, <2>6
<1>2. Upto(NTasks)
  <2>1. NTasks \in 0 .. NTasks
    BY <1>0
  <2>2. NTasks \notin Bad => Upto(NTasks)
    BY <2>1
  <2> QED BY <1>1, <2>2
<1>3. Ancestors = [j \in Tasks |-> Above(Ancestors, j)]
  BY <1>2 DEF Ancestors, Tasks
<1> QED BY <1>3

LEMMA AncestorsTransitive ==
  ASSUME program \in Programs, NEW i \in Tasks, NEW j \in Tasks, NEW k \in Tasks,
         i \in Ancestors[j], j \in Ancestors[k]
  PROVE  i \in Ancestors[k]
<1> DEFINE Bad == {n \in Tasks : j \in Ancestors[n] /\ i \notin Ancestors[n]}
<1>1. SUFFICES Bad = {}
  OBVIOUS
<1> SUFFICES ASSUME Bad # {} PROVE FALSE
  OBVIOUS
<1>2. PICK n \in Bad : \A l \in Bad : n <= l
  <2>1. Bad \in SUBSET Nat
    BY Parents
  <2> HIDE DEF Bad
  <2> QED BY <2>1, LeastNumber
<1>3. CASE Parent(n) = j
  BY <1>2, <1>3, AncestorsOf
<1>4. CASE Parent(n) # j
  <2>1. Parent(n) \in Tasks /\ j \in Ancestors[Parent(n)] /\ i \notin Ancestors[Parent(n)]
    BY <1>2, <1>4, AncestorsOf
  <2>2. Parent(n) < n /\ Parent(n) \in Nat /\ n \in Nat
    BY <1>2, <2>1, Parents
  <2> QED BY <1>2, <2>1, <2>2
<1> QED BY <1>3, <1>4

-------------------------------------------------------------------------------
(* The deques as rings of slots. *)

\* How many tasks are in the deque; a thief writes its count last.
Size(v) == IF lock[v] = "free" THEN ntasks[v] ELSE ntasks[v] - 1
At(v, i) == deque[v][Slot(v, i)]

\* The tail is where the tasks end, and there are never too many.
RingOf(v) ==
  /\ ntasks[v] <= DequeSize
  /\ lock[v] # "free" => ntasks[v] > 0
  /\ tail[v] = Wrap(head[v] + Size(v))
Ring == \A v \in Threads : RingOf(v)

Distinct(v) == \A i, j \in 0 .. Size(v) - 1 : At(v, i) = At(v, j) => i = j

LEMMA Wrapped ==
  /\ DequeSize \in Nat \ {0} /\ Slots = 0 .. DequeSize - 1
  /\ \A i \in 0 .. DequeSize - 1 : Wrap(i) = i
  /\ \A i \in DequeSize .. 2 * DequeSize - 1 : Wrap(i) = i - DequeSize
BY DequeAssumption DEF Wrap, Slots

LEMMA Sizes ==
  ASSUME DequeShape, Ring, NEW v \in Threads
  PROVE  /\ ntasks[v] \in 0 .. DequeSize /\ Size(v) \in 0 .. DequeSize
         /\ head[v] \in 0 .. DequeSize - 1 /\ tail[v] \in 0 .. DequeSize - 1
BY Wrapped DEF DequeShape, Ring, RingOf, Size

\* The queue as a set, and what it means that it holds nothing twice.
QueueIs(v) ==
  Size(v) \in Nat =>
    /\ Waiting(v) = {At(v, i) : i \in 0 .. Size(v) - 1}
    /\ IsInjective(Queued(v)) <=> Distinct(v)

LEMMA QueueAsSet == ASSUME NEW v \in Threads PROVE QueueIs(v)
<1> SUFFICES ASSUME Size(v) \in Nat
             PROVE  /\ Waiting(v) = {At(v, i) : i \in 0 .. Size(v) - 1}
                    /\ IsInjective(Queued(v)) <=> Distinct(v)
  BY DEF QueueIs
<1>1. Queued(v) = [i \in 1 .. Size(v) |-> At(v, i - 1)]
  BY DEF Queued, Size, At
<1> DEFINE n == Size(v)
<1> HIDE DEF n
<1>2. /\ \A i \in 0 .. n - 1 : i + 1 \in 1 .. n /\ (i + 1) - 1 = i
      /\ \A i \in 1 .. n : i - 1 \in 0 .. n - 1 /\ (i - 1) + 1 = i
      /\ n \in Nat
  BY DEF n
<1>3. /\ DOMAIN Queued(v) = 1 .. n
      /\ \A i \in 1 .. n : Queued(v)[i] = At(v, i - 1)
      /\ \A i \in 0 .. n - 1 : Queued(v)[i + 1] = At(v, i)
  BY <1>1, <1>2 DEF n
<1>4. Waiting(v) = {At(v, i) : i \in 0 .. n - 1}
  <2>1. Waiting(v) = {Queued(v)[i] : i \in 1 .. n}
    BY <1>3 DEF Waiting
  <2>2. \A i \in 1 .. n : Queued(v)[i] \in {At(v, j) : j \in 0 .. n - 1}
    BY <1>2, <1>3
  <2>3. \A j \in 0 .. n - 1 : At(v, j) \in {Queued(v)[i] : i \in 1 .. n}
    BY <1>2, <1>3
  <2> QED BY <2>1, <2>2, <2>3
<1>5. ASSUME IsInjective(Queued(v)) PROVE Distinct(v)
  <2> SUFFICES ASSUME NEW i \in 0 .. n - 1, NEW j \in 0 .. n - 1, At(v, i) = At(v, j)
               PROVE  i = j
    BY DEF Distinct, n
  <2>1. i + 1 \in DOMAIN Queued(v) /\ j + 1 \in DOMAIN Queued(v)
    BY <1>2, <1>3
  <2>2. Queued(v)[i + 1] = Queued(v)[j + 1]
    BY <1>3
  <2>3. i + 1 = j + 1
    BY <1>5, <2>1, <2>2 DEF IsInjective
  <2> QED BY <2>3
<1>6. ASSUME Distinct(v) PROVE IsInjective(Queued(v))
  <2> SUFFICES ASSUME NEW i \in 1 .. n, NEW j \in 1 .. n, Queued(v)[i] = Queued(v)[j]
               PROVE  i = j
    BY <1>3 DEF IsInjective
  <2>1. i - 1 = j - 1
    BY <1>2, <1>3, <1>6 DEF Distinct, n
  <2> QED BY <2>1
<1> QED BY <1>4, <1>5, <1>6 DEF n

LEMMA QueueAsSetNext == ASSUME NEW v \in Threads PROVE QueueIs(v)'
BY QueueAsSet, PTL

\* The tasks after number i close up.
Closed(v, i) ==
  /\ Size(v)' = Size(v) - 1
  /\ \A j \in 0 .. Size(v) - 2 : At(v, j)' = IF j < i THEN At(v, j) ELSE At(v, j + 1)

LEMMA CloseQueue ==
  ASSUME NEW v \in Threads, Size(v) \in Nat, Distinct(v), NEW i \in 0 .. Size(v) - 1, Closed(v, i)
  PROVE  Distinct(v)' /\ Waiting(v)' = Waiting(v) \ {At(v, i)} /\ At(v, i) \in Waiting(v)
<1> DEFINE n == Size(v)
           from(j) == IF j < i THEN j ELSE j + 1
<1>1. /\ n \in Nat \ {0} /\ i \in 0 .. n - 1 /\ Size(v)' = n - 1
      /\ \A j \in 0 .. (n - 1) - 1 : At(v, j)' = At(v, from(j))
  BY DEF Closed
<1>2. /\ Waiting(v) = {At(v, j) : j \in 0 .. n - 1}
      /\ Waiting(v)' = {At(v, j)' : j \in 0 .. (n - 1) - 1}
  BY <1>1, QueueAsSet, QueueAsSetNext DEF QueueIs
<1>3. \A j, l \in 0 .. n - 1 : At(v, j) = At(v, l) => j = l
  BY DEF Distinct
<1> HIDE DEF n
<1>4. /\ \A j \in 0 .. (n - 1) - 1 : from(j) \in (0 .. n - 1) \ {i}
      /\ \A j, l \in 0 .. (n - 1) - 1 : from(j) = from(l) => j = l
      /\ \A l \in (0 .. n - 1) \ {i} : \E j \in 0 .. (n - 1) - 1 : from(j) = l
  <2>1. ASSUME NEW l \in (0 .. n - 1) \ {i} PROVE \E j \in 0 .. (n - 1) - 1 : from(j) = l
    <3>1. CASE l < i
      BY <1>1, <3>1
    <3>2. CASE l > i
      <4>1. l - 1 \in 0 .. (n - 1) - 1 /\ from(l - 1) = l
        BY <1>1, <3>2
      <4> QED BY <4>1
    <3> QED BY <1>1, <3>1, <3>2
  <2> QED BY <1>1, <2>1
<1> HIDE DEF from
<1>5. Distinct(v)'
  <2>1. \A j, l \in 0 .. (n - 1) - 1 : At(v, j)' = At(v, l)' => j = l
    BY <1>1, <1>3, <1>4
  <2> QED BY <1>1, <2>1 DEF Distinct
<1>6. Waiting(v)' = {At(v, l) : l \in (0 .. n - 1) \ {i}}
  BY <1>1, <1>2, <1>4
<1>7. {At(v, l) : l \in (0 .. n - 1) \ {i}} = Waiting(v) \ {At(v, i)}
  BY <1>1, <1>2, <1>3
<1> QED BY <1>1, <1>2, <1>5, <1>6, <1>7

LEMMA ExtendQueue ==
  ASSUME NEW v \in Threads, NEW n \in Nat, Size(v) = n, Distinct(v), NEW k, k \notin Waiting(v),
         Size(v)' = n + 1, \A j \in 0 .. n - 1 : At(v, j)' = At(v, j), At(v, n)' = k
  PROVE  Distinct(v)' /\ Waiting(v)' = Waiting(v) \union {k}
<1>1. /\ Waiting(v) = {At(v, j) : j \in 0 .. n - 1}
      /\ Waiting(v)' = {At(v, j)' : j \in 0 .. (n + 1) - 1}
  BY QueueAsSet, QueueAsSetNext DEF QueueIs
<1>2. 0 .. (n + 1) - 1 = (0 .. n - 1) \union {n}
  OBVIOUS
<1>3. Waiting(v)' = Waiting(v) \union {k}
  BY <1>1, <1>2
<1>4. \A j, l \in (0 .. n - 1) \union {n} : At(v, j)' = At(v, l)' => j = l
  BY <1>1 DEF Distinct
<1> QED BY <1>2, <1>3, <1>4 DEF Distinct

\* A deque that is left alone, but for its lock.
SameQueue(v) ==
  /\ deque'[v] = deque[v] /\ head'[v] = head[v] /\ tail'[v] = tail[v]
  /\ Size(v)' = Size(v) /\ ntasks'[v] <= DequeSize
  /\ lock'[v] # "free" => ntasks'[v] > 0

LEMMA KeepQueue ==
  ASSUME DequeShape, Ring, NEW v \in Threads, SameQueue(v)
  PROVE  RingOf(v)' /\ (Distinct(v)' <=> Distinct(v)) /\ Waiting(v)' = Waiting(v)
<1>1. RingOf(v)'
  BY DEF SameQueue, Ring, RingOf, Wrap
<1>2. \A i : At(v, i)' = At(v, i)
  BY DEF SameQueue, At, Slot, Wrap
<1>3. Size(v) \in Nat /\ Size(v)' = Size(v)
  BY Sizes DEF SameQueue
<1>4. Distinct(v)' <=> Distinct(v)
  BY <1>2, <1>3 DEF Distinct
<1>5. /\ Waiting(v) = {At(v, j) : j \in 0 .. Size(v) - 1}
      /\ Waiting(v)' = {At(v, j)' : j \in 0 .. Size(v)' - 1}
  BY <1>3, QueueAsSet, QueueAsSetNext DEF QueueIs
<1>6. Waiting(v)' = Waiting(v)
  BY <1>2, <1>3, <1>5
<1> QED BY <1>1, <1>4, <1>6

\* The steps of head and tail around the ring.
LEMMA RingSteps ==
  ASSUME DequeShape, Ring, NEW v \in Threads
  PROVE  /\ \A i, j \in 0 .. DequeSize - 1 : Slot(v, i) = Slot(v, j) => i = j
         /\ \A i \in 0 .. DequeSize - 1 : Slot(v, i) \in Slots
         /\ \A i \in 0 .. DequeSize - 2 : /\ Wrap(Slot(v, i) + 1) = Slot(v, i + 1)
                                          /\ Wrap(Wrap(head[v] + 1) + i) = Slot(v, i + 1)
         /\ Size(v) < DequeSize => Wrap(tail[v] + 1) = Wrap(head[v] + (Size(v) + 1))
         /\ Size(v) < DequeSize => tail[v] = Slot(v, Size(v))
         /\ Size(v) > 0 => /\ Wrap(tail[v] + DequeSize - 1) = Wrap(head[v] + (Size(v) - 1))
                           /\ Wrap(Wrap(head[v] + 1) + (Size(v) - 1)) = tail[v]
<1> DEFINE N == DequeSize
           h == head[v]
           n == Size(v)
           W(i) == IF i < N THEN i ELSE i - N
<1>1. /\ N \in Nat \ {0} /\ h \in 0 .. N - 1 /\ n \in 0 .. N /\ tail[v] = Wrap(h + n)
      /\ Slots = 0 .. N - 1
  BY Wrapped, Sizes DEF Ring, RingOf
<1>2. /\ \A i \in 0 .. 2 * N - 1 : Wrap(i) = W(i)
      /\ \A i \in 0 .. N : Slot(v, i) = Wrap(h + i)
  BY Wrapped DEF Slot
<1> HIDE DEF N, h, n
<1>3. \A i \in 0 .. N - 1 : Wrap(h + i) = W(h + i) /\ W(h + i) \in 0 .. N - 1
  BY <1>1, <1>2
<1>4. \A i, j \in 0 .. N - 1 : Wrap(h + i) = Wrap(h + j) => i = j
  BY <1>1, <1>3
<1>5. Wrap(h + N) = h /\ Wrap(h) = h /\ Wrap(h + 1) = W(h + 1)
  BY <1>1, <1>2
<1>6. \A i \in 0 .. N - 1 : Wrap(W(h + i) + 1) = Wrap(h + (i + 1))
  BY <1>1, <1>2, <1>5
<1>7. \A i \in 0 .. N - 1 : Wrap(W(h + 1) + i) = Wrap(h + (i + 1))
  BY <1>1, <1>2, <1>5
<1>8. n < N => Wrap(tail[v] + 1) = Wrap(h + (n + 1))
  <2> SUFFICES ASSUME n < N PROVE Wrap(tail[v] + 1) = Wrap(h + (n + 1))
    OBVIOUS
  <2>1. n \in 0 .. N - 1
    BY <1>1
  <2>2. tail[v] = W(h + n) /\ Wrap(W(h + n) + 1) = Wrap(h + (n + 1))
    BY <1>1, <1>3, <1>6, <2>1
  <2> QED BY <2>2
<1>9. n > 0 => /\ Wrap(tail[v] + N - 1) = Wrap(h + (n - 1))
               /\ Wrap(W(h + 1) + (n - 1)) = tail[v]
  BY <1>1, <1>2, <1>5, <1>7
<1>10. \A i \in 0 .. N - 2 : i \in 0 .. N - 1 /\ i + 1 \in 0 .. N /\ i \in 0 .. N
  BY <1>1
<1>11. \A i \in 0 .. N - 1 : i \in 0 .. N
  BY <1>1
<1> HIDE DEF W
<1>12. \A i, j \in 0 .. N - 1 : Slot(v, i) = Slot(v, j) => i = j
  BY <1>2, <1>4, <1>11
<1>13. \A i \in 0 .. N - 1 : Slot(v, i) \in Slots
  BY <1>1, <1>2, <1>3, <1>11
<1>14. \A i \in 0 .. N - 2 : /\ Wrap(Slot(v, i) + 1) = Slot(v, i + 1)
                             /\ Wrap(Wrap(h + 1) + i) = Slot(v, i + 1)
  BY <1>2, <1>3, <1>5, <1>6, <1>7, <1>10
<1>15. n < N => tail[v] = Slot(v, n)
  BY <1>1, <1>2
<1> QED BY <1>5, <1>8, <1>9, <1>12, <1>13, <1>14, <1>15 DEF N, h, n

LEMMA PushQueue ==
  ASSUME DequeShape, Ring, NEW v \in Threads, NEW k, Push(v, k), UNCHANGED lock,
         lock[v] = "free", ntasks[v] < DequeSize, NEW n, n = Size(v)
  PROVE  /\ RingOf(v)' /\ Size(v)' = n + 1
         /\ \A j \in 0 .. n - 1 : At(v, j)' = At(v, j)
         /\ At(v, n)' = k
         /\ \A u \in Threads \ {v} : SameQueue(u)
<1>1. /\ n = ntasks[v] /\ n \in Nat /\ n < DequeSize /\ DequeSize \in Nat
      /\ \A u \in Threads : ntasks[u] <= DequeSize /\ (lock[u] # "free" => ntasks[u] > 0)
  BY Sizes, Wrapped DEF Size, Ring, RingOf
<1>2. /\ deque' = [deque EXCEPT ![v][tail[v]] = k]
      /\ tail' = [tail EXCEPT ![v] = Wrap(tail[v] + 1)]
      /\ ntasks' = [ntasks EXCEPT ![v] = n + 1] /\ head' = head /\ lock' = lock
  BY <1>1 DEF Push
<1>3. /\ tail[v] = Slot(v, n) /\ tail[v] \in Slots /\ Wrap(tail[v] + 1) = Wrap(head[v] + (n + 1))
      /\ \A j \in 0 .. n - 1 : Slot(v, j) \in Slots /\ Slot(v, j) # Slot(v, n)
  <2>1. /\ n \in 0 .. DequeSize - 1
        /\ \A j \in 0 .. n - 1 : j \in 0 .. DequeSize - 1 /\ j # n
    BY <1>1
  <2>2. tail[v] = Slot(v, n) /\ Wrap(tail[v] + 1) = Wrap(head[v] + (n + 1))
    BY <1>1, RingSteps
  <2>3. Slot(v, n) \in Slots /\ \A j \in 0 .. n - 1 : Slot(v, j) \in Slots
    BY <2>1, RingSteps
  <2>4. \A j \in 0 .. n - 1 : Slot(v, j) # Slot(v, n)
    BY <2>1, RingSteps
  <2> QED BY <2>2, <2>3, <2>4
<1>4. /\ ntasks'[v] = n + 1 /\ Size(v)' = n + 1 /\ head'[v] = head[v] /\ lock'[v] = "free"
      /\ tail'[v] = Wrap(tail[v] + 1)
      /\ \A s \in Slots : deque'[v][s] = IF s = tail[v] THEN k ELSE deque[v][s]
  BY <1>1, <1>2 DEF DequeShape, Size
<1>5. RingOf(v)'
  BY <1>1, <1>3, <1>4 DEF RingOf, Wrap
<1>6. \A j : At(v, j)' = deque'[v][Slot(v, j)]
  BY <1>4 DEF At, Slot, Wrap
<1>7. \A u \in Threads \ {v} : SameQueue(u)
  BY <1>1, <1>2 DEF SameQueue, Size, DequeShape
<1> QED BY <1>3, <1>4, <1>5, <1>6, <1>7 DEF At

\* Taking the task at the tail.
LEMMA PopQueue ==
  ASSUME DequeShape, Ring, NEW v \in Threads, Pop(v), UNCHANGED lock,
         lock[v] = "free", ntasks[v] > 0, NEW i, i = Size(v) - 1
  PROVE  /\ RingOf(v)' /\ i \in 0 .. Size(v) - 1 /\ TailTask(v) = At(v, i) /\ Closed(v, i)
         /\ \A u \in Threads \ {v} : SameQueue(u)
<1>1. /\ Size(v) = ntasks[v] /\ ntasks[v] \in 1 .. DequeSize /\ DequeSize \in Nat /\ i = ntasks[v] - 1
      /\ \A u \in Threads : ntasks[u] <= DequeSize /\ (lock[u] # "free" => ntasks[u] > 0)
  BY Sizes, Wrapped DEF Size, Ring, RingOf
<1>2. /\ deque' = deque /\ head' = head /\ lock' = lock
      /\ tail' = [tail EXCEPT ![v] = Wrap(tail[v] + DequeSize - 1)]
      /\ ntasks' = [ntasks EXCEPT ![v] = i]
  BY <1>1 DEF Pop
<1>3. Wrap(tail[v] + DequeSize - 1) = Wrap(head[v] + i)
  BY <1>1, RingSteps
<1>4. ntasks'[v] = i /\ Size(v)' = i /\ tail'[v] = Wrap(head[v] + i) /\ lock'[v] = "free"
  BY <1>1, <1>2, <1>3 DEF DequeShape, Size
<1>5. RingOf(v)'
  BY <1>1, <1>2, <1>4 DEF RingOf, Wrap
<1>6. \A j : At(v, j)' = At(v, j)
  BY <1>2 DEF At, Slot, Wrap
<1>7. TailTask(v) = At(v, i)
  BY <1>3 DEF TailTask, At, Slot
<1>8. Closed(v, i)
  BY <1>1, <1>4, <1>6 DEF Closed
<1>9. \A u \in Threads \ {v} : SameQueue(u)
  BY <1>1, <1>2 DEF SameQueue, Size, DequeShape
<1> QED BY <1>1, <1>5, <1>7, <1>8, <1>9

\* Taking task number i while the lock is held.
LEMMA TakeQueue ==
  ASSUME DequeShape, Ring, NEW v \in Threads, NEW i \in 0 .. ntasks[v] - 1, Take(v, i),
         lock[v] = "free", NEW t \in Threads, lock' = [lock EXCEPT ![v] = t],
         lock \in [Threads -> Threads \union {"free"}]
  PROVE  /\ RingOf(v)' /\ i \in 0 .. Size(v) - 1 /\ Closed(v, i)
         /\ \A u \in Threads \ {v} : SameQueue(u)
<1> DEFINE n == ntasks[v]
<1>1. /\ Size(v) = n /\ n \in 1 .. DequeSize /\ DequeSize \in Nat \ {0} /\ i \in 0 .. n - 1
      /\ \A u \in Threads : ntasks[u] <= DequeSize /\ (lock[u] # "free" => ntasks[u] > 0)
  BY Sizes, Wrapped DEF Size, Ring, RingOf
<1>2. /\ ntasks' = ntasks /\ lock'[v] # "free" /\ Size(v)' = n - 1
      /\ \A u \in Threads \ {v} : lock'[u] = lock[u]
  BY ThreadsAssumption DEF Take, Size
<1> HIDE DEF n
<1>3. CASE i = 0
  <2>1. head' = [head EXCEPT ![v] = Wrap(head[v] + 1)] /\ deque' = deque /\ tail' = tail
    BY <1>3 DEF Take
  <2>2. head'[v] = Wrap(head[v] + 1)
    BY <2>1 DEF DequeShape
  <2>3. \A j \in 0 .. n - 2 : At(v, j)' = At(v, j + 1)
    <3> SUFFICES ASSUME NEW j \in 0 .. n - 2 PROVE At(v, j)' = At(v, j + 1)
      OBVIOUS
    <3>1. At(v, j)' = deque[v][Wrap(Wrap(head[v] + 1) + j)]
      BY <2>1, <2>2 DEF At, Slot, Wrap
    <3>2. j \in 0 .. DequeSize - 2
      BY <1>1
    <3> QED BY <3>1, <3>2, RingSteps DEF At
  <2>4. Closed(v, i)
    BY <1>1, <1>2, <1>3, <2>3 DEF Closed
  <2>5. tail'[v] = Wrap(head'[v] + (n - 1))
    BY <1>1, <2>1, <2>2, RingSteps
  <2>6. RingOf(v)'
    BY <1>1, <1>2, <2>5 DEF RingOf, Wrap, n
  <2>7. \A u \in Threads \ {v} : SameQueue(u)
    BY <1>1, <1>2, <2>1 DEF SameQueue, Size, DequeShape
  <2> QED BY <1>1, <2>4, <2>6, <2>7
<1>4. CASE i # 0
  <2>1. /\ head' = head /\ deque' = [deque EXCEPT ![v] = Shifted(v, i)]
        /\ tail' = [tail EXCEPT ![v] = Wrap(tail[v] + DequeSize - 1)]
    BY <1>4 DEF Take
  <2>2. deque'[v] = Shifted(v, i) /\ tail'[v] = Wrap(tail[v] + DequeSize - 1) /\ head'[v] = head[v]
    BY <2>1 DEF DequeShape
  <2>3. \A j \in 0 .. n - 2 : At(v, j)' = IF j < i THEN At(v, j) ELSE At(v, j + 1)
    <3> SUFFICES ASSUME NEW j \in 0 .. n - 2
                 PROVE  At(v, j)' = IF j < i THEN At(v, j) ELSE At(v, j + 1)
      OBVIOUS
    <3>1. At(v, j)' = Shifted(v, i)[Slot(v, j)]
      BY <2>2 DEF At, Slot, Wrap
    <3>2. j \in 0 .. DequeSize - 2 /\ j \in 0 .. DequeSize - 1
      BY <1>1
    <3>3. Slot(v, j) \in Slots /\ Wrap(Slot(v, j) + 1) = Slot(v, j + 1)
      BY <3>2, RingSteps
    <3>4. (\E l \in i .. n - 2 : Slot(v, j) = Slot(v, l)) <=> ~ (j < i)
      <4>1. \A l \in i .. n - 2 : l \in 0 .. DequeSize - 1
        BY <1>1
      <4>2. \A l \in i .. n - 2 : Slot(v, j) = Slot(v, l) => j = l
        BY <3>2, <4>1, RingSteps
      <4>3. ~ (j < i) => j \in i .. n - 2
        BY <1>1
      <4>4. \A l \in i .. n - 2 : ~ (l < i)
        BY <1>1
      <4> QED BY <4>2, <4>3, <4>4
    <3> QED BY <3>1, <3>3, <3>4 DEF Shifted, At, n
  <2>4. Closed(v, i)
    BY <1>1, <1>2, <2>3 DEF Closed
  <2>5. tail'[v] = Wrap(head'[v] + (n - 1))
    BY <1>1, <2>2, RingSteps
  <2>6. RingOf(v)'
    BY <1>1, <1>2, <2>5 DEF RingOf, Wrap, n
  <2>7. \A u \in Threads \ {v} : SameQueue(u)
    BY <1>1, <1>2, <2>1 DEF SameQueue, Size, DequeShape
  <2> QED BY <1>1, <2>4, <2>6, <2>7
<1> QED BY <1>3, <1>4

-------------------------------------------------------------------------------
(* Where the tasks are: each of those begun or to begin at one place. *)

Elements(q) == {q[i] : i \in DOMAIN q}

LEMMA AppendElements ==
  ASSUME NEW S, NEW q \in Seq(S), NEW x \in S
  PROVE  /\ Elements(Append(q, x)) = Elements(q) \union {x}
         /\ IsInjective(q) /\ x \notin Elements(q) => IsInjective(Append(q, x))
<1> DEFINE n == Len(q)
<1>1. /\ n \in Nat /\ DOMAIN q = 1 .. n /\ DOMAIN Append(q, x) = 1 .. n + 1
      /\ \A i \in 1 .. n : Append(q, x)[i] = q[i]
      /\ Append(q, x)[n + 1] = x
  BY AppendProperties, LenProperties
<1> HIDE DEF n
<1>2. 1 .. n + 1 = (1 .. n) \union {n + 1}
  BY <1>1
<1>3. Elements(Append(q, x)) = Elements(q) \union {x}
  BY <1>1, <1>2 DEF Elements
<1>4. ASSUME IsInjective(q), x \notin Elements(q) PROVE IsInjective(Append(q, x))
  BY <1>1, <1>2, <1>4 DEF Elements, IsInjective
<1> QED BY <1>3, <1>4

LEMMA FrontElements ==
  ASSUME NEW S, NEW q \in Seq(S), q # <<>>
  PROVE  /\ Last(q) \in Elements(q) /\ Last(q) = q[Len(q)] /\ Len(q) \in Nat \ {0}
         /\ DOMAIN q = 1 .. Len(q)
         /\ Front(q) \in Seq(S) /\ DOMAIN Front(q) = 1 .. Len(q) - 1 /\ Len(Front(q)) = Len(q) - 1
         /\ \A i \in 1 .. Len(q) - 1 : Front(q)[i] = q[i]
         /\ IsInjective(q) => /\ Elements(Front(q)) = Elements(q) \ {Last(q)}
                              /\ IsInjective(Front(q))
<1> DEFINE n == Len(q)
<1>1. n \in Nat \ {0} /\ DOMAIN q = 1 .. n /\ \A i \in 1 .. n : q[i] \in S
  BY LenProperties, EmptySeq, ElementOfSeq
<1>2. Front(q) = SubSeq(q, 1, n - 1) /\ n - 1 \in Int /\ \A i \in 1 .. n - 1 : q[i] \in S
  BY <1>1 DEF Front
<1>3. /\ Front(q) \in Seq(S) /\ Len(Front(q)) = n - 1
      /\ \A i \in 1 .. n - 1 : Front(q)[i] = q[i]
  <2>1. /\ SubSeq(q, 1, n - 1) \in Seq(S)
        /\ Len(SubSeq(q, 1, n - 1)) = IF 1 <= n - 1 THEN (n - 1) - 1 + 1 ELSE 0
        /\ \A i \in 1 .. (n - 1) - 1 + 1 : SubSeq(q, 1, n - 1)[i] = q[1 + i - 1]
    BY <1>2, SubSeqProperties
  <2> HIDE DEF n
  <2>2. /\ (n - 1) - 1 + 1 = n - 1 /\ (~ (1 <= n - 1) => n - 1 = 0)
        /\ \A i \in 1 .. n - 1 : 1 + i - 1 = i
    BY <1>1
  <2> QED BY <1>2, <2>1, <2>2
<1>4. DOMAIN Front(q) = 1 .. n - 1
  BY <1>3, LenProperties
<1>5. Last(q) = q[n]
  BY DEF Last
<1> HIDE DEF n
<1>6. 1 .. n = (1 .. n - 1) \union {n} /\ n \notin 1 .. n - 1
  BY <1>1
<1>7. ASSUME IsInjective(q)
      PROVE  Elements(Front(q)) = Elements(q) \ {Last(q)} /\ IsInjective(Front(q))
  BY <1>1, <1>3, <1>4, <1>5, <1>6, <1>7 DEF Elements, IsInjective
<1> QED BY <1>1, <1>3, <1>4, <1>5, <1>6, <1>7 DEF Elements, n

Kinds == {"queued", "stolen", "begun"}
In(c, t) == CASE c = "queued" -> Waiting(t) [] c = "stolen" -> Stolen(t) [] c = "begun" -> Begun(t)

Placed == \A c \in Kinds, t \in Threads : In(c, t) \subseteq created
Apart ==
  \A c, d \in Kinds, t, u \in Threads : c # d \/ t # u => In(c, t) \cap In(d, u) = {}
Children(p) == {k \in Live : Parent(k) = p}
Tallied ==
  /\ incomplete \in [Threads \union Tasks -> Nat]
  /\ \A p \in Threads \union Tasks : incomplete[p] = Cardinality(Children(p))

\* A thief that has left the deque holds the task it took.
Holding ==
  \A t \in Threads : IF pc[t] = "taken" THEN held[t].task \in Tasks ELSE held[t].task = 0
Injective == \A t \in Threads : Distinct(t) /\ IsInjective(stack[t])

Accounts ==
  /\ program \in Programs
  /\ Ring /\ Holding /\ Injective /\ Placed /\ Apart /\ Tallied

\* The live tasks are those at some place.
PlacesAre ==
  /\ \A k : k \in Live <=> \E c \in Kinds, t \in Threads : k \in In(c, t)
  /\ \A t \in Threads : In("queued", t) = Waiting(t) /\ In("stolen", t) = Stolen(t)
                        /\ In("begun", t) = Begun(t) /\ Begun(t) = Elements(stack[t])

LEMMA Places == PlacesAre /\ PlacesAre'
<1>1. PlacesAre
  BY DEF PlacesAre, Live, In, Kinds, Begun, Elements
<1> QED BY <1>1, PTL

\* The task k goes from one place to another.
Carried(k, c, t, d, u) ==
  \A e \in Kinds, w \in Threads :
    In(e, w)' = IF e = c /\ w = t THEN In(e, w) \ {k}
                ELSE IF e = d /\ w = u THEN In(e, w) \union {k} ELSE In(e, w)

LEMMA Carry ==
  ASSUME Placed, Apart, Tallied, NEW c \in Kinds, NEW t \in Threads, NEW d \in Kinds,
         NEW u \in Threads, NEW k \in In(c, t), c # d \/ t # u, Carried(k, c, t, d, u),
         UNCHANGED <<program, created, incomplete>>
  PROVE  Placed' /\ Apart' /\ Tallied' /\ Live' = Live
<1>1. \A e \in Kinds, w \in Threads :
        In(e, w)' = IF e = c /\ w = t THEN In(e, w) \ {k}
                    ELSE IF e = d /\ w = u THEN In(e, w) \union {k} ELSE In(e, w)
  BY DEF Carried
<1>2. Placed'
  BY <1>1 DEF Placed
<1>3. Apart'
  BY <1>1 DEF Apart
<1>4. Live' = Live
  <2>1. \A j : j \in Live <=> \E e \in Kinds, w \in Threads : j \in In(e, w)
    BY Places DEF PlacesAre
  <2>2. \A j : j \in Live' <=> \E e \in Kinds, w \in Threads : j \in In(e, w)'
    BY Places DEF PlacesAre
  <2>3. \A j : (\E e \in Kinds, w \in Threads : j \in In(e, w)')
               <=> (\E e \in Kinds, w \in Threads : j \in In(e, w))
    BY <1>1
  <2> QED BY <2>1, <2>2, <2>3
<1>5. Tallied'
  BY <1>4 DEF Tallied, Children, Parent
<1> QED BY <1>2, <1>3, <1>4, <1>5

\* Nothing moves.
LEMMA Rest ==
  ASSUME Placed, Apart, Tallied, \A e \in Kinds, w \in Threads : In(e, w)' = In(e, w),
         UNCHANGED <<program, created, incomplete>>
  PROVE  Placed' /\ Apart' /\ Tallied' /\ Live' = Live
<1>1. Placed' /\ Apart'
  BY DEF Placed, Apart
<1>2. Live' = Live
  <2>1. \A j : j \in Live <=> \E e \in Kinds, w \in Threads : j \in In(e, w)
    BY Places DEF PlacesAre
  <2>2. \A j : j \in Live' <=> \E e \in Kinds, w \in Threads : j \in In(e, w)'
    BY Places DEF PlacesAre
  <2>3. \A j : j \in Live' <=> j \in Live
    BY <2>1, <2>2
  <2> HIDE DEF Live
  <2> QED BY <2>3
<1>3. Tallied'
  BY <1>2 DEF Tallied, Children, Parent
<1> QED BY <1>1, <1>2, <1>3

LEMMA FewChildren ==
  ASSUME Shape, Placed, program \in Programs, NEW p
  PROVE  IsFiniteSet(Children(p)) /\ Live \subseteq created /\ created \subseteq Tasks
<1>1. Live \subseteq created /\ created \subseteq Tasks
  BY Places DEF PlacesAre, Placed, Shape
<1>2. IsFiniteSet(Tasks)
  BY ProgramsAssumption, FS_Interval DEF Tasks
<1>3. Children(p) \subseteq Tasks
  BY <1>1 DEF Children
<1> QED BY <1>1, <1>2, <1>3, FS_Subset

\* A task that is created counts with its parent.
LEMMA Birth ==
  ASSUME Shape, Placed, Apart, Tallied, program \in Programs,
         NEW k \in Tasks \ created, NEW c \in Kinds, NEW t \in Threads,
         \A e \in Kinds, w \in Threads :
           In(e, w)' = IF e = c /\ w = t THEN In(e, w) \union {k} ELSE In(e, w),
         created' = created \union {k}, program' = program,
         incomplete' = [incomplete EXCEPT ![Parent(k)] = @ + 1]
  PROVE  Placed' /\ Apart' /\ Tallied'
<1>0. \A e \in Kinds, w \in Threads : k \notin In(e, w)
  BY DEF Placed
<1>1. Placed'
  BY DEF Placed
<1>2. Apart'
  BY <1>0 DEF Apart
<1>3. \A j : j \in Live' <=> j \in Live \union {k}
  <2>1. \A j : j \in Live <=> \E e \in Kinds, w \in Threads : j \in In(e, w)
    BY Places DEF PlacesAre
  <2>2. \A j : j \in Live' <=> \E e \in Kinds, w \in Threads : j \in In(e, w)'
    BY Places DEF PlacesAre
  <2> QED BY <2>1, <2>2
<1>4. k \notin Live
  BY FewChildren
<1>5. ASSUME NEW p \in Threads \union Tasks
      PROVE  incomplete'[p] = Cardinality(Children(p)') /\ incomplete'[p] \in Nat
  <2>1. Children(p)' = {j \in Live' : Parent(j) = p}
    BY DEF Children, Parent
  <2>2. CASE p = Parent(k)
    <3>1. Children(p)' = Children(p) \union {k} /\ k \notin Children(p)
      BY <1>3, <1>4, <2>1, <2>2 DEF Children
    <3>2. Cardinality(Children(p)') = Cardinality(Children(p)) + 1
      BY <3>1, FewChildren, FS_AddElement
    <3>3. incomplete'[p] = incomplete[p] + 1 /\ incomplete[p] \in Nat
      BY <2>2 DEF Tallied
    <3> QED BY <3>2, <3>3 DEF Tallied
  <2>3. CASE p # Parent(k)
    <3>1. Children(p)' = Children(p)
      BY <1>3, <2>1, <2>3 DEF Children
    <3>2. incomplete'[p] = incomplete[p] /\ incomplete[p] \in Nat
      BY <2>3 DEF Tallied
    <3> QED BY <3>1, <3>2 DEF Tallied
  <2> QED BY <2>2, <2>3
<1>6. Tallied'
  BY <1>5 DEF Tallied
<1> QED BY <1>1, <1>2, <1>6

\* A task that ends counts no more.
LEMMA Death ==
  ASSUME Shape, Placed, Apart, Tallied, program \in Programs,
         NEW c \in Kinds, NEW t \in Threads, NEW k \in In(c, t),
         \A e \in Kinds, w \in Threads :
           In(e, w)' = IF e = c /\ w = t THEN In(e, w) \ {k} ELSE In(e, w),
         created' = created, program' = program,
         incomplete' = [incomplete EXCEPT ![Parent(k)] = @ - 1]
  PROVE  Placed' /\ Apart' /\ Tallied'
<1>1. Placed'
  BY DEF Placed
<1>2. Apart'
  BY DEF Apart
<1>3. \A j : j \in Live' <=> j \in Live \ {k}
  <2>1. \A j : j \in Live <=> \E e \in Kinds, w \in Threads : j \in In(e, w)
    BY Places DEF PlacesAre
  <2>2. \A j : j \in Live' <=> \E e \in Kinds, w \in Threads : j \in In(e, w)'
    BY Places DEF PlacesAre
  <2>3. \A e \in Kinds, w \in Threads : k \in In(e, w) => e = c /\ w = t
    BY DEF Apart
  <2> QED BY <2>1, <2>2, <2>3
<1>4. k \in Live
  BY Places DEF PlacesAre
<1>5. ASSUME NEW p \in Threads \union Tasks
      PROVE  incomplete'[p] = Cardinality(Children(p)') /\ incomplete'[p] \in Nat
  <2>1. Children(p)' = {j \in Live' : Parent(j) = p}
    BY DEF Children, Parent
  <2>2. CASE p = Parent(k)
    <3>1. Children(p)' = Children(p) \ {k} /\ k \in Children(p)
      BY <1>3, <1>4, <2>1, <2>2 DEF Children
    <3>2. Cardinality(Children(p)') = Cardinality(Children(p)) - 1 /\ IsFiniteSet(Children(p)')
      BY <3>1, FewChildren, FS_RemoveElement
    <3>3. incomplete'[p] = incomplete[p] - 1 /\ incomplete[p] \in Nat
      BY <2>2 DEF Tallied
    <3> QED BY <3>2, <3>3, FS_CardinalityType DEF Tallied
  <2>3. CASE p # Parent(k)
    <3>1. Children(p)' = Children(p)
      BY <1>3, <2>1, <2>3 DEF Children
    <3>2. incomplete'[p] = incomplete[p] /\ incomplete[p] \in Nat
      BY <2>3 DEF Tallied
    <3> QED BY <3>1, <3>2 DEF Tallied
  <2> QED BY <2>2, <2>3
<1>6. Tallied'
  BY <1>5 DEF Tallied
<1> QED BY <1>1, <1>2, <1>6

-------------------------------------------------------------------------------
(* The steps, one lemma for each that moves a task. *)

\* Every task stays where it is.
Still ==
  /\ UNCHANGED <<deque, head, tail, ntasks, lock, stack, program, created, incomplete, held>>
  /\ \A u \in Threads : pc'[u] = "taken" <=> pc[u] = "taken"

LEMMA QuietIsStill ==
  ASSUME IInv, NEW t \in Threads, QuietSteps(t) \/ Starved(t)
  PROVE  Still
<1>0. Shape /\ Stages /\ "taken" \in PCs
  BY DEF IInv, Idle, PCs
<1>1. CASE Taskwait(t)
  BY <1>0, <1>1, Moves DEF Taskwait, Still, Moved, PCs, deques, tasks
<1>2. CASE Arrive(t)
  BY <1>0, <1>2, Moves DEF Arrive, Still, Moved, PCs, deques, tasks
<1>3. CASE TaskwaitDone(t)
  BY <1>0, <1>3, Moves DEF TaskwaitDone, Still, Moved, PCs, deques, tasks
<1>4. CASE GatherDone(t) \/ TeamWaitDone(t)
  BY <1>0, <1>4 DEF GatherDone, TeamWaitDone, Still, deques, tasks
<1>5. CASE Release(t)
  <2>1. pc[t] = "loop"
    BY <1>0, <1>5 DEF Release, Stages
  <2> QED BY <1>0, <1>5, <2>1, Moves DEF Release, Still, Moved, PCs, deques, tasks
<1>6. CASE Released(t)
  BY <1>0, <1>6, Moves DEF Released, Still, Moved, PCs, deques, tasks
<1>7. CASE LookForTasks(t)
  BY <1>0, <1>7, Moves DEF LookForTasks, Still, Moved, PCs, deques, tasks
<1>8. CASE Doze(t)
  BY <1>0, <1>8, Moves DEF Doze, Still, Moved, PCs, deques, tasks
<1>9. CASE Suspend(t)
  BY <1>0, <1>9, Moves DEF Suspend, Still, Moved, PCs, deques, tasks
<1>10. CASE NoTaskOfMine(t)
  BY <1>0, <1>10, Moves DEF NoTaskOfMine, Still, Moved, PCs, deques, tasks
<1>11. ASSUME NEW v \in Threads \ {t}, WakeVictim(t, v) PROVE Still
  BY <1>0, <1>11, Moves DEF WakeVictim, Still, Moved, PCs, deques, tasks
<1>12. ASSUME NEW v \in Threads \ {t}, StealFails(t, v) PROVE Still
  BY <1>0, <1>12, Moves DEF StealFails, Still, Moved, PCs, deques, tasks
<1>13. CASE Starved(t)
  BY <1>0, <1>13, Moves DEF Starved, Still, Moved, PCs, deques, tasks
<1> QED
  BY <1>1, <1>2, <1>3, <1>4, <1>5, <1>6, <1>7, <1>8, <1>9, <1>10, <1>11, <1>12, <1>13
     DEF QuietSteps

LEMMA AllKeep ==
  ASSUME IInv, Accounts, \A v \in Threads : SameQueue(v)
  PROVE  /\ Ring' /\ \A v \in Threads : Distinct(v)'
         /\ \A v \in Threads : Waiting(v)' = Waiting(v)
BY KeepQueue DEF IInv, Shape, Accounts, Ring, Injective

LEMMA SameQueues ==
  ASSUME IInv, Accounts, UNCHANGED <<deque, head, tail, ntasks, lock>>, NEW v \in Threads
  PROVE  SameQueue(v)
BY DEF Accounts, Ring, RingOf, SameQueue, Size

LEMMA StillAccounts == ASSUME IInv, Accounts, Still PROVE Accounts' /\ Live' = Live
<1>1. Ring' /\ \A v \in Threads : Distinct(v)' /\ Waiting(v)' = Waiting(v)
  BY AllKeep, SameQueues DEF Still
<1>2. Holding' /\ Injective' /\ program' \in Programs
  BY <1>1 DEF Accounts, Holding, Injective, Still
<1>3. \A e \in Kinds, w \in Threads : In(e, w)' = In(e, w)
  BY <1>1 DEF In, Still, Stolen, Begun, Kinds
<1>4. Placed' /\ Apart' /\ Tallied' /\ Live' = Live
  BY <1>3, Rest DEF Accounts, Still
<1> QED BY <1>1, <1>2, <1>4 DEF Accounts

\* t begins the task k.
LEMMA StackGrows ==
  ASSUME NEW t \in Threads, Shape, NEW k \in 0 .. NTasks, k \notin Begun(t), IsInjective(stack[t]),
         stack' = [stack EXCEPT ![t] = Append(@, k)]
  PROVE  /\ Begun(t)' = Begun(t) \union {k} /\ IsInjective(stack'[t])
         /\ \A w \in Threads \ {t} : stack'[w] = stack[w] /\ Begun(w)' = Begun(w)
<1>1. /\ stack'[t] = Append(stack[t], k) /\ stack[t] \in Seq(0 .. NTasks)
      /\ \A w \in Threads \ {t} : stack'[w] = stack[w]
  BY DEF Shape
<1>2. \A w \in Threads : Begun(w)' = Elements(stack'[w]) /\ Begun(w) = Elements(stack[w])
  BY DEF Begun, Elements
<1>3. /\ Elements(Append(stack[t], k)) = Elements(stack[t]) \union {k}
      /\ IsInjective(Append(stack[t], k))
  <2> DEFINE S == 0 .. NTasks
  <2>1. stack[t] \in Seq(S) /\ k \in S /\ k \notin Elements(stack[t])
    BY <1>1, <1>2
  <2> HIDE DEF S
  <2> QED BY <2>1, AppendElements
<1> QED BY <1>1, <1>2, <1>3

LEMMA SameHeld ==
  ASSUME UNCHANGED held, NEW w \in Threads
  PROVE  Stolen(w)' = Stolen(w)
BY DEF Stolen

LEMMA CreateAccounts == ASSUME IInv, Accounts, NEW t \in Threads, CreateTask(t) PROVE Accounts'
<1>1. PICK k \in ToCreate(t) : CreateTask(t)!(k)
  BY DEF CreateTask
<1>2. /\ pc[t] = "run" /\ k \in Tasks \ created /\ k \in 0 .. NTasks /\ Parent(k) = Current(t)
      /\ Shape /\ Placed /\ Apart /\ Tallied /\ program \in Programs
      /\ \A e \in Kinds, w \in Threads : k \notin In(e, w)
  BY <1>1 DEF ToCreate, Tasks, IInv, Accounts, Placed
<1>3. /\ lock' = lock /\ program' = program /\ held' = held /\ created' = created \union {k}
      /\ incomplete' = [incomplete EXCEPT ![Parent(k)] = @ + 1]
  BY <1>1, <1>2
<1>4. CASE ntasks[t] >= DequeSize
  <2>1. /\ stack' = [stack EXCEPT ![t] = Append(@, k)]
        /\ UNCHANGED <<deque, head, tail, ntasks, found, pc>>
    BY <1>1, <1>2, <1>4, DequeAssumption DEF Shape, DequeShape
  <2>2. Ring' /\ \A v \in Threads : Distinct(v)' /\ Waiting(v)' = Waiting(v)
    BY <1>3, <2>1, AllKeep, SameQueues
  <2>3. k \notin Begun(t) /\ IsInjective(stack[t])
    BY <1>2, Places DEF PlacesAre, Kinds, Accounts, Injective
  <2>4. /\ Begun(t)' = Begun(t) \union {k} /\ IsInjective(stack'[t])
        /\ \A w \in Threads \ {t} : stack'[w] = stack[w] /\ Begun(w)' = Begun(w)
    BY <1>2, <2>1, <2>3, StackGrows
  <2>5. Holding' /\ Injective' /\ program' \in Programs
    BY <1>2, <1>3, <2>1, <2>2, <2>4 DEF Accounts, Holding, Injective
  <2>6. \A e \in Kinds, w \in Threads :
          In(e, w)' = IF e = "begun" /\ w = t THEN In(e, w) \union {k} ELSE In(e, w)
    BY <1>3, <2>2, <2>4, SameHeld, Places DEF PlacesAre, Kinds
  <2>7. Placed' /\ Apart' /\ Tallied'
    BY <1>2, <1>3, <2>6, Birth DEF Kinds
  <2> QED BY <2>2, <2>5, <2>7 DEF Accounts
<1>5. ntasks[t] \in Nat /\ DequeSize \in Nat
  BY <1>2, DequeAssumption DEF Shape, DequeShape
<1>6. CASE ntasks[t] < DequeSize
  <2>1. Push(t, k) /\ stack' = stack /\ lock[t] = "free" /\ Moved(t, "run")
    <3>1. /\ Push(t, k) /\ stack' = stack /\ lock[t] = "free"
          /\ GotoAndResume(t, "run", IF found THEN {} ELSE Threads)
      BY <1>1, <1>5, <1>6
    <3> QED BY <1>2, <3>1, Moves DEF PCs
  <2>0. PICK n : n = Size(t)
    OBVIOUS
  <2>2. /\ RingOf(t)' /\ Size(t)' = n + 1
        /\ \A j \in 0 .. n - 1 : At(t, j)' = At(t, j)
        /\ At(t, n)' = k
        /\ \A u \in Threads \ {t} : SameQueue(u)
    BY <1>2, <1>3, <1>6, <2>0, <2>1, PushQueue DEF Shape, Accounts
  <2>3. k \notin Waiting(t) /\ n \in Nat /\ Distinct(t)
    BY <1>2, <2>0, Places, Sizes DEF PlacesAre, Kinds, Accounts, Injective, Shape
  <2>4. Distinct(t)' /\ Waiting(t)' = Waiting(t) \union {k}
    BY <2>0, <2>2, <2>3, ExtendQueue
  <2>5. /\ Ring' /\ \A v \in Threads : Distinct(v)'
        /\ \A v \in Threads \ {t} : Waiting(v)' = Waiting(v)
    BY <1>2, <2>2, <2>4, KeepQueue DEF Shape, Accounts, Ring, Injective
  <2>6. Holding' /\ Injective' /\ program' \in Programs
    BY <1>2, <1>3, <2>1, <2>5 DEF Accounts, Holding, Injective, Moved
  <2>7. \A e \in Kinds, w \in Threads :
          In(e, w)' = IF e = "queued" /\ w = t THEN In(e, w) \union {k} ELSE In(e, w)
    <3>1. \A w \in Threads : Begun(w)' = Begun(w)
      BY <2>1 DEF Begun
    <3> QED BY <1>3, <2>4, <2>5, <3>1, SameHeld, Places DEF PlacesAre, Kinds
  <2>8. Placed' /\ Apart' /\ Tallied'
    BY <1>2, <1>3, <2>7, Birth DEF Kinds
  <2> QED BY <2>5, <2>6, <2>8 DEF Accounts
<1> QED BY <1>4, <1>5, <1>6

LEMMA FinishAccounts == ASSUME IInv, Accounts, NEW t \in Threads, FinishTask(t) PROVE Accounts'
<1> DEFINE k == Last(stack[t])
<1>1. /\ Shape /\ Placed /\ Apart /\ Tallied /\ program \in Programs
      /\ pc[t] = "run" /\ stack[t] # <<>> /\ stack[t] \in Seq(0 .. NTasks) /\ IsInjective(stack[t])
  BY DEF FinishTask, IInv, Accounts, Injective, Shape
<1>2. /\ stack' = [stack EXCEPT ![t] = Front(@)] /\ Current(t) = k
      /\ incomplete' = [incomplete EXCEPT ![Parent(k)] = @ - 1]
      /\ UNCHANGED <<deque, head, tail, ntasks, lock, program, created, held>>
  BY <1>1 DEF FinishTask, deques, Current
<1>3. \E l \in {"run", "loop", "seek"} : Goto(t, l)
  BY DEF FinishTask
<1>4. Ring' /\ \A v \in Threads : Distinct(v)' /\ Waiting(v)' = Waiting(v)
  BY <1>2, AllKeep, SameQueues
<1>5. stack'[t] = Front(stack[t]) /\ \A w \in Threads \ {t} : stack'[w] = stack[w]
  BY <1>1, <1>2 DEF Shape
<1>6. Begun(t)' = Begun(t) \ {k} /\ IsInjective(stack'[t]) /\ k \in Begun(t)
  <2>1. Begun(t)' = Elements(stack'[t]) /\ Begun(t) = Elements(stack[t])
    BY DEF Begun, Elements
  <2> QED BY <1>1, <1>5, <2>1, FrontElements
<1> HIDE DEF k
<1>7. Holding' /\ Injective' /\ program' \in Programs
  BY <1>1, <1>2, <1>3, <1>4, <1>5, <1>6 DEF Accounts, Holding, Injective, Goto, Shape
<1>8. \A e \in Kinds, w \in Threads :
        In(e, w)' = IF e = "begun" /\ w = t THEN In(e, w) \ {k} ELSE In(e, w)
  <2>1. \A w \in Threads \ {t} : Begun(w)' = Begun(w)
    BY <1>5 DEF Begun
  <2> QED BY <1>2, <1>4, <1>6, <2>1, SameHeld, Places DEF PlacesAre, Kinds
<1>9. Placed' /\ Apart' /\ Tallied'
  <2>1. PICK c \in Kinds : c = "begun" /\ k \in In(c, t)
    BY <1>6, Places DEF PlacesAre, Kinds
  <2>2. PICK j \in In(c, t) : j = k
    BY <2>1
  <2>3. /\ created' = created /\ program' = program
        /\ incomplete' = [incomplete EXCEPT ![Parent(j)] = @ - 1]
        /\ \A e \in Kinds, w \in Threads :
             In(e, w)' = IF e = c /\ w = t THEN In(e, w) \ {j} ELSE In(e, w)
    BY <1>2, <1>8, <2>1, <2>2
  <2>4. Shape /\ Placed /\ Apart /\ Tallied /\ program \in Programs
    BY <1>1
  <2> QED BY <2>3, <2>4, Death
<1> QED BY <1>4, <1>7, <1>9 DEF Accounts

LEMMA RemoveAccounts ==
  ASSUME IInv, Accounts, NEW t \in Threads, RemoveMyTask(t)
  PROVE  Accounts' /\ Live' = Live
<1> DEFINE k == TailTask(t)
           i == Size(t) - 1
<1>1. /\ Shape /\ Placed /\ Apart /\ Tallied /\ program \in Programs
      /\ pc[t] = "seek" /\ ntasks[t] > 0 /\ lock[t] = "free"
      /\ stack[t] \in Seq(0 .. NTasks) /\ IsInjective(stack[t]) /\ Distinct(t)
  BY DEF RemoveMyTask, IInv, Accounts, Injective, Shape
<1>2. /\ UNCHANGED <<lock, program, created, incomplete, held>>
      /\ stack' = [stack EXCEPT ![t] = Append(@, k)]
      /\ Pop(t) /\ Moved(t, "run")
  BY <1>1, Moves DEF RemoveMyTask, tasks, PCs
<1>3. /\ RingOf(t)' /\ i \in 0 .. Size(t) - 1 /\ k = At(t, i) /\ Closed(t, i)
      /\ \A u \in Threads \ {t} : SameQueue(u)
  BY <1>1, <1>2, PopQueue DEF Shape, Accounts
<1>4. Size(t) \in Nat
  BY <1>1, Sizes DEF Shape, Accounts
<1>5. Distinct(t)' /\ Waiting(t)' = Waiting(t) \ {k} /\ k \in Waiting(t)
  BY <1>1, <1>3, <1>4, CloseQueue
<1> HIDE DEF k, i
<1>6. /\ Ring' /\ \A v \in Threads : Distinct(v)'
      /\ \A v \in Threads \ {t} : Waiting(v)' = Waiting(v)
  BY <1>1, <1>3, <1>5, KeepQueue DEF Shape, Accounts, Ring, Injective
<1>7. k \in In("queued", t) /\ k \in 0 .. NTasks /\ k \notin Begun(t)
  <2>1. k \in In("queued", t) /\ k \notin In("begun", t)
    BY <1>1, <1>5, Places DEF PlacesAre, Apart, Kinds
  <2>2. k \in Tasks
    BY <1>1, <2>1 DEF Placed, Shape, Kinds
  <2> QED BY <2>1, <2>2, Places DEF PlacesAre, Tasks
<1>8. /\ Begun(t)' = Begun(t) \union {k} /\ IsInjective(stack'[t])
      /\ \A w \in Threads \ {t} : stack'[w] = stack[w] /\ Begun(w)' = Begun(w)
  BY <1>1, <1>2, <1>7, StackGrows
<1>9. Holding' /\ Injective' /\ program' \in Programs
  BY <1>1, <1>2, <1>6, <1>8 DEF Accounts, Holding, Injective, Moved
<1>10. Carried(k, "queued", t, "begun", t)
  BY <1>2, <1>5, <1>6, <1>8, SameHeld, Places DEF Carried, PlacesAre, Kinds
<1>11. Placed' /\ Apart' /\ Tallied' /\ Live' = Live
  BY <1>1, <1>2, <1>7, <1>10, Carry DEF Kinds
<1> QED BY <1>6, <1>9, <1>11 DEF Accounts

LEMMA TakeAccounts ==
  ASSUME IInv, Accounts, NEW t \in Threads, NEW v \in Threads \ {t}, StealTake(t, v)
  PROVE  Accounts' /\ Live' = Live
<1>1. /\ Shape /\ Placed /\ Apart /\ Tallied /\ program \in Programs
      /\ pc[t] = "steal" /\ ntasks[v] > 0 /\ lock[v] = "free" /\ held[t].task = 0 /\ Distinct(v)
  BY DEF StealTake, IInv, Accounts, Injective, Holding
<1>2. PICK i \in Candidates(t, v) :
        /\ held' = [held EXCEPT ![t] = [victim |-> v, task |-> At(v, i)]]
        /\ Take(v, i)
  BY DEF StealTake, At
<1>3. i \in 0 .. ntasks[v] - 1
  BY DEF Candidates
<1>4. /\ UNCHANGED <<stack, program, created, incomplete>>
      /\ lock' = [lock EXCEPT ![v] = t] /\ Moved(t, "taken")
  BY <1>1, Moves DEF StealTake, tasks, PCs
<1>5. /\ RingOf(v)' /\ i \in 0 .. Size(v) - 1 /\ Closed(v, i)
      /\ \A u \in Threads \ {v} : SameQueue(u)
  BY <1>1, <1>2, <1>3, <1>4, TakeQueue DEF Shape, Accounts
<1> DEFINE k == At(v, i)
<1>6. Size(v) \in Nat
  BY <1>1, Sizes DEF Shape, Accounts
<1>7. Distinct(v)' /\ Waiting(v)' = Waiting(v) \ {k} /\ k \in Waiting(v)
  BY <1>1, <1>5, <1>6, CloseQueue
<1>8. /\ Ring' /\ \A w \in Threads : Distinct(w)'
      /\ \A w \in Threads \ {v} : Waiting(w)' = Waiting(w)
  BY <1>1, <1>5, <1>7, KeepQueue DEF Shape, Accounts, Ring, Injective
<1>9. held'[t].task = k /\ \A w \in Threads \ {t} : held'[w] = held[w]
  BY <1>1, <1>2 DEF Shape
<1> HIDE DEF k
<1>10. k \in In("queued", v) /\ k \in Tasks /\ k # 0
  <2>1. k \in In("queued", v)
    BY <1>7, Places DEF PlacesAre
  <2>2. k \in Tasks
    BY <1>1, <2>1 DEF Placed, Shape, Kinds
  <2> QED BY <2>1, <2>2 DEF Tasks
<1>11. Holding' /\ Injective' /\ program' \in Programs
  BY <1>1, <1>4, <1>8, <1>9, <1>10 DEF Accounts, Holding, Injective, Moved
<1>12. Carried(k, "queued", v, "stolen", t)
  <2>1. Stolen(t)' = {k} /\ Stolen(t) = {}
    BY <1>1, <1>9, <1>10 DEF Stolen
  <2>2. \A w \in Threads \ {t} : Stolen(w)' = Stolen(w)
    BY <1>9 DEF Stolen
  <2>3. \A w \in Threads : Begun(w)' = Begun(w)
    BY <1>4 DEF Begun
  <2> QED BY <1>7, <1>8, <2>1, <2>2, <2>3, Places DEF Carried, PlacesAre, Kinds
<1>13. Placed' /\ Apart' /\ Tallied' /\ Live' = Live
  BY <1>1, <1>4, <1>10, <1>12, Carry DEF Kinds
<1> QED BY <1>8, <1>11, <1>13 DEF Accounts

LEMMA StolenAccounts ==
  ASSUME IInv, Accounts, NEW t \in Threads, StealDone(t)
  PROVE  Accounts' /\ Live' = Live
<1> DEFINE v == held[t].victim
           k == held[t].task
<1>1. /\ Shape /\ Placed /\ Apart /\ Tallied /\ program \in Programs
      /\ pc[t] = "taken" /\ v \in Threads /\ lock[v] = t /\ ntasks[v] > 0
      /\ k \in Tasks /\ k \in 0 .. NTasks /\ k # 0 /\ IsInjective(stack[t])
  BY DEF StealDone, IInv, Idle, Thieves, Accounts, Injective, Holding, Tasks
<1>2. /\ UNCHANGED <<deque, head, tail, program, created, incomplete>>
      /\ ntasks' = [ntasks EXCEPT ![v] = @ - 1]
      /\ lock' = [lock EXCEPT ![v] = "free"]
      /\ stack' = [stack EXCEPT ![t] = Append(@, k)]
      /\ held' = [held EXCEPT ![t] = Nothing]
      /\ Moved(t, "run")
  BY <1>1, Moves DEF StealDone, tasks, PCs
<1> HIDE DEF v
<1>3. \A w \in Threads : SameQueue(w)
  <2>1. /\ lock[v] # "free" /\ ntasks[v] \in Nat /\ ntasks[v] <= DequeSize /\ DequeSize \in Nat
        /\ ntasks'[v] = ntasks[v] - 1 /\ lock'[v] = "free"
        /\ \A w \in Threads \ {v} : ntasks'[w] = ntasks[w] /\ lock'[w] = lock[w]
        /\ \A w \in Threads : ntasks[w] <= DequeSize /\ (lock[w] # "free" => ntasks[w] > 0)
    BY <1>1, <1>2, ThreadsAssumption, DequeAssumption DEF Shape, DequeShape, Accounts, Ring, RingOf
  <2> QED BY <1>2, <2>1 DEF SameQueue, Size
<1>4. Ring' /\ \A w \in Threads : Distinct(w)' /\ Waiting(w)' = Waiting(w)
  BY <1>3, AllKeep
<1>5. held'[t].task = 0 /\ \A w \in Threads \ {t} : held'[w] = held[w]
  BY <1>1, <1>2 DEF Shape, Nothing
<1>6. Stolen(t) = {k} /\ Stolen(t)' = {} /\ \A w \in Threads \ {t} : Stolen(w)' = Stolen(w)
  BY <1>1, <1>5 DEF Stolen
<1> HIDE DEF k
<1>7. k \in In("stolen", t) /\ k \notin Begun(t)
  BY <1>1, <1>6, Places DEF PlacesAre, Apart, Kinds
<1>8. /\ Begun(t)' = Begun(t) \union {k} /\ IsInjective(stack'[t])
      /\ \A w \in Threads \ {t} : stack'[w] = stack[w] /\ Begun(w)' = Begun(w)
  BY <1>1, <1>2, <1>7, StackGrows
<1>9. Holding' /\ Injective' /\ program' \in Programs
  BY <1>1, <1>2, <1>4, <1>5, <1>8 DEF Accounts, Holding, Injective, Moved
<1>10. Carried(k, "stolen", t, "begun", t)
  BY <1>4, <1>6, <1>8, Places DEF Carried, PlacesAre, Kinds
<1>11. Placed' /\ Apart' /\ Tallied' /\ Live' = Live
  BY <1>1, <1>2, <1>7, <1>10, Carry DEF Kinds
<1> QED BY <1>4, <1>9, <1>11 DEF Accounts

LEMMA InitAccounts == Init => Accounts
<1> SUFFICES ASSUME Init PROVE Accounts
  OBVIOUS
<1>0. Shape
  BY InitIInv DEF IInv
<1>1. /\ \A t \in Threads : /\ deque[t] = [s \in Slots |-> 0] /\ head[t] = 0 /\ tail[t] = 0
                            /\ ntasks[t] = 0 /\ lock[t] = "free" /\ stack[t] = <<>>
                            /\ held[t] = Nothing /\ pc[t] = "run"
      /\ incomplete = [x \in Threads \union Tasks |-> 0] /\ program \in Programs /\ created = {}
  BY DEF Init
<1>2. Ring
  BY <1>1, Wrapped DEF Ring, RingOf, Size
<1>3. \A t \in Threads : Size(t) = 0 /\ Waiting(t) = {} /\ Distinct(t)
  <2> SUFFICES ASSUME NEW t \in Threads PROVE Size(t) = 0 /\ Waiting(t) = {} /\ Distinct(t)
    OBVIOUS
  <2>1. Size(t) = 0
    BY <1>1 DEF Size
  <2>2. Waiting(t) = {At(t, i) : i \in 0 .. 0 - 1}
    BY <2>1, QueueAsSet DEF QueueIs
  <2> QED BY <2>1, <2>2 DEF Distinct
<1>4. \A t \in Threads : Stolen(t) = {} /\ Begun(t) = {} /\ IsInjective(stack[t])
  BY <1>1 DEF Stolen, Nothing, Begun, IsInjective
<1>5. Holding /\ Injective
  BY <1>1, <1>3, <1>4 DEF Holding, Injective, Nothing
<1>6. \A c \in Kinds, t \in Threads : In(c, t) = {}
  BY <1>3, <1>4, Places DEF PlacesAre, Kinds
<1>7. Placed /\ Apart
  BY <1>6 DEF Placed, Apart
<1>8. Tallied
  <2>1. Live = {}
    BY <1>6, Places DEF PlacesAre
  <2>2. \A p : Children(p) = {}
    BY <2>1 DEF Children
  <2> QED BY <1>1, <2>2, FS_EmptySet DEF Tallied
<1> QED BY <1>1, <1>2, <1>5, <1>7, <1>8 DEF Accounts

LEMMA NextAccounts == IInv /\ Accounts /\ [Next]_vars => Accounts'
<1> SUFFICES ASSUME IInv, Accounts, [Next]_vars PROVE Accounts'
  OBVIOUS
<1>1. ASSUME NEW t \in Threads, Step(t) \/ Taskwait(t) \/ Doze(t) PROVE Accounts'
  <2>1. CASE CreateTask(t)
    BY <2>1, CreateAccounts
  <2>2. CASE FinishTask(t)
    BY <2>2, FinishAccounts
  <2>3. CASE RemoveMyTask(t)
    BY <2>3, RemoveAccounts
  <2>4. CASE \E v \in Threads \ {t} : StealTake(t, v)
    BY <2>4, TakeAccounts
  <2>5. CASE StealDone(t)
    BY <2>5, StolenAccounts
  <2>6. CASE QuietSteps(t) \/ Starved(t)
    BY <2>6, QuietIsStill, StillAccounts
  <2> QED
    BY <1>1, <2>1, <2>2, <2>3, <2>4, <2>5, <2>6 DEF Step, Victim, QuietSteps
<1>2. CASE UNCHANGED vars
  <2>1. Still
    BY <1>2 DEF vars, Still
  <2> QED BY <2>1, StillAccounts
<1> QED BY <1>1, <1>2 DEF Next

LEMMA AccountsKept == Spec => []Accounts
BY InitAccounts, NextAccounts, Invariance, PTL DEF Spec

\* No deque and no thief loses a task or gives it to two threads, and the count
\* of the children of a task is exact.
THEOREM TasksKept == Spec => []EachTaskOnce
<1>1. IInv /\ Accounts => EachTaskOnce
  <2> SUFFICES ASSUME IInv, Accounts PROVE EachTaskOnce
    OBVIOUS
  <2>1. \A t \in Threads : IsInjective(Queued(t)) /\ IsInjective(stack[t])
    BY QueueAsSet, Sizes DEF QueueIs, IInv, Shape, Accounts, Injective
  <2>2. ASSUME NEW t \in Threads, NEW u \in Threads
        PROVE  /\ t # u => /\ Waiting(t) \cap Waiting(u) = {} /\ Begun(t) \cap Begun(u) = {}
                           /\ Stolen(t) \cap Stolen(u) = {}
               /\ Waiting(t) \cap Begun(u) = {} /\ Waiting(t) \cap Stolen(u) = {}
               /\ Begun(t) \cap Stolen(u) = {}
    BY Places DEF PlacesAre, Accounts, Apart, Kinds
  <2>3. \A p \in Threads \union Tasks : incomplete[p] = Cardinality({k \in Live : Parent(k) = p})
    BY DEF Accounts, Tallied, Children
  <2> QED BY <2>1, <2>2, <2>3 DEF EachTaskOnce
<1> QED BY <1>1, Invariance, AccountsKept, PTL

LEMMA CurrentIsTop ==
  ASSUME Shape, Placed, NEW t \in Threads, stack[t] # <<>>
  PROVE  /\ Current(t) = Last(stack[t]) /\ Current(t) \in Begun(t) /\ Begun(t) \subseteq Tasks
<1> DEFINE S == 0 .. NTasks
<1>1. stack[t] \in Seq(S)
  BY DEF Shape
<1> HIDE DEF S
<1>2. Last(stack[t]) \in Elements(stack[t])
  BY <1>1, FrontElements
<1>3. Begun(t) = Elements(stack[t]) /\ Begun(t) \subseteq Tasks
  BY Places DEF PlacesAre, Placed, Shape, Kinds
<1> QED BY <1>2, <1>3 DEF Current

\* Only a taskwait that finds the count at zero ends.
LEMMA WaitEnds ==
  ASSUME IInv, [Next]_vars, NEW p \in waiting \ waiting'
  PROVE  \E t \in Threads : TaskwaitDone(t) /\ p = Current(t)
<1>1. PICK t \in Threads : Step(t) \/ Taskwait(t) \/ Doze(t)
  BY DEF Next, vars
<1>2. CASE TaskwaitDone(t)
  BY <1>2 DEF TaskwaitDone
<1>3. CASE QuietSteps(t) /\ ~ TaskwaitDone(t)
  BY <1>3 DEF QuietSteps, Taskwait, Arrive, GatherDone, TeamWaitDone, Release, Released,
              LookForTasks, Doze, Suspend, NoTaskOfMine, WakeVictim, StealFails
<1>4. ASSUME NEW v \in Threads \ {t}, StealTake(t, v) PROVE FALSE
  BY <1>4 DEF StealTake
<1>5. CASE CreateTask(t) \/ FinishTask(t) \/ RemoveMyTask(t) \/ StealDone(t) \/ Starved(t)
  BY <1>5 DEF CreateTask, FinishTask, RemoveMyTask, StealDone, Starved
<1> QED BY <1>1, <1>2, <1>3, <1>4, <1>5 DEF Step, Victim, QuietSteps

\* A taskwait ends only after the children of the task have ended.
THEOREM TaskwaitCorrect == Spec => TaskwaitWaits
<1>1. IInv /\ Accounts /\ [Next]_vars
        => [\A p \in waiting \ waiting' : \A k \in Live' : Parent(k) # p]_vars
  <2> SUFFICES ASSUME IInv, Accounts, [Next]_vars, NEW p \in waiting \ waiting', NEW k \in Live'
               PROVE  Parent(k) # p
    OBVIOUS
  <2>1. PICK t \in Threads : TaskwaitDone(t) /\ p = Current(t)
    BY WaitEnds
  <2>2. Live' = Live
    BY <2>1, QuietIsStill, StillAccounts DEF QuietSteps
  <2>3. incomplete[p] = 0 /\ p \in Threads \union Tasks
    <3>1. pc[t] = "loop" /\ InTaskwait(t) /\ FlagDone(t)
      BY <2>1 DEF TaskwaitDone
    <3>2. incomplete[p] = 0
      BY <2>1, <3>1 DEF FlagDone, FinalSpin
    <3>3. stack[t] # <<>> => Current(t) \in Tasks
      BY CurrentIsTop DEF IInv, Accounts
    <3> QED BY <2>1, <3>2, <3>3 DEF Current
  <2>4. Children(p) = {}
    BY <2>3, FewChildren, FS_EmptySet DEF IInv, Accounts, Tallied
  <2> QED BY <2>2, <2>4 DEF Children
<1> QED BY <1>1, Invariance, AccountsKept, PTL DEF Spec, TaskwaitWaits

-------------------------------------------------------------------------------
(* Tied tasks nest. *)

\* A thread that is not in user code and has begun tasks is in a taskwait.
Suspended == \A t \in Threads : pc[t] # "run" /\ stack[t] # <<>> => InTaskwait(t)
\* The wait of a thief still lets it begin the task that it took.
Permitted == \A t \in Threads : pc[t] = "taken" => Allowed(t, held[t].task)

Nests(q) ==
  \A i, j \in DOMAIN q :
    i < j /\ (\A n \in i .. j : q[n] \notin Untied) => q[i] \in Ancestors[q[j]]

Nesting == Suspended /\ Permitted /\ TiedTasksNest

LEMMA NestsIs == TiedTasksNest <=> \A t \in Threads : Nests(stack[t])
BY DEF TiedTasksNest, Nests

LEMMA NestsNext ==
  ASSUME program' = program
  PROVE  TiedTasksNest' <=> \A t \in Threads : Nests(stack'[t])
<1>1. Untied' = Untied /\ Ancestors' = Ancestors
  BY DEF Untied, Ancestors, Parent
<1> QED BY <1>1 DEF TiedTasksNest, Nests

\* What a thread begins descends from the tied task on top of its stack.
Below(t, k) ==
  stack[t] # <<>> /\ Last(stack[t]) \notin Untied /\ k \notin Untied
    => Last(stack[t]) \in Ancestors[k]

LEMMA BeginNests ==
  ASSUME Shape, program \in Programs, NEW q \in Seq(Tasks), Nests(q), NEW k \in Tasks,
         q # <<>> /\ Last(q) \notin Untied /\ k \notin Untied => Last(q) \in Ancestors[k]
  PROVE  Nests(Append(q, k))
<1> DEFINE m == Len(q)
           r == Append(q, k)
<1>1. /\ m \in Nat /\ DOMAIN q = 1 .. m /\ DOMAIN r = 1 .. m + 1
      /\ \A i \in 1 .. m : r[i] = q[i] /\ q[i] \in Tasks
      /\ r[m + 1] = k /\ (m > 0 => q # <<>> /\ Last(q) = q[m])
  BY AppendProperties, LenProperties, ElementOfSeq DEF Last
<1> HIDE DEF m, r
<1> SUFFICES ASSUME NEW i \in 1 .. m + 1, NEW j \in 1 .. m + 1, i < j,
                    \A n \in i .. j : r[n] \notin Untied
             PROVE  r[i] \in Ancestors[r[j]]
  BY <1>1 DEF Nests, r
<1>2. CASE j # m + 1
  <2>1. i \in 1 .. m /\ j \in 1 .. m /\ \A n \in i .. j : n \in 1 .. m
    BY <1>1, <1>2
  <2>2. \A n \in i .. j : q[n] \notin Untied
    BY <1>1, <2>1
  <2>3. q[i] \in Ancestors[q[j]]
    BY <1>1, <2>1, <2>2 DEF Nests
  <2> QED BY <1>1, <2>1, <2>3
<1>3. CASE j = m + 1
  <2>1. i \in 1 .. m /\ m \in 1 .. m /\ m \in i .. j /\ m + 1 \in i .. j
    BY <1>1, <1>3
  <2>2. q[m] \notin Untied /\ k \notin Untied
    BY <1>1, <2>1
  <2>3. q[m] \in Ancestors[k]
    BY <1>1, <2>1, <2>2
  <2>4. CASE i = m
    BY <1>1, <1>3, <2>1, <2>3, <2>4
  <2>5. CASE i # m
    <3>1. i < m /\ \A n \in i .. m : n \in i .. j /\ n \in 1 .. m
      BY <1>1, <1>3, <2>1, <2>5
    <3>2. \A n \in i .. m : q[n] \notin Untied
      BY <1>1, <3>1
    <3>3. q[i] \in Ancestors[q[m]]
      BY <1>1, <2>1, <3>1, <3>2 DEF Nests
    <3>4. q[i] \in Ancestors[k]
      BY <1>1, <2>1, <2>3, <3>3, AncestorsTransitive
    <3> QED BY <1>1, <1>3, <2>1, <3>4
  <2> QED BY <2>4, <2>5
<1> QED BY <1>2, <1>3

LEMMA EndNests ==
  ASSUME NEW S, NEW q \in Seq(S), q # <<>>, Nests(q)
  PROVE  Nests(Front(q))
<1>1. /\ Len(q) \in Nat \ {0} /\ DOMAIN q = 1 .. Len(q) /\ DOMAIN Front(q) = 1 .. Len(q) - 1
      /\ \A i \in 1 .. Len(q) - 1 : Front(q)[i] = q[i]
  BY FrontElements
<1> SUFFICES ASSUME NEW i \in 1 .. Len(q) - 1, NEW j \in 1 .. Len(q) - 1, i < j,
                    \A n \in i .. j : Front(q)[n] \notin Untied
             PROVE  Front(q)[i] \in Ancestors[Front(q)[j]]
  BY <1>1 DEF Nests
<1>2. /\ i \in DOMAIN q /\ j \in DOMAIN q /\ \A n \in i .. j : n \in 1 .. Len(q) - 1
  BY <1>1
<1>3. \A n \in i .. j : q[n] \notin Untied
  BY <1>1, <1>2
<1> QED BY <1>1, <1>2, <1>3 DEF Nests

\* The scheduling constraint says just that.
LEMMA AllowedIsBelow ==
  ASSUME Shape, Placed, program \in Programs, NEW t \in Threads, NEW k,
         stack[t] # <<>> => InTaskwait(t), Allowed(t, k)
  PROVE  Below(t, k)
<1> SUFFICES ASSUME stack[t] # <<>>, Last(stack[t]) \notin Untied, k \notin Untied
             PROVE  Last(stack[t]) \in Ancestors[k]
  BY DEF Below
<1> DEFINE S == 0 .. NTasks
           tied == {i \in DOMAIN stack[t] : stack[t][i] \notin Untied}
           m == Len(stack[t])
<1>1. stack[t] \in Seq(S)
  BY DEF Shape
<1> HIDE DEF S
<1>2. m \in Nat \ {0} /\ DOMAIN stack[t] = 1 .. m /\ Last(stack[t]) = stack[t][m]
  BY <1>1, FrontElements
<1> HIDE DEF m
<1>3. m \in tied /\ \A i \in tied : i \in Nat /\ i <= m
  BY <1>2
<1> HIDE DEF tied
<1>4. Max(tied) = m
  <2>1. m \in tied /\ \A y \in tied : m >= y
    BY <1>2, <1>3
  <2>2. \A x \in tied : (\A y \in tied : x >= y) => x = m
    BY <1>2, <1>3
  <2> QED BY <2>1, <2>2 DEF Max
<1>5. LastTied(t) = Last(stack[t])
  BY <1>2, <1>3, <1>4 DEF LastTied, tied
<1>6. Last(stack[t]) # t
  BY CurrentIsTop, ProgramsAssumption DEF Tasks
<1> QED BY <1>5, <1>6 DEF Allowed

LEMMA StackOfTasks ==
  ASSUME Shape, Placed, NEW t \in Threads
  PROVE  stack[t] \in Seq(Tasks)
<1> DEFINE S == 0 .. NTasks
<1>1. stack[t] \in Seq(S)
  BY DEF Shape
<1> HIDE DEF S
<1>2. Len(stack[t]) \in Nat /\ stack[t] \in [1 .. Len(stack[t]) -> S]
  BY <1>1, LenProperties
<1>3. Begun(t) \subseteq Tasks
  BY Places DEF PlacesAre, Placed, Shape, Kinds
<1>4. \A i \in 1 .. Len(stack[t]) : stack[t][i] \in Tasks
  BY <1>2, <1>3 DEF Begun
<1>5. stack[t] \in [1 .. Len(stack[t]) -> Tasks]
  BY <1>2, <1>4
<1> QED BY <1>2, <1>5, SeqDef

LEMMA CurrentsDiffer ==
  ASSUME Shape, Accounts, NEW t \in Threads, NEW u \in Threads \ {t}
  PROVE  Current(t) # Current(u) /\ Current(t) # u
<1>1. Threads \cap Tasks = {}
  BY ProgramsAssumption DEF Tasks
<1>2. \A w \in Threads : IF stack[w] = <<>> THEN Current(w) = w
                         ELSE Current(w) \in Begun(w) /\ Begun(w) \subseteq Tasks
  BY CurrentIsTop DEF Current, Accounts
<1>3. Begun(t) \cap Begun(u) = {}
  BY Places DEF PlacesAre, Accounts, Apart, Kinds
<1> QED BY <1>1, <1>2, <1>3

\* What a wait allows depends on the stack of its thread, and on whether its
\* current and its implicit task are in a taskwait.
LEMMA AllowedKept ==
  ASSUME NEW t \in Threads, NEW k, stack'[t] = stack[t], program' = program,
         t \in waiting' <=> t \in waiting, Current(t) \in waiting' <=> Current(t) \in waiting
  PROVE  Allowed(t, k)' <=> Allowed(t, k)
<1>1. Current(t)' = Current(t) /\ Untied' = Untied /\ Ancestors' = Ancestors
  BY DEF Current, Untied, Ancestors, Parent
<1>2. LastTied(t)' = LastTied(t)
  BY <1>1 DEF LastTied
<1> QED BY <1>1, <1>2 DEF Allowed, InTaskwait

\* The threads but t go on as they were, or are woken.
Others(t) ==
  \A u \in Threads \ {t} :
    /\ pc'[u] = pc[u] \/ (pc[u] = "asleep" /\ pc'[u] = "loop")
    /\ held'[u] = held[u] /\ stack'[u] = stack[u]

LEMMA OthersSuspended ==
  ASSUME Shape, Accounts, Suspended, NEW t \in Threads, Others(t),
         program' = program,
         waiting' \in {waiting, waiting \union {Current(t)}, waiting \ {Current(t)}},
         pc'[t] # "run" /\ stack'[t] # <<>> => InTaskwait(t)'
  PROVE  Suspended'
<1>1. \A u \in Threads \ {t} : Current(u)' = Current(u) /\ Current(u) # Current(t) /\ u # Current(t)
  BY CurrentsDiffer DEF Current, Others
<1>2. \A u \in Threads \ {t} : pc'[u] # "run" => pc[u] # "run"
  BY DEF Others
<1> QED BY <1>1, <1>2 DEF Suspended, InTaskwait, Others

LEMMA OthersPermitted ==
  ASSUME Shape, Accounts, Permitted, NEW t \in Threads, Others(t), program' = program,
         waiting' \in {waiting, waiting \union {Current(t)}, waiting \ {Current(t)}},
         (pc[t] = "taken" => Allowed(t, held[t].task))'
  PROVE  Permitted'
<1> SUFFICES ASSUME NEW u \in Threads \ {t}, pc'[u] = "taken" PROVE Allowed(u, held[u].task)'
  BY DEF Permitted
<1>1. pc[u] = "taken" /\ held'[u] = held[u] /\ stack'[u] = stack[u]
  BY DEF Others
<1>2. Current(u) # Current(t) /\ u # Current(t)
  BY CurrentsDiffer
<1>3. Allowed(u, held[u].task) /\ (u \in waiting' <=> u \in waiting)
      /\ (Current(u) \in waiting' <=> Current(u) \in waiting)
  BY <1>1, <1>2 DEF Permitted
<1>4. PICK k : k = held[u].task
  OBVIOUS
<1>5. Allowed(u, k)'
  BY <1>1, <1>3, <1>4, AllowedKept
<1>6. held'[u].task = k
  BY <1>1, <1>4
<1> QED BY <1>5, <1>6 DEF Allowed

LEMMA BeginStep ==
  ASSUME Shape, Accounts, Accounts', Shape', TiedTasksNest, NEW t \in Threads, NEW k \in 0 .. NTasks,
         Below(t, k), stack' = [stack EXCEPT ![t] = Append(@, k)], program' = program
  PROVE  TiedTasksNest'
<1>1. stack'[t] = Append(stack[t], k) /\ \A u \in Threads \ {t} : stack'[u] = stack[u]
  BY DEF Shape
<1>2. k \in Tasks
  <2> DEFINE S == 0 .. NTasks
  <2>1. stack[t] \in Seq(S) /\ k \in S
    BY DEF Shape
  <2> HIDE DEF S
  <2>2. k \in Elements(stack'[t])
    BY <1>1, <2>1, AppendElements
  <2>3. Elements(stack'[t]) \subseteq created' /\ created' \subseteq Tasks
    BY Places DEF PlacesAre, Accounts, Placed, Shape, Kinds
  <2> QED BY <2>2, <2>3
<1>3. stack[t] \in Seq(Tasks) /\ program \in Programs
  BY StackOfTasks DEF Accounts
<1>4. Nests(stack[t])
  BY NestsIs
<1>5. Nests(stack'[t])
  BY <1>1, <1>2, <1>3, <1>4, BeginNests DEF Below
<1> QED BY <1>1, <1>5, NestsIs, NestsNext

\* How a step that moves no task leaves the program, or stays out of it.
Turns(t) ==
  /\ Others(t) /\ pc'[t] # "taken"
  /\ \/ waiting' = waiting /\ (pc[t] # "run" \/ stack[t] = <<>> \/ pc'[t] = "run")
     \/ waiting' = waiting \union {Current(t)}
     \/ waiting' = waiting \ {Current(t)} /\ pc'[t] = "run"

LEMMA QuietTurns ==
  ASSUME IInv, NEW t \in Threads, QuietSteps(t) \/ Starved(t)
  PROVE  Turns(t)
<1>0. Shape /\ Stages /\ "taken" \in PCs
  BY DEF IInv, Idle, PCs
<1>a. UNCHANGED <<stack, held>>
  BY QuietIsStill DEF Still
<1>1. CASE Taskwait(t)
  BY <1>0, <1>a, <1>1, Moves DEF Taskwait, Turns, Others, Moved, PCs
<1>2. CASE Arrive(t)
  BY <1>0, <1>a, <1>2, Moves DEF Arrive, Turns, Others, Moved, PCs
<1>3. CASE TaskwaitDone(t)
  BY <1>0, <1>a, <1>3, Moves DEF TaskwaitDone, Turns, Others, Moved, PCs
<1>4. CASE GatherDone(t) \/ TeamWaitDone(t)
  BY <1>0, <1>a, <1>4 DEF GatherDone, TeamWaitDone, Turns, Others
<1>5. CASE Release(t)
  <2>1. pc[t] = "loop"
    BY <1>0, <1>5 DEF Release, Stages
  <2> QED BY <1>0, <1>a, <1>5, <2>1, Moves DEF Release, Turns, Others, Moved, PCs
<1>6. CASE Released(t)
  BY <1>0, <1>a, <1>6, Moves DEF Released, Turns, Others, Moved, PCs
<1>7. CASE LookForTasks(t) \/ Doze(t)
  BY <1>0, <1>a, <1>7, Moves DEF LookForTasks, Doze, Turns, Others, Moved, PCs
<1>8. CASE Suspend(t)
  BY <1>0, <1>a, <1>8, Moves DEF Suspend, Turns, Others, Moved, PCs
<1>9. CASE NoTaskOfMine(t)
  BY <1>0, <1>a, <1>9, Moves DEF NoTaskOfMine, Turns, Others, Moved, PCs
<1>10. ASSUME NEW v \in Threads \ {t}, WakeVictim(t, v) PROVE Turns(t)
  BY <1>0, <1>a, <1>10, Moves DEF WakeVictim, Turns, Others, Moved, PCs
<1>11. ASSUME NEW v \in Threads \ {t}, StealFails(t, v) PROVE Turns(t)
  BY <1>0, <1>a, <1>11, Moves DEF StealFails, Turns, Others, Moved, PCs
<1>12. CASE Starved(t)
  BY <1>0, <1>a, <1>12, Moves DEF Starved, Turns, Others, Moved, PCs
<1> QED
  BY <1>1, <1>2, <1>3, <1>4, <1>5, <1>6, <1>7, <1>8, <1>9, <1>10, <1>11, <1>12 DEF QuietSteps

LEMMA QuietNesting ==
  ASSUME IInv, Accounts, Nesting, NEW t \in Threads, QuietSteps(t) \/ Starved(t)
  PROVE  Nesting'
<1>1. Turns(t) /\ UNCHANGED <<stack, held, program>>
  BY QuietTurns, QuietIsStill DEF Still
<1>2. TiedTasksNest'
  BY <1>1, NestsIs, NestsNext DEF Nesting
<1>3. waiting' \in {waiting, waiting \union {Current(t)}, waiting \ {Current(t)}}
  BY <1>1 DEF Turns
<1>4. pc'[t] # "run" /\ stack'[t] # <<>> => InTaskwait(t)'
  BY <1>1 DEF Turns, InTaskwait, Current, Nesting, Suspended
<1>5. Suspended'
  BY <1>1, <1>3, <1>4, OthersSuspended DEF IInv, Nesting, Turns
<1>6. Permitted'
  BY <1>1, <1>3, OthersPermitted DEF IInv, Nesting, Turns
<1> QED BY <1>2, <1>5, <1>6 DEF Nesting

\* What the steps that move a task have in common: t runs afterwards.
LEMMA RunNesting ==
  ASSUME IInv, Accounts, Nesting, NEW t \in Threads, Moved(t, "run"),
         program' = program, waiting' = waiting,
         \A u \in Threads \ {t} : held'[u] = held[u] /\ stack'[u] = stack[u]
  PROVE  Suspended' /\ Permitted'
<1>1. Others(t) /\ pc'[t] = "run"
  BY DEF Others, Moved
<1>2. Suspended'
  BY <1>1, OthersSuspended DEF IInv, Nesting
<1>3. Permitted'
  BY <1>1, OthersPermitted DEF IInv, Nesting
<1> QED BY <1>2, <1>3

LEMMA CreateNesting ==
  ASSUME IInv, Accounts, Nesting, IInv', Accounts', NEW t \in Threads, CreateTask(t)
  PROVE  Nesting'
<1>1. PICK k \in ToCreate(t) : CreateTask(t)!(k)
  BY DEF CreateTask
<1>2. /\ pc[t] = "run" /\ k \in Tasks /\ k \in 0 .. NTasks /\ Parent(k) = Current(t)
      /\ UNCHANGED <<program, waiting, held>> /\ Shape
  BY <1>1 DEF ToCreate, Tasks, IInv
<1>3. Below(t, k)
  BY <1>2, AncestorsOf, CurrentIsTop DEF Below, Accounts
<1>4. /\ stack' = [stack EXCEPT ![t] = Append(@, k)] \/ stack' = stack
      /\ \/ pc' = pc
         \/ \E others : GotoAndResume(t, "run", others)
  BY <1>1
<1>5. Moved(t, "run")
  <2>1. CASE pc' = pc
    BY <1>2, <2>1 DEF Moved, Shape
  <2>2. ASSUME NEW others, GotoAndResume(t, "run", others) PROVE Moved(t, "run")
    BY <1>2, <2>2, Moves DEF PCs
  <2> QED BY <1>4, <2>1, <2>2
<1>6. \A u \in Threads \ {t} : stack'[u] = stack[u] /\ held'[u] = held[u]
  BY <1>2, <1>4 DEF Shape
<1>7. Suspended' /\ Permitted'
  BY <1>2, <1>5, <1>6, RunNesting
<1>8. CASE stack' = stack
  BY <1>2, <1>7, <1>8, NestsIs, NestsNext DEF Nesting
<1>9. CASE stack' = [stack EXCEPT ![t] = Append(@, k)]
  BY <1>2, <1>3, <1>7, <1>9, BeginStep DEF Nesting, IInv
<1> QED BY <1>4, <1>8, <1>9

LEMMA FinishNesting ==
  ASSUME IInv, Accounts, Nesting, NEW t \in Threads, FinishTask(t)
  PROVE  Nesting'
<1> DEFINE q == stack[t]
           below == IF Len(q) = 1 THEN t ELSE q[Len(q) - 1]
           l == IF below \in waiting THEN "loop"
                ELSE IF below # t \/ phase[t] = "region" THEN "run"
                ELSE IF phase[t] = "final" THEN "seek" ELSE "loop"
<1>1. /\ q # <<>> /\ stack' = [stack EXCEPT ![t] = Front(@)] /\ Goto(t, l)
      /\ UNCHANGED <<program, waiting, held>> /\ Shape /\ q \in Seq(Tasks)
      /\ Threads \cap Tasks = {}
  BY StackOfTasks, ProgramsAssumption DEF FinishTask, IInv, Accounts, Tasks
<1>2. stack'[t] = Front(q) /\ \A u \in Threads \ {t} : stack'[u] = stack[u]
  BY <1>1 DEF Shape
<1>3. pc'[t] = l /\ l # "taken" /\ Others(t)
  BY <1>1, <1>2 DEF Goto, Shape, Others
<1>4. pc'[t] # "run" /\ stack'[t] # <<>> => InTaskwait(t)'
  <2> SUFFICES ASSUME pc'[t] # "run", Front(q) # <<>> PROVE InTaskwait(t)'
    BY <1>2
  <2>1. /\ Len(q) \in Nat \ {0} /\ Front(q) \in Seq(Tasks)
        /\ Len(Front(q)) = Len(q) - 1
        /\ \A i \in 1 .. Len(q) - 1 : Front(q)[i] = q[i]
    BY <1>1, FrontElements
  <2>2. Len(Front(q)) # 0
    BY <2>1, EmptySeq
  <2>3. Len(q) - 1 \in 1 .. Len(q) - 1 /\ Len(q) - 1 \in 1 .. Len(q) /\ Len(q) # 1
    BY <2>1, <2>2
  <2>4. Last(Front(q)) = q[Len(q) - 1]
    BY <2>1, <2>3 DEF Last
  <2>5. below = Last(Front(q)) /\ below \in Tasks /\ below # t
    BY <1>1, <2>3, <2>4, ElementOfSeq
  <2>6. below \in waiting
    BY <1>3, <2>5
  <2> QED BY <1>1, <1>2, <2>5, <2>6 DEF InTaskwait, Current
<1>5. Suspended'
  BY <1>1, <1>3, <1>4, OthersSuspended DEF Nesting
<1>6. Permitted'
  BY <1>1, <1>3, OthersPermitted DEF Nesting
<1>7. TiedTasksNest'
  BY <1>1, <1>2, EndNests, NestsIs, NestsNext DEF Nesting
<1> QED BY <1>5, <1>6, <1>7 DEF Nesting

LEMMA RemoveNesting ==
  ASSUME IInv, Accounts, Nesting, IInv', Accounts', NEW t \in Threads, RemoveMyTask(t)
  PROVE  Nesting'
<1> DEFINE k == TailTask(t)
<1>1. /\ pc[t] = "seek" /\ Allowed(t, k) /\ stack' = [stack EXCEPT ![t] = Append(@, k)]
      /\ UNCHANGED <<program, waiting, held>> /\ Shape /\ Moved(t, "run")
  BY Moves DEF RemoveMyTask, tasks, IInv, PCs
<1>2. k \in 0 .. NTasks
  BY PopShape DEF RemoveMyTask, IInv, Shape
<1> HIDE DEF k
<1>3. Below(t, k)
  BY <1>1, AllowedIsBelow DEF Nesting, Suspended, Accounts
<1>4. TiedTasksNest'
  BY <1>1, <1>2, <1>3, BeginStep DEF Nesting, IInv
<1>5. Suspended' /\ Permitted'
  BY <1>1, RunNesting DEF Shape
<1> QED BY <1>4, <1>5 DEF Nesting

LEMMA TakeNesting ==
  ASSUME IInv, Accounts, Nesting, NEW t \in Threads, NEW v \in Threads \ {t}, StealTake(t, v)
  PROVE  Nesting'
<1>1. /\ pc[t] = "steal" /\ UNCHANGED <<program, waiting, stack>> /\ Shape /\ Moved(t, "taken")
  BY Moves DEF StealTake, tasks, IInv, PCs
<1>2. PICK k : Allowed(t, k) /\ held' = [held EXCEPT ![t] = [victim |-> v, task |-> k]]
  BY DEF StealTake, Candidates
<1>3. held'[t].task = k /\ Others(t)
  BY <1>1, <1>2 DEF Others, Moved, Shape
<1>4. Allowed(t, k)'
  BY <1>1, <1>2, AllowedKept
<1>5. Allowed(t, held[t].task)'
  BY <1>3, <1>4 DEF Allowed
<1>6. Permitted'
  BY <1>1, <1>3, <1>5, OthersPermitted DEF Nesting
<1>7. stack'[t] # <<>> => InTaskwait(t)'
  BY <1>1 DEF Nesting, Suspended, InTaskwait, Current
<1>8. Suspended'
  BY <1>1, <1>3, <1>7, OthersSuspended DEF Nesting
<1>9. TiedTasksNest'
  BY <1>1, NestsIs, NestsNext DEF Nesting
<1> QED BY <1>6, <1>8, <1>9 DEF Nesting

LEMMA StolenNesting ==
  ASSUME IInv, Accounts, Nesting, IInv', Accounts', NEW t \in Threads, StealDone(t)
  PROVE  Nesting'
<1> DEFINE k == held[t].task
<1>1. /\ pc[t] = "taken" /\ stack' = [stack EXCEPT ![t] = Append(@, k)]
      /\ held' = [held EXCEPT ![t] = Nothing] /\ k \in 0 .. NTasks
      /\ UNCHANGED <<program, waiting>> /\ Shape /\ Moved(t, "run")
  BY Moves DEF StealDone, tasks, IInv, PCs, Shape
<1>2. Allowed(t, k)
  BY <1>1 DEF Nesting, Permitted
<1> HIDE DEF k
<1>3. Below(t, k)
  BY <1>1, <1>2, AllowedIsBelow DEF Nesting, Suspended, Accounts
<1>4. TiedTasksNest'
  BY <1>1, <1>3, BeginStep DEF Nesting, IInv
<1>5. Suspended' /\ Permitted'
  BY <1>1, RunNesting DEF Shape
<1> QED BY <1>4, <1>5 DEF Nesting

LEMMA InitNesting == Init => Nesting
BY DEF Init, Nesting, Suspended, Permitted, TiedTasksNest

LEMMA NextNesting == IInv /\ Accounts /\ Nesting /\ [Next]_vars => Nesting'
<1> SUFFICES ASSUME IInv, Accounts, Nesting, [Next]_vars PROVE Nesting'
  OBVIOUS
<1>0. IInv' /\ Accounts'
  BY NextIInv, NextAccounts
<1>1. ASSUME NEW t \in Threads, Step(t) \/ Taskwait(t) \/ Doze(t) PROVE Nesting'
  <2>1. CASE CreateTask(t)
    BY <1>0, <2>1, CreateNesting
  <2>2. CASE FinishTask(t)
    BY <2>2, FinishNesting
  <2>3. CASE RemoveMyTask(t)
    BY <1>0, <2>3, RemoveNesting
  <2>4. CASE \E v \in Threads \ {t} : StealTake(t, v)
    BY <2>4, TakeNesting
  <2>5. CASE StealDone(t)
    BY <1>0, <2>5, StolenNesting
  <2>6. CASE QuietSteps(t) \/ Starved(t)
    BY <2>6, QuietNesting
  <2> QED
    BY <1>1, <2>1, <2>2, <2>3, <2>4, <2>5, <2>6 DEF Step, Victim, QuietSteps
<1>2. CASE UNCHANGED vars
  <2>1. UNCHANGED <<stack, waiting, pc, held, program>>
    BY <1>2 DEF vars
  <2>2. TiedTasksNest'
    BY <2>1, NestsIs, NestsNext DEF Nesting
  <2>3. Suspended'
    BY <2>1 DEF Nesting, Suspended, InTaskwait, Current
  <2>4. Permitted'
    <3> SUFFICES ASSUME NEW t \in Threads, pc'[t] = "taken" PROVE Allowed(t, held[t].task)'
      BY DEF Permitted
    <3>1. Allowed(t, held[t].task)
      BY <2>1 DEF Nesting, Permitted
    <3>2. Allowed(t, held[t].task)'
      <4>1. PICK k : k = held[t].task
        OBVIOUS
      <4>2. Current(t) \in waiting' <=> Current(t) \in waiting
        BY <2>1
      <4>3. Allowed(t, k)'
        BY <2>1, <3>1, <4>1, <4>2, AllowedKept
      <4> QED BY <2>1, <4>1, <4>3 DEF Allowed
    <3> QED BY <3>2
  <2> QED BY <2>2, <2>3, <2>4 DEF Nesting
<1> QED BY <1>1, <1>2 DEF Next

\* Of two tied tasks that a thread has begun, with no untied one in between, the
\* later descends from the earlier.
THEOREM TiedNesting == Spec => []TiedTasksNest
<1>1. Nesting => TiedTasksNest
  BY DEF Nesting
<1>2. Spec => []Nesting
  BY InitNesting, NextNesting, Invariance, AccountsKept, PTL DEF Spec
<1> QED BY <1>1, <1>2, PTL

===============================================================================
