------------------------------ MODULE KmpTasking ------------------------------
(***************************************************************************)
(* Explicit tasks of one parallel region in the OpenMP runtime             *)
(* (openmp/runtime/src/kmp_tasking.cpp, kmp_wait_release.h) up to the      *)
(* barrier that ends it.  Every thread has a deque of tasks: it pushes and *)
(* pops at the tail, others steal at the head.  The master leaves the      *)
(* barrier when tt_unfinished_threads is zero, and releases the others.    *)
(*                                                                         *)
(* The critical sections of td_deque_lock are steps, except that a thief   *)
(* holds the lock over two steps, because td_deque_ntasks is also read     *)
(* without it.  The user's code is a program: it says which task creates   *)
(* which, in the order of their numbers, and may wait for them at any      *)
(* point.  The implicit task of a thread is named by the thread.  Proxy    *)
(* tasks, dependences, untied tasks that move from thread to thread and a  *)
(* second barrier are left out; the gather phase is the linear one.        *)
(***************************************************************************)
EXTENDS Naturals, Sequences, FiniteSets, SequencesExt

CONSTANTS
  Threads,
  Master,
  DequeSize,   \* TASK_DEQUE_SIZE, a power of two
  NTasks,
  Programs     \* of NTasks tasks: who creates each, and which are untied

Tasks == 1 .. NTasks

ASSUME ThreadsAssumption ==
  IsFiniteSet(Threads) /\ Master \in Threads /\ "free" \notin Threads
ASSUME DequeAssumption == DequeSize \in Nat \ {0}
ASSUME ProgramsAssumption ==
  /\ NTasks \in Nat /\ Threads \cap (0 .. NTasks) = {}
  /\ \A p \in Programs :
       /\ p.parent \in [Tasks -> Threads \union Tasks] /\ p.untied \subseteq Tasks
       /\ \A k \in Tasks : p.parent[k] \in Tasks => p.parent[k] < k

VARIABLES
  deque,        \* td_deque of each thread
  head, tail, ntasks,
  lock,         \* td_deque_lock: the thief that holds it, or "free"
  unfinished,   \* tt_unfinished_threads
  found,        \* tt_found_tasks
  stack,        \* the explicit tasks begun and not ended by each thread
  program,      \* the program that runs
  created,      \* the tasks created so far
  incomplete,   \* td_incomplete_child_tasks
  waiting,      \* the tasks inside a taskwait
  phase,        \* how far each thread is with the barrier
  pc,           \* where it is in the code
  finished,     \* *thread_finished in its wait at the barrier
  held          \* victim and task of a thief that holds a lock

vars == <<deque, head, tail, ntasks, lock, unfinished, found, stack, program, created, incomplete,
          waiting, phase, pc, finished, held>>
deques == <<deque, head, tail, ntasks, lock>>
tasks == <<program, created, incomplete>>
team == <<unfinished, finished>>

Slots == 0 .. DequeSize - 1
Nothing == [victim |-> "none", task |-> 0]

Init ==
  /\ deque = [t \in Threads |-> [s \in Slots |-> 0]]
  /\ head = [t \in Threads |-> 0]
  /\ tail = [t \in Threads |-> 0]
  /\ ntasks = [t \in Threads |-> 0]
  /\ lock = [t \in Threads |-> "free"]
  /\ unfinished = Cardinality(Threads)
  /\ found = FALSE
  /\ stack = [t \in Threads |-> <<>>]
  /\ program \in Programs
  /\ created = {}
  /\ incomplete = [x \in Threads \union Tasks |-> 0]
  /\ waiting = {}
  /\ phase = [t \in Threads |-> "region"]
  /\ pc = [t \in Threads |-> "run"]
  /\ finished = [t \in Threads |-> FALSE]
  /\ held = [t \in Threads |-> Nothing]

\* td_parent, and tiedness.
Parent(k) == program.parent[k]
Untied == program.untied
\* th_current_task.
Current(t) == IF stack[t] = <<>> THEN t ELSE Last(stack[t])
InTaskwait(t) == Current(t) \in waiting
\* The spin at the release barrier: the call of execute_tasks with final_spin.
FinalSpin(t) == phase[t] = "final" /\ stack[t] = <<>> /\ ~InTaskwait(t)

Goto(t, l) == pc' = [pc EXCEPT ![t] = l]
\* t goes to l, and those of the others that sleep are resumed.
GotoAndResume(t, l, others) ==
  pc' = [u \in Threads |-> IF u = t THEN l
                           ELSE IF u \in others /\ pc[u] = "asleep" THEN "loop" ELSE pc[u]]

-------------------------------------------------------------------------------
(* The deques. *)

Wrap(i) == i % DequeSize
Slot(v, i) == Wrap(head[v] + i)
\* The tasks in the deque of v, from head to tail.
Queued(v) ==
  LET n == IF lock[v] = "free" THEN ntasks[v] ELSE ntasks[v] - 1
  IN  [i \in 1 .. n |-> deque[v][Slot(v, i - 1)]]

Push(v, k) ==
  /\ deque' = [deque EXCEPT ![v][tail[v]] = k]
  /\ tail' = [tail EXCEPT ![v] = Wrap(@ + 1)]
  /\ ntasks' = [ntasks EXCEPT ![v] = @ + 1]
  /\ UNCHANGED head

TailTask(v) == deque[v][Wrap(tail[v] + DequeSize - 1)]
Pop(v) ==
  /\ tail' = [tail EXCEPT ![v] = Wrap(@ + DequeSize - 1)]
  /\ ntasks' = [ntasks EXCEPT ![v] = @ - 1]
  /\ UNCHANGED <<deque, head>>

\* The tasks after number i move one slot towards the head.
Shifted(v, i) ==
  [s \in Slots |-> IF \E j \in i .. ntasks[v] - 2 : s = Slot(v, j)
                   THEN deque[v][Wrap(s + 1)] ELSE deque[v][s]]
\* Task number i, from 0, leaves the deque of v; ntasks is written later.
Take(v, i) ==
  /\ IF i = 0
     THEN /\ head' = [head EXCEPT ![v] = Wrap(@ + 1)]
          /\ UNCHANGED <<deque, tail>>
     ELSE /\ deque' = [deque EXCEPT ![v] = Shifted(v, i)]
          /\ tail' = [tail EXCEPT ![v] = Wrap(@ + DequeSize - 1)]
          /\ UNCHANGED head
  /\ UNCHANGED ntasks

\* The task scheduling constraint.
Ancestors[k \in Tasks] ==
  {Parent(k)} \union IF Parent(k) \in Tasks THEN Ancestors[Parent(k)] ELSE {}
\* td_last_tied of the current task: the last tied one that t has begun.
LastTied(t) ==
  LET tied == {i \in DOMAIN stack[t] : stack[t][i] \notin Untied}
  IN  IF tied = {} THEN t ELSE stack[t][Max(tied)]
\* The wait of t lets it begin the task k.
AllowedMutant(t, k) == TRUE
Allowed(t, k) ==
  \/ ~InTaskwait(t) \/ k \in Untied
  \/ LastTied(t) = t /\ t \notin waiting
  \/ LastTied(t) \in Ancestors[k]

\* The tasks that t may steal from v: the first; when there are untied tasks,
\* the next that is allowed.
Candidates(t, v) ==
  LET ok == {i \in 0 .. ntasks[v] - 1 : Allowed(t, deque[v][Slot(v, i)])}
      untied == created \cap Untied # {}
  IN  {i \in ok : (i = 0 \/ untied) /\ \A j \in ok : i <= j}

-------------------------------------------------------------------------------
(* User code: creating tasks, waiting for them, ending, and the barrier. *)

\* What the current task of t has still to create.
ToCreate(t) == {k \in Tasks \ created : Parent(k) = Current(t)}

\* __kmp_task_alloc and __kmp_omp_task.  A task that finds the deque full is
\* invoked at once; the first that is pushed wakes the threads that sleep.
CreateTask(t) == \E k \in ToCreate(t) :
  /\ pc[t] = "run" /\ \A j \in ToCreate(t) : k <= j
  /\ created' = created \union {k}
  /\ incomplete' = [incomplete EXCEPT ![Current(t)] = @ + 1]
  /\ \/ /\ ntasks[t] >= DequeSize
        /\ stack' = [stack EXCEPT ![t] = Append(@, k)]
        /\ UNCHANGED <<deque, head, tail, ntasks, found, pc>>
     \/ /\ ntasks[t] < DequeSize /\ lock[t] = "free"
        /\ Push(t, k)
        /\ found' = TRUE
        /\ GotoAndResume(t, "run", IF found THEN {} ELSE Threads)
        /\ UNCHANGED stack
  /\ UNCHANGED <<lock, team, program, waiting, phase, held>>

\* __kmpc_omp_taskwait_template; it is nothing when there is nothing to wait for.
Taskwait(t) ==
  /\ pc[t] = "run" /\ incomplete[Current(t)] # 0
  /\ waiting' = waiting \union {Current(t)}
  /\ Goto(t, "loop")
  /\ UNCHANGED <<deques, team, found, stack, tasks, phase, held>>

\* __kmp_task_finish: back to the task or the wait that was suspended.
FinishTask(t) ==
  /\ pc[t] = "run" /\ stack[t] # <<>> /\ ToCreate(t) = {}
  /\ stack' = [stack EXCEPT ![t] = Front(@)]
  /\ incomplete' = [incomplete EXCEPT ![Parent(Current(t))] = @ - 1]
  /\ LET below == IF Len(stack[t]) = 1 THEN t ELSE stack[t][Len(stack[t]) - 1]
     IN  Goto(t, IF below \in waiting THEN "loop"
                 ELSE IF below # t \/ phase[t] = "region" THEN "run"
                 ELSE IF phase[t] = "final" THEN "seek" ELSE "loop")
  /\ UNCHANGED <<deques, team, found, program, created, waiting, phase, held>>

\* __kmp_barrier: a worker tells the master that it is there.
Arrive(t) ==
  /\ pc[t] = "run" /\ stack[t] = <<>> /\ ToCreate(t) = {}
  /\ phase' = [phase EXCEPT ![t] = IF t = Master THEN "gather" ELSE "final"]
  /\ GotoAndResume(t, "loop", {Master})
  /\ UNCHANGED <<deques, team, found, stack, tasks, waiting, held>>

-------------------------------------------------------------------------------
(* The waits: taskwait, and __kmp_wait_template at the barrier. *)

\* tt_active; the master clears it before it releases the workers.
Active == phase[Master] \notin {"release", "out"}

\* What t waits for has happened.
FlagDone(t) ==
  \/ InTaskwait(t) /\ incomplete[Current(t)] = 0
  \/ /\ ~InTaskwait(t) /\ phase[t] = "gather"
     /\ \A u \in Threads \ {t} : phase[u] = "final"
  \/ FinalSpin(t) /\ t = Master /\ unfinished = 0
  \/ FinalSpin(t) /\ t # Master /\ phase[Master] = "out"

\* A taskwait that gives up when there is no task for it to execute.
TaskwaitDoneMutant(t) ==
  /\ pc[t] = "loop" /\ InTaskwait(t) /\ (FlagDone(t) \/ ntasks[t] = 0)
  /\ waiting' = waiting \ {Current(t)}
  /\ Goto(t, "run")
  /\ UNCHANGED <<deques, team, found, stack, tasks, phase, held>>
TaskwaitDone(t) ==
  /\ pc[t] = "loop" /\ InTaskwait(t) /\ FlagDone(t)
  /\ waiting' = waiting \ {Current(t)}
  /\ Goto(t, "run")
  /\ UNCHANGED <<deques, team, found, stack, tasks, phase, held>>

\* All have arrived.  __kmp_task_team_wait waits if there ever was a task.
GatherDone(t) ==
  /\ pc[t] = "loop" /\ phase[t] = "gather" /\ ~InTaskwait(t) /\ FlagDone(t)
  /\ phase' = [phase EXCEPT ![t] = IF found THEN "final" ELSE "release"]
  /\ UNCHANGED <<deques, team, found, stack, tasks, waiting, pc, held>>

TeamWaitDone(t) ==
  /\ pc[t] = "loop" /\ t = Master /\ FinalSpin(t) /\ FlagDone(t)
  /\ phase' = [phase EXCEPT ![t] = "release"]
  /\ UNCHANGED <<deques, team, found, stack, tasks, waiting, pc, held>>

Release(t) ==
  /\ phase[t] = "release"
  /\ phase' = [phase EXCEPT ![t] = "out"]
  /\ GotoAndResume(t, "out", Threads)
  /\ UNCHANGED <<deques, team, found, stack, tasks, waiting, held>>

Released(t) ==
  /\ pc[t] = "loop" /\ t # Master /\ FinalSpin(t) /\ FlagDone(t)
  /\ phase' = [phase EXCEPT ![t] = "out"]
  /\ Goto(t, "out")
  /\ UNCHANGED <<deques, team, found, stack, tasks, waiting, held>>

LookForTasks(t) ==
  /\ pc[t] = "loop" /\ phase[t] # "release" /\ ~FlagDone(t)
  /\ InTaskwait(t) \/ (found /\ Active)
  /\ Goto(t, "seek")
  /\ UNCHANGED <<deques, team, found, stack, tasks, waiting, phase, held>>

\* Nothing to do for long enough.  By the time the thread sleeps there may be
\* tasks; only its flag is tested again.
Doze(t) ==
  /\ pc[t] = "loop" /\ phase[t] # "release" /\ ~InTaskwait(t) /\ ~FlagDone(t)
  /\ ~(found /\ Active)
  /\ Goto(t, "doze")
  /\ UNCHANGED <<deques, team, found, stack, tasks, waiting, phase, held>>

Suspend(t) ==
  /\ pc[t] = "doze"
  /\ Goto(t, IF FlagDone(t) THEN "loop" ELSE "asleep")
  /\ UNCHANGED <<deques, team, found, stack, tasks, waiting, phase, held>>

-------------------------------------------------------------------------------
(* __kmp_execute_tasks_template: its own tasks first, then those of a victim. *)

\* Without td_deque_lock.
RemoveMyTaskMutant(t) ==
  /\ pc[t] = "seek" /\ ntasks[t] > 0
  /\ Allowed(t, TailTask(t))
  /\ Pop(t)
  /\ stack' = [stack EXCEPT ![t] = Append(@, TailTask(t))]
  /\ Goto(t, "run")
  /\ UNCHANGED <<lock, team, found, tasks, waiting, phase, held>>
RemoveMyTask(t) ==
  /\ pc[t] = "seek" /\ ntasks[t] > 0 /\ lock[t] = "free"
  /\ Allowed(t, TailTask(t))
  /\ Pop(t)
  /\ stack' = [stack EXCEPT ![t] = Append(@, TailTask(t))]
  /\ Goto(t, "run")
  /\ UNCHANGED <<lock, team, found, tasks, waiting, phase, held>>

NoTaskOfMine(t) ==
  /\ pc[t] = "seek"
  /\ ntasks[t] # 0 => lock[t] = "free" /\ ~Allowed(t, TailTask(t))
  /\ Goto(t, "steal")
  /\ UNCHANGED <<deques, team, found, stack, tasks, waiting, phase, held>>

\* th_sleep_loc of the victim is not looked at.
WakeVictimMutant(t, v) ==
  /\ pc[t] = "steal" /\ pc[v] = "asleep" /\ ntasks[v] = 0
  /\ Goto(t, "starved")
  /\ UNCHANGED <<deques, team, found, stack, tasks, waiting, phase, held>>
WakeVictim(t, v) ==
  /\ pc[t] = "steal" /\ pc[v] = "asleep"
  /\ Goto(v, "loop")
  /\ UNCHANGED <<deques, team, found, stack, tasks, waiting, phase, held>>

StealFails(t, v) ==
  /\ pc[t] = "steal" /\ pc[v] # "asleep"
  /\ ntasks[v] # 0 => lock[v] = "free" /\ Candidates(t, v) = {}
  /\ Goto(t, "starved")
  /\ UNCHANGED <<deques, team, found, stack, tasks, waiting, phase, held>>

\* __kmp_steal_task with the lock of v.  A thread that counted as finished is
\* counted again before the deque of v can be seen to be empty.
StealTakeMutant(t, v) ==
  /\ pc[t] = "steal" /\ pc[v] # "asleep" /\ ntasks[v] > 0 /\ lock[v] = "free"
  /\ \E i \in Candidates(t, v) :
       /\ held' = [held EXCEPT ![t] = [victim |-> v, task |-> deque[v][Slot(v, i)]]]
       /\ Take(v, i)
  /\ lock' = [lock EXCEPT ![v] = t]
  /\ UNCHANGED team
  /\ Goto(t, "taken")
  /\ UNCHANGED <<found, stack, tasks, waiting, phase>>
StealTake(t, v) ==
  /\ pc[t] = "steal" /\ pc[v] # "asleep" /\ ntasks[v] > 0 /\ lock[v] = "free"
  /\ \E i \in Candidates(t, v) :
       /\ held' = [held EXCEPT ![t] = [victim |-> v, task |-> deque[v][Slot(v, i)]]]
       /\ Take(v, i)
  /\ lock' = [lock EXCEPT ![v] = t]
  /\ IF FinalSpin(t) /\ finished[t]
     THEN /\ unfinished' = unfinished + 1
          /\ finished' = [finished EXCEPT ![t] = FALSE]
     ELSE UNCHANGED team
  /\ Goto(t, "taken")
  /\ UNCHANGED <<found, stack, tasks, waiting, phase>>

StealDone(t) ==
  /\ pc[t] = "taken"
  /\ ntasks' = [ntasks EXCEPT ![held[t].victim] = @ - 1]
  /\ lock' = [lock EXCEPT ![held[t].victim] = "free"]
  /\ stack' = [stack EXCEPT ![t] = Append(@, held[t].task)]
  /\ held' = [held EXCEPT ![t] = Nothing]
  /\ Goto(t, "run")
  /\ UNCHANGED <<deque, head, tail, team, found, tasks, waiting, phase>>

\* No task found.  In the final spin the thread reports once that it is done,
\* unless children of its implicit task are not.
Starved(t) ==
  /\ pc[t] = "starved"
  /\ IF FinalSpin(t) /\ incomplete[t] = 0 /\ ~finished[t]
     THEN /\ unfinished' = unfinished - 1
          /\ finished' = [finished EXCEPT ![t] = TRUE]
     ELSE UNCHANGED team
  /\ Goto(t, "loop")
  /\ UNCHANGED <<deques, found, stack, tasks, waiting, phase, held>>

-------------------------------------------------------------------------------
Victim(t, v) == WakeVictim(t, v) \/ StealFails(t, v) \/ StealTake(t, v)

\* What every thread does without choice of the user.
Step(t) ==
  \/ CreateTask(t) \/ FinishTask(t) \/ Arrive(t)
  \/ TaskwaitDone(t) \/ GatherDone(t) \/ TeamWaitDone(t) \/ Release(t) \/ Released(t)
  \/ LookForTasks(t) \/ Suspend(t) \/ RemoveMyTask(t) \/ NoTaskOfMine(t)
  \/ \E v \in Threads \ {t} : Victim(t, v)
  \/ StealDone(t) \/ Starved(t)

AllOut == \A t \in Threads : phase[t] = "out"

Next ==
  \/ \E t \in Threads : Step(t) \/ Taskwait(t) \/ Doze(t)
  \/ AllOut /\ UNCHANGED vars

Spec == Init /\ [][Next]_vars

\* Threads run, tasks end, and __kmp_get_random comes back to every victim.
FairSpec ==
  /\ Spec
  /\ \A t \in Threads : WF_vars(Step(t))
  /\ \A t \in Threads : \A v \in Threads \ {t} : SF_vars(Victim(t, v))

-------------------------------------------------------------------------------
\* The master leaves __kmp_task_team_wait only when nothing is left: no task in
\* a deque, none on its way to a thief, none begun and not ended.
NothingLeft ==
  ~Active => \A t \in Threads :
    stack[t] = <<>> /\ ntasks[t] = 0 /\ pc[t] # "taken"

\* The tasks on their way: in the deque of v, in the hands of a thief, begun by t.
Waiting(v) == {Queued(v)[i] : i \in DOMAIN Queued(v)}
Begun(t) == {stack[t][i] : i \in DOMAIN stack[t]}
Stolen(t) == {held[t].task} \ {0}
Live == UNION {Waiting(t) \union Begun(t) \union Stolen(t) : t \in Threads}

\* No deque and no thief loses a task or gives it to two threads, and the count
\* that a taskwait and the barrier look at is that of the children not ended.
EachTaskOnce ==
  /\ \A t \in Threads : IsInjective(Queued(t)) /\ IsInjective(stack[t])
  /\ \A t, u \in Threads :
       /\ t # u => Waiting(t) \cap Waiting(u) = {} /\ Begun(t) \cap Begun(u) = {}
                    /\ Stolen(t) \cap Stolen(u) = {}
       /\ Waiting(t) \cap Begun(u) = {} /\ Waiting(t) \cap Stolen(u) = {}
       /\ Begun(t) \cap Stolen(u) = {}
  /\ \A p \in Threads \union Tasks :
       incomplete[p] = Cardinality({k \in Live : Parent(k) = p})

\* A taskwait ends only after the children of the task have ended.
TaskwaitWaits ==
  [][\A p \in waiting \ waiting' : \A k \in Live' : Parent(k) # p]_vars

\* Of two tied tasks that a thread has begun, the one begun later descends from
\* the other, if the thread has not begun an untied one in between.
TiedTasksNest ==
  \A t \in Threads : \A i, j \in DOMAIN stack[t] :
    i < j /\ (\A n \in i .. j : stack[t][n] \notin Untied)
      => stack[t][i] \in Ancestors[stack[t][j]]

\* Every thread gets through the barrier.
EveryoneLeaves == <>AllOut
===============================================================================
