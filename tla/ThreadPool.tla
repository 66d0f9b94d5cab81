------------------------------ MODULE ThreadPool ------------------------------
(***************************************************************************)
(* llvm::ThreadPool (llvm/lib/Support/ThreadPool.cpp, the build with       *)
(* LLVM_ENABLE_THREADS).  Worker threads pop tasks from one queue; client  *)
(* threads call async() and wait(), a running task may call async() too,   *)
(* and the owner destroys the pool once no client is inside a call.        *)
(*                                                                         *)
(* The two mutexes are explicit because Tasks is written under QueueLock   *)
(* and read by wait() under CompletionLock only.  A condition variable is  *)
(* the set of threads blocked on it.                                       *)
(***************************************************************************)
EXTENDS Naturals, Sequences, FiniteSets, Functions

CONSTANTS
  Workers,      \* the threads of the pool
  Clients,      \* the threads that hold a reference to it
  TaskIds,      \* the tasks; each is submitted at most once
  MaxSpurious,  \* bound on the spurious wakeups of std::condition_variable
  NoThread,     \* the holder of a free mutex
  NoTask

ASSUME ThreadsAssumption ==
  /\ IsFiniteSet(Workers) /\ Workers # {}
  /\ Workers \cap Clients = {}
  /\ NoThread \notin Workers \cup Clients
ASSUME TasksAssumption == NoTask \notin TaskIds
ASSUME SpuriousAssumption == MaxSpurious \in Nat

VARIABLES
  Tasks,               \* the queue
  ActiveThreads,
  EnableFlag,
  QueueLock,           \* holder of the mutex, or NoThread
  CompletionLock,
  QueueCondition,      \* threads blocked on the condition variable
  CompletionCondition,
  pc,                  \* where each thread is
  arg,                 \* the task a thread is passing to async()
  running,             \* the packaged task a worker has popped
  dtor,                \* progress of ~ThreadPool
  finished,            \* tasks whose future is ready
  before,              \* history: tasks queued when a client entered wait()
  spurious             \* spurious wakeups so far

vars == <<Tasks, ActiveThreads, EnableFlag, QueueLock, CompletionLock,
          QueueCondition, CompletionCondition, pc, arg, running, dtor,
          finished, before, spurious>>

Threads == Workers \cup Clients

\* The places where a worker counts as active: between ++ and --ActiveThreads.
ActivePcs == {"pop", "run", "push", "notifyone", "complete"}
WorkerPcs == {"loop", "qwait", "grab", "notifyall", "exited"} \cup ActivePcs
ClientPcs == {"idle", "push", "notifyone", "wlock", "wactive", "wtasks", "cwait",
              "returned"}

\* Every task ever pushed is in one of these places.
Queued == Range(Tasks)
InFlight == {running[w] : w \in Workers} \ {NoTask}
Submitted == Queued \cup InFlight \cup finished
Passing == {arg[t] : t \in Threads} \ {NoTask}

Init ==
  /\ Tasks = <<>>
  /\ ActiveThreads = 0
  /\ EnableFlag = TRUE
  /\ QueueLock = NoThread
  /\ CompletionLock = NoThread
  /\ QueueCondition = {}
  /\ CompletionCondition = {}
  /\ pc = [t \in Threads |-> IF t \in Workers THEN "loop" ELSE "idle"]
  /\ arg = [t \in Threads |-> NoTask]
  /\ running = [w \in Workers |-> NoTask]
  /\ dtor = "alive"
  /\ finished = {}
  /\ before = [c \in Clients |-> {}]
  /\ spurious = 0

Goto(t, l) == pc' = [pc EXCEPT ![t] = l]

-----------------------------------------------------------------------------
(* The loop of a worker thread. *)

\* The exit condition of the loop, and a mutant that forgets the queue.
ExitConditionMutant == ~EnableFlag
ExitCondition == ~EnableFlag /\ Tasks = <<>>

\* Take QueueLock, evaluate the predicate of QueueCondition.wait; block, exit
\* or go on with the lock held.
WorkerLock(w) ==
  /\ pc[w] = "loop"
  /\ QueueLock = NoThread
  /\ \/ /\ EnableFlag /\ Tasks = <<>>
        /\ QueueCondition' = QueueCondition \cup {w}
        /\ Goto(w, "qwait")
        /\ UNCHANGED QueueLock
     \/ /\ ExitCondition
        /\ Goto(w, "exited")
        /\ UNCHANGED <<QueueLock, QueueCondition>>
     \/ /\ Tasks # <<>> /\ ~ExitCondition
        /\ QueueLock' = w
        /\ Goto(w, "grab")
        /\ UNCHANGED QueueCondition
  /\ UNCHANGED <<Tasks, ActiveThreads, EnableFlag, CompletionLock,
                 CompletionCondition, arg, running, dtor, finished, before, spurious>>

\* Signal that we are active, under CompletionLock, before popping the queue.
WorkerActivate(w) ==
  /\ pc[w] = "grab"
  /\ CompletionLock = NoThread
  /\ ActiveThreads' = ActiveThreads + 1
  /\ Goto(w, "pop")
  /\ UNCHANGED <<Tasks, EnableFlag, QueueLock, CompletionLock, QueueCondition,
                 CompletionCondition, arg, running, dtor, finished, before, spurious>>

\* Pop the front task and leave the critical section of QueueLock.
WorkerPop(w) ==
  /\ pc[w] = "pop"
  /\ running' = [running EXCEPT ![w] = Head(Tasks)]
  /\ Tasks' = Tail(Tasks)
  /\ QueueLock' = NoThread
  /\ Goto(w, "run")
  /\ UNCHANGED <<ActiveThreads, EnableFlag, CompletionLock, QueueCondition,
                 CompletionCondition, arg, dtor, finished, before, spurious>>

\* The task returns: its shared_future becomes ready.
WorkerRun(w) ==
  /\ pc[w] = "run"
  /\ finished' = finished \cup {running[w]}
  /\ running' = [running EXCEPT ![w] = NoTask]
  /\ Goto(w, "complete")
  /\ UNCHANGED <<Tasks, ActiveThreads, EnableFlag, QueueLock, CompletionLock,
                 QueueCondition, CompletionCondition, arg, dtor, before, spurious>>

WorkerComplete(w) ==
  /\ pc[w] = "complete"
  /\ CompletionLock = NoThread
  /\ ActiveThreads' = ActiveThreads - 1
  /\ Goto(w, "notifyall")
  /\ UNCHANGED <<Tasks, EnableFlag, QueueLock, CompletionLock, QueueCondition,
                 CompletionCondition, arg, running, dtor, finished, before, spurious>>

\* CompletionCondition.notify_all() after the unlock, and a mutant without it.
CompletionNotifiedMutant == {}
CompletionNotified == CompletionCondition

WorkerNotify(w) ==
  /\ pc[w] = "notifyall"
  /\ CompletionCondition' = CompletionCondition \ CompletionNotified
  /\ pc' = [t \in Threads |-> IF t = w THEN "loop"
                              ELSE IF t \in CompletionNotified THEN "wlock"
                              ELSE pc[t]]
  /\ UNCHANGED <<Tasks, ActiveThreads, EnableFlag, QueueLock, CompletionLock,
                 QueueCondition, arg, running, dtor, finished, before, spurious>>

-----------------------------------------------------------------------------
(* asyncImpl(), called by a client or by the task a worker is running. *)

MayCallAsync(t) ==
  \/ t \in Workers /\ pc[t] = "run"
  \/ t \in Clients /\ pc[t] \in {"idle", "returned"} /\ dtor = "alive"

\* Lock QueueLock; the assertion on EnableFlag is part of the guard.
AsyncLock(t, k) ==
  /\ MayCallAsync(t)
  /\ EnableFlag
  /\ k \notin Submitted \cup Passing
  /\ QueueLock = NoThread
  /\ QueueLock' = t
  /\ arg' = [arg EXCEPT ![t] = k]
  /\ Goto(t, "push")
  /\ UNCHANGED <<Tasks, ActiveThreads, EnableFlag, CompletionLock, QueueCondition,
                 CompletionCondition, running, dtor, finished, before, spurious>>

\* Tasks.push, then unlock.
AsyncPush(t) ==
  /\ pc[t] = "push"
  /\ Tasks' = Append(Tasks, arg[t])
  /\ arg' = [arg EXCEPT ![t] = NoTask]
  /\ QueueLock' = NoThread
  /\ Goto(t, "notifyone")
  /\ UNCHANGED <<ActiveThreads, EnableFlag, CompletionLock, QueueCondition,
                 CompletionCondition, running, dtor, finished, before, spurious>>

\* The sets of workers QueueCondition.notify_one() may wake, and a mutant that
\* forgets the call.
WokenByAsyncMutant == {{}}
WokenByAsync ==
  IF QueueCondition = {} THEN {{}} ELSE {{w} : w \in QueueCondition}

\* The notification, outside the lock; then return to the caller.
AsyncNotify(t) ==
  /\ pc[t] = "notifyone"
  /\ \E S \in WokenByAsync :
       /\ QueueCondition' = QueueCondition \ S
       /\ pc' = [u \in Threads |-> IF u \in S THEN "loop"
                                   ELSE IF u # t THEN pc[u]
                                   ELSE IF t \in Workers THEN "run" ELSE "idle"]
  /\ UNCHANGED <<Tasks, ActiveThreads, EnableFlag, QueueLock, CompletionLock,
                 CompletionCondition, arg, running, dtor, finished, before, spurious>>

-----------------------------------------------------------------------------
(* wait(). *)

WaitCall(c) ==
  /\ pc[c] \in {"idle", "returned"}
  /\ dtor = "alive"
  /\ before' = [before EXCEPT ![c] = Submitted]
  /\ Goto(c, "wlock")
  /\ UNCHANGED <<Tasks, ActiveThreads, EnableFlag, QueueLock, CompletionLock,
                 QueueCondition, CompletionCondition, arg, running, dtor, finished,
                 spurious>>

\* Take (or, after a wakeup, take again) CompletionLock.
WaitLock(c) ==
  /\ pc[c] = "wlock"
  /\ CompletionLock = NoThread
  /\ CompletionLock' = c
  /\ Goto(c, "wactive")
  /\ UNCHANGED <<Tasks, ActiveThreads, EnableFlag, QueueLock, QueueCondition,
                 CompletionCondition, arg, running, dtor, finished, before, spurious>>

\* Block on CompletionCondition, releasing CompletionLock in the same step.
Block(c) ==
  /\ CompletionCondition' = CompletionCondition \cup {c}
  /\ CompletionLock' = NoThread
  /\ Goto(c, "cwait")

\* First operand of the predicate, and a mutant that drops it.
NoneActiveMutant == TRUE
NoneActive == ActiveThreads = 0

WaitTestActive(c) ==
  /\ pc[c] = "wactive"
  /\ \/ ~NoneActive /\ Block(c)
     \/ /\ NoneActive
        /\ Goto(c, "wtasks")
        /\ UNCHANGED <<CompletionLock, CompletionCondition>>
  /\ UNCHANGED <<Tasks, ActiveThreads, EnableFlag, QueueLock, QueueCondition,
                 arg, running, dtor, finished, before, spurious>>

\* What Tasks.empty() can answer without QueueLock: while a push to the empty
\* queue is under way the read races with it and sees either value.
EmptyReads ==
  IF Tasks # <<>> THEN {FALSE}
  ELSE IF \E t \in Threads : pc[t] = "push" THEN BOOLEAN ELSE {TRUE}

\* Second operand: Tasks.empty().
WaitTestTasks(c) ==
  /\ pc[c] = "wtasks"
  /\ \E empty \in EmptyReads :
       \/ ~empty /\ Block(c)
       \/ /\ empty
          /\ CompletionLock' = NoThread
          /\ Goto(c, "returned")
          /\ UNCHANGED CompletionCondition
  /\ UNCHANGED <<Tasks, ActiveThreads, EnableFlag, QueueLock, QueueCondition,
                 arg, running, dtor, finished, before, spurious>>

-----------------------------------------------------------------------------
(* ~ThreadPool(), run by the owner when no client is inside a call. *)

DtorDisable ==
  /\ dtor = "alive"
  /\ \A c \in Clients : pc[c] \in {"idle", "returned"}
  /\ QueueLock = NoThread
  /\ EnableFlag' = FALSE
  /\ dtor' = "notify"
  /\ UNCHANGED <<Tasks, ActiveThreads, QueueLock, CompletionLock, QueueCondition,
                 CompletionCondition, pc, arg, running, finished, before, spurious>>

\* notify_all(), and a mutant that wakes one worker only.
WokenByDtorMutant == WokenByAsync
WokenByDtor == {QueueCondition}

DtorNotify ==
  /\ dtor = "notify"
  /\ \E S \in WokenByDtor :
       /\ QueueCondition' = QueueCondition \ S
       /\ pc' = [t \in Threads |-> IF t \in S THEN "loop" ELSE pc[t]]
  /\ dtor' = "join"
  /\ UNCHANGED <<Tasks, ActiveThreads, EnableFlag, QueueLock, CompletionLock,
                 CompletionCondition, arg, running, finished, before, spurious>>

DtorJoin ==
  /\ dtor = "join"
  /\ \A w \in Workers : pc[w] = "exited"
  /\ dtor' = "destroyed"
  /\ UNCHANGED <<Tasks, ActiveThreads, EnableFlag, QueueLock, CompletionLock,
                 QueueCondition, CompletionCondition, pc, arg, running, finished,
                 before, spurious>>

-----------------------------------------------------------------------------
\* std::condition_variable::wait may wake without a notification.
SpuriousWakeup(t) ==
  /\ spurious < MaxSpurious
  /\ spurious' = spurious + 1
  /\ \/ /\ t \in QueueCondition
        /\ QueueCondition' = QueueCondition \ {t}
        /\ Goto(t, "loop")
        /\ UNCHANGED CompletionCondition
     \/ /\ t \in CompletionCondition
        /\ CompletionCondition' = CompletionCondition \ {t}
        /\ Goto(t, "wlock")
        /\ UNCHANGED QueueCondition
  /\ UNCHANGED <<Tasks, ActiveThreads, EnableFlag, QueueLock, CompletionLock,
                 arg, running, dtor, finished, before>>

WorkerStep(w) ==
  \/ WorkerLock(w) \/ WorkerActivate(w) \/ WorkerPop(w) \/ WorkerRun(w)
  \/ WorkerComplete(w) \/ WorkerNotify(w)
AsyncStep(t) == AsyncPush(t) \/ AsyncNotify(t)
WaitStep(c) == WaitLock(c) \/ WaitTestActive(c) \/ WaitTestTasks(c)

\* A destroyed pool takes no more steps.
Destroyed == dtor = "destroyed" /\ UNCHANGED vars

Next ==
  \/ \E w \in Workers : WorkerStep(w)
  \/ \E t \in Threads : AsyncStep(t) \/ SpuriousWakeup(t)
  \/ \E t \in Threads, k \in TaskIds : AsyncLock(t, k)
  \/ \E c \in Clients : WaitCall(c) \/ WaitStep(c)
  \/ DtorDisable \/ DtorNotify \/ DtorJoin
  \/ Destroyed

Spec == Init /\ [][Next]_vars

\* Every thread that can take a step of a call it is inside takes it: the
\* scheduler runs all threads, and every critical section is finite.  Calling
\* async(), wait() or the destructor is the program's choice and is not fair.
Fairness ==
  /\ \A w \in Workers : WF_vars(WorkerStep(w))
  /\ \A t \in Threads : WF_vars(AsyncStep(t))
  /\ \A c \in Clients : WF_vars(WaitStep(c))
  /\ WF_vars(DtorNotify) /\ WF_vars(DtorJoin)

FairSpec == Spec /\ Fairness
-----------------------------------------------------------------------------
TypeOK ==
  /\ Tasks \in Seq(TaskIds)
  /\ ActiveThreads \in Nat
  /\ EnableFlag \in BOOLEAN
  /\ QueueLock \in Threads \cup {NoThread}
  /\ CompletionLock \in Clients \cup {NoThread}
  /\ QueueCondition \subseteq Workers
  /\ CompletionCondition \subseteq Clients
  /\ pc \in [Threads -> WorkerPcs \cup ClientPcs]
  /\ \A w \in Workers : pc[w] \in WorkerPcs
  /\ \A c \in Clients : pc[c] \in ClientPcs
  /\ arg \in [Threads -> TaskIds \cup {NoTask}]
  /\ running \in [Workers -> TaskIds \cup {NoTask}]
  /\ dtor \in {"alive", "notify", "join", "destroyed"}
  /\ finished \subseteq TaskIds
  /\ before \in [Clients -> SUBSET TaskIds]
  /\ spurious \in 0..MaxSpurious

\* wait() returns only after every task that was queued when it was called has
\* run: a task is never overlooked while a worker moves it from the queue to
\* its own stack, whatever the order of the unlocked reads of the predicate.
WaitCoversEarlierTasks ==
  \A c \in Clients : pc[c] = "returned" => before[c] \subseteq finished

\* ~ThreadPool returns only when the queue is drained and every task that was
\* ever accepted has run, so no future of the pool is left unfulfilled.
DestructorDrains ==
  dtor = "destroyed" => Tasks = <<>> /\ InFlight = {} /\ Passing = {}

\* The workers that will look at the queue, and the calls of async() that have
\* yet to notify.
Coming == {w \in Workers : pc[w] \in {"loop", "grab", "pop", "complete", "notifyall"}}
Waking == {t \in Threads : pc[t] = "notifyone"}
\* What leads to CompletionCondition.notify_all().
NotificationAhead ==
  \/ Tasks # <<>> \/ (\E w \in Workers : pc[w] \in ActivePcs \cup {"notifyall"})
  \/ \E t \in Threads : pc[t] = "push"

\* No wakeup is lost, in any order of pushes, notifications and blocking, none of
\* which excludes the others.  While a worker sleeps, every queued task has a
\* worker of its own that is coming or a notification that is: tasks do not queue
\* up behind busy workers.  Who sleeps in wait() will be notified: a worker is
\* active or about to notify, or a task is queued or being pushed.  Nobody sleeps
\* while the destructor joins.
NoLostWakeup ==
  /\ QueueCondition # {} => Len(Tasks) <= Cardinality(Coming) + Cardinality(Waking)
  /\ CompletionCondition # {} => NotificationAhead
  /\ dtor \in {"join", "destroyed"} => QueueCondition = {}

\* No lost wakeup of a waiter: a call of wait() returns, although a worker
\* decrements ActiveThreads and notifies in two separate steps.
WaitReturns == \A c \in Clients : pc[c] = "wlock" ~> pc[c] = "returned"

\* No lost wakeup of a worker: every accepted task runs, although async()
\* notifies one worker only and after releasing QueueLock.
EveryTaskRuns == \A k \in TaskIds : k \in Submitted ~> k \in finished

\* The destructor does not hang in join(): every worker sees EnableFlag.
DestructorReturns == dtor = "notify" ~> dtor = "destroyed"
-----------------------------------------------------------------------------
(* The inductive invariant behind the safety properties. *)

\* ActiveThreads counts the workers between ++ and --.
CounterExact == ActiveThreads = Cardinality({w \in Workers : pc[w] \in ActivePcs})

\* A worker holds a task exactly while it runs it.
RunningTyped ==
  \A w \in Workers : IF pc[w] \in {"run", "push", "notifyone"}
                     THEN running[w] \in TaskIds ELSE running[w] = NoTask
ArgTyped ==
  \A t \in Threads : IF pc[t] = "push" THEN arg[t] \in TaskIds ELSE arg[t] = NoTask

LocksHeld ==
  /\ \A t \in Threads : pc[t] \in {"grab", "pop", "push"} => QueueLock = t
  /\ \A c \in Clients : pc[c] \in {"wactive", "wtasks"} => CompletionLock = c
ConditionsMatch ==
  /\ \A w \in QueueCondition : pc[w] = "qwait"
  /\ \A c \in CompletionCondition : pc[c] = "cwait"

\* What a thread that holds a lock has established and relies on.
Established ==
  /\ \A w \in Workers : pc[w] \in {"grab", "pop"} => Tasks # <<>>
  /\ \A c \in Clients : pc[c] = "wtasks" => ActiveThreads = 0
  /\ \A c \in Clients : before[c] \subseteq Submitted

\* After EnableFlag is cleared the queue only shrinks, and a worker exits only
\* when it is empty.
Draining ==
  /\ dtor = "alive" <=> EnableFlag
  /\ ~EnableFlag => \A t \in Threads : pc[t] # "push"
  /\ \A w \in Workers : pc[w] = "exited" => ~EnableFlag /\ Tasks = <<>>
  /\ dtor = "destroyed" => \A w \in Workers : pc[w] = "exited"

IInv ==
  /\ TypeOK /\ CounterExact /\ RunningTyped /\ ArgTyped /\ LocksHeld
  /\ ConditionsMatch /\ Established /\ Draining /\ WaitCoversEarlierTasks
=============================================================================
