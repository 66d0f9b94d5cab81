# Verification of the coordination code in hls-llvm-project

The repository is an LLVM 7-era monorepo (`llvm`, `clang`, `clang-tools-extra`,
`openmp`, `compiler-rt`, `lld`, `lldb`, ...) with Xilinx's HLS extensions in the
front end. Almost all of it is sequential transformation of data: parsing,
semantic analysis, optimisation, code generation. What a state machine can say
something about is the part that *coordinates*: threads that share a queue,
requests that overtake each other, compiler processes that meet on a file
system, symbol queries that are answered in pieces, threads that steal each
other's tasks. This directory models that
part in TLA+, checks it with TLC and proves its main safety properties with
TLAPS.

All paths below are relative to `src/`. `CTE` stands for `clang-tools-extra`.

## 1. Inventory

### Components that are modelled

| Component | State | Operations | Interacts with |
|---|---|---|---|
| `llvm::ThreadPool` (`llvm/lib/Support/ThreadPool.cpp`) | `Tasks`, `ActiveThreads`, `EnableFlag`, two mutexes, two condition variables | constructor (worker loop), `async`, `wait`, destructor | any client; tasks may call `async` |
| clangd `CppFile` (`CTE/clangd/ClangdUnit.cpp`) | `RebuildCounter`, `RebuildInProgress`, two promise/future pairs, `LatestAvailablePreamble` | `deferRebuild`, `deferCancelRebuild`, the computations they return, `RebuildGuard` | run by the scheduler's workers; calls back `ASTCallback` |
| clangd `ClangdServer` with `DraftStore`, `CppFileCollection`, `ClangdScheduler` (`CTE/clangd/ClangdServer.cpp`) | drafts and their versions, the open files, the request queue, the diagnostics reported last | `addDocument`, `forceReparse`, `removeDocument`, `codeComplete`, `findDefinitions`, destruction | LSP thread on one side, worker threads, `CppFile` and `FileIndex` on the other |
| clangd `FileIndex`, `FileSymbols`, `MemIndex` (`CTE/clangd/index`) | the newest slab per file; the index queries read | `FileIndex::update` (store, snapshot, build) | `CppFile`'s `ASTCallback`, on any worker |
| `llvm::LockFileManager` (`llvm/lib/Support/LockFileManager.cpp`) | the `.lock` file, the unique lock file of each process, owner and state of each process | constructor, `getState`, `waitForUnlock`, `unsafeRemoveLockFile`, destructor | other compiler processes through the file system; `compileAndLoadModule` in `clang/lib/Frontend/CompilerInstance.cpp` |
| ORC core: `VSO`, `AsynchronousSymbolQuery` (`llvm/lib/ExecutionEngine/Orc/Core.cpp`) | symbol table entries (flags and a union), lists of pending queries, counters of each query | `define`, `defineLazy`, `resolve`, `finalize`, `lookup`, `setFailed` | symbol sources, owners of queries (callbacks) |
| `std::shared_timed_mutex` (`libcxx/src/shared_mutex.cpp`, `libcxx/include/shared_mutex`) | one word (a bit for the writer, a count of readers), a mutex, two condition variables | `lock`, `unlock`, `lock_shared`, `unlock_shared`, their trying and timed forms | any threads |
| OpenMP tasking (`openmp/runtime/src/kmp_tasking.cpp`, with `kmp_wait_release.h` and `kmp_barrier.cpp`) | a deque per thread, the count of unfinished threads, incomplete children of each task, who sleeps | creating a task, taskwait, the end of a task, the barrier, `__kmp_execute_tasks_template` | the user's code, which runs inside the tasks; the barrier's gather and release |

### What is hard about them, and what makes them correct

* **ThreadPool.** `wait()` reads the queue under one mutex while `async()` and
  the workers change it under another; a task is for a moment in neither the
  queue nor the hands of an active worker unless `ActiveThreads` is raised
  first; notifications come after the unlock. Correct means: `wait()` covers
  every task queued before it; the destructor drains the queue; no wakeup is
  lost; every task runs.
* **CppFile.** A rebuild takes seconds without the lock and may be superseded at
  any point; every test of `RebuildCounter` must be made again after the lock
  was dropped; a promise may be set once only; a future that somebody holds must
  become ready. Correct means: rebuilds exclude each other, each future carries
  the newest request's result, no promise is set twice or abandoned, nobody
  waits for ever.
* **ClangdServer.** Requests are taken LIFO by several workers, so a file's
  requests run out of order, or not at all while others keep coming; the client may close and reopen a file while the
  old one is being rebuilt; the LSP thread blocks on a future; shutdown may come
  at any time. Correct means: answers, diagnostics and the futures given to the
  client belong to the text sent last, and no thread hangs.
* **FileIndex.** Store, snapshot and build are three critical sections.
* **LockFileManager.** Every system call is a step, every process may die
  between two of them, several code paths remove a lock file they do not own, and
  nobody can tell whether an owner on another host is alive. Correct means: no
  lock and no temporary file is left behind, everybody finishes.
* **VSO.** A symbol can be overridden while it is being materialized; a query
  can arrive between resolution and finalization, or fail while entries still
  point to it. Correct means: each query hears `resolved` and `ready` once, in
  this order, not too early and, if the sources do their work, at last.

* **shared_timed_mutex.** Readers and writers wait at one gate, a writer that got
  past it waits at another; notifications are sent only when they seem needed,
  and a timed writer may leave with the first gate closed. Correct means: it is
  a readers-writer lock; nobody sleeps without a reason; a writer that closed
  the gate is served.
* **OpenMP tasking.** The master leaves the barrier when a counter is zero that
  threads decrement when they find nothing to do and increment again when they
  steal; deques are popped at one end by their owner and robbed elsewhere;
  sleeping threads are missed by the one wakeup and found later by thieves.
  Correct means: the barrier opens only when every task has ended, no task is
  lost or run twice, a taskwait covers the children, tied tasks are scheduled
  as the constraint demands, everyone leaves.

### Components that are not modelled

`PROJECT.json` lists them with the reason. In short: the front end, Sema,
CodeGen, the IR passes, the HLS pragma and attribute translation, clang-tidy's
Xilinx checks and the dataflow lawyer are sequential functions of a program
text; lld, lldb, polly, libclc, llgo are separate or vendored products;
CrashRecoveryContext, Signals and FileOutputBuffer are thin layers over the
operating system. The OpenMP locks, xray's buffer queue, the C++ initialisation
guard and `Parallel.cpp` are protocols too, smaller ones than those chosen.

The repository has about four and a half million lines, nearly all of them
translation of programs, tables of instructions, headers of intrinsics and
vendored products. The modules stand for the coordination code named above and
therefore for a very small share of those lines; a model of the rest would have to
be a semantics of C++ or of LLVM IR.

## 2. Modules

| Module | Models | Extends / uses |
|---|---|---|
| `ThreadPool` | `ThreadPool.cpp` | |
| `ThreadPoolProofs` | its theorems | `ThreadPool`, TLAPS |
| `CppFile` | the rebuild protocol of one file | instantiates `FreshFuture` twice |
| `FreshFuture` | the abstract specification of one future | |
| `CppFileProofs` | its theorems, the refinements among them | `CppFile`, TLAPS |
| `ClangdServer` | server, scheduler, drafts, and of each `CppFile` what the server sees | |
| `ClangdServerProofs` | its theorems | `ClangdServer`, TLAPS |
| `FileIndex` | the dynamic index | |
| `MCFileIndex` | symmetry sets for TLC | `FileIndex` |
| `FileIndexProofs` | its theorems | `FileIndex`, TLAPS |
| `LockFileManager` | the lock file and the loop of `compileAndLoadModule` around it | |
| `MCLockFileManager` | the hosts of TLC's processes | `LockFileManager` |
| `LockFileManagerProofs` | its theorems | `LockFileManager`, TLAPS |
| `VSO` | ORC's symbol table and queries | |
| `VSOProofs` | its theorems | `VSO`, TLAPS |
| `SharedMutex` | libcxx's shared mutexes | instantiates `RWLock` |
| `RWLock` | the abstract specification of a readers-writer lock | |
| `SharedMutexProofs` | its theorems, the refinement among them | `SharedMutex`, TLAPS |
| `KmpTasking` | OpenMP tasks up to the end of a barrier | |
| `MCKmpTasking` | the programs TLC runs | `KmpTasking` |
| `KmpTaskingProofs` | its theorems | `KmpTasking`, TLAPS |

Names in the modules are the names of the code; `PROJECT.json` maps every
definition to its lines. Definitions called `...Mutant` are the plausible bugs
that show that a property can fail; no specification uses them.

### ThreadPool

One `pc` per thread. `WorkerLock`, `WorkerActivate`, `WorkerPop`, `WorkerRun`,
`WorkerComplete`, `WorkerNotify` are the worker loop, split wherever another
thread can interfere: at the lock, between raising `ActiveThreads` and popping
the task, between the end of the critical section and the notification.
`WaitTestActive` and `WaitTestTasks` are the two halves of the predicate of
`wait()`, because the second half reads a variable that the held mutex does not
protect. `EmptyReads` is the read of that data race: while a push is in progress
both outcomes are possible. A task may call `async()`; it does not call `wait()`,
which would deadlock the pool and which nothing in the repository does.

### CppFile and FreshFuture

A step is a critical section of `CppFile::Mutex`, or the long work between two.
A request is its number. A future is its kind and its generation: `Renew` is the
replacement of a ready promise, `Value[k][g]` the number of the request that
fulfilled generation `g`. Building a preamble may reuse the old one, build a new
one or fail; building an AST may fail (then the callback is not called);
everything else about clang is abstracted away. `Discard` is the caller that
drops the computation of an outdated request, which
`ClangdServer::scheduleReparseAndDiags` does. It compares the versions of the
draft (`ClangdServer.cpp:602-604`), which move on just before the newer request
is made. A drop in between is one right after that request here: nothing in
`CppFile` depends on a dropped computation. The test itself is
`ClangdServer!Outdated`.

`FreshFuture` says what a reader relies on: asking makes the future pending,
and it is fulfilled once, with the newest request. `CppFile` implements it twice
(`PreambleIsFresh`, `ASTIsFresh`).

### ClangdServer

The client is one thread, as `ClangdLSPServer` is: a call is a step for the
draft, a step for the unit and a step for the queue, so workers interleave with
it. Each `CppFile` ever created for a file is kept in `Units`, because a closed
file may still be rebuilt while a new `CppFile` of the same path exists. The
synchronous mode (`AsyncThreadsCount == 0`) is left out, as are requests that
change nothing (`signatureHelp`, formatting, `rename`, `switchSourceHeader`).
A build may give no AST: then the callback is not called, the index keeps what it
has of the file, and the history variable `NoAST` records the version. Preambles
are left to `CppFile`, and so are the wakeups: condition variables are await
guards here.

### FileIndex

`UpdateSymbols`, `AllSymbols` and `Build` are the three critical sections of
`FileIndex::update`; a slab is the number of the update that brought it.

### LockFileManager

The lock file is represented by the process whose id it holds, because it is
created complete by a hard link. `ReadLockFile` and `RemoveLockFile` are the two
halves of `readLockFile`, used by the constructor twice. `Fail` ends the
constructor in `LFS_Error` at any call whose error it looks at; `Misread` is
`readLockFile` when it cannot read a lock file that is there (which it takes for
an invalid one) or `getHostID` fails (it takes the owner for alive); a remove
whose error is ignored may leave the lock file where it is. The errors of the
two removes in the destructor, equally ignored, are left out: nobody would retry
them. `Crash` stops a process between any two steps.

`Host` gives each process its host. `processStillExecuting` asks `getsid` on the
process's own host only; of an owner on another host it says that it is alive.
Windows and Android never ask; a process there is one that is alone on its host.
`Timeout` can come at any time of a wait, as often as you like.
The client is `compileAndLoadModule`: build when owned or
in error, wait when shared, retry after a dead owner, a timeout or an out-of-date
module. Process ids are not reused.

### VSO

`Stage` and `Strong` stand for the flags of an entry, `Word` for its union while
it holds an address or a source, the other entry variables for the
`MaterializationInfo` it holds in between. `define` includes the `resolve` and
`finalize` it calls; `QueryMaterialized`, `QueryMaterializing` and `QueryLazy`
are the three branches of `SymbolTableEntry::query`. A source may resolve
symbols of its own that nobody has asked for while it does its job, as `Core.h`
allows (`resolveAdditional`). `Premature` is a history variable: the entries
marked as materialized before the source of one of their definitions has
finalized it, which a late `resolve`, `resolveAdditional`, a `define` over what is
only resolved, and `replaceWithSource` do. The code is not thread safe
and has no threads; the interleaving is that of the calls of its clients and of
the sources' answers.

### SharedMutex and RWLock

`__mut_` is released only by returning or by waiting, so a stretch from the start
of a call or the end of a wait to the next wait or the return is one step.
`gate1` and `gate2` are the threads that sleep on the two condition variables;
notifying removes threads from the set, and what a woken thread does is a step
of its own, so a notification and its effect can be separated by other calls.
`WakeUp` is a deadline or a spurious wakeup. The blocking and the timed calls
share actions: `timed` says whose call has a deadline, `expired` whose last wait
ended by it. `LockEnter` waits once at `gate2` without a test after it has seen
readers, as both forms of the code do under the lock.

`RWLock` is the lock the user sees: the owners. `SharedMutex` has only a bit and
a count for them; `unlock()` writes 0 over both.

### KmpTasking

The user's code is a program: a record that says which implicit or explicit task
creates which tasks, in the order of their numbers, and which are untied. A task
may wait for its children at any point. `stack[t]` is what thread `t` has begun
and not ended; `pc[t] = "run"` means that its top task, or its implicit task, is
in user code. `loop` is `__kmp_wait_template` or the loop of a taskwait, `seek`,
`steal`, `taken` and `starved` are the places of `__kmp_execute_tasks_template`,
`doze` and `asleep` those of `__kmp_suspend_template`. `phase` is how far a
thread is with the barrier; the thread that spins with `final_spin` is
`FinalSpin`. A thief holds `td_deque_lock` over two steps, `StealTake` and
`StealDone`, because `td_deque_ntasks` is written last and read elsewhere without
the lock: the order of the increment of `tt_unfinished_threads` and of that
write is what `NothingLeft` depends on. `TASK_DEQUE_SIZE` is `DequeSize`; a task
that finds the deque full is begun at once.

Any thread other than the thief may be the victim: `td_deque_last_stolen`, which
only says whom to try first, is left out. So are proxy tasks, dependences,
taskgroups, untied tasks that continue on another thread, the second of the two
task teams that alternate from barrier to barrier, and the sleep flags of the
single arrivals in the gather, whose wait is one condition here.

## 3. Runs

| Run | Bounds | Distinct states | Shows |
|---|---|---|---|
| `threadpool` | 2 workers, 1 client, 3 tasks, 1 spurious wakeup | 38 616 | `NoLostWakeup`, `WaitCoversEarlierTasks`, `DestructorDrains`, `WaitReturns`, `EveryTaskRuns`, `DestructorReturns` |
| `cppfile` | 3 requests | 19 995 | exclusion, assertions, promises, freshness, callback order, both refinements, two liveness properties |
| `clangd` | 2 files, 2 workers, 3 calls | 184 770 | freshness of definitions, futures and diagnostics; a removed file is idle; calls return, diagnostics arrive once calls cease, shutdown returns |
| `clangd_index_stale` | 1 file, 2 workers, 3 calls | | **violated** `IndexIsCurrent` |
| `fileindex_safety` | 2 files, 2 workers, 4 updates | 2 434 | `IndexIsSnapshot`, `ExactWhenSerial` |
| `fileindex_lost_update` | 2 files, 2 workers, 2 updates | | **violated** `ExactWhenQuiet` |
| `lockfile` | 3 processes on 2 hosts, 1 crash, 1 error, any timeouts | 77 534 | `NoLockLeak`, `NoTempFileLeak`, `EveryProcessFinishes` |
| `lockfile_two_owners` | 2 processes, no faults | | **violated** `SingleOwner` |
| `vso` | 2 names, 2 sources, 2 queries, 3 definitions | 887 795 | `CallbackProtocol`, `ReadyIsFinal`, `SourcesAskedOnce`, `QueriesComplete` |
| `vso_unmaterialized` | 1 name, 2 sources, 1 query, 2 definitions | | **violated** `AnswersAreAddresses` |
| `shared_mutex` | 4 threads, a count of 3 | 33 323 | `NoLostWakeup`, the refinement `LockSpec`, `EnteredWriterIsServed`, `WaitersAreWoken` |
| `kmp_tasking` | 3 threads, deques of 2, 3 programs of 3 tasks | 119 515 | `NothingLeft`, `TiedTasksNest`, `EachTaskOnce`, `TaskwaitWaits`, `EveryoneLeaves` |

Why the bounds are enough:

* *ThreadPool.* Two workers are what it takes for one to empty the queue another
  was notified for, three tasks to have one finished, one running and one queued
  while `wait()` looks; tasks submit tasks, so the queue grows during `wait()`
  with one client. Two clients are left to the proof. They are also a limit of
  the code: with two threads that loop over `wait()`, one can take
  `CompletionLock` again and again and starve the other, since no mutex is fair.
* *CppFile.* Three requests let a second supersede a first in each of its phases
  while a third supersedes the second; the futures then have two generations in
  use. Safety for any number of requests is proved.
* *ClangdServer.* Three calls are open, change and close (or a query) of one
  file, with a call on the other in between; the four safety properties are
  proved for any number of files, workers and calls, closing and reopening
  included. Liveness uses no symmetry. `DiagnosticsArrive` does not rest on the
  bound: it speaks of the time after the last call, whichever that is. While
  calls go on it would be false. `addToFront` puts each before all older ones, so
  an endless stream of calls on one file starves the request of another.
* *FileIndex.* Two workers suffice to overlap and two updates to be lost; the
  proof covers the rest.
* *LockFileManager.* Three processes are an owner, its successor and one that
  still waits for the first, two of them on one host, so that the waiter can or
  cannot see the owner die; a crash and an error can each happen once in every
  order with the others, and timeouts are not bounded.
* *VSO.* One name shared by both queries and one that only one of them wants;
  three definitions are a lazy one, one that overrides it, and one of the other
  name.

* *SharedMutex.* Four threads and a count of three let one thread find the count
  full, and a writer, a second writer and a reader wait behind readers. One
  thread fewer than `CapacityAssumption` allows would never fill the count. The
  safety properties are proved for all values that meet the assumption.
* *KmpTasking.* Three threads are an owner, a thief and a thread that has already
  counted itself finished; deques of two wrap and fill up; the three programs
  are: all tasks from the master's implicit task; a chain with a worker that
  creates its own; two children of a worker, one untied, so that a thief walks
  past the head of the deque. `NothingLeft` is proved for all teams, deque sizes
  and programs.

## 4. Fairness

Weak fairness of steps that a running thread takes by itself: a thread inside a
call goes on. It is justified by a scheduler that runs every thread and by
critical sections and tasks that end. Strong fairness is used in one place only,
for the choice of a victim in `KmpTasking`. Making a call, a crash, an error, a
spurious wakeup or a query's failure is never fair, nor is a timeout but for
those of `LockFileManager` named below.

* `ThreadPool!Fairness`: every worker, every thread in `async()` and `wait()`,
  the destructor.
* `CppFile!FairSpec`: each computation is eventually run by some thread. The
  scheduler does so unless it is being destroyed, when it drops the queue.
* `ClangdServer!FairSpec`: the client's thread inside a call, each worker. Each
  worker is fair as a thread; no request is, since the queue is LIFO.
* `LockFileManager!FairSpec`: each live process, which finally exits. Exits
  matter: a process waits for the owner it read at construction, even when the
  lock has passed to another process that crashed; only that owner's exit or the
  timeout ends the wait. A wait for an owner on another host ends by the timeout
  (`GivesUpOnOtherHost`), as the code makes sure that it does after 1.5 minutes:
  without it a process would wait for a dead owner for ever. For an owner on the
  same host no timeout is assumed: `processStillExecuting` must be enough.
* `VSO!FairSpec`: sources resolve and finalize what they were asked for. A source
  whose `materialize` fails leaves its queries unanswered (see the hazards).

* `SharedMutex!FairSpec`: a thread inside a call goes on, and an owner unlocks.
* `KmpTasking!FairSpec`: each thread goes on (a `taskwait` is the user's choice and
  going to sleep never has to happen), and each thief comes back to each victim:
  `__kmp_get_random` is a generator that hits every thread again and again. A
  thread missed by the wakeup in `__kmp_enable_tasking` depends on it.

## 5. Findings

Each has a run that TLC refutes; the trace is the evidence. That no other step of
the module can refute the property is proved: without steps of the kind named it
holds (`IndexFollowsUnlessReopened`, `Serial`, `SingleOwnerUnlessRemoved`,
`AddressesUnlessReplaced`, in this order; section 6).

1. **The index can stay behind the text of a reopened file** (`ClangdUnit.cpp:600`,
   `IndexIsCurrent`): the rebuild of the closed `CppFile` overwrites the entry of
   the new one. It is one of three ways the index falls behind. A second is a
   build that gives no AST (`ClangdUnit.cpp:596-604`), which leaves the old symbols
   in place; that is hardly a defect, and `IndexIsCurrent` excepts a file whose
   last build was one. The third is finding 2: `FileIndex::update` is one step in
   `ClangdServer`.
2. **FileIndex loses an update** (`FileIndex.cpp:80`, `ExactWhenQuiet`): an older
   snapshot is installed over a newer one.
3. **Two processes own the lock** (`LockFileManager.cpp:58`, `SingleOwner`):
   `readLockFile` removes a lock file that appeared after its failed read. The
   module build survives it, as a comment in `compileAndLoadModule` says; the
   promise of the header does not.
4. **A lazy definition over an existing one is taken for an address**
   (`Core.cpp:139`, `AnswersAreAddresses`): `replaceWithSource` sets the flags
   without `NotMaterialized`, so `lookup` hands out the pointer to the source.

Seen while modelling, without a run of its own: `CppFile::getLastCommand` still
returns a command after `deferCancelRebuild` (`ClangdUnit.h:219`); closing a file
never removes its symbols from the index; `defineLazy` installs a weaker
definition after telling its source to discard it (`Core.cpp:256`); the late
`resolve` of an overridden weak symbol replaces the strong one (`Core.cpp:172`);
`define` over a symbol in materialization does not call `discard`. Four more:

* `Core.h:190-192` says that the VSO's `resolve` does "not mark the symbols as
  finalized yet". It does, of every entry that is not being materialized
  (`Core.cpp:172`): one that `define` has overridden, or an additional symbol
  that nobody has looked up. A query that comes before the source's `finalize`
  hears at once that it is ready. A `define` over a symbol that its source has
  resolved finalizes the queries that hold the source's address
  (`Core.cpp:237-238`), and `replaceWithSource` does worse (finding 4).
  `ReadyIsFinal` makes an exception of these entries (`Premature`), and `Finality`
  proves that there is no other; each of the four steps refutes it by itself if it
  adds nothing to `Premature`.
* A rebuild that is superseded while it builds the AST still returns its
  diagnostics (`ClangdUnit.cpp:610`), although `ClangdUnit.h:199-201` promises
  "`None`, if another deferRebuild was called before this rebuild was finished".
  ClangdServer looks at the version before it publishes them, so
  `ShownDiagnosticsAreCurrent` holds.
* The shared mutex notifies one waiter when a reader leaves a full count
  (`shared_mutex.cpp:99`). With four threads and a count of two a second reader
  sleeps on although there is room. `CapacityAssumption` excludes it: the count
  is 2^31 - 1.
* `kmp_tasking.cpp:2162-2163` says of the scheduling constraint that "checking
  the last one is enough, as it in turn is the descendant of all others". With
  untied tasks it need not be: a thread in a taskwait of tied task 2 may steal
  the untied task 1, which finds the deque full and begins a tied task of its
  own at once, no descendant of 2. TLC finds it with three threads, deques of
  one, creators `<<w1, w2, 2, 1, 1>>` of the tasks and 1 untied.
  `TiedTasksNest` is therefore stated for tied tasks without an untied one
  between them.

## 6. Proofs

Every theorem holds for all values of the constants that satisfy the named
assumptions; the arguments are inductive invariants.

| Theorem | Statement | Assumptions used |
|---|---|---|
| `ThreadPoolProofs!WaitCorrect`, `DestructorCorrect`, `WakeupsReach` | `Spec => []WaitCoversEarlierTasks`, `[]DestructorDrains`, `[]NoLostWakeup` | `ThreadsAssumption`, `TasksAssumption`, `SpuriousAssumption` |
| `CppFileProofs!TypeCorrect`, `Exclusive`, `AssertionsHold`, `SetOnce`, `Fresh`, `CallbackOrder` | the safety properties of `CppFile` | `RequestsAssumption` |
| `CppFileProofs!PreambleRefines`, `ASTRefines` | `Spec` implements `FreshFuture!Spec` under each mapping | `RequestsAssumption` |
| `CppFileProofs!SleepersWake` | `[]SleepersAreWoken`: nobody sleeps on `RebuildCond` in vain | `RequestsAssumption` |
| `FileIndexProofs!Snapshot`, `Serial` | `[]IndexIsSnapshot`, `[]ExactWhenSerial` | `UpdatesAssumption` |
| `LockFileManagerProofs!NoLock`, `NoTempFile` | `[]NoLockLeak`, `[]NoTempFileLeak` | `ProcessesAssumption`, `BoundsAssumption` |
| `LockFileManagerProofs!NoCircularWait` | `[]WaitForOwners`: who waits, waits for a process that has been an owner | `ProcessesAssumption` |
| `LockFileManagerProofs!SingleOwnerUnlessRemoved` | `[]SingleOwner` of every behaviour without a step `RemovesOthersLock` | `ProcessesAssumption` |
| `ClangdServerProofs!Freshness`, `DoneMeansReported`, `RemovalWaits`, `NothingForgotten` | `[]DefinitionsAreFresh`, `[]DoneAfterDiagnostics`, `[]RemovedFileIsIdle`, `[]ShownDiagnosticsAreCurrent` | `CallsAssumption` |
| `ClangdServerProofs!EachRequestOnce`, `SetOnce` | `[]RequestsAreSingle`, `[]PromisesSetOnce`: what `CppFile` takes for granted of its caller | `CallsAssumption` |
| `ClangdServerProofs!IndexFollowsUnlessReopened` | `[]IndexIsCurrent`, files whose last build gave no AST excepted, of every behaviour without a step `ReopensDuringBuild` | `CallsAssumption` |
| `VSOProofs!Protocol`, `Finality`, `AskedOnce` | `[]CallbackProtocol`, `[]ReadyIsFinal` (entries in `Premature` excepted), `SourcesAskedOnce` | `NamesAssumption` |
| `VSOProofs!NobodyForgotten` | `[]QueriesAreServed`: the safety core of `QueriesComplete` | `NamesAssumption` |
| `VSOProofs!AddressesUnlessReplaced` | `[]AnswersAreAddresses` of every behaviour without a step `Replaces` | `NamesAssumption` |
| `SharedMutexProofs!TypeCorrect`, `NoneLost`, `Refines` | `[]TypeOK`, `[]NoLostWakeup`, `Spec` implements `RWLock!Spec` | `ThreadsAssumption`, `ReadersAssumption`, `CapacityAssumption` |
| `SharedMutexProofs!Excludes`, `NoOvertaking` | `[]MutualExclusion`, `[][NobodyOvertakes]_vars` | `ThreadsAssumption`, `ReadersAssumption`, `CapacityAssumption` |
| `KmpTaskingProofs!BarrierDrains`, `TasksKept`, `TaskwaitCorrect`, `TiedNesting` | `[]NothingLeft`, `[]EachTaskOnce`, `TaskwaitWaits`, `[]TiedTasksNest` | `ThreadsAssumption`, `DequeAssumption`, `ProgramsAssumption` |

* **ThreadPool.** `WaitCoversEarlierTasks` alone is not inductive: that
  `ActiveThreads = 0` and an empty queue mean "all finished" needs
  `CounterExact` (the counter is the number of workers between `++` and `--`, so
  a cardinality), `RunningTyped` (only those hold a task), `LocksHeld` (nobody
  else pops meanwhile) and `Established` (what a thread has found out while it
  holds a lock). `Draining` does the same for the destructor: once `EnableFlag`
  is false nothing is pushed from outside, and a worker exits only on an empty
  queue. `NoLostWakeup` needs the tasks counted against the workers: while a
  worker sleeps, every queued task has a worker of its own that will look at the
  queue or a `notify_one` that has not been sent yet (`WorkersWoken`), which a
  worker that goes to sleep keeps because it does so on an empty queue only.
* **CppFile.** The heart is `NewestDecides`: the two futures are ready exactly if
  the newest request has come far enough. With `NewestWaits` (the newest request
  has not begun while an older rebuild runs) it gives the assertions of
  `~RebuildGuard`, the uniqueness of `set_value`, freshness, and both refinements,
  in which only the newest request's publication is a `Fulfil` step. A computation
  that sleeps on `RebuildCond` has a rebuild to wait for, or a `notify_all` is
  still to come (`SleepersAreWoken`): both critical sections that change what the
  wait looks at are followed by one.
* **FileIndex.** Everything on its way to the index was once stored
  (`FromStates`); before the first overlap at most one worker is inside, and its
  snapshot is current (`OneAtATime`).
* **LockFileManager.** A process in state "owned" is past the link
  (`OwnersPlace`), the unique file exists only before the link or in an owner
  (`TempFilesPlace`). Removing a lock file, by whomever, cannot break
  `NoLockLeak`; only creating it and losing the owner's state could. A process that
  waits, waits for one that has owned the lock and hence does not wait itself
  (`WaitForOwners`): waiting never closes a circle. As long as nobody removes the
  lock file of another live process, an owner is the one the file names
  (`OwnersHoldLock`).

* **ClangdServer.** Every request in flight comes from the past of its unit and of
  its draft (`Sound`): the one with the newest counter of an open unit carries
  the newest version. A cancellation has a counter of its own (`Apart`), one
  worker at a time is inside a unit (`Guarded`), and a ready AST of an open unit
  is that of the newest text (`OpenASTs`), which is `DefinitionsAreFresh`. Why a
  request ends is recorded by `Endings`: superseded, outdated, reported, or, for
  a removal, idle. `Pending` says that the newest text of every open file has
  been reported or that a request for it is on its way, which in a quiet server
  leaves the first. `IndexIsCurrent` holds as long as no file is opened again
  while its old unit is being rebuilt: a rebuild that nothing supersedes is one of
  the open unit (`NewestIsOpen`), nobody builds for a unit that another has
  followed (`BuildsOpen`), and of every open file the index has the current text,
  its build has given no AST, or a request that will build it is on its way
  (`IndexFollows`).
  `RequestsAreSingle` needs that the counter of a new request is greater than those
  of all requests of its unit (`Sound`); then only one request can fulfil a future,
  and a future stays pending until it does (`FuturesPend`).
* **VSO.** The two counters of a query that has not failed are the numbers of its
  names that are not resolved and not finalized; a counter that is zero thus
  means that all are, and it is zero only once. The lists of an entry are not
  empty only while it is being materialized. What a query was told of an entry
  outside of `Premature` is an address (`HasAddress`), and while the source that
  gave it has still to finalize it, the entry is being materialized (`Truthful`)
  and a query that has the address is in its list, so not ready. An entry never goes from
  materializing back to lazy, so a source is asked once. An entry in
  materialization has a source that still has to resolve or finalize it
  (`JobsThere`); with the counters, a query that still waits is in the list of
  such an entry (`QueriesAreServed`).
* **SharedMutex.** The count is the number of threads that own the mutex shared
  (`CountExact`), at most one thread is past `gate1` (`OneInside`), and who sleeps
  is where the gates say (`Blocked`). `NoLostWakeup` is part of the invariant. The
  one step that could break it is the reader that leaves a full count: it
  notifies one, and `CapacityAssumption` with `CountExact` says that no more than
  one sleeps there. `unlock()` may write 0 because `OneInside` and `CountExact`
  leave no reader. The same two give `MutualExclusion`; since a writer behind
  `gate2` keeps `gate1` closed, what it waits for only shrinks (`NobodyOvertakes`).
* **KmpTasking.** The count of unfinished threads is the number of threads whose
  `finished` is not set. A thread that is finished has begun nothing, holds
  nothing it has stolen and has an empty deque: it found it empty, in its last
  wait, and only it can push. A zero count therefore means that nothing is left
  anywhere; a thief counts itself again in the very step that takes the task.
  `EachTaskOnce` and `TaskwaitWaits` follow from `Accounts`: a deque is a ring
  whose tasks are those from `head` up to its size, the size being one less than
  the count while a thief holds the lock, which it does until it has begun the
  task (`Ring`, `Holding`); the tasks of a ring, and those of a stack, are different
  (`Injective`); a task is at one place only, and only if it was created
  (`Apart`, `Placed`); a task's count of incomplete children is the number of its
  children at some place (`Tallied`). Every step that moves a task is a `Birth`,
  a `Carry` from place to place or a `Death`. `TiedTasksNest` needs `Nesting`: a
  thread outside of user code that has begun something is in a taskwait
  (`Suspended`), and what a thief carries is still allowed when it begins it
  (`Permitted`). That being a descendant is transitive is an induction over the
  numbers of the tasks, done as an appeal to the least task for which it fails
  (`LeastNumber`).

Every invariant, action property and refinement of a passing run is proved. Of
the liveness properties, which are only model-checked since the prover has no
rules for fairness and `ENABLED`, the safety cores are proved: that no
task is left to a sleeping worker, that nobody sleeps after what he waits for has
come true, waits in a circle or for a job that nobody has, and that nobody
overtakes a waiting writer (`NoLostWakeup`, `SleepersAreWoken`, `WaitForOwners`,
`QueriesAreServed`, `NobodyOvertakes`). The four violated
properties hold under the condition of their theorem. Types are an invariant of
every component's proof (`TypeCorrect`, or a conjunct of its `IInv`). No module uses a RECURSIVE operator; the
one recursive function is `Ancestors` of `KmpTasking`.

## 7. Abstractions shared by all modules

* The build has asserts on (`build-hls-llvm-project.sh` builds Debug), so an
  assertion on an argument is a guard of the action, and one on the state is
  either a property (`GuardAssertions`) or a guard.
* Atomic steps are critical sections or single system calls. Memory is
  sequentially consistent; the one data race met (`Tasks` in `wait()`) is a
  nondeterministic read.
* Counters are bounded by `MaxRequests`, `MaxCalls`, `MaxUpdates`, `MaxDefines`,
  the tasks by `NTasks`;
  faults by `MaxCrashes`, `MaxErrors`, `MaxSpurious`.
* At shutdown the scheduler drops queued requests; their futures are never
  fulfilled, and nobody waits for them once the client is gone.

## 8. Extensions

Done in this order: `ThreadPool`, `CppFile` with `FreshFuture`, `ClangdServer`,
`FileIndex`, `LockFileManager`, `VSO`, `SharedMutex` with `RWLock`, `KmpTasking`;
proofs for all of them. What would come next, in order of value:

1. A composition of `ClangdServer` and `FileIndex`: the two ways the index can
   fall behind are separate today. And the reduced units of `ClangdServer` as a
   refinement of `CppFile`, for which `ClangdServer` would have to tell a
   request's notification from its making.
2. `KmpTasking`: two alternating task teams over two barriers, and taskgroups.
3. `xray_buffer_queue.cc`: the ring of buffers, whether a buffer can be handed out
   twice after releases out of order.
4. `Parallel.cpp` (task groups on a LIFO stack with a latch), `cxa_guard.cpp` and
   the ticket lock of `kmp_lock.cpp`, with fairness and overflow of the tickets.
