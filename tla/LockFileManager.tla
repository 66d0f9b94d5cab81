--------------------------- MODULE LockFileManager ---------------------------
(***************************************************************************)
(* llvm::LockFileManager (llvm/lib/Support/LockFileManager.cpp) as clang's *)
(* compileAndLoadModule uses it (clang/lib/Frontend/CompilerInstance.cpp): *)
(* several compiler processes need the same module file and coordinate by  *)
(* a ".lock" file beside it.  Every file system call is a step; a process  *)
(* may crash between any two.                                              *)
(*                                                                         *)
(* The lock file is a hard link to a file that holds the owner's host and  *)
(* process id, so it is represented by its owner.  Process ids are not     *)
(* reused.                                                                 *)
(***************************************************************************)
EXTENDS Naturals, FiniteSets

CONSTANTS
  Processes,
  Host,          \* the host each process runs on
  NoFile,        \* there is no lock file
  MaxCrashes,    \* bound on crashes
  MaxErrors      \* bound on failing system calls

ASSUME ProcessesAssumption == NoFile \notin Processes
ASSUME HostAssumption == DOMAIN Host = Processes
ASSUME BoundsAssumption == {MaxCrashes, MaxErrors} \subseteq Nat

VARIABLES
  LockFile,     \* the process the lock file names, or NoFile
  Module,       \* the module file: "missing", "stale" or "fresh"
  TempFile,     \* the processes whose unique lock file exists
  pc,
  Owner,        \* the owner a process read from the lock file, or NoFile
  State,        \* getState(): "none" before the constructor is through
  crashes, errors

vars == <<LockFile, Module, TempFile, pc, Owner, State, crashes, errors>>
bounds == <<crashes, errors>>

Init ==
  /\ LockFile = NoFile
  /\ Module \in {"missing", "stale"}
  /\ TempFile = {}
  /\ pc = [p \in Processes |-> "construct"]
  /\ Owner = [p \in Processes |-> NoFile]
  /\ State = [p \in Processes |-> "none"]
  /\ crashes = 0 /\ errors = 0

\* What p finds out about q: on its own host whether q is alive, of a process on
\* another host it assumes so.  A process that cannot ask, on Windows or Android,
\* is alone on its host.
Alive(q) == pc[q] \notin {"crashed", "exited"}
SameHost(p, q) == Host[p] = Host[q]
processStillExecuting(p, q) == SameHost(p, q) => Alive(q)

Finished(p) == pc[p] \in {"done", "exited", "crashed"}

Goto(p, l) == pc' = [pc EXCEPT ![p] = l]
Become(p, s) == State' = [State EXCEPT ![p] = s]
Discard(p) == TempFile' = TempFile \ {p}
AnError == errors < MaxErrors /\ errors' = errors + 1

-----------------------------------------------------------------------------
(* The constructor. *)

\* readLockFile, first half: read the lock file.  If it names a process that may
\* be alive the lock is shared, and the temporary file, if any, is discarded.  l
\* is where to go when nobody owns the lock.
LockFileValid(p) == LockFile # NoFile /\ processStillExecuting(p, LockFile)
ShareLock(p) ==
  /\ Owner' = [Owner EXCEPT ![p] = LockFile]
  /\ Become(p, "shared") /\ Discard(p)
  /\ Goto(p, "wait")
ReadLockFile(p, from, l) ==
  /\ pc[p] = from
  /\ \/ LockFileValid(p) /\ ShareLock(p)
     \/ /\ ~LockFileValid(p)
        /\ Goto(p, l)
        /\ UNCHANGED <<Owner, State, TempFile>>
  /\ UNCHANGED <<LockFile, Module, bounds>>

\* getFile fails, and a lock file that names a live process counts as invalid; or
\* getHostID fails, and one that names a dead process counts as valid.
Misread(p, from, l) ==
  /\ pc[p] = from /\ LockFile # NoFile
  /\ AnError
  /\ \/ Goto(p, l) /\ UNCHANGED <<Owner, State, TempFile>>
     \/ ShareLock(p)
  /\ UNCHANGED <<LockFile, Module, crashes>>

\* remove(LockFileName): of an invalid or missing lock file in readLockFile, of
\* one that nobody owns in the constructor ("cleanup"), and in
\* unsafeRemoveLockFile.  Only the constructor looks at its error (see Fail).
RemoveLockFile(p, from, l) ==
  /\ pc[p] = from
  /\ Goto(p, l)
  /\ \/ LockFile' = NoFile /\ UNCHANGED errors
     \/ from # "cleanup" /\ AnError /\ UNCHANGED LockFile
  /\ UNCHANGED <<Module, TempFile, Owner, State, crashes>>

\* The temporary file cannot be created or written or the host be named, the link
\* cannot be created for another reason than that there is a lock file, or the
\* lock file that nobody owns cannot be removed: the constructor ends in the
\* error state.
Fail(p, from) ==
  /\ pc[p] = from
  /\ AnError
  /\ Become(p, "error") /\ Discard(p)
  /\ Goto(p, "error")
  /\ UNCHANGED <<LockFile, Module, Owner, crashes>>

\* Create the unique lock file and write the process id to it.
CreateTempFile(p) ==
  /\ pc[p] = "temp"
  /\ TempFile' = TempFile \cup {p}
  /\ Goto(p, "link")
  /\ UNCHANGED <<LockFile, Module, Owner, State, bounds>>

\* create_link succeeds only if there is no lock file.
CreateLink(p) ==
  /\ pc[p] = "link"
  /\ \/ /\ LockFile = NoFile
        /\ LockFile' = p
        /\ Become(p, "owned")
        /\ Goto(p, "build")
     \/ /\ LockFile # NoFile
        /\ Goto(p, "reread")
        /\ UNCHANGED <<LockFile, State>>
  /\ UNCHANGED <<Module, TempFile, Owner, bounds>>

\* Was the lock file released meanwhile?  If not it is removed.
CheckExists(p) ==
  /\ pc[p] = "exists"
  /\ Goto(p, IF LockFile = NoFile THEN "link" ELSE "cleanup")
  /\ UNCHANGED <<LockFile, Module, TempFile, Owner, State, bounds>>

-----------------------------------------------------------------------------
(* waitForUnlock() and the loop of compileAndLoadModule. *)

\* continue: the LockFileManager, which owns nothing here, is destroyed.
Retry(p) ==
  /\ Goto(p, "construct")
  /\ Become(p, "none")
  /\ Owner' = [Owner EXCEPT ![p] = NoFile]

\* The lock file is gone, or the owner is seen to be dead; else sleep again.  A
\* mutant does not look after the owner.
OwnerDiedMutant(p) == FALSE
OwnerDied(p) == ~processStillExecuting(p, Owner[p])

WaitForUnlock(p) ==
  /\ pc[p] = "wait"
  /\ \/ /\ LockFile = NoFile
        /\ Goto(p, "released")
        /\ UNCHANGED <<State, Owner>>
     \/ LockFile # NoFile /\ OwnerDied(p) /\ Retry(p)
  /\ UNCHANGED <<LockFile, Module, TempFile, bounds>>

\* Res_OwnerDied if the module file does not exist, else Res_Success.
CheckReleased(p) ==
  /\ pc[p] = "released"
  /\ \/ Module = "missing" /\ Retry(p)
     \/ Module # "missing" /\ Goto(p, "load") /\ UNCHANGED <<State, Owner>>
  /\ UNCHANGED <<LockFile, Module, TempFile, bounds>>

\* Res_Timeout, at any time; then unsafeRemoveLockFile() and continue.
Timeout(p) ==
  /\ pc[p] = "wait" /\ LockFile # NoFile /\ ~OwnerDied(p)
  /\ Goto(p, "timeout")
  /\ UNCHANGED <<LockFile, Module, TempFile, Owner, State, bounds>>
ClearAfterTimeout(p) ==
  /\ pc[p] = "timeout"
  /\ Retry(p)
  /\ \/ LockFile' = NoFile /\ UNCHANGED errors
     \/ AnError /\ UNCHANGED LockFile
  /\ UNCHANGED <<Module, TempFile, crashes>>

\* compileModuleImpl: the module file is replaced, or the compilation fails.
CompileModule(p) ==
  /\ pc[p] = "build"
  /\ \/ Module' = "fresh" /\ Goto(p, "load")
     \/ UNCHANGED Module /\ Goto(p, "leave")
  /\ UNCHANGED <<LockFile, TempFile, Owner, State, bounds>>

\* ReadAST: an out-of-date module is tried again by those who waited for it.
LoadModule(p) ==
  /\ pc[p] = "load"
  /\ \/ Module = "stale" /\ State[p] = "shared" /\ Retry(p)
     \/ /\ ~(Module = "stale" /\ State[p] = "shared")
        /\ Goto(p, "leave")
        /\ UNCHANGED <<State, Owner>>
  /\ UNCHANGED <<LockFile, Module, TempFile, bounds>>

\* ~LockFileManager: an owner removes the lock file, then its own file.  The errors
\* of both, which the code ignores, are left out.  Two mutants forget one of them.
MustReleaseMutant(p) == FALSE
MustRelease(p) == State[p] = "owned"
ReleaseLock(p) ==
  /\ pc[p] = "leave"
  /\ LockFile' = IF MustRelease(p) THEN NoFile ELSE LockFile
  /\ Goto(p, "discard")
  /\ UNCHANGED <<Module, TempFile, Owner, State, bounds>>

MustDiscardMutant(p) == FALSE
MustDiscard(p) == State[p] = "owned"
DiscardTempFile(p) ==
  /\ pc[p] = "discard"
  /\ TempFile' = IF MustDiscard(p) THEN TempFile \ {p} ELSE TempFile
  /\ Goto(p, "done")
  /\ UNCHANGED <<LockFile, Module, Owner, State, bounds>>

-----------------------------------------------------------------------------
Step(p) ==
  \/ ReadLockFile(p, "construct", "invalid") \/ RemoveLockFile(p, "invalid", "temp")
  \/ CreateTempFile(p) \/ CreateLink(p)
  \/ ReadLockFile(p, "reread", "reinvalid") \/ RemoveLockFile(p, "reinvalid", "exists")
  \/ CheckExists(p) \/ RemoveLockFile(p, "cleanup", "link")
  \/ WaitForUnlock(p) \/ CheckReleased(p) \/ ClearAfterTimeout(p)
  \/ RemoveLockFile(p, "error", "build")    \* LFS_Error falls through
  \/ CompileModule(p) \/ LoadModule(p) \/ ReleaseLock(p) \/ DiscardTempFile(p)

\* The process ends some time after compileAndLoadModule returned, or crashes.
Exit(p) ==
  /\ pc[p] = "done"
  /\ Goto(p, "exited")
  /\ UNCHANGED <<LockFile, Module, TempFile, Owner, State, bounds>>

Crash(p) ==
  /\ ~Finished(p)
  /\ crashes < MaxCrashes
  /\ crashes' = crashes + 1
  /\ Goto(p, "crashed")
  /\ UNCHANGED <<LockFile, Module, TempFile, Owner, State, errors>>

Terminated == (\A p \in Processes : Finished(p)) /\ UNCHANGED vars

Next ==
  \/ \E p \in Processes : Step(p) \/ Timeout(p) \/ Exit(p) \/ Crash(p)
  \/ \E p \in Processes : \/ Misread(p, "construct", "invalid")
                         \/ Misread(p, "reread", "reinvalid")
                         \/ \E l \in {"temp", "link", "cleanup"} : Fail(p, l)
  \/ Terminated

Spec == Init /\ [][Next]_vars

\* A live process goes on and, its compilation being finite, exits.  Exits matter,
\* because a process waits for the owner it read at first even when the lock has
\* passed to another one, which may have crashed.  Crashes and errors need not
\* happen.  waitForUnlock() does give up after about 1.5 minutes, but only a
\* process whose owner runs on another host is assumed to wait that long: all
\* others must finish without.
GivesUpOnOtherHost(p) == Timeout(p) /\ ~SameHost(p, Owner[p])
FairSpec ==
  /\ Spec
  /\ \A p \in Processes : WF_vars(Step(p)) /\ WF_vars(Exit(p)) /\ WF_vars(GivesUpOnOtherHost(p))
-----------------------------------------------------------------------------
\* No lock is left behind: the lock file names a process that still owns it or
\* that crashed, although locks may be removed by processes that do not own
\* them.  (Otherwise later compilations would wait for nothing.)
NoLockLeak ==
  LockFile # NoFile =>
    \/ pc[LockFile] = "crashed"
    \/ State[LockFile] = "owned" /\ pc[LockFile] \in {"build", "load", "leave"}

\* The unique lock file of a process that ended in order is removed on every
\* path: shared, owned or error.
NoTempFileLeak == \A p \in TempFile : pc[p] \notin {"done", "exited"}

\* Every process that does not crash gets its module or its error message and
\* retries only so often.  It notices the death of an owner on its own host and
\* needs no timeout; that of an owner on another host it cannot notice, and the
\* timeout, after which the lock file is removed, is its only way out.
EveryProcessFinishes ==
  \A p \in Processes : <>Finished(p)

\* LockFileManager.h: "using the atomicity of the file system to ensure that
\* only a single process can create that ".lock" file".
SingleOwner ==
  Cardinality({p \in Processes : State[p] = "owned" /\ pc[p] \in {"build", "load", "leave"}}) <= 1
=============================================================================
