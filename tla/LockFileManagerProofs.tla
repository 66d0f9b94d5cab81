------------------------ MODULE LockFileManagerProofs ------------------------
(***************************************************************************)
(* What the lock file protocol promises although anybody may remove the    *)
(* lock file: no lock and no temporary file is left behind, for any set of *)
(* processes on any hosts and any number of crashes, errors and timeouts.  *)
(***************************************************************************)
EXTENDS LockFileManager, FiniteSetTheorems, TLAPS

Pcs == {"construct", "invalid", "temp", "link", "reread", "reinvalid", "exists",
        "cleanup", "wait", "released", "timeout", "error", "build", "load", "leave",
        "discard", "done", "exited", "crashed"}

TypeOK ==
  /\ LockFile \in Processes \cup {NoFile}
  /\ TempFile \subseteq Processes
  /\ pc \in [Processes -> Pcs]
  /\ State \in [Processes -> {"none", "shared", "owned", "error"}]
  /\ {crashes, errors} \subseteq Nat

\* Where a process that created the lock file can be.
Owning == {"build", "load", "leave", "discard", "done", "exited", "crashed"}
\* Where the unique lock file of a process may exist.
BeforeLink == {"link", "reread", "reinvalid", "exists", "cleanup"}
InUse == {"build", "load", "leave", "discard"}

OwnersPlace == \A p \in Processes : State[p] = "owned" => pc[p] \in Owning

\* The unique lock file outlives the constructor only in an owner.
TempFilesPlace ==
  \A p \in TempFile : \/ pc[p] \in BeforeLink
                      \/ pc[p] = "crashed"
                      \/ pc[p] \in InUse /\ State[p] = "owned"

\* The lock file names a process that linked it, dead or alive.
NamesOwner == LockFile # NoFile => State[LockFile] = "owned"

IInv == TypeOK /\ OwnersPlace /\ NamesOwner /\ NoLockLeak /\ TempFilesPlace

LEMMA InitIInv == Init => IInv
BY DEF Init, IInv, TypeOK, OwnersPlace, NamesOwner, NoLockLeak, TempFilesPlace, Pcs

USE DEF IInv, Goto, Become, Discard, ShareLock, AnError, bounds

LEMMA StepIInv == ASSUME NEW p \in Processes, Step(p), IInv PROVE IInv'
<1> USE ProcessesAssumption DEF TypeOK, OwnersPlace, NamesOwner, NoLockLeak, TempFilesPlace, Pcs,
      Owning, BeforeLink, InUse
<1>1. ASSUME NEW from, NEW l, ReadLockFile(p, from, l),
             \/ from = "construct" /\ l = "invalid"
             \/ from = "reread" /\ l = "reinvalid"
      PROVE  IInv'
  BY <1>1 DEF ReadLockFile
<1>2. ASSUME NEW from, NEW l, RemoveLockFile(p, from, l),
             \/ from = "invalid" /\ l = "temp"
             \/ from = "reinvalid" /\ l = "exists"
             \/ from = "cleanup" /\ l = "link"
             \/ from = "error" /\ l = "build"
      PROVE  IInv'
  BY <1>2 DEF RemoveLockFile
<1>3. CASE CreateTempFile(p)
  BY <1>3 DEF CreateTempFile
<1>4. CASE CreateLink(p)
  BY <1>4 DEF CreateLink
<1>5. CASE CheckExists(p)
  BY <1>5 DEF CheckExists
<1>6. CASE WaitForUnlock(p)
  BY <1>6 DEF WaitForUnlock, Retry
<1>7. CASE CheckReleased(p)
  BY <1>7 DEF CheckReleased, Retry
<1>8. CASE ClearAfterTimeout(p)
  BY <1>8 DEF ClearAfterTimeout, Retry
<1>9. CASE CompileModule(p)
  BY <1>9 DEF CompileModule
<1>10. CASE LoadModule(p)
  BY <1>10 DEF LoadModule, Retry
<1>11. CASE ReleaseLock(p)
  BY <1>11 DEF ReleaseLock, MustRelease
<1>12. CASE DiscardTempFile(p)
  BY <1>12 DEF DiscardTempFile, MustDiscard
<1> QED
  BY <1>1, <1>2, <1>3, <1>4, <1>5, <1>6, <1>7, <1>8, <1>9, <1>10, <1>11, <1>12 DEF Step

LEMMA NextIInv == IInv /\ [Next]_vars => IInv'
<1> SUFFICES ASSUME IInv, [Next]_vars PROVE IInv'
  OBVIOUS
<1> USE ProcessesAssumption
<1>1. ASSUME NEW p \in Processes, Step(p) PROVE IInv'
  BY <1>1, StepIInv
<1>2. ASSUME NEW p \in Processes, NEW l \in {"temp", "link", "cleanup"}, Fail(p, l)
      PROVE  IInv'
  BY <1>2 DEF Fail, TypeOK, OwnersPlace, NamesOwner, NoLockLeak, TempFilesPlace, Pcs, Owning,
              BeforeLink, InUse
<1>3. ASSUME NEW p \in Processes, Timeout(p) \/ Exit(p) \/ Crash(p) PROVE IInv'
  BY <1>3 DEF Timeout, Exit, Crash, Finished, TypeOK, OwnersPlace, NamesOwner, NoLockLeak,
              TempFilesPlace, Pcs, Owning, BeforeLink, InUse
<1>4. ASSUME NEW p \in Processes, NEW from, NEW l, Misread(p, from, l),
             \/ from = "construct" /\ l = "invalid"
             \/ from = "reread" /\ l = "reinvalid"
      PROVE  IInv'
  BY <1>4 DEF Misread, TypeOK, OwnersPlace, NamesOwner, NoLockLeak, TempFilesPlace, Pcs, Owning,
              BeforeLink, InUse
<1>5. CASE UNCHANGED vars
  BY <1>5 DEF vars, TypeOK, OwnersPlace, NamesOwner, NoLockLeak, TempFilesPlace
<1> QED BY <1>1, <1>2, <1>3, <1>4, <1>5 DEF Next, Terminated

\* A lock file names a process that crashed or still holds the lock: those who
\* find it wait for something, whoever has removed or replaced it before.
THEOREM NoLock == Spec => []NoLockLeak
<1>1. IInv => NoLockLeak
  OBVIOUS
<1> QED BY <1>1, InitIInv, NextIInv, PTL DEF Spec

\* A process that ended in order has removed its unique lock file.
THEOREM NoTempFile == Spec => []NoTempFileLeak
<1>1. IInv => NoTempFileLeak
  BY DEF TempFilesPlace, NoTempFileLeak, BeforeLink, InUse
<1> QED BY <1>1, InitIInv, NextIInv, PTL DEF Spec

-----------------------------------------------------------------------------
(* Who waits for whom, and who owns the lock together with whom. *)

\* A process waits for another one that has owned the lock since it was linked:
\* that one builds, is done or is dead, but never waits itself.  So no two
\* processes wait for each other, although the lock may have been removed and
\* linked by others since.
WaitForOwners ==
  \A p \in Processes : pc[p] = "wait" =>
    Owner[p] \in Processes \ {p} /\ State[Owner[p]] = "owned" /\ pc[Owner[p]] \in Owning

OwnerTyped == Owner \in [Processes -> Processes \cup {NoFile}]

Misreads(p) == Misread(p, "construct", "invalid") \/ Misread(p, "reread", "reinvalid")

\* Who owned the lock once does not get rid of this state.
LEMMA OwnedForGood ==
  ASSUME IInv, [Next]_vars, NEW p \in Processes, State[p] = "owned"
  PROVE  State'[p] = "owned"
<1> USE DEF TypeOK, OwnersPlace, Owning
<1>1. ASSUME NEW q \in Processes, Step(q) PROVE State'[p] = "owned"
  BY <1>1 DEF Step, ReadLockFile, RemoveLockFile, CreateTempFile, CreateLink, CheckExists,
      WaitForUnlock, CheckReleased, ClearAfterTimeout, Retry, CompileModule, LoadModule,
      ReleaseLock, DiscardTempFile
<1>2. ASSUME NEW q \in Processes, NEW l \in {"temp", "link", "cleanup"}, Fail(q, l)
      PROVE  State'[p] = "owned"
  BY <1>2 DEF Fail
<1>3. ASSUME NEW q \in Processes, Timeout(q) \/ Exit(q) \/ Crash(q) \/ Misreads(q)
      PROVE  State'[p] = "owned"
  BY <1>3 DEF Timeout, Exit, Crash, Misreads, Misread
<1>4. CASE UNCHANGED vars
  BY <1>4 DEF vars
<1> QED BY <1>1, <1>2, <1>3, <1>4 DEF Next, Terminated, Misreads

\* A process comes to wait only by reading a lock file.
LEMMA Waiting ==
  ASSUME IInv, OwnerTyped, [Next]_vars, NEW p \in Processes, pc'[p] = "wait"
  PROVE  \/ pc[p] = "wait" /\ Owner'[p] = Owner[p]
         \/ /\ pc[p] \in {"construct", "reread"} /\ LockFile # NoFile
            /\ Owner'[p] = LockFile /\ State' = [State EXCEPT ![p] = "shared"]
<1> USE DEF TypeOK, OwnerTyped
<1>1. ASSUME NEW q \in Processes, q # p,
             Step(q) \/ (\E l \in {"temp", "link", "cleanup"} : Fail(q, l))
             \/ Timeout(q) \/ Exit(q) \/ Crash(q) \/ Misreads(q)
      PROVE  pc'[p] = pc[p] /\ Owner'[p] = Owner[p]
  BY <1>1 DEF Step, ReadLockFile, RemoveLockFile, CreateTempFile, CreateLink, CheckExists,
      WaitForUnlock, CheckReleased, ClearAfterTimeout, Retry, CompileModule, LoadModule,
      ReleaseLock, DiscardTempFile, Fail, Timeout, Exit, Crash, Misreads, Misread
<1>2. ASSUME (\E l \in {"temp", "link", "cleanup"} : Fail(p, l))
             \/ Timeout(p) \/ Exit(p) \/ Crash(p)
      PROVE  FALSE
  BY <1>2 DEF Fail, Timeout, Exit, Crash
<1>3. ASSUME Step(p)
      PROVE  (\E l \in {"invalid", "reinvalid"} : ReadLockFile(p, "construct", l))
             \/ (\E l \in {"invalid", "reinvalid"} : ReadLockFile(p, "reread", l))
  BY <1>3 DEF Step, RemoveLockFile, CreateTempFile, CreateLink, CheckExists, WaitForUnlock,
      CheckReleased, ClearAfterTimeout, Retry, CompileModule, LoadModule, ReleaseLock,
      DiscardTempFile
<1>4. ASSUME NEW from \in {"construct", "reread"}, NEW l \in {"invalid", "reinvalid"},
             ReadLockFile(p, from, l) \/ Misread(p, from, l)
      PROVE  /\ pc[p] \in {"construct", "reread"} /\ LockFile # NoFile
             /\ Owner'[p] = LockFile /\ State' = [State EXCEPT ![p] = "shared"]
  BY <1>4 DEF ReadLockFile, Misread, LockFileValid
<1>5. CASE UNCHANGED vars
  BY <1>5 DEF vars
<1> QED BY <1>1, <1>2, <1>3, <1>4, <1>5 DEF Next, Terminated, Misreads

LEMMA OwnerTypedStep ==
  ASSUME IInv, OwnerTyped, [Next]_vars
  PROVE  OwnerTyped'
<1> USE DEF TypeOK, OwnerTyped
<1>1. ASSUME NEW q \in Processes, Step(q) PROVE OwnerTyped'
  BY <1>1 DEF Step, ReadLockFile, RemoveLockFile, CreateTempFile, CreateLink, CheckExists,
      WaitForUnlock, CheckReleased, ClearAfterTimeout, Retry, CompileModule, LoadModule,
      ReleaseLock, DiscardTempFile
<1>2. ASSUME NEW q \in Processes,
             \/ \E l \in {"temp", "link", "cleanup"} : Fail(q, l)
             \/ Timeout(q) \/ Exit(q) \/ Crash(q) \/ Misreads(q)
      PROVE  OwnerTyped'
  BY <1>2 DEF Fail, Timeout, Exit, Crash, Misreads, Misread
<1>3. CASE UNCHANGED vars
  BY <1>3 DEF vars
<1> QED BY <1>1, <1>2, <1>3 DEF Next, Terminated, Misreads

LEMMA WaitForOwnersStep ==
  ASSUME IInv, IInv', OwnerTyped, WaitForOwners, [Next]_vars
  PROVE  WaitForOwners'
<1> SUFFICES ASSUME NEW p \in Processes, pc'[p] = "wait"
             PROVE  Owner'[p] \in Processes \ {p} /\ State'[Owner'[p]] = "owned"
                    /\ pc'[Owner'[p]] \in Owning
  BY DEF WaitForOwners
<1>1. Owner'[p] \in Processes \ {p} /\ State'[Owner'[p]] = "owned"
  <2>1. CASE pc[p] = "wait" /\ Owner'[p] = Owner[p]
    BY <2>1, OwnedForGood DEF WaitForOwners
  <2>2. CASE /\ pc[p] \in {"construct", "reread"} /\ LockFile # NoFile
             /\ Owner'[p] = LockFile /\ State' = [State EXCEPT ![p] = "shared"]
    <3>1. LockFile \in Processes /\ State[LockFile] = "owned" /\ State[p] # "owned"
      BY <2>2 DEF TypeOK, NamesOwner, OwnersPlace, Owning
    <3> QED BY <2>2, <3>1 DEF TypeOK
  <2> QED BY <2>1, <2>2, Waiting
<1> QED BY <1>1 DEF OwnersPlace

\* WaitForOwners: waiting for a lock never closes a circle, so what a process
\* waits for depends on nobody who waits.
THEOREM NoCircularWait == Spec => []WaitForOwners
<1>1. Init => OwnerTyped /\ WaitForOwners
  BY DEF Init, OwnerTyped, WaitForOwners
<1> QED
  BY <1>1, InitIInv, NextIInv, OwnerTypedStep, WaitForOwnersStep, PTL DEF Spec

\* The lock file of a live process is removed by another one: by readLockFile
\* after a read that came too early, in the constructor after a failed link, or by
\* unsafeRemoveLockFile after an error or a timeout.
RemovesOthersLock ==
  /\ LockFile # NoFile /\ Alive(LockFile)
  /\ LockFile' = NoFile /\ ~ReleaseLock(LockFile)

Owns(p) == State[p] = "owned" /\ pc[p] \in {"build", "load", "leave"}
OwnersHoldLock == \A p \in Processes : Owns(p) => LockFile = p

LEMMA OwnersHoldLockStep ==
  ASSUME IInv, OwnersHoldLock, [Next /\ ~RemovesOthersLock]_vars
  PROVE  OwnersHoldLock'
<1> SUFFICES ASSUME NEW o \in Processes, Owns(o)' PROVE LockFile' = o
  BY DEF OwnersHoldLock
<1> USE ProcessesAssumption DEF TypeOK, OwnersPlace, Owning, Owns, OwnersHoldLock
<1>1. ASSUME NEW p \in Processes, Step(p), ~RemovesOthersLock PROVE LockFile' = o
  <2>1. ASSUME NEW from, NEW l, RemoveLockFile(p, from, l),
               \/ from = "invalid" /\ l = "temp"
               \/ from = "reinvalid" /\ l = "exists"
               \/ from = "cleanup" /\ l = "link"
               \/ from = "error" /\ l = "build"
        PROVE  LockFile' = o
    <3>1. State[o] = "owned" /\ pc[p] = from /\ pc'[o] \in {"build", "load", "leave"}
      BY <2>1 DEF RemoveLockFile
    <3>3. o # p
      BY <2>1, <3>1
    <3>2. LockFile # NoFile /\ Alive(LockFile) /\ LockFile = o
      <4>1. Owns(o)
        BY <2>1, <3>1, <3>3 DEF RemoveLockFile
      <4> QED BY <4>1 DEF Alive
    <3>4. ~ReleaseLock(o)
      BY <2>1, <3>3 DEF ReleaseLock, RemoveLockFile
    <3> QED BY <1>1, <2>1, <3>2, <3>4 DEF RemovesOthersLock, RemoveLockFile
  <2>2. CASE ClearAfterTimeout(p)
    <3>1. Owns(o)
      BY <2>2 DEF ClearAfterTimeout, Retry
    <3>2. LockFile # NoFile /\ Alive(LockFile) /\ LockFile = o /\ ~ReleaseLock(o)
      BY <2>2, <3>1 DEF Alive, ClearAfterTimeout, Retry, ReleaseLock
    <3> QED BY <1>1, <2>2, <3>2 DEF RemovesOthersLock, ClearAfterTimeout
  <2>3. CASE ReleaseLock(p)
    <3>1. o # p
      BY <2>3 DEF ReleaseLock
    <3>2. Owns(o) /\ LockFile = o
      BY <2>3, <3>1 DEF ReleaseLock
    <3>3. State[p] # "owned"
      BY <2>3, <3>1, <3>2 DEF ReleaseLock
    <3> QED BY <2>3, <3>2, <3>3 DEF ReleaseLock, MustRelease
  <2>4. CASE CreateLink(p)
    BY <2>4 DEF CreateLink
  <2>5. ASSUME NEW from, NEW l \in {"invalid", "reinvalid"}, ReadLockFile(p, from, l) PROVE LockFile' = o
    BY <2>5 DEF ReadLockFile
  <2>6. CASE CreateTempFile(p) \/ CheckExists(p) \/ WaitForUnlock(p) \/ CheckReleased(p)
    BY <2>6 DEF CreateTempFile, CheckExists, WaitForUnlock, CheckReleased, Retry
  <2>7. CASE CompileModule(p) \/ LoadModule(p) \/ DiscardTempFile(p)
    BY <2>7 DEF CompileModule, LoadModule, DiscardTempFile, Retry
  <2> QED BY <1>1, <2>1, <2>2, <2>3, <2>4, <2>5, <2>6, <2>7 DEF Step
<1>2. ASSUME NEW p \in Processes,
             \/ \E l \in {"temp", "link", "cleanup"} : Fail(p, l)
             \/ Timeout(p) \/ Exit(p) \/ Crash(p) \/ Misreads(p)
      PROVE  LockFile' = o
  BY <1>2 DEF Fail, Timeout, Exit, Crash, Misreads, Misread
<1>3. CASE UNCHANGED vars
  BY <1>3 DEF vars
<1> QED BY <1>1, <1>2, <1>3 DEF Next, Terminated, Misreads

\* SingleOwner, which does not hold, is lost only by such a removal: linking alone
\* never gives the lock to two processes, whatever crashes and fails.
THEOREM SingleOwnerUnlessRemoved ==
  Init /\ [][Next /\ ~RemovesOthersLock]_vars => []SingleOwner
<1>1. Init => OwnersHoldLock
  BY DEF Init, OwnersHoldLock, Owns
<1>2. IInv /\ OwnersHoldLock => SingleOwner
  <2> SUFFICES ASSUME OwnersHoldLock PROVE SingleOwner
    OBVIOUS
  <2> DEFINE O == {p \in Processes : State[p] = "owned" /\ pc[p] \in {"build", "load", "leave"}}
  <2>1. O \subseteq {LockFile}
    BY DEF OwnersHoldLock, Owns
  <2>2. O = {} \/ O = {LockFile}
    BY <2>1
  <2> HIDE DEF O
  <2>3. Cardinality(O) \in {0, 1}
    BY <2>2, FS_EmptySet, FS_Singleton
  <2>4. Cardinality(O) <= 1
    BY <2>3
  <2> QED BY <2>4 DEF SingleOwner, O
<1>3. [Next /\ ~RemovesOthersLock]_vars => [Next]_vars
  OBVIOUS
<1> QED BY <1>1, <1>2, <1>3, InitIInv, NextIInv, OwnersHoldLockStep, PTL
=============================================================================
