------------------------------- MODULE CppFile -------------------------------
(***************************************************************************)
(* clangd's CppFile (clang-tools-extra/clangd/ClangdUnit.cpp): one source  *)
(* file that is rebuilt again and again.  deferRebuild() and               *)
(* deferCancelRebuild() number a request and return a computation that any *)
(* thread may run later; a newer request cancels the older ones.  Readers  *)
(* wait on the futures of the preamble and of the AST.                     *)
(*                                                                         *)
(* Every critical section of CppFile::Mutex is one step.  A request is     *)
(* named by its RequestRebuildCounter.  A future is named by its kind and  *)
(* its generation (how often the promise was replaced); its value is the   *)
(* number of the request that fulfilled it, 0 for the constructor's.       *)
(***************************************************************************)
EXTENDS Naturals

CONSTANT MaxRequests   \* bound on RebuildCounter
ASSUME RequestsAssumption == MaxRequests \in Nat

Requests == 1..MaxRequests
Numbers == 0..MaxRequests    \* of requests (0 is the constructor), of generations
Kinds == {"Preamble", "AST"}
Unset == MaxRequests + 1     \* the value of a future that is not ready

VARIABLES
  RebuildCounter,
  RebuildInProgress,
  RebuildCond,               \* requests whose thread is blocked on it
  LastCommand,               \* request whose command was stored, 0 for None
  Future,                    \* current generation of each future
  Value,                     \* value of every generation
  LatestAvailablePreamble,   \* request that built it, 0 for null
  OldPreamble,               \* captured by deferRebuild
  what,                      \* what each request does
  pc,                        \* where the deferred computation is
  result,                    \* what it returned
  indexed,                   \* the request last passed to ASTCallback
  asked                      \* history: newest request made while a
                             \* generation was the current one

vars == <<RebuildCounter, RebuildInProgress, RebuildCond, LastCommand, Future, Value,
          LatestAvailablePreamble, OldPreamble, what, pc, result, indexed, asked>>

\* The places inside the life of a successfully constructed RebuildGuard.
Guarded == {"preamble", "ast", "publish", "unguard"}
Pcs == Guarded \cup {"none", "notify", "deferred", "blocked", "guardnotify", "done"}

Init ==
  /\ RebuildCounter = 0
  /\ RebuildInProgress = FALSE
  /\ RebuildCond = {}
  /\ LastCommand = 0
  /\ Future = [k \in Kinds |-> 0]
  /\ Value = [k \in Kinds |-> [g \in Numbers |-> IF g = 0 THEN 0 ELSE Unset]]
  /\ LatestAvailablePreamble = 0
  /\ OldPreamble = [n \in Requests |-> 0]
  /\ what = [n \in Requests |-> "none"]
  /\ pc = [n \in Requests |-> "none"]
  /\ result = [n \in Requests |-> "pending"]
  /\ indexed = 0
  /\ asked = [k \in Kinds |-> [g \in Numbers |-> 0]]

futureIsReady(k) == Value[k][Future[k]] # Unset

Goto(n, l) == pc' = [pc EXCEPT ![n] = l]
WakeAll(n, l) ==    \* RebuildCond.notify_all(), then n goes on at l
  /\ RebuildCond' = {}
  /\ pc' = [m \in Requests |-> IF m = n THEN l
                               ELSE IF m \in RebuildCond THEN "deferred" ELSE pc[m]]
Return(n, r) == result' = [result EXCEPT ![n] = r]

\* Promise::set_value by request n.
SetValue(k, n) == [Value[k] EXCEPT ![Future[k]] = n]

-----------------------------------------------------------------------------
(* deferRebuild() and deferCancelRebuild(), on the requesting thread. *)

\* A ready future is replaced by a new one, a pending one is kept.  The mutant
\* replaces it in any case.
RenewMutant(k) == Future[k] + 1
Renew(k) == IF futureIsReady(k) THEN Future[k] + 1 ELSE Future[k]

\* The critical section common to both.
Request(w) ==
  LET n == RebuildCounter + 1 IN
  /\ n \in Requests
  /\ RebuildCounter' = n
  /\ Future' = [k \in Kinds |-> Renew(k)]
  /\ asked' = [k \in Kinds |-> [asked[k] EXCEPT ![Renew(k)] = n]]
  /\ what' = [what EXCEPT ![n] = w]
  /\ Goto(n, "notify")
  /\ UNCHANGED <<RebuildInProgress, RebuildCond, Value, LatestAvailablePreamble,
                 result, indexed>>

deferRebuild ==
  /\ Request("rebuild")
  /\ OldPreamble' = [OldPreamble EXCEPT ![RebuildCounter + 1] = LatestAvailablePreamble]
  /\ LastCommand' = RebuildCounter + 1

deferCancelRebuild ==
  /\ Request("cancel")
  /\ UNCHANGED <<OldPreamble, LastCommand>>

\* Notify about changes to RebuildCounter, after the unlock, and return.
DeferNotify(n) ==
  /\ pc[n] = "notify"
  /\ WakeAll(n, "deferred")
  /\ UNCHANGED <<RebuildCounter, RebuildInProgress, LastCommand, Future, Value,
                 LatestAvailablePreamble, OldPreamble, what, result, indexed, asked>>

\* The caller may destroy the computation of an outdated request unrun.
\* ClangdServer does so when the draft has a newer version, and that one moves on
\* just before the newer request is made.  A drop in between is one right after
\* that request here: nothing else depends on the dropped computation.  The test
\* of the versions itself is Outdated of module ClangdServer.
Discard(n) ==
  /\ pc[n] = "deferred" /\ RebuildCounter # n
  /\ Goto(n, "done")
  /\ Return(n, "None")
  /\ UNCHANGED <<RebuildCounter, RebuildInProgress, RebuildCond, LastCommand, Future,
                 Value, LatestAvailablePreamble, OldPreamble, what, indexed, asked>>

-----------------------------------------------------------------------------
(* The deferred computations, on any thread. *)

\* Evaluation of the predicate of RebuildCond.wait; a mutant that does not wait
\* for the rebuild in progress.
MustWaitMutant(n) == FALSE
MustWait(n) == RebuildInProgress /\ RebuildCounter = n

WaitForRebuild(n, w) ==
  /\ pc[n] = "deferred" /\ what[n] = w
  /\ MustWait(n)
  /\ RebuildCond' = RebuildCond \cup {n}
  /\ Goto(n, "blocked")
  /\ UNCHANGED <<RebuildCounter, RebuildInProgress, LastCommand, Future, Value,
                 LatestAvailablePreamble, OldPreamble, what, result, indexed, asked>>

\* Whether the request was cancelled; a mutant that forgets to look.
CancelledMutant(n) == FALSE
Cancelled(n) == RebuildCounter # n

\* The constructor of RebuildGuard, and the return of a cancelled request.
RebuildGuard(n) ==
  /\ pc[n] = "deferred" /\ what[n] = "rebuild"
  /\ ~MustWait(n)
  /\ \/ /\ Cancelled(n)
        /\ Goto(n, "done")
        /\ Return(n, "None")
        /\ UNCHANGED RebuildInProgress
     \/ /\ ~Cancelled(n)
        /\ RebuildInProgress' = TRUE
        /\ Goto(n, "preamble")
        /\ UNCHANGED result
  /\ UNCHANGED <<RebuildCounter, RebuildCond, LastCommand, Future, Value,
                 LatestAvailablePreamble, OldPreamble, what, indexed, asked>>

\* DoRebuildPreamble reuses the old preamble, builds a new one or fails; then
\* the new one is published.  A mutant publishes it for a cancelled request too.
PublishPreambleIfMutant(n) == TRUE
PublishPreambleIf(n) == RebuildCounter = n

PublishPreamble(n) ==
  /\ pc[n] = "preamble"
  /\ LatestAvailablePreamble' \in {OldPreamble[n], n, 0}
  /\ IF PublishPreambleIf(n)
     THEN /\ Value' = [Value EXCEPT !["Preamble"] = SetValue("Preamble", n)]
          /\ Goto(n, "ast")
          /\ UNCHANGED result
     ELSE /\ Goto(n, "unguard")
          /\ Return(n, "None")
          /\ UNCHANGED Value
  /\ UNCHANGED <<RebuildCounter, RebuildInProgress, RebuildCond, LastCommand, Future,
                 OldPreamble, what, indexed, asked>>

\* ParsedAST::Build, and ASTCallback if it succeeded; no lock is held.
BuildAST(n) ==
  /\ pc[n] = "ast"
  /\ indexed' \in {indexed, n}
  /\ Goto(n, "publish")
  /\ UNCHANGED <<RebuildCounter, RebuildInProgress, RebuildCond, LastCommand, Future,
                 Value, LatestAvailablePreamble, OldPreamble, what, result, asked>>

\* Publish the AST unless the request was cancelled meanwhile; the diagnostics
\* are returned in both cases.
PublishAST(n) ==
  /\ pc[n] = "publish"
  /\ Value' = IF RebuildCounter = n
              THEN [Value EXCEPT !["AST"] = SetValue("AST", n)] ELSE Value
  /\ Goto(n, "unguard")
  /\ Return(n, "Diagnostics")
  /\ UNCHANGED <<RebuildCounter, RebuildInProgress, RebuildCond, LastCommand, Future,
                 LatestAvailablePreamble, OldPreamble, what, indexed, asked>>

\* The destructor of RebuildGuard: the critical section, then the notification
\* after the unlock.
LeaveGuard(n) ==
  /\ pc[n] = "unguard"
  /\ RebuildInProgress' = FALSE
  /\ Goto(n, "guardnotify")
  /\ UNCHANGED <<RebuildCounter, RebuildCond, LastCommand, Future, Value,
                 LatestAvailablePreamble, OldPreamble, what, result, indexed, asked>>

GuardNotifyMutant(n) ==    \* a mutant that forgets the notification
  /\ pc[n] = "guardnotify"
  /\ Goto(n, "done")
  /\ UNCHANGED <<RebuildCounter, RebuildInProgress, RebuildCond, LastCommand, Future,
                 Value, LatestAvailablePreamble, OldPreamble, what, result, indexed, asked>>
GuardNotify(n) ==
  /\ pc[n] = "guardnotify"
  /\ WakeAll(n, "done")
  /\ UNCHANGED <<RebuildCounter, RebuildInProgress, LastCommand, Future, Value,
                 LatestAvailablePreamble, OldPreamble, what, result, indexed, asked>>

\* The computation of deferCancelRebuild, once the wait is over.
FinishCancel(n) ==
  /\ pc[n] = "deferred" /\ what[n] = "cancel"
  /\ ~MustWait(n)
  /\ Value' = IF Cancelled(n) THEN Value ELSE [k \in Kinds |-> SetValue(k, n)]
  /\ Goto(n, "done")
  /\ UNCHANGED <<RebuildCounter, RebuildInProgress, RebuildCond, LastCommand, Future,
                 LatestAvailablePreamble, OldPreamble, what, result, indexed, asked>>

\* RebuildCond.wait may wake without a notification.
SpuriousWakeup(n) ==
  /\ n \in RebuildCond
  /\ RebuildCond' = RebuildCond \ {n}
  /\ Goto(n, "deferred")
  /\ UNCHANGED <<RebuildCounter, RebuildInProgress, LastCommand, Future, Value,
                 LatestAvailablePreamble, OldPreamble, what, result, indexed, asked>>

Step(n) ==
  \/ DeferNotify(n)
  \/ WaitForRebuild(n, "rebuild") \/ RebuildGuard(n)
  \/ PublishPreamble(n) \/ BuildAST(n) \/ PublishAST(n) \/ LeaveGuard(n) \/ GuardNotify(n)
  \/ WaitForRebuild(n, "cancel") \/ FinishCancel(n)

\* The bound on requests is used up and every computation has returned.
Quiescent ==
  /\ RebuildCounter = MaxRequests /\ \A n \in Requests : pc[n] = "done"
  /\ UNCHANGED vars

Next ==
  \/ deferRebuild \/ deferCancelRebuild
  \/ \E n \in Requests : Step(n) \/ Discard(n) \/ SpuriousWakeup(n)
  \/ Quiescent

Spec == Init /\ [][Next]_vars

\* Every computation is run by some thread, and a thread that can go on goes
\* on.  Making a request is the caller's choice.
FairSpec == Spec /\ \A n \in Requests : WF_vars(Step(n))
-----------------------------------------------------------------------------
TypeOK ==
  /\ RebuildCounter \in Numbers
  /\ RebuildInProgress \in BOOLEAN
  /\ RebuildCond \subseteq Requests
  /\ LastCommand \in Numbers
  /\ Future \in [Kinds -> Numbers]
  /\ Value \in [Kinds -> [Numbers -> Numbers \cup {Unset}]]
  /\ LatestAvailablePreamble \in Numbers
  /\ OldPreamble \in [Requests -> Numbers]
  /\ what \in [Requests -> {"none", "rebuild", "cancel"}]
  /\ pc \in [Requests -> Pcs]
  /\ result \in [Requests -> {"pending", "None", "Diagnostics"}]
  /\ indexed \in Numbers
  /\ asked \in [Kinds -> [Numbers -> Numbers]]

\* "Only one execution of this method is possible at a time": two rebuilds of
\* one file never overlap, and RebuildInProgress says whether there is one.
RebuildsExclusive ==
  \A n \in Requests : pc[n] \in Guarded =>
    RebuildInProgress /\ \A m \in Requests : pc[m] \in Guarded => m = n

\* The assertions of ~RebuildGuard: when a rebuild ends, both futures are ready
\* if it is still the newest request, and neither is if it was cancelled.
GuardAssertions ==
  \A n \in Requests : pc[n] = "unguard" =>
    /\ RebuildInProgress
    /\ \A k \in Kinds : futureIsReady(k) <=> RebuildCounter = n

\* No promise is set twice: std::promise would throw on the worker thread.
PromisesSetOnce ==
  \A n \in Requests :
    /\ pc[n] = "preamble" /\ PublishPreambleIf(n) => ~futureIsReady("Preamble")
    /\ pc[n] = "publish" /\ RebuildCounter = n => ~futureIsReady("AST")
    /\ pc[n] = "deferred" /\ what[n] = "cancel" /\ ~MustWait(n) /\ ~Cancelled(n) =>
         \A k \in Kinds : ~futureIsReady(k)

\* A reader gets the freshest result: a future holds the result of the newest
\* request made while it was handed out by getPreamble() or getAST(), and a
\* future that was replaced had been fulfilled (no promise is broken).
FreshResults ==
  \A k \in Kinds, g \in Numbers :
    /\ Value[k][g] \in {asked[k][g], Unset}
    /\ g < Future[k] => Value[k][g] # Unset

\* ASTCallback sees the versions of the file in the order they were requested.
CallbacksInOrder == [][indexed' >= indexed]_vars

\* Readers are not left waiting: a pending future becomes ready once the
\* requests cease (MaxRequests), although each may have cancelled the rebuild
\* that was to fulfil it.
FuturesBecomeReady ==
  \A k \in Kinds : ~futureIsReady(k) ~> futureIsReady(k)

\* No computation hangs on RebuildCond (a lost wakeup).
ComputationsReturn ==
  \A n \in Requests : pc[n] = "deferred" ~> pc[n] = "done"

\* Each of the two futures behaves like FreshFuture: however the requests and
\* the threads that run them interleave, it is only ever fulfilled once, and
\* with the newest request.
PreambleSlot == INSTANCE FreshFuture WITH
  latest <- RebuildCounter, value <- Value["Preamble"][Future["Preamble"]], Pending <- Unset
ASTSlot == INSTANCE FreshFuture WITH
  latest <- RebuildCounter, value <- Value["AST"][Future["AST"]], Pending <- Unset
PreambleIsFresh == PreambleSlot!Spec
ASTIsFresh == ASTSlot!Spec

-----------------------------------------------------------------------------
(* The inductive invariant behind the safety properties. *)

\* Requests are numbered in order, and generations follow them.
Numbering ==
  /\ \A n \in Requests : n <= RebuildCounter <=> pc[n] # "none"
  /\ \A k \in Kinds : Future[k] <= RebuildCounter
  /\ \A k \in Kinds : asked[k][Future[k]] = RebuildCounter
  /\ \A k \in Kinds, g \in Numbers : g > Future[k] => Value[k][g] = Unset
  /\ \A n \in RebuildCond : pc[n] = "blocked"

\* How far the newest request has come decides which futures are ready.
NewestDecides ==
  \A n \in Requests : n = RebuildCounter =>
    /\ futureIsReady("Preamble") <=>
         pc[n] \in {"ast", "publish", "unguard", "guardnotify", "done"}
    /\ futureIsReady("AST") <=> pc[n] \in {"unguard", "guardnotify", "done"}
ReadyAtFirst == RebuildCounter = 0 => \A k \in Kinds : futureIsReady(k)

\* The newest request has not started while a cancelled rebuild is running.
NewestWaits ==
  \A m, n \in Requests : pc[m] \in Guarded /\ n = RebuildCounter /\ m # n =>
    pc[n] \in {"notify", "deferred", "blocked"}

CallbackBounds ==
  /\ indexed <= RebuildCounter
  /\ \A n \in Requests : pc[n] \in Guarded => indexed <= n

IInv ==
  /\ TypeOK /\ Numbering /\ RebuildsExclusive /\ NewestDecides /\ ReadyAtFirst
  /\ NewestWaits /\ CallbackBounds /\ FreshResults
=============================================================================
