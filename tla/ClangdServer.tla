----------------------------- MODULE ClangdServer -----------------------------
(***************************************************************************)
(* clangd's ClangdServer with its DraftStore, CppFileCollection and        *)
(* ClangdScheduler (clang-tools-extra/clangd).  One client thread calls    *)
(* the server; worker threads take requests from the front of one queue.   *)
(*                                                                         *)
(* Each CppFile is reduced to what the server sees of it: its request      *)
(* counter, whether a rebuild runs, and its AST future (CppFile.tla has    *)
(* the whole protocol).  Waits on a condition variable are await guards.   *)
(* The result of a build is named by the version of the draft it was built *)
(* from; a build may give no AST.                                          *)
(***************************************************************************)
EXTENDS Naturals, Sequences, FiniteSets

CONSTANTS
  Files,
  Workers,
  MaxCalls     \* bound on the calls of the client

ASSUME CallsAssumption == MaxCalls \in Nat

VARIABLES
  Version,                     \* DraftStore: version of each draft, 0 if none
  HasDraft,                    \* whether the draft has contents
  OpenedFiles,                 \* index of the file's current CppFile, 0 if none
  Units,                       \* every CppFile ever created for a file
  RequestQueue,
  Done,                        \* the scheduler is shutting down
  ReportedDiagnosticVersions,
  Indexed,                     \* version of the AST last given to FileIdx
  NoAST,                       \* history: the version of the file's last build,
                               \* if that gave no AST, or 0
  client,                      \* where the client thread is, and for which request
  worker,                      \* where a worker is, and on which request
  calls

vars == <<Version, HasDraft, OpenedFiles, Units, RequestQueue, Done,
          ReportedDiagnosticVersions, Indexed, NoAST, client, worker, calls>>
documents == <<Version, HasDraft, OpenedFiles>>
results == <<ReportedDiagnosticVersions, Indexed, NoAST>>

Idle == [pc |-> "idle"]
At(l, r) == [pc |-> l, r |-> r]
IsAt(t, S) == t.pc \in S

Init ==
  /\ Version = [f \in Files |-> 0]
  /\ HasDraft = [f \in Files |-> FALSE]
  /\ OpenedFiles = [f \in Files |-> 0]
  /\ Units = [f \in Files |-> <<>>]
  /\ RequestQueue = <<>>
  /\ Done = FALSE
  /\ ReportedDiagnosticVersions = [f \in Files |-> 0]
  /\ Indexed = [f \in Files |-> 0]
  /\ NoAST = [f \in Files |-> 0]
  /\ client = Idle
  /\ worker = [w \in Workers |-> Idle]
  /\ calls = 0

\* The constructor of CppFile leaves a ready future without an AST.
NewCppFile == [RebuildCounter |-> 0, InProgress |-> FALSE, ready |-> TRUE, ast |-> 0]

\* The CppFile of a request.
Unit(r) == Units[r.file][r.unit]
Superseded(r) == Unit(r).RebuildCounter # r.counter

-----------------------------------------------------------------------------
(* The client thread. *)

Call ==
  /\ IsAt(client, {"idle"})
  /\ calls < MaxCalls
  /\ calls' = calls + 1

\* DraftStore: both raise the version, in a critical section of their own.
updateDraft(f) ==
  /\ Version' = [Version EXCEPT ![f] = @ + 1]
  /\ HasDraft' = [HasDraft EXCEPT ![f] = TRUE]
removeDraft(f) ==
  /\ Version' = [Version EXCEPT ![f] = @ + 1]
  /\ HasDraft' = [HasDraft EXCEPT ![f] = FALSE]

addDocument(f) ==
  /\ Call
  /\ updateDraft(f)
  /\ client' = At("reparse", [file |-> f, version |-> Version[f] + 1])
  /\ UNCHANGED <<OpenedFiles, Units, RequestQueue, Done, results, worker>>

\* The assertion that the document was added is the guard.
forceReparse(f) ==
  /\ Call
  /\ HasDraft[f]
  /\ client' = At("reparse", [file |-> f, version |-> Version[f]])
  /\ UNCHANGED <<documents, Units, RequestQueue, Done, results, worker>>

removeDocument(f) ==
  /\ Call
  /\ removeDraft(f)
  /\ client' = At("cancel", [file |-> f, version |-> Version[f] + 1])
  /\ UNCHANGED <<OpenedFiles, Units, RequestQueue, Done, results, worker>>

\* deferRebuild and deferCancelRebuild: a new request, and a pending future.
Deferred(u) == [u EXCEPT !.RebuildCounter = @ + 1, !.ready = FALSE]

\* A request of the given kind for the i-th unit of the client's file.
RequestFor(k, us, i) ==
  [file |-> client.r.file, version |-> client.r.version, kind |-> k, unit |-> i,
   counter |-> us[i].RebuildCounter]

\* getOrCreateFile and deferRebuild.
scheduleReparseAndDiags ==
  /\ IsAt(client, {"reparse"})
  /\ LET f == client.r.file
         us == IF OpenedFiles[f] = 0 THEN Append(Units[f], NewCppFile) ELSE Units[f]
         i == IF OpenedFiles[f] = 0 THEN Len(us) ELSE OpenedFiles[f]
         vs == [us EXCEPT ![i] = Deferred(@)]
     IN /\ OpenedFiles' = [OpenedFiles EXCEPT ![f] = i]
        /\ Units' = [Units EXCEPT ![f] = vs]
        /\ client' = At("enqueue", RequestFor("reparse", vs, i))
  /\ UNCHANGED <<Version, HasDraft, RequestQueue, Done, results, worker, calls>>

\* CppFileCollection::removeIfPresent and, if there was a file, deferCancelRebuild.
removeIfPresent(f) == OpenedFiles' = [OpenedFiles EXCEPT ![f] = 0]
scheduleCancelRebuild ==
  /\ IsAt(client, {"cancel"})
  /\ LET f == client.r.file
         i == OpenedFiles[f]
         vs == [Units[f] EXCEPT ![i] = Deferred(@)]
     IN /\ removeIfPresent(f)
        /\ IF i = 0
           THEN client' = Idle /\ UNCHANGED Units
           ELSE /\ Units' = [Units EXCEPT ![f] = vs]
                /\ client' = At("enqueue", RequestFor("cancel", vs, i))
  /\ UNCHANGED <<Version, HasDraft, RequestQueue, Done, results, worker, calls>>

\* Its assertions (a draft, a CppFile with a compile command) are the guard.
codeComplete(f) ==
  /\ Call
  /\ HasDraft[f] /\ OpenedFiles[f] # 0
  /\ client' = At("enqueue", [file |-> f, kind |-> "complete"])
  /\ UNCHANGED <<documents, Units, RequestQueue, Done, results, worker>>

\* ClangdScheduler::addToFront.
addToFront ==
  /\ IsAt(client, {"enqueue"})
  /\ RequestQueue' = <<client.r>> \o RequestQueue
  /\ client' = Idle
  /\ UNCHANGED <<documents, Units, Done, results, worker, calls>>

\* Blocks in getAST().get() until the future is ready.
findDefinitions(f) ==
  /\ Call
  /\ OpenedFiles[f] # 0
  /\ client' = At("get", [file |-> f, unit |-> OpenedFiles[f]])
  /\ UNCHANGED <<documents, Units, RequestQueue, Done, results, worker>>
getReturns ==
  /\ IsAt(client, {"get"}) /\ Unit(client.r).ready
  /\ client' = Idle
  /\ UNCHANGED <<documents, Units, RequestQueue, Done, results, worker, calls>>

\* ~ClangdServer runs ~ClangdScheduler first: set Done, then join.
shutdown ==
  /\ IsAt(client, {"idle"})
  /\ Done' = TRUE
  /\ client' = [pc |-> "join"]
  /\ UNCHANGED <<documents, Units, RequestQueue, results, worker, calls>>
join ==
  /\ IsAt(client, {"join"}) /\ \A w \in Workers : worker[w].pc = "exited"
  /\ client' = [pc |-> "destroyed"]
  /\ UNCHANGED <<documents, Units, RequestQueue, Done, results, worker, calls>>

-----------------------------------------------------------------------------
(* A worker thread. *)

Become(w, s) == worker' = [worker EXCEPT ![w] = s]
Proceed(w, l) == Become(w, At(l, worker[w].r))
Working(w, l) == IsAt(worker[w], {l})
SetUnit(r, u) == Units' = [Units EXCEPT ![r.file][r.unit] = u]

\* The loop of the worker: exit as soon as Done is set, even if requests are
\* left, or take the front request.
TakeRequest(w) ==
  /\ Working(w, "idle")
  /\ \/ /\ Done
        /\ Become(w, [pc |-> "exited"])
        /\ UNCHANGED RequestQueue
     \/ /\ ~Done /\ RequestQueue # <<>>
        /\ Become(w, At(Head(RequestQueue).kind, Head(RequestQueue)))
        /\ RequestQueue' = Tail(RequestQueue)
  /\ UNCHANGED <<documents, Units, Done, results, client, calls>>

\* Whether the draft has moved on since the request was made; a mutant is off
\* by one.
OutdatedMutant(r) == Version[r.file] >= r.version
Outdated(r) == Version[r.file] # r.version

\* ReparseAndPublishDiags: outdated requests are dropped.
CheckVersion(w) ==
  /\ Working(w, "reparse")
  /\ Proceed(w, IF Outdated(worker[w].r) THEN "finish" ELSE "rebuild")
  /\ UNCHANGED <<documents, Units, RequestQueue, Done, results, client, calls>>

\* The wait of RebuildGuard and of the deferred cancel; a mutant does not wait.
MayGoOnMutant(r) == TRUE
MayGoOn(r) == ~Unit(r).InProgress \/ Superseded(r)

\* The constructor of RebuildGuard.
EnterGuard(w) ==
  LET r == worker[w].r IN
  /\ Working(w, "rebuild")
  /\ MayGoOn(r)
  /\ \/ Superseded(r) /\ Proceed(w, "finish") /\ UNCHANGED Units
     \/ /\ ~Superseded(r)
        /\ Proceed(w, "preamble")
        /\ SetUnit(r, [Unit(r) EXCEPT !.InProgress = TRUE])
  /\ UNCHANGED <<documents, RequestQueue, Done, results, client, calls>>

\* After the preamble was built a superseded rebuild gives up, which runs the
\* destructor of RebuildGuard; in a mutant it does not.
GiveUpMutant == "finish"
GiveUp == "leave"

PublishPreamble(w) ==
  /\ Working(w, "preamble")
  /\ Proceed(w, IF Superseded(worker[w].r) THEN GiveUp ELSE "build")
  /\ UNCHANGED <<documents, Units, RequestQueue, Done, results, client, calls>>

\* Build the AST and pass it to FileIdx->update; no lock is held.  If there is
\* no AST the index keeps what it has of the file.
BuildAST(w) ==
  LET r == worker[w].r IN
  /\ Working(w, "build")
  /\ \/ /\ Indexed' = [Indexed EXCEPT ![r.file] = r.version]
        /\ NoAST' = [NoAST EXCEPT ![r.file] = 0]
     \/ /\ NoAST' = [NoAST EXCEPT ![r.file] = r.version]
        /\ UNCHANGED Indexed
  /\ Proceed(w, "publish")
  /\ UNCHANGED <<documents, Units, RequestQueue, Done, ReportedDiagnosticVersions,
                 client, calls>>

\* Fulfil the AST future unless superseded (a mutant: in any case), also when
\* there is no AST; the diagnostics are returned anyway.
FulfilledMutant(r, a) == [Unit(r) EXCEPT !.ready = TRUE, !.ast = a]
Fulfilled(r, a) ==
  IF Superseded(r) THEN Unit(r) ELSE [Unit(r) EXCEPT !.ready = TRUE, !.ast = a]
PublishAST(w) ==
  LET r == worker[w].r IN
  /\ Working(w, "publish")
  /\ SetUnit(r, Fulfilled(r, r.version))
  /\ Proceed(w, "leavewithdiags")
  /\ UNCHANGED <<documents, RequestQueue, Done, results, client, calls>>

\* The destructor of RebuildGuard.
LeaveGuard(w) ==
  LET r == worker[w].r IN
  /\ Working(w, "leave") \/ Working(w, "leavewithdiags")
  /\ SetUnit(r, [Unit(r) EXCEPT !.InProgress = FALSE])
  /\ Proceed(w, IF Working(w, "leave") THEN "finish" ELSE "diags")
  /\ UNCHANGED <<documents, RequestQueue, Done, results, client, calls>>

\* Under DiagnosticsMutex: never report an older version after a newer one.  A
\* mutant has no such test.
MayReportMutant(r) == TRUE
MayReport(r) == ~(r.version < ReportedDiagnosticVersions[r.file])

PublishDiags(w) ==
  LET r == worker[w].r IN
  /\ Working(w, "diags")
  /\ ReportedDiagnosticVersions' =
       IF MayReport(r) THEN [ReportedDiagnosticVersions EXCEPT ![r.file] = r.version]
       ELSE ReportedDiagnosticVersions
  /\ Proceed(w, "finish")
  /\ UNCHANGED <<documents, Units, RequestQueue, Done, Indexed, NoAST, client, calls>>

\* CancelReparses: the deferred cancel empties the future.
CancelReparses(w) ==
  LET r == worker[w].r IN
  /\ Working(w, "cancel")
  /\ MayGoOn(r)
  /\ SetUnit(r, Fulfilled(r, 0))
  /\ Proceed(w, "finish")
  /\ UNCHANGED <<documents, RequestQueue, Done, results, client, calls>>

\* The completion task, or DonePromise.set_value; then back to the loop.
Finish(w) ==
  /\ Working(w, "complete") \/ Working(w, "finish")
  /\ Become(w, Idle)
  /\ UNCHANGED <<documents, Units, RequestQueue, Done, results, client, calls>>

-----------------------------------------------------------------------------
ClientCall ==
  \/ \E f \in Files : \/ addDocument(f) \/ forceReparse(f) \/ removeDocument(f)
                      \/ codeComplete(f) \/ findDefinitions(f)
  \/ shutdown
ClientStep ==
  \/ scheduleReparseAndDiags \/ scheduleCancelRebuild \/ addToFront
  \/ getReturns \/ join
WorkerStep(w) ==
  \/ TakeRequest(w) \/ CheckVersion(w) \/ EnterGuard(w) \/ PublishPreamble(w)
  \/ BuildAST(w) \/ PublishAST(w) \/ LeaveGuard(w) \/ PublishDiags(w)
  \/ CancelReparses(w) \/ Finish(w)

Destroyed == IsAt(client, {"destroyed"}) /\ UNCHANGED vars

Next == ClientCall \/ ClientStep \/ (\E w \in Workers : WorkerStep(w)) \/ Destroyed

Spec == Init /\ [][Next]_vars

\* Threads inside a call go on, workers keep working; calls are not fair.
FairSpec ==
  /\ Spec
  /\ WF_vars(ClientStep)
  /\ \A w \in Workers : WF_vars(WorkerStep(w))
-----------------------------------------------------------------------------
\* findDefinitions() answers from the AST of the text the client sent last: no
\* request for an older text can fulfil the future the client waits on, in
\* whatever order the workers take the requests.
DefinitionsAreFresh ==
  IsAt(client, {"get"}) /\ Unit(client.r).ready =>
    Unit(client.r).ast = Version[client.r.file]

\* addDocument()'s future "will become ready when the rebuild (including
\* diagnostics) is finished": a request that was neither outdated nor superseded
\* has reported its diagnostics, and they are the last ones reported.
DoneAfterDiagnostics ==
  \A w \in Workers : Working(w, "finish") =>
    LET r == worker[w].r IN
    r.kind = "reparse" /\ ~Superseded(r) /\ Version[r.file] = r.version =>
      ReportedDiagnosticVersions[r.file] = r.version

\* removeDocument()'s future becomes ready when no worker is inside a rebuild of
\* the removed file any more.
RemovedFileIsIdle ==
  \A w, v \in Workers : Working(w, "finish") =>
    LET r == worker[w].r IN
    r.kind = "cancel" /\ ~Superseded(r)
      /\ IsAt(worker[v], {"preamble", "build", "publish", "leave", "leavewithdiags"}) =>
        ~(worker[v].r.file = r.file /\ worker[v].r.unit = r.unit)

\* The server has nothing left to do.
Quiet ==
  /\ IsAt(client, {"idle"}) /\ RequestQueue = <<>>
  /\ \A w \in Workers : Working(w, "idle")

\* When the server is quiet the diagnostics last shown for an open file are
\* those of its current text: none was lost, none was overwritten by older ones.
ShownDiagnosticsAreCurrent ==
  Quiet => \A f \in Files : HasDraft[f] => ReportedDiagnosticVersions[f] = Version[f]

\* The client of findDefinitions() is not left waiting.
DefinitionsReturn == client.pc = "get" ~> client.pc # "get"

\* Once the client makes no more calls the text it sent last is rebuilt and its
\* diagnostics are shown, unless it has shut the server down: however the queue
\* and the workers stand, no request is forgotten.  While calls go on nothing is
\* promised: they go to the front of the queue (addToFront), so that an endless
\* stream of calls on other files starves an earlier request for ever.
DiagnosticsArrive ==
  \A f \in Files, c \in 0..MaxCalls :
    (HasDraft[f] /\ calls = c) ~>
      (ReportedDiagnosticVersions[f] = Version[f] \/ calls # c \/ Done)

\* The destructor returns, whatever the workers are doing or waiting for.
ShutdownReturns == client.pc = "join" ~> client.pc = "destroyed"

\* ClangdServer.h on FileIdx: "an up-to-date of symbols in open files".  When
\* the server is quiet the index has the current text of every open file, but of
\* one whose last build gave no AST.
IndexIsCurrent ==
  Quiet => \A f \in Files :
    HasDraft[f] /\ NoAST[f] # Version[f] => Indexed[f] = Version[f]
=============================================================================
