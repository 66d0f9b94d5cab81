-------------------------- MODULE ClangdServerProofs --------------------------
(***************************************************************************)
(* The safety of ClangdServer, for any files, any number of workers and of *)
(* calls: answers, diagnostics and the futures given to the client belong  *)
(* to the text sent last.                                                  *)
(***************************************************************************)
EXTENDS ClangdServer, SequenceTheorems, TLAPS

UnitRecords == [RebuildCounter : Nat, InProgress : BOOLEAN, ready : BOOLEAN, ast : Nat]
Rebuilds == [file : Files, version : Nat, kind : {"reparse", "cancel"},
             unit : Nat \ {0}, counter : Nat]
Completions == [file : Files, kind : {"complete"}]

\* The places of a worker on a request to rebuild; in some it holds the guard.
Guard == {"preamble", "build", "publish", "leave", "leavewithdiags"}
Reparsing == Guard \cup {"reparse", "rebuild", "diags"}

Shape ==
  /\ Version \in [Files -> Nat]
  /\ HasDraft \in [Files -> BOOLEAN]
  /\ OpenedFiles \in [Files -> Nat]
  /\ Units \in [Files -> Seq(UnitRecords)]
  /\ ReportedDiagnosticVersions \in [Files -> Nat]
  /\ RequestQueue \in Seq(Rebuilds \cup Completions)
  /\ worker = [w \in Workers |-> worker[w]]

\* What the client is doing agrees with the documents.
ClientShape ==
  /\ client.pc \in {"reparse", "cancel"} =>
       client.r.file \in Files /\ client.r.version = Version[client.r.file]
  /\ client.pc = "cancel" => ~HasDraft[client.r.file]
  /\ client.pc = "enqueue" => client.r \in Rebuilds \cup Completions
  /\ client.pc = "get" => client.r.file \in Files /\ client.r.unit = OpenedFiles[client.r.file]
                          /\ client.r.unit # 0

\* Where a worker is tells what it works on.
WorkerShape ==
  \A w \in Workers :
    \/ worker[w].pc \in {"idle", "exited"}
    \/ worker[w].pc \in Reparsing /\ worker[w].r \in Rebuilds /\ worker[w].r.kind = "reparse"
    \/ worker[w].pc = "cancel" /\ worker[w].r \in Rebuilds /\ worker[w].r.kind = "cancel"
    \/ worker[w].pc = "finish" /\ worker[w].r \in Rebuilds
    \/ worker[w].pc = "complete" /\ worker[w].r \in Completions

\* The requests that somebody still has.
Flying ==
  (IF client.pc = "enqueue" THEN {client.r} ELSE {})
  \cup {RequestQueue[k] : k \in 1 .. Len(RequestQueue)}
  \cup {worker[w].r : w \in {v \in Workers : worker[v].pc \notin {"idle", "exited"}}}

\* The client has changed the draft of f, or wants it rebuilt, and has not yet
\* told the unit.
Changing(f) == client.pc \in {"reparse", "cancel"} /\ client.r.file = f

\* Requests come from the past of their unit and their draft, and the newest
\* request of an open file is for its newest text.
Sound(r) ==
  /\ r.unit \in 1 .. Len(Units[r.file])
  /\ r.counter <= Unit(r).RebuildCounter
  /\ r.version <= Version[r.file]
  /\ r.kind = "cancel" => r.unit # OpenedFiles[r.file]
  /\ r.unit = OpenedFiles[r.file] /\ ~Superseded(r) =>
       r.version = Version[r.file] \/ Changing(r.file)
AllSound == \A r \in Flying : r.kind # "complete" => Sound(r)

\* A cancel is a request of its own.
Apart ==
  \A r, q \in Flying :
    r.kind = "cancel" /\ q.kind = "reparse" /\ r.file = q.file /\ r.unit = q.unit =>
      r.counter # q.counter

\* RebuildGuard: one worker per unit, and the unit knows.
Guarded ==
  \A w \in Workers : worker[w].pc \in Guard =>
    /\ Unit(worker[w].r).InProgress
    /\ \A v \in Workers :
         worker[v].pc \in Guard /\ worker[v].r.file = worker[w].r.file
           /\ worker[v].r.unit = worker[w].r.unit => v = w

\* The AST of an open file is the newest.
OpenASTs ==
  \A f \in Files : OpenedFiles[f] # 0 =>
    /\ OpenedFiles[f] <= Len(Units[f])
    /\ Units[f][OpenedFiles[f]].ready /\ ~Changing(f) =>
         Units[f][OpenedFiles[f]].ast = Version[f]

\* Why a request ends.
Endings ==
  \A w \in Workers :
    LET r == worker[w].r IN
    /\ worker[w].pc = "leave" => Superseded(r)
    /\ worker[w].pc = "finish" /\ r.kind = "reparse" =>
         \/ Superseded(r) \/ r.version < Version[r.file]
         \/ r.version <= ReportedDiagnosticVersions[r.file]
    /\ worker[w].pc = "finish" /\ r.kind = "cancel" =>
         Superseded(r) \/ ~Unit(r).InProgress

NoneFromTheFuture == \A f \in Files : ReportedDiagnosticVersions[f] <= Version[f]

\* The newest text has been reported, or somebody has a request that will.
OnItsWay(f, r) ==
  r.kind = "reparse" /\ r.file = f /\ r.version = Version[f] /\ ~Superseded(r)
Coming(f) ==
  \/ client.pc = "reparse" /\ client.r.file = f
  \/ client.pc = "enqueue" /\ OnItsWay(f, client.r)
  \/ \E k \in 1 .. Len(RequestQueue) : OnItsWay(f, RequestQueue[k])
  \/ \E w \in Workers : worker[w].pc \in Reparsing /\ OnItsWay(f, worker[w].r)
Pending ==
  \A f \in Files : HasDraft[f] => ReportedDiagnosticVersions[f] = Version[f] \/ Coming(f)

IInv == /\ Shape /\ ClientShape /\ WorkerShape /\ AllSound /\ Apart /\ Guarded
        /\ OpenASTs /\ Endings /\ NoneFromTheFuture /\ Pending

-----------------------------------------------------------------------------
(* Lemmas about requests and units. *)

LEMMA RebuildFields ==
  ASSUME NEW r \in Rebuilds
  PROVE  /\ r.file \in Files /\ r.version \in Nat /\ r.unit \in Nat \ {0} /\ r.counter \in Nat
         /\ r.kind \in {"reparse", "cancel"}
BY DEF Rebuilds

LEMMA CompletionFields ==
  ASSUME NEW r \in Completions
  PROVE  r.kind = "complete" /\ r.file \in Files
BY DEF Completions

LEMMA UnitFields ==
  ASSUME NEW u \in UnitRecords
  PROVE  /\ u.RebuildCounter \in Nat /\ u.InProgress \in BOOLEAN
         /\ u.ready \in BOOLEAN /\ u.ast \in Nat
BY DEF UnitRecords

\* Every request is of one of the two types.
LEMMA FlyingTyped ==
  ASSUME Shape, ClientShape, WorkerShape, NEW r \in Flying
  PROVE  /\ r \in Rebuilds \cup Completions
         /\ r.kind # "complete" <=> r \in Rebuilds
         /\ r.kind \in {"reparse", "cancel", "complete"}
<1>1. r \in Rebuilds \cup Completions
  <2>1. CASE client.pc = "enqueue" /\ r = client.r BY <2>1 DEF ClientShape
  <2>2. ASSUME NEW k \in 1 .. Len(RequestQueue), r = RequestQueue[k]
        PROVE  r \in Rebuilds \cup Completions
    BY <2>2 DEF Shape
  <2>3. ASSUME NEW w \in Workers, worker[w].pc \notin {"idle", "exited"}, r = worker[w].r
        PROVE  r \in Rebuilds \cup Completions
    BY <2>3 DEF WorkerShape
  <2> QED BY <2>1, <2>2, <2>3 DEF Flying
<1> QED BY <1>1, RebuildFields, CompletionFields

\* The unit of a sound request exists.
LEMMA UnitOf ==
  ASSUME Shape, NEW r \in Rebuilds, Sound(r)
  PROVE  Unit(r) \in UnitRecords /\ r.unit \in 1 .. Len(Units[r.file])
<1>1. r.file \in Files /\ r.unit \in 1 .. Len(Units[r.file]) BY RebuildFields DEF Sound
<1>2. Units[r.file] \in Seq(UnitRecords) BY <1>1 DEF Shape
<1> QED BY <1>1, <1>2 DEF Unit

\* What a worker does to the units while it works on r: only the unit of r
\* changes, and its counter does not.
Kept(r) ==
  /\ Units' \in [Files -> Seq(UnitRecords)]
  /\ \A f \in Files :
       /\ Len(Units'[f]) = Len(Units[f])
       /\ \A i \in 1 .. Len(Units[f]) :
            /\ Units'[f][i].RebuildCounter = Units[f][i].RebuildCounter
            /\ ~(f = r.file /\ i = r.unit) => Units'[f][i] = Units[f][i]

LEMMA SetUnitKeeps ==
  ASSUME Shape, NEW r \in Rebuilds, Sound(r), NEW u \in UnitRecords, SetUnit(r, u),
         u.RebuildCounter = Unit(r).RebuildCounter
  PROVE  Kept(r) /\ Unit(r)' = u
<1> DEFINE f == r.file
           i == r.unit
<1>1. f \in Files /\ i \in 1 .. Len(Units[f]) BY UnitOf, RebuildFields
<1>2. Units[f] \in Seq(UnitRecords) BY <1>1 DEF Shape
<1>3. Units' = [Units EXCEPT ![f] = [Units[f] EXCEPT ![i] = u]] BY DEF SetUnit
<1> DEFINE s == [Units[f] EXCEPT ![i] = u]
<1>4. /\ s \in Seq(UnitRecords) /\ Len(s) = Len(Units[f])
      /\ \A j \in 1 .. Len(Units[f]) : s[j] = IF j = i THEN u ELSE Units[f][j]
  BY <1>1, <1>2, ExceptSeq
<1>5. Units[f][i].RebuildCounter = u.RebuildCounter BY DEF Unit
<1> HIDE DEF s, f, i
<1>6. /\ Units'[f] = s /\ \A g \in Files \ {f} : Units'[g] = Units[g]
      /\ Units' \in [Files -> Seq(UnitRecords)]
  BY <1>1, <1>3, <1>4 DEF Shape, s
<1>7. ASSUME NEW g \in Files
      PROVE  /\ Len(Units'[g]) = Len(Units[g])
             /\ \A j \in 1 .. Len(Units[g]) :
                  /\ Units'[g][j].RebuildCounter = Units[g][j].RebuildCounter
                  /\ ~(g = f /\ j = i) => Units'[g][j] = Units[g][j]
  <2>1. CASE g = f BY <1>4, <1>5, <1>6, <2>1
  <2>2. CASE g # f BY <1>6, <2>2
  <2> QED BY <2>1, <2>2
<1>8. Units'[f][i] = u BY <1>1, <1>4, <1>6
<1> QED BY <1>6, <1>7, <1>8 DEF Kept, Unit, f, i

LEMMA UnchangedKeeps ==
  ASSUME Shape, UNCHANGED Units, NEW r
  PROVE  Kept(r) /\ Unit(r)' = Unit(r)
BY DEF Shape, Kept, Unit

-----------------------------------------------------------------------------
(* A worker goes on with its request. *)

Moves(w, l) ==
  Proceed(w, l) /\ UNCHANGED <<Version, HasDraft, OpenedFiles, RequestQueue, client>>

\* The request stays with the worker; requests and units agree as before.
LEMMA MoveKeeps ==
  ASSUME IInv, NEW w \in Workers, worker[w].pc \notin {"idle", "exited"},
         worker[w].r \in Rebuilds, NEW l, l \notin {"idle", "exited"},
         Moves(w, l), Kept(worker[w].r)
  PROVE  /\ worker' = [v \in Workers |-> worker'[v]]
         /\ worker'[w].pc = l /\ worker'[w].r = worker[w].r
         /\ \A v \in Workers : v # w => worker'[v] = worker[v]
         /\ Flying' = Flying
         /\ \A f : Changing(f)' <=> Changing(f)
         /\ \A r \in Flying : r \in Rebuilds => (Superseded(r)' <=> Superseded(r))
         /\ ClientShape' /\ AllSound' /\ Apart'
<1>s. Shape /\ ClientShape /\ WorkerShape BY DEF IInv
<1>1. worker' = [v \in Workers |-> IF v = w THEN At(l, worker[w].r) ELSE worker[v]]
  BY <1>s DEF Moves, Proceed, Become, Shape
<1>2. /\ worker' = [v \in Workers |-> worker'[v]]
      /\ worker'[w].pc = l /\ worker'[w].r = worker[w].r
      /\ \A v \in Workers : v # w => worker'[v] = worker[v]
  BY <1>1 DEF At
<1>3. Flying' = Flying
  <2>1. \A v \in Workers : /\ worker'[v].pc \notin {"idle", "exited"} <=>
                                worker[v].pc \notin {"idle", "exited"}
                           /\ worker'[v].r = worker[v].r
    BY <1>2
  <2>2. client' = client /\ RequestQueue' = RequestQueue BY DEF Moves
  <2> QED BY <2>1, <2>2 DEF Flying
<1>4. \A f : Changing(f)' <=> Changing(f) BY DEF Changing, Moves
<1>5. ASSUME NEW r \in Flying, r \in Rebuilds
      PROVE  /\ Superseded(r)' <=> Superseded(r)
             /\ Sound(r) /\ Sound(r)'
  <2>1. Sound(r) BY <1>5, RebuildFields DEF IInv, AllSound
  <2>2. r.file \in Files /\ r.unit \in 1 .. Len(Units[r.file]) BY <1>s, <1>5, <2>1, UnitOf, RebuildFields
  <2>3. Unit(r)'.RebuildCounter = Unit(r).RebuildCounter
    BY <2>2 DEF Kept, Unit
  <2>4. Superseded(r)' <=> Superseded(r) BY <2>3 DEF Superseded
  <2>5. Len(Units'[r.file]) = Len(Units[r.file]) BY <2>2 DEF Kept
  <2> QED BY <2>1, <2>3, <2>4, <2>5, <1>4 DEF Sound, Moves
<1>6. ClientShape' BY <1>s DEF ClientShape, Moves
<1>7. AllSound'
  <2> SUFFICES ASSUME NEW r \in Flying, r.kind # "complete" PROVE Sound(r)'
    BY <1>3 DEF AllSound
  <2>1. r \in Rebuilds BY <1>s, FlyingTyped
  <2> QED BY <1>5, <2>1
<1>8. Apart' BY <1>3 DEF IInv, Apart
<1> QED BY <1>2, <1>3, <1>4, <1>5, <1>6, <1>7, <1>8

\* What the invariant says of a worker with a request to rebuild.
LEMMA AtWork ==
  ASSUME IInv, NEW w \in Workers, worker[w].pc \in Reparsing \cup {"cancel", "finish"}
  PROVE  /\ worker[w].r \in Rebuilds /\ worker[w].r \in Flying
         /\ Sound(worker[w].r)
         /\ worker[w].pc \in Reparsing => worker[w].r.kind = "reparse"
         /\ worker[w].pc = "cancel" => worker[w].r.kind = "cancel"
         /\ worker[w].pc \notin {"idle", "exited"}
<1>1. worker[w].pc \notin {"idle", "exited", "complete"} BY DEF Reparsing, Guard
<1>2. /\ worker[w].r \in Rebuilds
      /\ worker[w].pc \in Reparsing => worker[w].r.kind = "reparse"
      /\ worker[w].pc = "cancel" => worker[w].r.kind = "cancel"
  BY <1>1 DEF IInv, WorkerShape, Reparsing, Guard
<1>3. worker[w].r \in Flying BY <1>1 DEF Flying
<1>4. Sound(worker[w].r) BY <1>2, <1>3, RebuildFields DEF IInv, AllSound
<1> QED BY <1>1, <1>2, <1>3, <1>4

\* The state after a worker has gone on with its request r to the place l: it
\* may have entered or left the guard, have fulfilled the future, have reported.
LEMMA MoveStep ==
  ASSUME IInv, NEW w \in Workers, worker[w].pc \in Reparsing \cup {"cancel"},
         NEW r, r = worker[w].r,
         NEW l \in Reparsing \cup {"finish"},
         Moves(w, l), Kept(r),
         ReportedDiagnosticVersions' \in [Files -> Nat],
         \A f \in Files :
           /\ ReportedDiagnosticVersions[f] <= ReportedDiagnosticVersions'[f]
           /\ ReportedDiagnosticVersions'[f] <= Version[f],
         l \in Reparsing => r.kind = "reparse",
         \/ /\ Unit(r)'.InProgress = Unit(r).InProgress
            /\ l \in Guard => worker[w].pc \in Guard
         \/ worker[w].pc \in Guard /\ l \notin Guard /\ ~Unit(r)'.InProgress
         \/ /\ l = "preamble" /\ ~Superseded(r) /\ r.kind = "reparse"
            /\ ~Unit(r).InProgress /\ Unit(r)'.InProgress,
         Unit(r)'.ready /\ ~Changing(r.file) /\ r.unit = OpenedFiles[r.file] =>
           Unit(r)'.ast = Version[r.file],
         l = "leave" => Superseded(r),
         l = "finish" => \/ Superseded(r)
                         \/ /\ r.kind = "reparse"
                            /\ \/ r.version < Version[r.file]
                               \/ r.version <= ReportedDiagnosticVersions'[r.file]
                         \/ r.kind = "cancel" /\ ~Unit(r).InProgress
  PROVE  IInv'
<1>a. /\ r \in Rebuilds /\ r \in Flying /\ Sound(r) /\ worker[w].pc \notin {"idle", "exited"}
      /\ worker[w].pc \in Reparsing => r.kind = "reparse"
  BY AtWork DEF Reparsing, Guard
<1>l. l \notin {"idle", "exited"} BY DEF Reparsing, Guard
<1>s. Shape /\ ClientShape /\ WorkerShape BY DEF IInv
<1>f. /\ r.file \in Files /\ r.unit \in 1 .. Len(Units[r.file])
      /\ Unit(r) \in UnitRecords
  BY <1>a, <1>s, UnitOf, RebuildFields
<1>m. /\ worker' = [v \in Workers |-> worker'[v]]
      /\ worker'[w].pc = l /\ worker'[w].r = r
      /\ \A v \in Workers : v # w => worker'[v] = worker[v]
      /\ Flying' = Flying
      /\ \A f : Changing(f)' <=> Changing(f)
      /\ \A q \in Flying : q \in Rebuilds => (Superseded(q)' <=> Superseded(q))
      /\ ClientShape' /\ AllSound' /\ Apart'
  BY <1>a, <1>l, MoveKeeps
<1>u. UNCHANGED <<Version, HasDraft, OpenedFiles, RequestQueue, client>> BY DEF Moves
<1>1. Shape' BY <1>s, <1>m, <1>u DEF Shape, Kept
<1>2. WorkerShape' BY <1>s, <1>a, <1>m DEF WorkerShape
<1>3. ASSUME NEW v \in Workers, v # w, worker[v].pc \in Guard
      PROVE  Units'[worker'[v].r.file][worker'[v].r.unit].InProgress
  <2>0. PICK q : q = worker[v].r OBVIOUS
  <2>1. worker[v].pc \in Reparsing BY <1>3 DEF Reparsing
  <2>2. q \in Rebuilds /\ Sound(q) BY <2>0, <2>1, AtWork
  <2>3. q.file \in Files /\ q.unit \in 1 .. Len(Units[q.file]) BY <2>2, <1>s, UnitOf, RebuildFields
  <2>4. Units[q.file][q.unit].InProgress BY <1>3, <2>0 DEF IInv, Guarded, Unit
  <2>5. /\ worker[w].pc \in Guard => ~(q.file = r.file /\ q.unit = r.unit)
        /\ q.file = r.file /\ q.unit = r.unit => Unit(r).InProgress
    BY <1>3, <2>0, <2>4 DEF IInv, Guarded, Unit
  <2>6. worker'[v].r = q BY <1>3, <1>m, <2>0
  <2>7. CASE q.file = r.file /\ q.unit = r.unit
    <3>1. Unit(r)'.InProgress = Unit(r).InProgress BY <2>5, <2>7
    <3> QED BY <2>4, <2>6, <2>7, <3>1 DEF Unit
  <2>8. CASE ~(q.file = r.file /\ q.unit = r.unit)
    <3>1. Units'[q.file][q.unit] = Units[q.file][q.unit] BY <2>3, <2>8 DEF Kept
    <3> QED BY <2>4, <2>6, <3>1
  <2> QED BY <2>7, <2>8
<1>g. l \in Guard => (worker[w].pc \in Guard /\ Unit(r).InProgress) \/ ~Unit(r).InProgress
  BY DEF IInv, Guarded
<1>i. l \in Guard => Unit(r)'.InProgress BY <1>g DEF IInv, Guarded
<1>4. Guarded'
  <2>1. ASSUME NEW v \in Workers, v # w, worker'[v].pc \in Guard
        PROVE  /\ worker[v].pc \in Guard /\ worker'[v].r = worker[v].r
               /\ Units'[worker'[v].r.file][worker'[v].r.unit].InProgress
               /\ Units[worker[v].r.file][worker[v].r.unit].InProgress
    <3>1. worker[v].pc \in Guard /\ worker'[v].r = worker[v].r BY <2>1, <1>m
    <3> QED BY <3>1, <2>1, <1>3 DEF IInv, Guarded, Unit
  <2>2. ASSUME NEW v \in Workers, v # w, worker'[v].pc \in Guard, worker'[w].pc \in Guard
        PROVE  ~(worker'[v].r.file = worker'[w].r.file /\ worker'[v].r.unit = worker'[w].r.unit)
    <3>1. CASE worker[w].pc \in Guard
      <4>1. /\ worker[v].pc \in Guard /\ worker'[v].r = worker[v].r
            /\ worker'[w].r = worker[w].r
        BY <2>1, <2>2, <1>m
      <4> QED BY <2>2, <3>1, <4>1 DEF IInv, Guarded
    <3>2. CASE worker[w].pc \notin Guard
      <4>1. ~Units[r.file][r.unit].InProgress BY <3>2, <2>2, <1>g, <1>m DEF Unit
      <4> QED BY <2>1, <2>2, <4>1, <1>m
    <3> QED BY <3>1, <3>2
  <2>3. ASSUME NEW v \in Workers, NEW x \in Workers, worker'[v].pc \in Guard,
               worker'[x].pc \in Guard, worker'[v].r.file = worker'[x].r.file,
               worker'[v].r.unit = worker'[x].r.unit
        PROVE  v = x
    <3>1. CASE v = w \/ x = w BY <3>1, <2>2, <2>3
    <3>2. CASE v # w /\ x # w BY <3>2, <2>1, <2>3 DEF IInv, Guarded
    <3> QED BY <3>1, <3>2
  <2>4. ASSUME NEW v \in Workers, worker'[v].pc \in Guard
        PROVE  Units'[worker'[v].r.file][worker'[v].r.unit].InProgress
    <3>1. CASE v = w BY <3>1, <2>4, <1>i, <1>m DEF Unit
    <3>2. CASE v # w BY <3>2, <2>1, <2>4
    <3> QED BY <3>1, <3>2
  <2> QED BY <2>3, <2>4 DEF Guarded, Unit
<1>5. OpenASTs'
  <2> SUFFICES ASSUME NEW f \in Files, OpenedFiles[f] # 0
               PROVE  /\ OpenedFiles[f] <= Len(Units'[f])
                      /\ Units'[f][OpenedFiles[f]].ready /\ ~Changing(f) =>
                           Units'[f][OpenedFiles[f]].ast = Version[f]
    BY <1>u, <1>m DEF OpenASTs
  <2>1. /\ OpenedFiles[f] <= Len(Units[f]) /\ OpenedFiles[f] \in Nat
        /\ Units[f][OpenedFiles[f]].ready /\ ~Changing(f) =>
             Units[f][OpenedFiles[f]].ast = Version[f]
    BY <1>s DEF IInv, OpenASTs, Shape
  <2>2. Len(Units'[f]) = Len(Units[f]) /\ Len(Units[f]) \in Nat
    BY <1>s DEF Kept, Shape
  <2>3. OpenedFiles[f] \in 1 .. Len(Units[f]) BY <2>1, <2>2
  <2>4. CASE f = r.file /\ OpenedFiles[f] = r.unit
    <3>1. Units'[f][OpenedFiles[f]] = Unit(r)' BY <2>4 DEF Unit
    <3> QED BY <2>1, <2>2, <2>4, <3>1
  <2>5. CASE ~(f = r.file /\ OpenedFiles[f] = r.unit)
    <3>1. Units'[f][OpenedFiles[f]] = Units[f][OpenedFiles[f]] BY <2>3, <2>5 DEF Kept
    <3> QED BY <2>1, <2>2, <3>1
  <2> QED BY <2>4, <2>5
<1>6. NoneFromTheFuture' BY <1>u DEF NoneFromTheFuture
<1>7. Endings'
  <2> SUFFICES ASSUME NEW v \in Workers, NEW q, q = worker'[v].r
               PROVE  /\ worker'[v].pc = "leave" => Superseded(q)'
                      /\ worker'[v].pc = "finish" /\ q.kind = "reparse" =>
                           \/ Superseded(q)' \/ q.version < Version[q.file]
                           \/ q.version <= ReportedDiagnosticVersions'[q.file]
                      /\ worker'[v].pc = "finish" /\ q.kind = "cancel" =>
                           Superseded(q)' \/ ~Unit(q)'.InProgress
    BY <1>u DEF Endings, Superseded, Unit
  <2>1. CASE v = w
    <3>1. q = r /\ worker'[v].pc = l /\ r.kind \in {"reparse", "cancel"}
      BY <2>1, <1>m, <1>a, RebuildFields
    <3>2. Superseded(r)' <=> Superseded(r) BY <1>m, <1>a
    <3>3. l = "finish" /\ r.kind = "cancel" => Superseded(r) \/ ~Unit(r)'.InProgress
      BY DEF Guard
    <3>4. /\ l = "leave" => Superseded(r)
          /\ l = "finish" => \/ Superseded(r)
                             \/ /\ r.kind = "reparse"
                                /\ \/ r.version < Version[r.file]
                                   \/ r.version <= ReportedDiagnosticVersions'[r.file]
                             \/ r.kind = "cancel" /\ ~Unit(r).InProgress
      BY Zenon
    <3> QED BY <3>1, <3>2, <3>3, <3>4
  <2>2. CASE v # w /\ worker[v].pc \in {"leave", "finish"}
    <3>1. worker'[v] = worker[v] /\ q = worker[v].r BY <2>2, <1>m
    <3>2. q \in Rebuilds /\ q \in Flying /\ Sound(q) BY <2>2, <3>1, AtWork DEF Reparsing, Guard
    <3>3. Superseded(q)' <=> Superseded(q) BY <3>2, <1>m
    <3>4. q.file \in Files /\ q.unit \in 1 .. Len(Units[q.file]) BY <3>2, <1>s, UnitOf, RebuildFields
    <3>5. q.kind = "cancel" /\ ~Superseded(q) /\ ~Unit(q).InProgress => ~Unit(q)'.InProgress
      <4>1. CASE q.file = r.file /\ q.unit = r.unit
        <5>1. Unit(q) = Unit(r) /\ Unit(q)' = Unit(r)' BY <4>1 DEF Unit
        <5>2. q.kind = "cancel" /\ r.kind = "reparse" => q.counter # r.counter
          BY <4>1, <3>2, <1>a DEF IInv, Apart
        <5> QED BY <5>1, <5>2 DEF Superseded
      <4>2. CASE ~(q.file = r.file /\ q.unit = r.unit) BY <3>4, <4>2 DEF Unit, Kept
      <4> QED BY <4>1, <4>2
    <3>6. /\ worker[v].pc = "leave" => Superseded(q)
          /\ worker[v].pc = "finish" /\ q.kind = "reparse" =>
               \/ Superseded(q) \/ q.version < Version[q.file]
               \/ q.version <= ReportedDiagnosticVersions[q.file]
          /\ worker[v].pc = "finish" /\ q.kind = "cancel" =>
               Superseded(q) \/ ~Unit(q).InProgress
      BY <3>1 DEF IInv, Endings
    <3>7. q.version \in Nat /\ ReportedDiagnosticVersions[q.file] \in Nat
          /\ ReportedDiagnosticVersions'[q.file] \in Nat
          /\ ReportedDiagnosticVersions[q.file] <= ReportedDiagnosticVersions'[q.file]
      BY <3>2, <3>4, <1>s, RebuildFields DEF Shape
    <3>8. q.version <= ReportedDiagnosticVersions[q.file] =>
            q.version <= ReportedDiagnosticVersions'[q.file]
      BY <3>7
    <3> QED BY <3>1, <3>3, <3>5, <3>6, <3>8
  <2>3. CASE v # w /\ worker[v].pc \notin {"leave", "finish"}
    BY <2>3, <1>m
  <2> QED BY <2>1, <2>2, <2>3
<1>8. Pending'
  <2> SUFFICES ASSUME NEW f \in Files, HasDraft[f], ReportedDiagnosticVersions'[f] # Version[f]
               PROVE  Coming(f)'
    BY <1>u DEF Pending
  <2>0. /\ Version[f] \in Nat /\ ReportedDiagnosticVersions[f] \in Nat
        /\ ReportedDiagnosticVersions'[f] \in Nat
        /\ ReportedDiagnosticVersions[f] <= ReportedDiagnosticVersions'[f]
        /\ ReportedDiagnosticVersions'[f] <= Version[f]
    BY <1>s DEF Shape
  <2>1. Coming(f)
    <3>1. ReportedDiagnosticVersions[f] # Version[f] BY <2>0
    <3> QED BY <3>1 DEF IInv, Pending
  <2>2. ASSUME NEW q \in Flying, OnItsWay(f, q) PROVE OnItsWay(f, q)'
    <3>1. q \in Rebuilds BY <2>2, <1>s, FlyingTyped DEF OnItsWay
    <3> QED BY <2>2, <3>1, <1>m, <1>u DEF OnItsWay
  <2>3. CASE client.pc = "reparse" /\ client.r.file = f BY <2>3, <1>u DEF Coming
  <2>4. CASE client.pc = "enqueue" /\ OnItsWay(f, client.r)
    <3>1. PICK q : q = client.r OBVIOUS
    <3>2. q \in Flying BY <2>4, <3>1 DEF Flying
    <3>3. OnItsWay(f, q)' BY <2>2, <2>4, <3>1, <3>2
    <3>4. client' = client BY <1>u
    <3>5. OnItsWay(f, client.r)' BY <3>1, <3>3, <3>4 DEF OnItsWay, Superseded, Unit
    <3> QED BY <2>4, <3>4, <3>5 DEF Coming
  <2>5. ASSUME NEW k \in 1 .. Len(RequestQueue), OnItsWay(f, RequestQueue[k]) PROVE Coming(f)'
    <3>1. PICK q : q = RequestQueue[k] OBVIOUS
    <3>2. q \in Flying BY <3>1 DEF Flying
    <3>3. OnItsWay(f, q)' BY <2>2, <2>5, <3>1, <3>2
    <3>4. RequestQueue' = RequestQueue BY <1>u
    <3>5. OnItsWay(f, RequestQueue[k])' BY <3>1, <3>3, <3>4 DEF OnItsWay, Superseded, Unit
    <3> QED BY <3>4, <3>5 DEF Coming
  <2>6. ASSUME NEW v \in Workers, worker[v].pc \in Reparsing, OnItsWay(f, worker[v].r)
        PROVE  Coming(f)'
    <3>1. PICK q : q = worker[v].r OBVIOUS
    <3>2. q \in Flying BY <2>6, <3>1, AtWork
    <3>3. OnItsWay(f, q)' BY <2>2, <2>6, <3>1, <3>2
    <3>4. worker'[v].r = q BY <3>1, <1>m
    <3>5. worker'[v].pc \in Reparsing
      <4>1. CASE v = w
        <5>1. /\ ~Superseded(r) /\ r.version = Version[f] /\ r.kind = "reparse"
              /\ r.file = f
          BY <2>6, <4>1 DEF OnItsWay
        <5>2. ~(r.version < Version[f]) /\ ~(r.version <= ReportedDiagnosticVersions'[f])
          BY <5>1, <2>0
        <5>3. l # "finish" BY <5>1, <5>2
        <5> QED BY <5>3, <4>1, <1>m
      <4>2. CASE v # w BY <4>2, <2>6, <1>m
      <4> QED BY <4>1, <4>2
    <3>6. OnItsWay(f, worker[v].r)' BY <3>3, <3>4 DEF OnItsWay, Superseded, Unit
    <3> QED BY <3>5, <3>6 DEF Coming
  <2> QED BY <2>1, <2>3, <2>4, <2>5, <2>6 DEF Coming
<1> QED BY <1>m, <1>1, <1>2, <1>4, <1>5, <1>6, <1>7, <1>8 DEF IInv

-----------------------------------------------------------------------------
(* The steps of a worker. *)

LEMMA CheckVersionStep == ASSUME IInv, NEW w \in Workers, CheckVersion(w) PROVE IInv'
<1>1. PICK r : r = worker[w].r OBVIOUS
<1> DEFINE l == IF Outdated(r) THEN "finish" ELSE "rebuild"
<1>2. worker[w].pc = "reparse" /\ Moves(w, l) /\ UNCHANGED <<Units, ReportedDiagnosticVersions>>
  BY <1>1 DEF CheckVersion, Working, IsAt, Moves, documents, results
<1>3. r \in Rebuilds /\ Sound(r) /\ r.kind = "reparse" BY <1>1, <1>2, AtWork DEF Reparsing
<1>4. Shape BY DEF IInv
<1>5. Kept(r) /\ Unit(r)' = Unit(r) BY <1>2, <1>4, UnchangedKeeps
<1>6. Unit(r).ready /\ ~Changing(r.file) /\ r.unit = OpenedFiles[r.file] =>
        Unit(r).ast = Version[r.file]
  BY <1>3, RebuildFields DEF IInv, OpenASTs, Unit
<1>7. l = "finish" => r.version < Version[r.file]
  BY <1>3, <1>4, RebuildFields DEF Outdated, Sound, Shape
<1>8. l \in {"finish", "rebuild"} OBVIOUS
<1> HIDE DEF l
<1>r. /\ ReportedDiagnosticVersions' \in [Files -> Nat]
      /\ \A f \in Files : /\ ReportedDiagnosticVersions[f] <= ReportedDiagnosticVersions'[f]
                          /\ ReportedDiagnosticVersions'[f] <= Version[f]
  BY <1>2, <1>4 DEF IInv, NoneFromTheFuture, Shape
<1>9. /\ l \in Reparsing \cup {"finish"} /\ l \notin Guard /\ l # "leave"
      /\ worker[w].pc \in Reparsing
  BY <1>2, <1>8 DEF Reparsing, Guard
<1> QED BY <1>1, <1>2, <1>3, <1>5, <1>6, <1>7, <1>9, <1>r, MoveStep

LEMMA PublishPreambleStep == ASSUME IInv, NEW w \in Workers, PublishPreamble(w) PROVE IInv'
<1>1. PICK r : r = worker[w].r OBVIOUS
<1> DEFINE l == IF Superseded(r) THEN "leave" ELSE "build"
<1>2. worker[w].pc = "preamble" /\ Moves(w, l) /\ UNCHANGED <<Units, ReportedDiagnosticVersions>>
  BY <1>1 DEF PublishPreamble, Working, IsAt, Moves, documents, results, GiveUp
<1>3. r \in Rebuilds /\ Sound(r) /\ r.kind = "reparse" BY <1>1, <1>2, AtWork DEF Reparsing, Guard
<1>4. Shape BY DEF IInv
<1>5. Kept(r) /\ Unit(r)' = Unit(r) BY <1>2, <1>4, UnchangedKeeps
<1>6. Unit(r).ready /\ ~Changing(r.file) /\ r.unit = OpenedFiles[r.file] =>
        Unit(r).ast = Version[r.file]
  BY <1>3, RebuildFields DEF IInv, OpenASTs, Unit
<1>7. l = "leave" => Superseded(r) OBVIOUS
<1>8. l \in {"leave", "build"} OBVIOUS
<1> HIDE DEF l
<1>r. /\ ReportedDiagnosticVersions' \in [Files -> Nat]
      /\ \A f \in Files : /\ ReportedDiagnosticVersions[f] <= ReportedDiagnosticVersions'[f]
                          /\ ReportedDiagnosticVersions'[f] <= Version[f]
  BY <1>2, <1>4 DEF IInv, NoneFromTheFuture, Shape
<1>9. /\ l \in Reparsing \cup {"finish"} /\ l # "finish"
      /\ worker[w].pc \in Reparsing /\ worker[w].pc \in Guard
  BY <1>2, <1>8 DEF Reparsing, Guard
<1> QED BY <1>1, <1>2, <1>3, <1>5, <1>6, <1>7, <1>9, <1>r, MoveStep

LEMMA BuildASTStep == ASSUME IInv, NEW w \in Workers, BuildAST(w) PROVE IInv'
<1>1. PICK r : r = worker[w].r OBVIOUS
<1> DEFINE l == "publish"
<1>2. worker[w].pc = "build" /\ Moves(w, l) /\ UNCHANGED <<Units, ReportedDiagnosticVersions>>
  BY <1>1 DEF BuildAST, Working, IsAt, Moves, documents
<1>3. r \in Rebuilds /\ Sound(r) /\ r.kind = "reparse" BY <1>1, <1>2, AtWork DEF Reparsing, Guard
<1>4. Shape BY DEF IInv
<1>5. Kept(r) /\ Unit(r)' = Unit(r) BY <1>2, <1>4, UnchangedKeeps
<1>6. Unit(r).ready /\ ~Changing(r.file) /\ r.unit = OpenedFiles[r.file] =>
        Unit(r).ast = Version[r.file]
  BY <1>3, RebuildFields DEF IInv, OpenASTs, Unit
<1>r. /\ ReportedDiagnosticVersions' \in [Files -> Nat]
      /\ \A f \in Files : /\ ReportedDiagnosticVersions[f] <= ReportedDiagnosticVersions'[f]
                          /\ ReportedDiagnosticVersions'[f] <= Version[f]
  BY <1>2, <1>4 DEF IInv, NoneFromTheFuture, Shape
<1>9. /\ l \in Reparsing \cup {"finish"} /\ l # "finish" /\ l # "leave"
      /\ worker[w].pc \in Reparsing /\ worker[w].pc \in Guard
  BY <1>2 DEF Reparsing, Guard
<1> HIDE DEF l
<1> QED BY <1>1, <1>2, <1>3, <1>5, <1>6, <1>9, <1>r, MoveStep

\* The future gets the AST of the newest text, or the unit has a newer request.
LEMMA PublishASTStep == ASSUME IInv, NEW w \in Workers, PublishAST(w) PROVE IInv'
<1>1. PICK r : r = worker[w].r OBVIOUS
<1> DEFINE l == "leavewithdiags"
           u == Fulfilled(r, r.version)
<1>2. /\ worker[w].pc = "publish" /\ Moves(w, l) /\ SetUnit(r, u)
      /\ UNCHANGED ReportedDiagnosticVersions
  BY <1>1 DEF PublishAST, Working, IsAt, Moves, documents, results
<1>3. r \in Rebuilds /\ Sound(r) /\ r.kind = "reparse" BY <1>1, <1>2, AtWork DEF Reparsing, Guard
<1>4. Shape BY DEF IInv
<1>5. /\ u \in UnitRecords /\ u.RebuildCounter = Unit(r).RebuildCounter
      /\ u.InProgress = Unit(r).InProgress
      /\ ~Superseded(r) => u.ast = r.version
      /\ Superseded(r) => u = Unit(r)
  <2>1. Unit(r) \in UnitRecords BY <1>3, <1>4, UnitOf
  <2>2. r.version \in Nat BY <1>3, RebuildFields
  <2> QED BY <2>1, <2>2 DEF Fulfilled, UnitRecords
<1> HIDE DEF u
<1>6. Kept(r) /\ Unit(r)' = u BY <1>2, <1>3, <1>4, <1>5, SetUnitKeeps
<1>7. u.ready /\ ~Changing(r.file) /\ r.unit = OpenedFiles[r.file] => u.ast = Version[r.file]
  <2>1. CASE Superseded(r) BY <2>1, <1>3, <1>5, RebuildFields DEF IInv, OpenASTs, Unit
  <2>2. CASE ~Superseded(r) BY <2>2, <1>3, <1>5 DEF Sound
  <2> QED BY <2>1, <2>2
<1>r. /\ ReportedDiagnosticVersions' \in [Files -> Nat]
      /\ \A f \in Files : /\ ReportedDiagnosticVersions[f] <= ReportedDiagnosticVersions'[f]
                          /\ ReportedDiagnosticVersions'[f] <= Version[f]
  BY <1>2, <1>4 DEF IInv, NoneFromTheFuture, Shape
<1>9. /\ l \in Reparsing \cup {"finish"} /\ l # "finish" /\ l # "leave"
      /\ worker[w].pc \in Reparsing /\ worker[w].pc \in Guard
  BY <1>2 DEF Reparsing, Guard
<1> HIDE DEF l
<1> QED BY <1>1, <1>2, <1>3, <1>5, <1>6, <1>7, <1>9, <1>r, MoveStep

LEMMA LeaveGuardStep == ASSUME IInv, NEW w \in Workers, LeaveGuard(w) PROVE IInv'
<1>1. PICK r : r = worker[w].r OBVIOUS
<1> DEFINE l == IF worker[w].pc = "leave" THEN "finish" ELSE "diags"
           u == [Unit(r) EXCEPT !.InProgress = FALSE]
<1>2. /\ worker[w].pc \in {"leave", "leavewithdiags"} /\ Moves(w, l) /\ SetUnit(r, u)
      /\ UNCHANGED ReportedDiagnosticVersions
  BY <1>1 DEF LeaveGuard, Working, IsAt, Moves, documents, results
<1>3. r \in Rebuilds /\ Sound(r) /\ r.kind = "reparse" BY <1>1, <1>2, AtWork DEF Reparsing, Guard
<1>4. Shape BY DEF IInv
<1>5. /\ u \in UnitRecords /\ u.RebuildCounter = Unit(r).RebuildCounter /\ ~u.InProgress
      /\ u.ready = Unit(r).ready /\ u.ast = Unit(r).ast
  <2>1. Unit(r) \in UnitRecords BY <1>3, <1>4, UnitOf
  <2> QED BY <2>1 DEF UnitRecords
<1> HIDE DEF u
<1>6. Kept(r) /\ Unit(r)' = u BY <1>2, <1>3, <1>4, <1>5, SetUnitKeeps
<1>7. u.ready /\ ~Changing(r.file) /\ r.unit = OpenedFiles[r.file] => u.ast = Version[r.file]
  BY <1>3, <1>5, RebuildFields DEF IInv, OpenASTs, Unit
<1>8. l = "finish" => Superseded(r) BY <1>1 DEF IInv, Endings
<1>r. /\ ReportedDiagnosticVersions' \in [Files -> Nat]
      /\ \A f \in Files : /\ ReportedDiagnosticVersions[f] <= ReportedDiagnosticVersions'[f]
                          /\ ReportedDiagnosticVersions'[f] <= Version[f]
  BY <1>2, <1>4 DEF IInv, NoneFromTheFuture, Shape
<1>9. /\ l \in Reparsing \cup {"finish"} /\ l # "leave" /\ l \notin Guard
      /\ worker[w].pc \in Reparsing /\ worker[w].pc \in Guard
  BY <1>2 DEF Reparsing, Guard
<1> HIDE DEF l
<1> QED BY <1>1, <1>2, <1>3, <1>5, <1>6, <1>7, <1>8, <1>9, <1>r, MoveStep

\* The future of a closed file, or of a unit with a newer request.
LEMMA CancelReparsesStep == ASSUME IInv, NEW w \in Workers, CancelReparses(w) PROVE IInv'
<1>1. PICK r : r = worker[w].r OBVIOUS
<1> DEFINE l == "finish"
           u == Fulfilled(r, 0)
<1>2. /\ worker[w].pc = "cancel" /\ Moves(w, l) /\ SetUnit(r, u) /\ MayGoOn(r)
      /\ UNCHANGED ReportedDiagnosticVersions
  BY <1>1 DEF CancelReparses, Working, IsAt, Moves, documents, results
<1>3. r \in Rebuilds /\ Sound(r) /\ r.kind = "cancel" BY <1>1, <1>2, AtWork DEF Reparsing, Guard
<1>4. Shape BY DEF IInv
<1>5. /\ u \in UnitRecords /\ u.RebuildCounter = Unit(r).RebuildCounter
      /\ u.InProgress = Unit(r).InProgress
  <2>1. Unit(r) \in UnitRecords BY <1>3, <1>4, UnitOf
  <2> QED BY <2>1 DEF Fulfilled, UnitRecords
<1> HIDE DEF u
<1>6. Kept(r) /\ Unit(r)' = u BY <1>2, <1>3, <1>4, <1>5, SetUnitKeeps
<1>7. r.unit # OpenedFiles[r.file] BY <1>3 DEF Sound
<1>8. Superseded(r) \/ ~Unit(r).InProgress BY <1>2 DEF MayGoOn
<1>r. /\ ReportedDiagnosticVersions' \in [Files -> Nat]
      /\ \A f \in Files : /\ ReportedDiagnosticVersions[f] <= ReportedDiagnosticVersions'[f]
                          /\ ReportedDiagnosticVersions'[f] <= Version[f]
  BY <1>2, <1>4 DEF IInv, NoneFromTheFuture, Shape
<1>9. /\ l \in Reparsing \cup {"finish"} /\ l \notin Reparsing /\ l # "leave" /\ l \notin Guard
      /\ worker[w].pc \in Reparsing \cup {"cancel"}
  BY <1>2 DEF Reparsing, Guard
<1> HIDE DEF l
<1> QED BY <1>1, <1>2, <1>3, <1>5, <1>6, <1>7, <1>8, <1>9, <1>r, MoveStep

\* A worker enters the guard of a unit that no other holds, or finds its request
\* superseded.
LEMMA EnterGuardStep == ASSUME IInv, NEW w \in Workers, EnterGuard(w) PROVE IInv'
<1>1. PICK r : r = worker[w].r OBVIOUS
<1>2. /\ worker[w].pc = "rebuild" /\ MayGoOn(r) /\ UNCHANGED ReportedDiagnosticVersions
      /\ \/ Superseded(r) /\ Moves(w, "finish") /\ UNCHANGED Units
         \/ ~Superseded(r) /\ Moves(w, "preamble")
            /\ SetUnit(r, [Unit(r) EXCEPT !.InProgress = TRUE])
  BY <1>1 DEF EnterGuard, Working, IsAt, Moves, documents, results
<1>3. /\ r \in Rebuilds /\ Sound(r) /\ r.kind = "reparse" /\ worker[w].pc \in Reparsing
      /\ worker[w].pc \notin Guard
  BY <1>1, <1>2, AtWork DEF Reparsing, Guard
<1>4. Shape BY DEF IInv
<1>6. Unit(r).ready /\ ~Changing(r.file) /\ r.unit = OpenedFiles[r.file] =>
        Unit(r).ast = Version[r.file]
  BY <1>3, RebuildFields DEF IInv, OpenASTs, Unit
<1>r. /\ ReportedDiagnosticVersions' \in [Files -> Nat]
      /\ \A f \in Files : /\ ReportedDiagnosticVersions[f] <= ReportedDiagnosticVersions'[f]
                          /\ ReportedDiagnosticVersions'[f] <= Version[f]
  BY <1>2, <1>4 DEF IInv, NoneFromTheFuture, Shape
<1>a. CASE Superseded(r) /\ Moves(w, "finish") /\ UNCHANGED Units
  <2> DEFINE l == "finish"
  <2>1. Kept(r) /\ Unit(r)' = Unit(r) BY <1>a, <1>4, UnchangedKeeps
  <2>2. l \in Reparsing \cup {"finish"} /\ l \notin Reparsing /\ l \notin Guard /\ l # "leave"
        /\ Moves(w, l)
    BY <1>a DEF Reparsing, Guard
  <2> HIDE DEF l
  <2> QED BY <1>a, <1>1, <1>3, <1>6, <1>r, <2>1, <2>2, MoveStep
<1>b. CASE ~Superseded(r) /\ Moves(w, "preamble")
           /\ SetUnit(r, [Unit(r) EXCEPT !.InProgress = TRUE])
  <2> DEFINE l == "preamble"
             u == [Unit(r) EXCEPT !.InProgress = TRUE]
  <2>1. /\ u \in UnitRecords /\ u.RebuildCounter = Unit(r).RebuildCounter /\ u.InProgress
        /\ u.ready = Unit(r).ready /\ u.ast = Unit(r).ast /\ ~Unit(r).InProgress
    <3>1. Unit(r) \in UnitRecords BY <1>3, <1>4, UnitOf
    <3> QED BY <3>1, <1>2, <1>b DEF UnitRecords, MayGoOn
  <2>2. l \in Reparsing \cup {"finish"} /\ l # "finish" /\ l # "leave" /\ Moves(w, l)
        /\ l = "preamble" /\ SetUnit(r, u)
    BY <1>b DEF Reparsing, Guard
  <2> HIDE DEF l, u
  <2>3. Kept(r) /\ Unit(r)' = u BY <1>3, <1>4, <2>1, <2>2, SetUnitKeeps
  <2> QED BY <1>b, <1>1, <1>3, <1>6, <1>r, <2>1, <2>2, <2>3, MoveStep
<1> QED BY <1>2, <1>a, <1>b

\* The version reported never falls.
LEMMA PublishDiagsStep == ASSUME IInv, NEW w \in Workers, PublishDiags(w) PROVE IInv'
<1>1. PICK r : r = worker[w].r OBVIOUS
<1> DEFINE l == "finish"
<1>2. /\ worker[w].pc = "diags" /\ Moves(w, l) /\ UNCHANGED Units
      /\ ReportedDiagnosticVersions' =
           IF MayReport(r) THEN [ReportedDiagnosticVersions EXCEPT ![r.file] = r.version]
           ELSE ReportedDiagnosticVersions
  BY <1>1 DEF PublishDiags, Working, IsAt, Moves, documents
<1>3. r \in Rebuilds /\ Sound(r) /\ r.kind = "reparse" BY <1>1, <1>2, AtWork DEF Reparsing, Guard
<1>4. Shape BY DEF IInv
<1>5. Kept(r) /\ Unit(r)' = Unit(r) BY <1>2, <1>4, UnchangedKeeps
<1>6. Unit(r).ready /\ ~Changing(r.file) /\ r.unit = OpenedFiles[r.file] =>
        Unit(r).ast = Version[r.file]
  BY <1>3, RebuildFields DEF IInv, OpenASTs, Unit
<1>f. /\ r.file \in Files /\ r.version \in Nat /\ r.version <= Version[r.file]
  BY <1>3, RebuildFields DEF Sound
<1>r. /\ ReportedDiagnosticVersions' \in [Files -> Nat]
      /\ \A f \in Files : /\ ReportedDiagnosticVersions[f] <= ReportedDiagnosticVersions'[f]
                          /\ ReportedDiagnosticVersions'[f] <= Version[f]
      /\ r.version <= ReportedDiagnosticVersions'[r.file]
  BY <1>2, <1>4, <1>f DEF IInv, NoneFromTheFuture, Shape, MayReport
<1>9. /\ l \in Reparsing \cup {"finish"} /\ l \notin Reparsing /\ l # "leave" /\ l \notin Guard
      /\ worker[w].pc \in Reparsing
  BY <1>2 DEF Reparsing, Guard
<1> HIDE DEF l
<1> QED BY <1>1, <1>2, <1>3, <1>5, <1>6, <1>9, <1>r, MoveStep

-----------------------------------------------------------------------------
(* Steps that begin or end a request of a worker, and steps of the client. *)

\* What holds of the workers when the client, or another worker, has moved on.
LEMMA OthersKeep ==
  ASSUME IInv,
         \A f \in Files :
           /\ Version[f] <= Version'[f] /\ Version'[f] \in Nat
           /\ Len(Units[f]) <= Len(Units'[f])
           /\ \A i \in 1 .. Len(Units[f]) :
                /\ Units[f][i].RebuildCounter <= Units'[f][i].RebuildCounter
                /\ Units'[f][i].RebuildCounter \in Nat
                /\ Units'[f][i].InProgress = Units[f][i].InProgress,
         UNCHANGED ReportedDiagnosticVersions
  PROVE  /\ NoneFromTheFuture'
         /\ \A q \in Flying : q \in Rebuilds =>
              /\ Superseded(q) => Superseded(q)'
              /\ q.counter <= Unit(q)'.RebuildCounter /\ q.version <= Version'[q.file]
              /\ q.unit \in 1 .. Len(Units'[q.file])
         /\ UNCHANGED worker => WorkerShape' /\ Guarded' /\ Endings'
<1>s. Shape /\ ClientShape /\ WorkerShape BY DEF IInv
<1>1. NoneFromTheFuture'
  <2> SUFFICES ASSUME NEW f \in Files PROVE ReportedDiagnosticVersions[f] <= Version'[f]
    BY DEF NoneFromTheFuture
  <2>1. /\ ReportedDiagnosticVersions[f] \in Nat /\ Version[f] \in Nat /\ Version'[f] \in Nat
        /\ ReportedDiagnosticVersions[f] <= Version[f] /\ Version[f] <= Version'[f]
    BY <1>s DEF Shape, IInv, NoneFromTheFuture
  <2> QED BY <2>1
<1>2. ASSUME NEW q \in Flying, q \in Rebuilds
      PROVE  /\ q.file \in Files /\ q.unit \in 1 .. Len(Units[q.file])
             /\ Superseded(q) => Superseded(q)'
             /\ q.counter <= Unit(q)'.RebuildCounter /\ q.version <= Version'[q.file]
             /\ q.unit \in 1 .. Len(Units'[q.file])
             /\ Unit(q)'.InProgress = Unit(q).InProgress
  <2>1. Sound(q) BY <1>2, RebuildFields DEF IInv, AllSound
  <2>2. /\ q.file \in Files /\ q.unit \in 1 .. Len(Units[q.file])
        /\ Unit(q) \in UnitRecords /\ q.counter \in Nat /\ q.version \in Nat
    BY <1>s, <1>2, <2>1, UnitOf, RebuildFields
  <2>3. /\ Unit(q).RebuildCounter <= Unit(q)'.RebuildCounter
        /\ Unit(q)'.RebuildCounter \in Nat /\ Unit(q).RebuildCounter \in Nat
        /\ Unit(q)'.InProgress = Unit(q).InProgress
    BY <2>2, UnitFields DEF Unit
  <2>4. q.counter <= Unit(q).RebuildCounter /\ q.version <= Version[q.file]
    BY <2>1 DEF Sound
  <2>5. q.counter <= Unit(q)'.RebuildCounter BY <2>2, <2>3, <2>4
  <2>6. Superseded(q) => Superseded(q)'
    BY <2>2, <2>3, <2>4 DEF Superseded
  <2>7. q.version <= Version'[q.file] /\ Version[q.file] \in Nat
    <3>1. Version[q.file] \in Nat /\ Version'[q.file] \in Nat /\ Version[q.file] <= Version'[q.file]
      BY <1>s, <2>2 DEF Shape
    <3> QED BY <2>2, <2>4, <3>1
  <2>8. q.unit \in 1 .. Len(Units'[q.file])
    <3>1. Len(Units[q.file]) <= Len(Units'[q.file]) BY <2>2
    <3>2. Len(Units[q.file]) \in Nat BY <1>s, <2>2 DEF Shape
    <3> QED BY <2>2, <3>1, <3>2
  <2> QED BY <2>2, <2>3, <2>5, <2>6, <2>7, <2>8
<1>3. ASSUME UNCHANGED worker PROVE WorkerShape' /\ Guarded' /\ Endings'
  <2>1. WorkerShape' BY <1>s, <1>3 DEF WorkerShape
  <2>2. ASSUME NEW w \in Workers, worker[w].pc \in Reparsing \cup {"cancel", "finish"}, NEW q, q = worker[w].r
        PROVE  /\ Superseded(q) => Superseded(q)'
               /\ Unit(q)'.InProgress = Unit(q).InProgress
               /\ q.version < Version[q.file] => q.version < Version'[q.file]
    <3>1. q \in Flying /\ q \in Rebuilds BY <2>2, AtWork
    <3>2. q.file \in Files /\ q.version \in Nat BY <3>1, RebuildFields
    <3>3. Version[q.file] \in Nat /\ Version'[q.file] \in Nat /\ Version[q.file] <= Version'[q.file]
      BY <1>s, <3>2 DEF Shape
    <3> QED BY <1>2, <3>1, <3>2, <3>3
  <2>3. Guarded'
    <3> SUFFICES ASSUME NEW w \in Workers, worker[w].pc \in Guard,
                        NEW q, q = worker[w].r
                 PROVE  Unit(q)'.InProgress
      BY <1>3 DEF IInv, Guarded, Unit
    <3>1. worker[w].pc \in Reparsing BY DEF Reparsing
    <3>2. Unit(q).InProgress BY DEF IInv, Guarded
    <3> QED BY <2>2, <3>1, <3>2
  <2>4. Endings'
    <3> SUFFICES ASSUME NEW w \in Workers, NEW q, q = worker[w].r
                 PROVE  /\ worker[w].pc = "leave" => Superseded(q)'
                        /\ worker[w].pc = "finish" /\ q.kind = "reparse" =>
                             \/ Superseded(q)' \/ q.version < Version'[q.file]
                             \/ q.version <= ReportedDiagnosticVersions[q.file]
                        /\ worker[w].pc = "finish" /\ q.kind = "cancel" =>
                             Superseded(q)' \/ ~Unit(q)'.InProgress
      BY <1>3 DEF Endings, Superseded, Unit
    <3>1. CASE worker[w].pc \in {"leave", "finish"}
      <4>1. worker[w].pc \in Reparsing \cup {"cancel", "finish"} BY <3>1 DEF Reparsing, Guard
      <4>2. /\ Superseded(q) => Superseded(q)'
            /\ Unit(q)'.InProgress = Unit(q).InProgress
            /\ q.version < Version[q.file] => q.version < Version'[q.file]
        BY <2>2, <4>1
      <4>3. /\ worker[w].pc = "leave" => Superseded(q)
            /\ worker[w].pc = "finish" /\ q.kind = "reparse" =>
                 \/ Superseded(q) \/ q.version < Version[q.file]
                 \/ q.version <= ReportedDiagnosticVersions[q.file]
            /\ worker[w].pc = "finish" /\ q.kind = "cancel" =>
                 Superseded(q) \/ ~Unit(q).InProgress
        BY DEF IInv, Endings
      <4> QED BY <4>2, <4>3
    <3>2. CASE worker[w].pc \notin {"leave", "finish"} BY <3>2
    <3> QED BY <3>1, <3>2
  <2> QED BY <2>1, <2>3, <2>4
<1> QED BY <1>1, <1>2, <1>3

\* A request on its way stays there, while its holder keeps it.
LEMMA ComingKeeps ==
  ASSUME IInv, NEW f \in Files, Coming(f), Version'[f] = Version[f],
         \A w \in Workers : worker[w].pc \in Reparsing => worker'[w] = worker[w],
         RequestQueue' = RequestQueue,
         \/ client.pc = "reparse" /\ client.r.file = f
         \/ client.pc = "enqueue" /\ OnItsWay(f, client.r)
         => client' = client,
         \A q \in Flying : q \in Rebuilds /\ q.file = f /\ ~Superseded(q) => ~Superseded(q)'
  PROVE  Coming(f)'
<1>s. Shape /\ ClientShape /\ WorkerShape BY DEF IInv
<1>1. ASSUME NEW q \in Flying, OnItsWay(f, q) PROVE OnItsWay(f, q)'
  <2>1. q \in Rebuilds BY <1>1, <1>s, FlyingTyped DEF OnItsWay
  <2> QED BY <1>1, <2>1 DEF OnItsWay
<1>2. CASE client.pc = "reparse" /\ client.r.file = f BY <1>2 DEF Coming
<1>3. CASE client.pc = "enqueue" /\ OnItsWay(f, client.r)
  <2>1. PICK q : q = client.r OBVIOUS
  <2>2. q \in Flying BY <1>3, <2>1 DEF Flying
  <2>3. OnItsWay(f, q)' BY <1>1, <1>3, <2>1, <2>2
  <2>4. client' = client BY <1>3
  <2>5. OnItsWay(f, client.r)' BY <2>1, <2>3, <2>4 DEF OnItsWay, Superseded, Unit
  <2> QED BY <1>3, <2>4, <2>5 DEF Coming
<1>4. ASSUME NEW k \in 1 .. Len(RequestQueue), OnItsWay(f, RequestQueue[k]) PROVE Coming(f)'
  <2>1. PICK q : q = RequestQueue[k] OBVIOUS
  <2>2. q \in Flying BY <2>1 DEF Flying
  <2>3. OnItsWay(f, q)' BY <1>1, <1>4, <2>1, <2>2
  <2>5. OnItsWay(f, RequestQueue[k])' BY <2>1, <2>3 DEF OnItsWay, Superseded, Unit
  <2> QED BY <2>5 DEF Coming
<1>5. ASSUME NEW v \in Workers, worker[v].pc \in Reparsing, OnItsWay(f, worker[v].r)
      PROVE  Coming(f)'
  <2>1. PICK q : q = worker[v].r OBVIOUS
  <2>2. q \in Flying BY <1>5, <2>1, AtWork
  <2>3. OnItsWay(f, q)' BY <1>1, <1>5, <2>1, <2>2
  <2>4. worker'[v] = worker[v] BY <1>5
  <2>5. OnItsWay(f, worker[v].r)' BY <2>1, <2>3, <2>4 DEF OnItsWay, Superseded, Unit
  <2> QED BY <1>5, <2>4, <2>5 DEF Coming
<1> QED BY <1>2, <1>3, <1>4, <1>5 DEF Coming

\* A call, or the end of one, that tells the units nothing.
LEMMA CallStep ==
  ASSUME IInv, client.pc \notin {"reparse", "cancel", "enqueue"},
         UNCHANGED <<OpenedFiles, Units, RequestQueue, worker, ReportedDiagnosticVersions>>,
         Version' \in [Files -> Nat], HasDraft' \in [Files -> BOOLEAN],
         ClientShape', client'.pc = "enqueue" => client'.r \in Completions,
         \A f \in Files :
           /\ Version[f] <= Version'[f]
           /\ Version'[f] = Version[f] \/ Changing(f)'
           /\ HasDraft'[f] => \/ HasDraft[f] /\ Version'[f] = Version[f]
                              \/ client'.pc = "reparse" /\ client'.r.file = f
  PROVE  IInv'
<1>s. Shape /\ ClientShape /\ WorkerShape BY DEF IInv
<1>1. Shape' BY <1>s DEF Shape
<1>u. \A f \in Files : Units[f] \in Seq(UnitRecords) BY <1>s DEF Shape
<1>2. \A f \in Files :
           /\ Version[f] <= Version'[f] /\ Version'[f] \in Nat
           /\ Len(Units[f]) <= Len(Units'[f])
           /\ \A i \in 1 .. Len(Units[f]) :
                /\ Units[f][i].RebuildCounter <= Units'[f][i].RebuildCounter
                /\ Units'[f][i].RebuildCounter \in Nat
                /\ Units'[f][i].InProgress = Units[f][i].InProgress
  <2> SUFFICES ASSUME NEW f \in Files
      PROVE  /\ Version'[f] \in Nat
             /\ Len(Units[f]) <= Len(Units[f])
             /\ \A i \in 1 .. Len(Units[f]) :
                  /\ Units[f][i].RebuildCounter <= Units[f][i].RebuildCounter
                  /\ Units[f][i].RebuildCounter \in Nat
    OBVIOUS
  <2>1. Len(Units[f]) \in Nat /\ \A i \in 1 .. Len(Units[f]) : Units[f][i] \in UnitRecords
    BY <1>u
  <2>2. \A i \in 1 .. Len(Units[f]) : Units[f][i].RebuildCounter \in Nat
    BY <2>1, UnitFields
  <2> QED BY <2>1, <2>2
<1>3. /\ NoneFromTheFuture' /\ WorkerShape' /\ Guarded' /\ Endings'
      /\ \A q \in Flying : q \in Rebuilds => q.version <= Version'[q.file]
  BY <1>2, OthersKeep
<1>4. \A q \in Flying' : q \in Flying \/ q \in Completions BY DEF Flying
<1>5. Apart'
  BY <1>4, CompletionFields DEF IInv, Apart
<1>6. \A f : ~Changing(f) BY DEF Changing
<1>7. AllSound'
  <2> SUFFICES ASSUME NEW q \in Flying', q.kind # "complete" PROVE Sound(q)'
    BY DEF AllSound
  <2>1. q \in Flying BY <1>4, CompletionFields
  <2>2. q \in Rebuilds BY <2>1, <1>s, FlyingTyped
  <2>3. Sound(q) BY <2>1 DEF IInv, AllSound
  <2>4. q.file \in Files BY <2>2, RebuildFields
  <2>5. q.version <= Version'[q.file] BY <1>3, <2>1, <2>2
  <2>6. Unit(q)' = Unit(q) BY DEF Unit
  <2>7. Superseded(q)' <=> Superseded(q) BY <2>6 DEF Superseded
  <2> QED BY <1>6, <2>3, <2>4, <2>5, <2>6, <2>7 DEF Sound
<1>8. OpenASTs'
  <2> SUFFICES ASSUME NEW f \in Files, OpenedFiles[f] # 0
               PROVE  /\ OpenedFiles[f] <= Len(Units[f])
                      /\ Units[f][OpenedFiles[f]].ready /\ ~Changing(f)' =>
                           Units[f][OpenedFiles[f]].ast = Version'[f]
    BY DEF OpenASTs
  <2>1. ~Changing(f)' => Version'[f] = Version[f] OBVIOUS
  <2> QED BY <1>6, <2>1 DEF IInv, OpenASTs
<1>9. Pending'
  <2> SUFFICES ASSUME NEW f \in Files, HasDraft'[f]
               PROVE  ReportedDiagnosticVersions[f] = Version'[f] \/ Coming(f)'
    BY DEF Pending
  <2>1. CASE client'.pc = "reparse" /\ client'.r.file = f BY <2>1 DEF Coming
  <2>2. CASE HasDraft[f] /\ Version'[f] = Version[f]
    <3>1. CASE ReportedDiagnosticVersions[f] = Version[f] BY <2>2, <3>1
    <3>2. CASE Coming(f)
      <4>1. \A q : Superseded(q)' <=> Superseded(q) BY DEF Superseded, Unit
      <4> QED BY <2>2, <3>2, <4>1, ComingKeeps
    <3> QED BY <2>2, <3>1, <3>2 DEF IInv, Pending
  <2> QED BY <2>1, <2>2
<1> QED BY <1>1, <1>3, <1>5, <1>7, <1>8, <1>9 DEF IInv

LEMMA ClientCallStep == ASSUME IInv, ClientCall PROVE IInv'
<1>s. Shape /\ ClientShape BY DEF IInv
<1>n. \A f \in Files : Version[f] \in Nat BY <1>s DEF Shape
<1>1. ASSUME NEW f \in Files, addDocument(f) PROVE IInv'
  <2>1. /\ client.pc = "idle" /\ Version' = [Version EXCEPT ![f] = @ + 1]
        /\ HasDraft' = [HasDraft EXCEPT ![f] = TRUE]
        /\ client'.pc = "reparse" /\ client'.r.file = f /\ client'.r.version = Version[f] + 1
        /\ UNCHANGED <<OpenedFiles, Units, RequestQueue, worker, ReportedDiagnosticVersions>>
    BY <1>1 DEF addDocument, Call, IsAt, updateDraft, At, results
  <2>2. ClientShape' BY <1>s, <2>1 DEF Shape, ClientShape
  <2>3. \A g \in Files : /\ Version[g] <= Version'[g]
                         /\ Version'[g] = Version[g] \/ g = f
                         /\ g # f => HasDraft'[g] = HasDraft[g]
    <3> SUFFICES ASSUME NEW g \in Files
                 PROVE  /\ Version[g] <= Version'[g]
                        /\ Version'[g] = Version[g] \/ g = f
                        /\ g # f => HasDraft'[g] = HasDraft[g]
      OBVIOUS
    <3>1. Version[g] \in Nat /\ Version'[g] = IF g = f THEN Version[f] + 1 ELSE Version[g]
      BY <1>s, <1>n, <2>1 DEF Shape
    <3>2. HasDraft'[g] = IF g = f THEN TRUE ELSE HasDraft[g] BY <1>s, <2>1 DEF Shape
    <3>3. CASE g = f
      <4>1. Version[f] \in Nat /\ Version'[f] = Version[f] + 1 BY <3>1, <3>3
      <4>2. Version[f] <= Version'[f] BY <4>1
      <4> QED BY <3>3, <4>2
    <3>4. CASE g # f BY <3>1, <3>2, <3>4
    <3> QED BY <3>3, <3>4
  <2>4. Version' \in [Files -> Nat] /\ HasDraft' \in [Files -> BOOLEAN]
    BY <1>s, <1>n, <2>1 DEF Shape
  <2>5. Changing(f)' BY <2>1 DEF Changing
  <2> QED BY <2>1, <2>2, <2>3, <2>4, <2>5, CallStep
<1>2. ASSUME NEW f \in Files, forceReparse(f) PROVE IInv'
  <2>1. /\ client.pc = "idle" /\ Version' = Version /\ HasDraft' = HasDraft
        /\ client'.pc = "reparse" /\ client'.r.file = f /\ client'.r.version = Version[f]
        /\ UNCHANGED <<OpenedFiles, Units, RequestQueue, worker, ReportedDiagnosticVersions>>
    BY <1>2 DEF forceReparse, Call, IsAt, At, results, documents
  <2>2. ClientShape' BY <1>s, <2>1 DEF Shape, ClientShape
  <2> QED BY <1>s, <1>n, <2>1, <2>2, CallStep DEF Shape
<1>3. ASSUME NEW f \in Files, removeDocument(f) PROVE IInv'
  <2>1. /\ client.pc = "idle" /\ Version' = [Version EXCEPT ![f] = @ + 1]
        /\ HasDraft' = [HasDraft EXCEPT ![f] = FALSE]
        /\ client'.pc = "cancel" /\ client'.r.file = f /\ client'.r.version = Version[f] + 1
        /\ UNCHANGED <<OpenedFiles, Units, RequestQueue, worker, ReportedDiagnosticVersions>>
    BY <1>3 DEF removeDocument, Call, IsAt, removeDraft, At, results
  <2>2. ClientShape' BY <1>s, <2>1 DEF Shape, ClientShape
  <2>3. \A g \in Files : /\ Version[g] <= Version'[g]
                         /\ Version'[g] = Version[g] \/ g = f
                         /\ HasDraft'[g] => g # f /\ HasDraft[g] /\ Version'[g] = Version[g]
    BY <1>s, <1>n, <2>1 DEF Shape
  <2>4. Version' \in [Files -> Nat] /\ HasDraft' \in [Files -> BOOLEAN]
    BY <1>s, <1>n, <2>1 DEF Shape
  <2>5. Changing(f)' BY <2>1 DEF Changing
  <2> QED BY <2>1, <2>2, <2>3, <2>4, <2>5, CallStep
<1>4. ASSUME NEW f \in Files, codeComplete(f) PROVE IInv'
  <2>1. /\ client.pc = "idle" /\ Version' = Version /\ HasDraft' = HasDraft
        /\ client'.pc = "enqueue" /\ client'.r = [file |-> f, kind |-> "complete"]
        /\ UNCHANGED <<OpenedFiles, Units, RequestQueue, worker, ReportedDiagnosticVersions>>
    BY <1>4 DEF codeComplete, Call, IsAt, At, results, documents
  <2>2. client'.r \in Completions BY <2>1 DEF Completions
  <2>3. ClientShape' BY <2>1, <2>2 DEF ClientShape
  <2> QED BY <1>s, <1>n, <2>1, <2>2, <2>3, CallStep DEF Shape
<1>5. ASSUME NEW f \in Files, findDefinitions(f) PROVE IInv'
  <2>1. /\ client.pc = "idle" /\ Version' = Version /\ HasDraft' = HasDraft
        /\ client'.pc = "get" /\ client'.r = [file |-> f, unit |-> OpenedFiles[f]]
        /\ OpenedFiles[f] # 0
        /\ UNCHANGED <<OpenedFiles, Units, RequestQueue, worker, ReportedDiagnosticVersions>>
    BY <1>5 DEF findDefinitions, Call, IsAt, At, results, documents
  <2>2. client'.r.file = f /\ client'.r.unit = OpenedFiles[f] BY <2>1
  <2>3. ClientShape' BY <2>1, <2>2 DEF ClientShape
  <2> QED BY <1>s, <1>n, <2>1, <2>3, CallStep DEF Shape
<1>6. ASSUME shutdown PROVE IInv'
  <2>1. /\ client.pc = "idle" /\ Version' = Version /\ HasDraft' = HasDraft
        /\ client'.pc = "join"
        /\ UNCHANGED <<OpenedFiles, Units, RequestQueue, worker, ReportedDiagnosticVersions>>
    BY <1>6 DEF shutdown, IsAt, results, documents
  <2>2. ClientShape' BY <2>1 DEF ClientShape
  <2> QED BY <1>s, <1>n, <2>1, <2>2, CallStep DEF Shape
<1> QED BY <1>1, <1>2, <1>3, <1>4, <1>5, <1>6 DEF ClientCall

\* A call returns.
LEMMA ReturnStep == ASSUME IInv, getReturns \/ join PROVE IInv'
<1>s. Shape /\ ClientShape BY DEF IInv
<1>n. \A f \in Files : Version[f] \in Nat BY <1>s DEF Shape
<1>1. /\ client.pc \in {"get", "join"} /\ client'.pc \in {"idle", "destroyed"}
      /\ Version' = Version /\ HasDraft' = HasDraft
      /\ UNCHANGED <<OpenedFiles, Units, RequestQueue, worker, ReportedDiagnosticVersions>>
  BY DEF getReturns, join, IsAt, Idle, results, documents
<1>2. ClientShape' BY <1>1 DEF ClientShape
<1> QED BY <1>s, <1>n, <1>1, <1>2, CallStep DEF Shape

\* A worker without a request becomes idle or exits.
Rests(w, s) ==
  /\ Become(w, s)
  /\ UNCHANGED <<Version, HasDraft, OpenedFiles, Units, RequestQueue, client,
                 ReportedDiagnosticVersions>>
LEMMA RestStep ==
  ASSUME IInv, NEW w \in Workers, worker[w].pc \notin Reparsing \cup {"cancel"},
         NEW s, s.pc \in {"idle", "exited"}, Rests(w, s)
  PROVE  IInv'
<1>s. Shape /\ ClientShape /\ WorkerShape BY DEF IInv
<1>u. /\ worker' = [worker EXCEPT ![w] = s]
      /\ UNCHANGED <<Version, HasDraft, OpenedFiles, Units, RequestQueue, client,
                     ReportedDiagnosticVersions>>
  BY DEF Rests, Become
<1>m. /\ worker' = [v \in Workers |-> worker'[v]] /\ worker'[w] = s
      /\ \A v \in Workers : v # w => worker'[v] = worker[v]
      /\ s.pc \notin Reparsing \cup {"leave", "finish", "cancel", "complete"}
  BY <1>s, <1>u DEF Shape, Reparsing, Guard
<1>1. Shape' BY <1>s, <1>m, <1>u DEF Shape
<1>2. ClientShape' BY <1>s, <1>u DEF ClientShape
<1>3. WorkerShape' BY <1>s, <1>m DEF WorkerShape
<1>4. Flying' \subseteq Flying
  <2>1. \A v \in Workers : worker'[v].pc \notin {"idle", "exited"} =>
                             worker[v].pc \notin {"idle", "exited"} /\ worker'[v].r = worker[v].r
    BY <1>m
  <2> QED BY <1>u, <2>1 DEF Flying
<1>5. \A q : (Superseded(q)' <=> Superseded(q)) /\ Unit(q)' = Unit(q)
  BY <1>u DEF Superseded, Unit
<1>6. \A f : Changing(f)' <=> Changing(f) BY <1>u DEF Changing
<1>7. AllSound' BY <1>4, <1>5, <1>6, <1>u DEF IInv, AllSound, Sound
<1>8. Apart' BY <1>4 DEF IInv, Apart
<1>9. Guarded'
  <2>1. \A v \in Workers : worker'[v].pc \in Guard => v # w BY <1>m DEF Reparsing
  <2>2. \A v \in Workers : worker'[v].pc \in Guard => worker'[v] = worker[v] BY <1>m, <2>1
  <2> QED BY <1>u, <2>2 DEF IInv, Guarded, Unit
<1>10. OpenASTs' BY <1>u, <1>6 DEF IInv, OpenASTs
<1>11. Endings'
  <2>1. \A v \in Workers : worker'[v].pc \in {"leave", "finish"} => v # w BY <1>m
  <2> SUFFICES ASSUME NEW v \in Workers, worker'[v].pc \in {"leave", "finish"},
                      NEW q, q = worker'[v].r
               PROVE  /\ worker'[v].pc = "leave" => Superseded(q)'
                      /\ worker'[v].pc = "finish" /\ q.kind = "reparse" =>
                           \/ Superseded(q)' \/ q.version < Version[q.file]
                           \/ q.version <= ReportedDiagnosticVersions[q.file]
                      /\ worker'[v].pc = "finish" /\ q.kind = "cancel" =>
                           Superseded(q)' \/ ~Unit(q)'.InProgress
    BY <1>u DEF Endings, Superseded, Unit
  <2>3. v # w /\ q = worker[v].r /\ worker'[v].pc = worker[v].pc BY <2>1, <1>m
  <2>4. (Superseded(q)' <=> Superseded(q)) /\ Unit(q)' = Unit(q) BY <1>5
  <2>5. /\ worker[v].pc = "leave" => Superseded(q)
        /\ worker[v].pc = "finish" /\ q.kind = "reparse" =>
             \/ Superseded(q) \/ q.version < Version[q.file]
             \/ q.version <= ReportedDiagnosticVersions[q.file]
        /\ worker[v].pc = "finish" /\ q.kind = "cancel" =>
             Superseded(q) \/ ~Unit(q).InProgress
    BY <2>3 DEF IInv, Endings
  <2> QED BY <2>3, <2>4, <2>5
<1>12. NoneFromTheFuture' BY <1>u DEF IInv, NoneFromTheFuture
<1>13. Pending'
  <2> SUFFICES ASSUME NEW f \in Files, HasDraft[f], ReportedDiagnosticVersions[f] # Version[f]
               PROVE  Coming(f)'
    BY <1>u DEF Pending
  <2>1. Coming(f) BY DEF IInv, Pending
  <2>2. \A v \in Workers : worker[v].pc \in Reparsing => worker'[v] = worker[v] BY <1>m
  <2> QED BY <1>5, <1>u, <2>1, <2>2, ComingKeeps
<1> QED BY <1>1, <1>2, <1>3, <1>7, <1>8, <1>9, <1>10, <1>11, <1>12, <1>13 DEF IInv

LEMMA FinishStep == ASSUME IInv, NEW w \in Workers, Finish(w) PROVE IInv'
<1>1. PICK s : s = Idle OBVIOUS
<1>2. worker[w].pc \in {"complete", "finish"} /\ Rests(w, s)
  BY <1>1 DEF Finish, Working, IsAt, results, documents, Rests
<1>3. worker[w].pc \notin Reparsing \cup {"cancel"} BY <1>2 DEF Reparsing, Guard
<1>4. s.pc \in {"idle", "exited"} BY <1>1 DEF Idle
<1> QED BY <1>2, <1>3, <1>4, RestStep

\* A worker takes the front request, or exits.
LEMMA TakeRequestStep == ASSUME IInv, NEW w \in Workers, TakeRequest(w) PROVE IInv'
<1>s. Shape /\ ClientShape /\ WorkerShape BY DEF IInv
<1>0. worker[w].pc = "idle" BY DEF TakeRequest, Working, IsAt
<1>1. CASE Done /\ Become(w, [pc |-> "exited"]) /\ UNCHANGED RequestQueue
  <2>1. PICK s : s = [pc |-> "exited"] OBVIOUS
  <2>2. Rests(w, s) BY <1>1, <2>1 DEF TakeRequest, Rests, documents, results
  <2>3. worker[w].pc \notin Reparsing \cup {"cancel"} BY <1>0 DEF Reparsing, Guard
  <2>4. s.pc \in {"idle", "exited"} BY <2>1
  <2> QED BY <2>2, <2>3, <2>4, RestStep
<1>2. CASE /\ ~Done /\ RequestQueue # <<>>
           /\ Become(w, At(Head(RequestQueue).kind, Head(RequestQueue)))
           /\ RequestQueue' = Tail(RequestQueue)
  <2>u. UNCHANGED <<Version, HasDraft, OpenedFiles, Units, client, ReportedDiagnosticVersions>>
    BY DEF TakeRequest, documents, results
  <2>1. PICK r : r = RequestQueue[1] OBVIOUS
  <2>2. /\ Len(RequestQueue) \in Nat \ {0} /\ r = Head(RequestQueue)
        /\ RequestQueue' \in Seq(Rebuilds \cup Completions)
        /\ Len(RequestQueue') = Len(RequestQueue) - 1
        /\ \A k \in 1 .. Len(RequestQueue) - 1 : RequestQueue'[k] = RequestQueue[k + 1]
        /\ r \in Rebuilds \cup Completions
    BY <1>s, <1>2, <2>1 DEF Shape
  <2>3. r \in Flying BY <2>1, <2>2 DEF Flying
  <2>4. /\ worker' = [v \in Workers |-> worker'[v]]
        /\ worker'[w].pc = r.kind /\ worker'[w].r = r
        /\ \A v \in Workers : v # w => worker'[v] = worker[v]
    BY <1>s, <1>2, <2>2 DEF Shape, Become, At
  <2>5. /\ r.kind \in {"reparse", "cancel", "complete"}
        /\ r.kind # "complete" <=> r \in Rebuilds
    BY <1>s, <2>3, FlyingTyped
  <2>6. Shape' BY <1>s, <2>u, <2>2, <2>4 DEF Shape
  <2>7. ClientShape' BY <1>s, <2>u DEF ClientShape
  <2>8. WorkerShape'
    <3>1. r.kind = "reparse" => r.kind \in Reparsing BY DEF Reparsing
    <3> QED BY <1>s, <2>2, <2>4, <2>5, <3>1 DEF WorkerShape
  <2>9. Flying' \subseteq Flying
    <3>1. \A k \in 1 .. Len(RequestQueue') : RequestQueue'[k] \in Flying
      <4> SUFFICES ASSUME NEW k \in 1 .. Len(RequestQueue') PROVE RequestQueue'[k] \in Flying
        OBVIOUS
      <4>1. k + 1 \in 1 .. Len(RequestQueue) /\ RequestQueue'[k] = RequestQueue[k + 1]
        BY <2>2
      <4> QED BY <4>1 DEF Flying
    <3>2. \A v \in Workers : worker'[v].pc \notin {"idle", "exited"} => worker'[v].r \in Flying
      BY <2>3, <2>4 DEF Flying
    <3> QED BY <3>1, <3>2, <2>u DEF Flying
  <2>10. \A q : (Superseded(q)' <=> Superseded(q)) /\ Unit(q)' = Unit(q)
    BY <2>u DEF Superseded, Unit
  <2>11. \A f : Changing(f)' <=> Changing(f) BY <2>u DEF Changing
  <2>12. AllSound' BY <2>9, <2>10, <2>11, <2>u DEF IInv, AllSound, Sound
  <2>13. Apart' BY <2>9 DEF IInv, Apart
  <2>14. \A v \in Workers : worker'[v].pc \in Guard \cup {"leave", "finish"} => v # w
    BY <2>4, <2>5 DEF Guard
  <2>15. Guarded' BY <2>4, <2>u, <2>14 DEF IInv, Guarded, Unit
  <2>16. OpenASTs' BY <2>u, <2>11 DEF IInv, OpenASTs
  <2>17. Endings'
    <3> SUFFICES ASSUME NEW v \in Workers, worker'[v].pc \in {"leave", "finish"},
                        NEW q, q = worker'[v].r
                 PROVE  /\ worker'[v].pc = "leave" => Superseded(q)'
                        /\ worker'[v].pc = "finish" /\ q.kind = "reparse" =>
                             \/ Superseded(q)' \/ q.version < Version[q.file]
                             \/ q.version <= ReportedDiagnosticVersions[q.file]
                        /\ worker'[v].pc = "finish" /\ q.kind = "cancel" =>
                             Superseded(q)' \/ ~Unit(q)'.InProgress
      BY <2>u DEF Endings, Superseded, Unit
    <3>3. v # w /\ q = worker[v].r /\ worker'[v].pc = worker[v].pc BY <2>14, <2>4
    <3>4. (Superseded(q)' <=> Superseded(q)) /\ Unit(q)' = Unit(q) BY <2>10
    <3>5. /\ worker[v].pc = "leave" => Superseded(q)
          /\ worker[v].pc = "finish" /\ q.kind = "reparse" =>
               \/ Superseded(q) \/ q.version < Version[q.file]
               \/ q.version <= ReportedDiagnosticVersions[q.file]
          /\ worker[v].pc = "finish" /\ q.kind = "cancel" =>
               Superseded(q) \/ ~Unit(q).InProgress
      BY <3>3 DEF IInv, Endings
    <3> QED BY <3>3, <3>4, <3>5
  <2>18. NoneFromTheFuture' BY <2>u DEF IInv, NoneFromTheFuture
  <2>19. Pending'
    <3> SUFFICES ASSUME NEW f \in Files, HasDraft[f], ReportedDiagnosticVersions[f] # Version[f]
                 PROVE  Coming(f)'
      BY <2>u DEF Pending
    <3>1. Coming(f) BY DEF IInv, Pending
    <3>2. \A q : OnItsWay(f, q)' <=> OnItsWay(f, q) BY <2>10, <2>u DEF OnItsWay
    <3>3. CASE client.pc = "reparse" /\ client.r.file = f BY <3>3, <2>u DEF Coming
    <3>4. CASE client.pc = "enqueue" /\ OnItsWay(f, client.r)
      <4>1. OnItsWay(f, client.r)' BY <3>4, <2>u DEF OnItsWay, Superseded, Unit
      <4> QED BY <3>4, <4>1, <2>u DEF Coming
    <3>5. ASSUME NEW k \in 1 .. Len(RequestQueue), OnItsWay(f, RequestQueue[k]) PROVE Coming(f)'
      <4>1. CASE k = 1
        <5>1. OnItsWay(f, r)' /\ r.kind = "reparse" BY <3>2, <3>5, <4>1, <2>1 DEF OnItsWay
        <5>2. worker'[w].pc \in Reparsing BY <5>1, <2>4 DEF Reparsing
        <5>3. OnItsWay(f, worker[w].r)' BY <5>1, <2>4 DEF OnItsWay, Superseded, Unit
        <5> QED BY <5>2, <5>3 DEF Coming
      <4>2. CASE k # 1
        <5>1. PICK j : j = k - 1 OBVIOUS
        <5>2. j \in 1 .. Len(RequestQueue') /\ RequestQueue'[j] = RequestQueue[k]
          BY <4>2, <5>1, <2>2
        <5>3. OnItsWay(f, RequestQueue[j])'
          BY <3>5, <5>2, <2>u DEF OnItsWay, Superseded, Unit
        <5> QED BY <5>2, <5>3 DEF Coming
      <4> QED BY <4>1, <4>2
    <3>6. ASSUME NEW v \in Workers, worker[v].pc \in Reparsing, OnItsWay(f, worker[v].r)
          PROVE  Coming(f)'
      <4>1. v # w BY <3>6, <1>0 DEF Reparsing, Guard
      <4>2. worker'[v] = worker[v] BY <4>1, <2>4
      <4>3. OnItsWay(f, worker[v].r)' BY <3>6, <4>2, <2>u DEF OnItsWay, Superseded, Unit
      <4> QED BY <3>6, <4>2, <4>3 DEF Coming
    <3> QED BY <3>1, <3>3, <3>4, <3>5, <3>6 DEF Coming
  <2> QED BY <2>6, <2>7, <2>8, <2>12, <2>13, <2>15, <2>16, <2>17, <2>18, <2>19 DEF IInv
<1> QED BY <1>1, <1>2 DEF TakeRequest

\* The client puts its request into the queue.
LEMMA addToFrontStep == ASSUME IInv, addToFront PROVE IInv'
<1>s. Shape /\ ClientShape /\ WorkerShape BY DEF IInv
<1>u. /\ client.pc = "enqueue" /\ client'.pc = "idle"
      /\ UNCHANGED <<Version, HasDraft, OpenedFiles, Units, worker, ReportedDiagnosticVersions>>
  BY DEF addToFront, IsAt, Idle, documents, results
<1>1. PICK r : r = client.r OBVIOUS
<1>2. /\ RequestQueue' \in Seq(Rebuilds \cup Completions)
      /\ Len(RequestQueue') = Len(RequestQueue) + 1 /\ Len(RequestQueue) \in Nat
      /\ RequestQueue'[1] = r
      /\ \A k \in 1 .. Len(RequestQueue) : RequestQueue'[k + 1] = RequestQueue[k]
      /\ \A k \in 2 .. Len(RequestQueue') : RequestQueue'[k] = RequestQueue[k - 1]
  <2> DEFINE S == Rebuilds \cup Completions
  <2>1. <<r>> \in Seq(S) /\ Len(<<r>>) = 1 /\ <<r>>[1] = r
    BY <1>s, <1>u, <1>1 DEF ClientShape
  <2>2. RequestQueue \in Seq(S) /\ Len(RequestQueue) \in Nat BY <1>s DEF Shape
  <2> HIDE DEF S
  <2>3. RequestQueue' = <<r>> \o RequestQueue BY <1>1 DEF addToFront
  <2>4. /\ RequestQueue' \in Seq(S) /\ Len(RequestQueue') = 1 + Len(RequestQueue)
        /\ \A k \in 1 .. 1 + Len(RequestQueue) :
             RequestQueue'[k] = IF k <= 1 THEN <<r>>[k] ELSE RequestQueue[k - 1]
    BY <2>1, <2>2, <2>3, ConcatProperties
  <2>5. ASSUME NEW k \in 1 .. Len(RequestQueue) PROVE RequestQueue'[k + 1] = RequestQueue[k]
    <3>1. k + 1 \in 1 .. 1 + Len(RequestQueue) /\ ~(k + 1 <= 1) /\ (k + 1) - 1 = k BY <2>2
    <3> QED BY <2>4, <3>1
  <2> QED BY <2>1, <2>2, <2>4, <2>5 DEF S
<1>3. Shape' BY <1>s, <1>u, <1>2 DEF Shape
<1>4. ClientShape' BY <1>u DEF ClientShape
<1>5. Flying' \subseteq Flying
  <2>1. r \in Flying BY <1>1, <1>u DEF Flying
  <2>2. ASSUME NEW k \in 1 .. Len(RequestQueue') PROVE RequestQueue'[k] \in Flying
    <3>1. CASE k = 1 BY <3>1, <2>1, <1>2
    <3>2. CASE k # 1
      <4>1. k - 1 \in 1 .. Len(RequestQueue) /\ RequestQueue'[k] = RequestQueue[k - 1]
        BY <3>2, <1>2
      <4> QED BY <4>1 DEF Flying
    <3> QED BY <3>1, <3>2
  <2> QED BY <2>2, <1>u DEF Flying
<1>6. \A q : (Superseded(q)' <=> Superseded(q)) /\ Unit(q)' = Unit(q)
  BY <1>u DEF Superseded, Unit
<1>7. \A f : ~Changing(f)' /\ ~Changing(f) BY <1>u DEF Changing
<1>8. AllSound' BY <1>5, <1>6, <1>7, <1>u DEF IInv, AllSound, Sound
<1>9. Apart' BY <1>5 DEF IInv, Apart
<1>10. WorkerShape' BY <1>s, <1>u DEF WorkerShape
<1>11. Guarded' BY <1>u DEF IInv, Guarded, Unit
<1>12. OpenASTs' BY <1>u, <1>7 DEF IInv, OpenASTs
<1>13. Endings' BY <1>u DEF IInv, Endings, Superseded, Unit
<1>14. NoneFromTheFuture' BY <1>u DEF IInv, NoneFromTheFuture
<1>15. Pending'
  <2> SUFFICES ASSUME NEW f \in Files, HasDraft[f], ReportedDiagnosticVersions[f] # Version[f]
               PROVE  Coming(f)'
    BY <1>u DEF Pending
  <2>1. Coming(f) BY DEF IInv, Pending
  <2>2. \A q : OnItsWay(f, q)' <=> OnItsWay(f, q) BY <1>6, <1>u DEF OnItsWay
  <2>3. CASE OnItsWay(f, client.r)
    <3>1. OnItsWay(f, RequestQueue[1])' BY <2>3, <1>1, <1>2, <1>u DEF OnItsWay, Superseded, Unit
    <3>2. 1 \in 1 .. Len(RequestQueue') BY <1>2
    <3> QED BY <3>1, <3>2 DEF Coming
  <2>4. ASSUME NEW k \in 1 .. Len(RequestQueue), OnItsWay(f, RequestQueue[k]) PROVE Coming(f)'
    <3>1. PICK j : j = k + 1 OBVIOUS
    <3>2. j \in 1 .. Len(RequestQueue') /\ RequestQueue'[j] = RequestQueue[k] BY <1>2, <3>1
    <3>3. OnItsWay(f, RequestQueue[j])' BY <2>4, <3>2, <1>u DEF OnItsWay, Superseded, Unit
    <3> QED BY <3>2, <3>3 DEF Coming
  <2>5. ASSUME NEW v \in Workers, worker[v].pc \in Reparsing, OnItsWay(f, worker[v].r)
        PROVE  Coming(f)'
    <3>1. OnItsWay(f, worker[v].r)' BY <2>5, <1>u DEF OnItsWay, Superseded, Unit
    <3> QED BY <2>5, <3>1, <1>u DEF Coming
  <2> QED BY <2>1, <2>3, <2>4, <2>5, <1>u DEF Coming
<1> QED BY <1>3, <1>4, <1>8, <1>9, <1>10, <1>11, <1>12, <1>13, <1>14, <1>15 DEF IInv

\* The client tells the unit i of its file f of a new request r: the older
\* requests of that unit are superseded, its future is not ready.
Defers(f, vs, i, r) ==
  /\ client.pc \in {"reparse", "cancel"} /\ client.r.file = f
  /\ vs \in Seq(UnitRecords) /\ i \in 1 .. Len(vs) /\ r \in Rebuilds
  /\ Units' = [Units EXCEPT ![f] = vs]
  /\ OpenedFiles' = [OpenedFiles EXCEPT ![f] = IF r.kind = "reparse" THEN i ELSE 0]
  /\ client'.pc = "enqueue" /\ client'.r = r
  /\ UNCHANGED <<Version, HasDraft, RequestQueue, worker, results>>
  /\ Len(Units[f]) <= Len(vs)
  /\ \A j \in 1 .. Len(Units[f]) : j # i => vs[j] = Units[f][j]
  /\ i \in 1 .. Len(Units[f]) =>
       /\ vs[i].RebuildCounter = Units[f][i].RebuildCounter + 1
       /\ vs[i].InProgress = Units[f][i].InProgress
  /\ ~vs[i].ready
  /\ r.file = f /\ r.unit = i /\ r.version = Version[f] /\ r.counter = vs[i].RebuildCounter
  /\ r.kind = "cancel" => ~HasDraft[f]
  /\ OpenedFiles[f] = i \/ (OpenedFiles[f] = 0 /\ i > Len(Units[f]))

LEMMA DeferredUnits ==
  ASSUME IInv, NEW f \in Files, NEW vs, NEW i, NEW r, Defers(f, vs, i, r)
  PROVE  /\ Units'[f] = vs /\ Units' \in [Files -> Seq(UnitRecords)]
         /\ \A g \in Files \ {f} : Units'[g] = Units[g]
         /\ OpenedFiles' \in [Files -> Nat]
         /\ OpenedFiles'[f] = IF r.kind = "reparse" THEN i ELSE 0
         /\ \A g \in Files \ {f} : OpenedFiles'[g] = OpenedFiles[g]
BY DEF IInv, Shape, Defers

\* The requests of that unit are those of the open file, and older.
LEMMA DeferKeeps ==
  ASSUME IInv, NEW f \in Files, NEW vs, NEW i, NEW r, Defers(f, vs, i, r),
         NEW q \in Flying, q \in Rebuilds
  PROVE  /\ q.file = f /\ q.unit = i =>
              /\ OpenedFiles[f] = i /\ q.counter < vs[i].RebuildCounter /\ Superseded(q)'
         /\ ~(q.file = f /\ q.unit = i) => (Superseded(q)' <=> Superseded(q))
         /\ Sound(q) /\ q.file \in Files /\ q.unit \in 1 .. Len(Units[q.file])
<1>1. Units'[f] = vs /\ \A g \in Files \ {f} : Units'[g] = Units[g]
  BY DeferredUnits
<1>s. Shape /\ ClientShape /\ WorkerShape BY DEF IInv
<1> USE DEF Defers
<1>2. Sound(q) BY RebuildFields DEF IInv, AllSound
<1>3. /\ q.file \in Files /\ q.unit \in 1 .. Len(Units[q.file])
      /\ Unit(q) \in UnitRecords /\ q.counter \in Nat
  BY <1>s, <1>2, UnitOf, RebuildFields
<1>4. CASE q.file = f /\ q.unit = i
  <2>1. OpenedFiles[f] = i
    <3>1. Len(Units[f]) \in Nat BY <1>s DEF Shape
    <3> QED BY <1>3, <1>4, <3>1
  <2>2. vs[i].RebuildCounter = Unit(q).RebuildCounter + 1 /\ Unit(q).RebuildCounter \in Nat
    BY <1>3, <1>4, UnitFields DEF Unit
  <2>3. q.counter <= Unit(q).RebuildCounter BY <1>2 DEF Sound
  <2>4. q.counter < vs[i].RebuildCounter BY <2>2, <2>3, <1>3
  <2>5. Superseded(q)'
    <3>1. Unit(q)' = vs[i] BY <1>4, <1>1 DEF Unit
    <3> QED BY <3>1, <2>2, <2>4, <1>3 DEF Superseded
  <2> QED BY <1>2, <1>3, <1>4, <2>1, <2>4, <2>5
<1>5. CASE ~(q.file = f /\ q.unit = i)
  <2>1. Unit(q)' = Unit(q)
    <3>1. CASE q.file = f BY <1>3, <1>5, <3>1, <1>1 DEF Unit
    <3>2. CASE q.file # f BY <1>3, <3>2, <1>1 DEF Unit
    <3> QED BY <3>1, <3>2
  <2> QED BY <1>2, <1>3, <1>5, <2>1 DEF Superseded
<1> QED BY <1>4, <1>5

LEMMA DeferStep ==
  ASSUME IInv, NEW f \in Files, NEW vs, NEW i, NEW r, Defers(f, vs, i, r)
  PROVE  IInv'
<1>1. /\ Units'[f] = vs /\ Units' \in [Files -> Seq(UnitRecords)]
      /\ \A g \in Files \ {f} : Units'[g] = Units[g]
      /\ OpenedFiles' \in [Files -> Nat]
      /\ OpenedFiles'[f] = IF r.kind = "reparse" THEN i ELSE 0
      /\ \A g \in Files \ {f} : OpenedFiles'[g] = OpenedFiles[g]
  BY DeferredUnits
<1>q. ASSUME NEW q \in Flying, q \in Rebuilds
      PROVE  /\ q.file = f /\ q.unit = i =>
                  /\ OpenedFiles[f] = i /\ q.counter < vs[i].RebuildCounter /\ Superseded(q)'
             /\ ~(q.file = f /\ q.unit = i) => (Superseded(q)' <=> Superseded(q))
             /\ Sound(q) /\ q.file \in Files /\ q.unit \in 1 .. Len(Units[q.file])
  BY <1>q, DeferKeeps
<1> USE DEF Defers, results
<1>s. Shape /\ ClientShape /\ WorkerShape BY DEF IInv
<1>2. Shape' BY <1>s, <1>1 DEF Shape
<1>3. ClientShape' BY DEF ClientShape
<1>4. \A g : ~Changing(g)' /\ (g # f => ~Changing(g)) BY DEF Changing
<1>5. ASSUME NEW g \in Files
      PROVE  /\ Version[g] <= Version'[g] /\ Version'[g] \in Nat
             /\ Len(Units[g]) <= Len(Units'[g])
             /\ \A j \in 1 .. Len(Units[g]) :
                  /\ Units[g][j].RebuildCounter <= Units'[g][j].RebuildCounter
                  /\ Units'[g][j].RebuildCounter \in Nat
                  /\ Units'[g][j].InProgress = Units[g][j].InProgress
  <2>0. Version[g] \in Nat /\ Units[g] \in Seq(UnitRecords) BY <1>s DEF Shape
  <2>1. ASSUME NEW j \in 1 .. Len(Units[g])
        PROVE  /\ Units[g][j].RebuildCounter <= Units'[g][j].RebuildCounter
               /\ Units'[g][j].RebuildCounter \in Nat
               /\ Units'[g][j].InProgress = Units[g][j].InProgress
    <3>1. Units[g][j] \in UnitRecords BY <2>0
    <3>2. Units[g][j].RebuildCounter \in Nat BY <3>1, UnitFields
    <3>3. CASE g = f /\ j = i BY <2>1, <3>2, <3>3, <1>1
    <3>4. CASE ~(g = f /\ j = i)
      <4>1. Units'[g][j] = Units[g][j] BY <3>4, <1>1
      <4> QED BY <4>1, <3>2
    <3> QED BY <3>3, <3>4
  <2>2. Len(Units[g]) <= Len(Units'[g])
    <3>1. CASE g = f BY <3>1, <1>1
    <3>2. CASE g # f BY <3>2, <1>1, <2>0
    <3> QED BY <3>1, <3>2
  <2> QED BY <2>0, <2>1, <2>2
<1>6. /\ NoneFromTheFuture' /\ WorkerShape' /\ Guarded' /\ Endings'
      /\ \A q \in Flying : q \in Rebuilds =>
           /\ Superseded(q) => Superseded(q)'
           /\ q.counter <= Unit(q)'.RebuildCounter /\ q.version <= Version'[q.file]
           /\ q.unit \in 1 .. Len(Units'[q.file])
  BY <1>5, OthersKeep
<1>7. Flying' \subseteq Flying \cup {r} BY DEF Flying
<1>9. AllSound'
  <2> SUFFICES ASSUME NEW q \in Flying', q.kind # "complete" PROVE Sound(q)'
    BY DEF AllSound
  <2>1. CASE q = r
    <3>1. /\ Unit(r)' = vs[i] /\ r.unit \in 1 .. Len(Units'[r.file]) BY <1>1 DEF Unit
    <3>2. vs[i].RebuildCounter \in Nat /\ Version[f] \in Nat /\ i # 0
      <4>1. vs[i] \in UnitRecords OBVIOUS
      <4> QED BY <4>1, UnitFields, <1>s DEF Shape
    <3>3. r.kind = "cancel" => r.unit # OpenedFiles'[r.file] BY <1>1, <3>2
    <3> QED BY <2>1, <3>1, <3>2, <3>3 DEF Sound
  <2>2. CASE q \in Flying
    <3>1. q \in Rebuilds BY <1>s, <2>2, FlyingTyped
    <3>2. /\ q.file = f /\ q.unit = i =>
               /\ OpenedFiles[f] = i /\ q.counter < vs[i].RebuildCounter /\ Superseded(q)'
          /\ ~(q.file = f /\ q.unit = i) => (Superseded(q)' <=> Superseded(q))
          /\ Sound(q) /\ q.file \in Files /\ q.unit \in 1 .. Len(Units[q.file])
      BY <1>q, <2>2, <3>1
    <3>3. q.counter <= Unit(q)'.RebuildCounter /\ q.version <= Version'[q.file]
          /\ q.unit \in 1 .. Len(Units'[q.file])
      BY <1>6, <2>2, <3>1
    <3>4. q.kind = "cancel" => q.unit # OpenedFiles'[q.file]
      <4>1. CASE q.file = f
        <5>1. Len(Units[f]) \in Nat /\ OpenedFiles[f] \in Nat BY <1>s DEF Shape
        <5>2. q.kind = "cancel" => q.unit # OpenedFiles[f] BY <3>2, <4>1 DEF Sound
        <5> QED BY <3>2, <4>1, <5>1, <5>2, <1>1
      <4>2. CASE q.file # f BY <3>2, <4>2, <1>1 DEF Sound
      <4> QED BY <4>1, <4>2
    <3>5. q.unit = OpenedFiles'[q.file] /\ ~Superseded(q)' => q.version = Version[q.file]
      <4>1. CASE q.file = f
        <5>1. q.unit # 0 BY <3>1, RebuildFields
        <5> QED BY <3>2, <4>1, <5>1, <1>1
      <4>2. CASE q.file # f BY <3>2, <4>2, <1>1, <1>4 DEF Sound
      <4> QED BY <4>1, <4>2
    <3> QED BY <3>3, <3>4, <3>5 DEF Sound
  <2> QED BY <1>7, <2>1, <2>2
<1>10. Apart'
  <2> SUFFICES ASSUME NEW p \in Flying', NEW q \in Flying', p.kind = "cancel",
                      q.kind = "reparse", p.file = q.file, p.unit = q.unit
               PROVE  p.counter # q.counter
    BY DEF Apart
  <2>1. CASE p \in Flying /\ q \in Flying BY <2>1 DEF IInv, Apart
  <2>2. CASE p = r /\ q \in Flying
    <3>1. q \in Rebuilds BY <1>s, <2>2, FlyingTyped
    <3>2. q.counter < r.counter BY <1>q, <2>2, <3>1
    <3>3. q.counter \in Nat /\ r.counter \in Nat BY <3>1, RebuildFields
    <3> QED BY <2>2, <3>2, <3>3
  <2>3. CASE p \in Flying /\ q = r
    <3>1. p \in Rebuilds BY <1>s, <2>3, FlyingTyped
    <3>2. p.counter < r.counter BY <1>q, <2>3, <3>1
    <3>3. p.counter \in Nat /\ r.counter \in Nat BY <3>1, RebuildFields
    <3> QED BY <2>3, <3>2, <3>3
  <2> QED BY <1>7, <2>1, <2>2, <2>3
<1>11. OpenASTs'
  <2> SUFFICES ASSUME NEW g \in Files, OpenedFiles'[g] # 0
               PROVE  /\ OpenedFiles'[g] <= Len(Units'[g])
                      /\ Units'[g][OpenedFiles'[g]].ready =>
                           Units'[g][OpenedFiles'[g]].ast = Version[g]
    BY DEF OpenASTs
  <2>1. CASE g = f
    <3>1. OpenedFiles'[g] = i /\ Units'[g] = vs BY <2>1, <1>1
    <3> QED BY <3>1
  <2>2. CASE g # f BY <2>2, <1>1, <1>4 DEF IInv, OpenASTs
  <2> QED BY <2>1, <2>2
<1>12. Pending'
  <2> SUFFICES ASSUME NEW g \in Files, HasDraft[g], ReportedDiagnosticVersions[g] # Version[g]
               PROVE  Coming(g)'
    BY DEF Pending
  <2>1. CASE g = f
    <3>1. r.kind = "reparse" BY <2>1, RebuildFields
    <3>2. ~Superseded(client.r)' BY <1>1 DEF Superseded, Unit
    <3>3. OnItsWay(f, client.r)' BY <3>1, <3>2 DEF OnItsWay
    <3> QED BY <2>1, <3>3 DEF Coming
  <2>2. CASE g # f
    <3>1. Coming(g) BY DEF IInv, Pending
    <3>2. \A q \in Flying : q \in Rebuilds /\ q.file = g /\ ~Superseded(q) => ~Superseded(q)'
      BY <1>q, <2>2
    <3>3. ~(client.pc = "reparse" /\ client.r.file = g) /\ client.pc # "enqueue" BY <2>2
    <3> QED BY <3>1, <3>2, <3>3, ComingKeeps
  <2> QED BY <2>1, <2>2
<1> QED BY <1>2, <1>3, <1>6, <1>9, <1>10, <1>11, <1>12 DEF IInv

\* deferRebuild and deferCancelRebuild keep all but the counter and the future.
LEMMA DeferredFields ==
  ASSUME NEW u \in UnitRecords
  PROVE  /\ Deferred(u) \in UnitRecords /\ ~Deferred(u).ready
         /\ Deferred(u).RebuildCounter = u.RebuildCounter + 1
         /\ Deferred(u).InProgress = u.InProgress
<1>1. Deferred(u) = [u EXCEPT !.RebuildCounter = u.RebuildCounter + 1, !.ready = FALSE]
  BY DEF Deferred
<1>2. /\ ~Deferred(u).ready /\ Deferred(u).RebuildCounter = u.RebuildCounter + 1
      /\ Deferred(u).InProgress = u.InProgress
  BY <1>1 DEF UnitRecords
<1>3. u.RebuildCounter + 1 \in Nat BY UnitFields
<1>4. Deferred(u) \in UnitRecords BY <1>1, <1>3 DEF UnitRecords
<1> QED BY <1>2, <1>4

LEMMA ReparseDefers ==
  ASSUME IInv, scheduleReparseAndDiags
  PROVE  \E f \in Files, vs \in Seq(UnitRecords), i \in Nat, r \in Rebuilds :
           Defers(f, vs, i, r) /\ r.kind = "reparse"
<1>s. Shape /\ ClientShape /\ WorkerShape BY DEF IInv
<1> DEFINE g == client.r.file
           us == IF OpenedFiles[g] = 0 THEN Append(Units[g], NewCppFile) ELSE Units[g]
           k == IF OpenedFiles[g] = 0 THEN Len(us) ELSE OpenedFiles[g]
           ws == [us EXCEPT ![k] = Deferred(@)]
<1>1. PICK f : f = g OBVIOUS
<1>2. client.pc = "reparse" /\ f \in Files /\ client.r.file = f /\ client.r.version = Version[f]
  BY <1>1, <1>s DEF scheduleReparseAndDiags, IsAt, ClientShape
<1>3. /\ Units[f] \in Seq(UnitRecords) /\ Len(Units[f]) \in Nat /\ OpenedFiles[f] \in Nat
      /\ Version[f] \in Nat
      /\ OpenedFiles[f] # 0 => OpenedFiles[f] <= Len(Units[f])
  BY <1>s, <1>2 DEF Shape, IInv, OpenASTs
<1>4. NewCppFile \in UnitRecords BY DEF NewCppFile, UnitRecords
<1>5. PICK ts : ts = us OBVIOUS
<1>6. PICK i : i = k OBVIOUS
<1>7. PICK vs : vs = ws OBVIOUS
<1>8. /\ ts \in Seq(UnitRecords) /\ i \in 1 .. Len(ts) /\ Len(Units[f]) <= Len(ts)
      /\ \A j \in 1 .. Len(Units[f]) : ts[j] = Units[f][j]
      /\ OpenedFiles[f] = i \/ (OpenedFiles[f] = 0 /\ i > Len(Units[f]))
  <2>1. CASE OpenedFiles[f] = 0
    <3>1. ts = Append(Units[f], NewCppFile) /\ i = Len(ts) BY <2>1, <1>1, <1>5, <1>6
    <3>2. /\ ts \in Seq(UnitRecords) /\ Len(ts) = Len(Units[f]) + 1
          /\ \A j \in 1 .. Len(Units[f]) : ts[j] = Units[f][j]
      BY <3>1, <1>3, <1>4, AppendProperties
    <3> QED BY <2>1, <3>1, <3>2, <1>3
  <2>2. CASE OpenedFiles[f] # 0
    <3>1. ts = Units[f] /\ i = OpenedFiles[f] BY <2>2, <1>1, <1>5, <1>6
    <3>2. i \in 1 .. Len(ts) BY <3>1, <2>2, <1>3
    <3>3. ts \in Seq(UnitRecords) /\ Len(Units[f]) <= Len(ts) BY <3>1, <1>3
    <3> QED BY <3>1, <3>2, <3>3
  <2> QED BY <2>1, <2>2
<1>9. vs = [ts EXCEPT ![i] = Deferred(ts[i])] BY <1>5, <1>6, <1>7
<1>10. /\ client' = At("enqueue", RequestFor("reparse", vs, i))
       /\ OpenedFiles' = [OpenedFiles EXCEPT ![f] = i]
       /\ Units' = [Units EXCEPT ![f] = vs]
       /\ UNCHANGED <<Version, HasDraft, RequestQueue, worker, results>>
  BY <1>1, <1>5, <1>6, <1>7 DEF scheduleReparseAndDiags
<1> HIDE DEF g, us, k, ws
<1>11. /\ Deferred(ts[i]) \in UnitRecords /\ ~Deferred(ts[i]).ready
       /\ Deferred(ts[i]).RebuildCounter = ts[i].RebuildCounter + 1
       /\ Deferred(ts[i]).InProgress = ts[i].InProgress
       /\ Deferred(ts[i]).RebuildCounter \in Nat
  <2>1. ts[i] \in UnitRecords BY <1>8
  <2> QED BY <2>1, DeferredFields, UnitFields
<1>12. /\ vs \in Seq(UnitRecords) /\ Len(vs) = Len(ts)
       /\ \A j \in 1 .. Len(ts) : vs[j] = IF j = i THEN Deferred(ts[i]) ELSE ts[j]
  BY <1>8, <1>9, <1>11, ExceptSeq
<1>13. PICK r : r = RequestFor("reparse", vs, i) OBVIOUS
<1>14. /\ r.file = f /\ r.unit = i /\ r.version = Version[f] /\ r.kind = "reparse"
       /\ r.counter = vs[i].RebuildCounter
  BY <1>13, <1>2 DEF RequestFor
<1>15. r \in Rebuilds
  <2>1. vs[i].RebuildCounter \in Nat /\ i \in Nat \ {0} BY <1>8, <1>11, <1>12
  <2>2. r = [file |-> f, version |-> Version[f], kind |-> "reparse", unit |-> i,
             counter |-> vs[i].RebuildCounter]
    BY <1>2, <1>13 DEF RequestFor
  <2> QED BY <1>2, <1>3, <2>1, <2>2 DEF Rebuilds
<1>16. client'.pc = "enqueue" /\ client'.r = r BY <1>10, <1>13 DEF At
<1>17. /\ i \in 1 .. Len(vs) /\ Len(Units[f]) <= Len(vs) /\ ~vs[i].ready
       /\ \A j \in 1 .. Len(Units[f]) : j # i => vs[j] = Units[f][j]
       /\ i \in 1 .. Len(Units[f]) =>
            /\ vs[i].RebuildCounter = Units[f][i].RebuildCounter + 1
            /\ vs[i].InProgress = Units[f][i].InProgress
  BY <1>3, <1>8, <1>11, <1>12
<1>18. OpenedFiles' = [OpenedFiles EXCEPT ![f] = IF r.kind = "reparse" THEN i ELSE 0]
  BY <1>10, <1>14
<1>19. Defers(f, vs, i, r)
  BY <1>2, <1>8, <1>10, <1>12, <1>14, <1>15, <1>16, <1>17, <1>18 DEF Defers
<1> QED BY <1>2, <1>12, <1>14, <1>15, <1>17, <1>19

LEMMA CancelDefers ==
  ASSUME IInv, scheduleCancelRebuild, OpenedFiles[client.r.file] # 0
  PROVE  \E f \in Files, vs \in Seq(UnitRecords), i \in Nat, r \in Rebuilds :
           Defers(f, vs, i, r) /\ r.kind = "cancel"
<1>s. Shape /\ ClientShape /\ WorkerShape BY DEF IInv
<1>1. PICK f : f = client.r.file OBVIOUS
<1>2. /\ client.pc = "cancel" /\ f \in Files /\ client.r.file = f
      /\ client.r.version = Version[f] /\ ~HasDraft[f]
  BY <1>1, <1>s DEF scheduleCancelRebuild, IsAt, ClientShape
<1>3. PICK i : i = OpenedFiles[f] OBVIOUS
<1>4. /\ Units[f] \in Seq(UnitRecords) /\ Len(Units[f]) \in Nat /\ i \in Nat
      /\ Version[f] \in Nat
      /\ i # 0 => i <= Len(Units[f])
  BY <1>s, <1>2, <1>3 DEF Shape, IInv, OpenASTs
<1>5. /\ OpenedFiles' = [OpenedFiles EXCEPT ![f] = 0]
      /\ UNCHANGED <<Version, HasDraft, RequestQueue, worker, results>>
  BY <1>1 DEF scheduleCancelRebuild, removeIfPresent
<1>7. i # 0
  BY <1>1, <1>3
<1>8. PICK vs : vs = [Units[f] EXCEPT ![i] = Deferred(Units[f][i])] OBVIOUS
<1>9. client' = At("enqueue", RequestFor("cancel", vs, i)) /\ Units' = [Units EXCEPT ![f] = vs]
  <2> DEFINE g == client.r.file
             k == OpenedFiles[g]
             ws == [Units[g] EXCEPT ![k] = Deferred(@)]
  <2>1. g = f /\ k = i /\ ws = vs BY <1>1, <1>3, <1>8
  <2>2. IF k = 0 THEN client' = Idle /\ UNCHANGED Units
        ELSE /\ Units' = [Units EXCEPT ![g] = ws]
             /\ client' = At("enqueue", RequestFor("cancel", ws, k))
    BY DEF scheduleCancelRebuild
  <2> HIDE DEF g, k, ws
  <2> QED BY <1>7, <2>1, <2>2
<1>10. i \in 1 .. Len(Units[f]) /\ Units[f][i] \in UnitRecords BY <1>4, <1>7
<1>11. /\ Deferred(Units[f][i]) \in UnitRecords /\ ~Deferred(Units[f][i]).ready
      /\ Deferred(Units[f][i]).RebuildCounter = Units[f][i].RebuildCounter + 1
      /\ Deferred(Units[f][i]).InProgress = Units[f][i].InProgress
      /\ Deferred(Units[f][i]).RebuildCounter \in Nat
  BY <1>10, DeferredFields, UnitFields
<1>12. /\ vs \in Seq(UnitRecords) /\ Len(vs) = Len(Units[f])
      /\ \A j \in 1 .. Len(Units[f]) :
           vs[j] = IF j = i THEN Deferred(Units[f][i]) ELSE Units[f][j]
  BY <1>4, <1>8, <1>10, <1>11, ExceptSeq
<1>13. PICK r : r = RequestFor("cancel", vs, i) OBVIOUS
<1>14. /\ r.file = f /\ r.unit = i /\ r.version = Version[f] /\ r.kind = "cancel"
      /\ r.counter = vs[i].RebuildCounter
  BY <1>13, <1>2 DEF RequestFor
<1>15. r \in Rebuilds
  <2>1. vs[i].RebuildCounter \in Nat /\ i \in Nat \ {0} BY <1>4, <1>7, <1>10, <1>11, <1>12
  <2>2. r = [file |-> f, version |-> Version[f], kind |-> "cancel", unit |-> i,
             counter |-> vs[i].RebuildCounter]
    BY <1>2, <1>13 DEF RequestFor
  <2> QED BY <1>2, <1>4, <2>1, <2>2 DEF Rebuilds
<1>16. client'.pc = "enqueue" /\ client'.r = r BY <1>9, <1>13 DEF At
<1>17. /\ i \in 1 .. Len(vs) /\ Len(Units[f]) <= Len(vs) /\ ~vs[i].ready
       /\ \A j \in 1 .. Len(Units[f]) : j # i => vs[j] = Units[f][j]
       /\ i \in 1 .. Len(Units[f]) =>
            /\ vs[i].RebuildCounter = Units[f][i].RebuildCounter + 1
            /\ vs[i].InProgress = Units[f][i].InProgress
  BY <1>4, <1>10, <1>11, <1>12
<1>18. OpenedFiles' = [OpenedFiles EXCEPT ![f] = IF r.kind = "reparse" THEN i ELSE 0]
  BY <1>5, <1>14
<1>19. Defers(f, vs, i, r)
  BY <1>2, <1>3, <1>5, <1>9, <1>12, <1>14, <1>15, <1>16, <1>17, <1>18 DEF Defers
<1> QED BY <1>2, <1>4, <1>12, <1>14, <1>15, <1>19

\* The file was not open: nobody has to be told.
LEMMA CancelNothingStep ==
  ASSUME IInv, scheduleCancelRebuild, OpenedFiles[client.r.file] = 0
  PROVE  IInv'
<1>s. Shape /\ ClientShape /\ WorkerShape BY DEF IInv
<1>1. PICK f : f = client.r.file OBVIOUS
<1>2. /\ client.pc = "cancel" /\ f \in Files /\ client.r.file = f
      /\ client.r.version = Version[f] /\ ~HasDraft[f]
  BY <1>1, <1>s DEF scheduleCancelRebuild, IsAt, ClientShape
<1>3. PICK i : i = OpenedFiles[f] OBVIOUS
<1>4. /\ Units[f] \in Seq(UnitRecords) /\ Len(Units[f]) \in Nat /\ i \in Nat
      /\ Version[f] \in Nat
      /\ i # 0 => i <= Len(Units[f])
  BY <1>s, <1>2, <1>3 DEF Shape, IInv, OpenASTs
<1>5. /\ OpenedFiles' = [OpenedFiles EXCEPT ![f] = 0]
      /\ UNCHANGED <<Version, HasDraft, RequestQueue, worker, ReportedDiagnosticVersions>>
  BY <1>1 DEF scheduleCancelRebuild, removeIfPresent, results
<1>6. i = 0
  BY <1>1, <1>3
<1>7. client'.pc = "idle" /\ Units' = Units BY <1>1, <1>3, <1>6 DEF scheduleCancelRebuild, Idle
<1>8. OpenedFiles' = OpenedFiles BY <1>s, <1>3, <1>5, <1>6 DEF Shape
<1>9. Shape' BY <1>s, <1>5, <1>7, <1>8 DEF Shape
<1>10. ClientShape' BY <1>7 DEF ClientShape
<1>11. WorkerShape' BY <1>s, <1>5 DEF WorkerShape
<1>12. Flying' \subseteq Flying BY <1>5, <1>7 DEF Flying
<1>13. \A q : (Superseded(q)' <=> Superseded(q)) /\ Unit(q)' = Unit(q)
  BY <1>7 DEF Superseded, Unit
<1>14. \A g : ~Changing(g)' /\ (g # f => ~Changing(g)) BY <1>2, <1>7 DEF Changing
<1>15. AllSound'
  <2> SUFFICES ASSUME NEW q \in Flying, q.kind # "complete" PROVE Sound(q)'
    BY <1>12 DEF AllSound
  <2>1. Sound(q) BY DEF IInv, AllSound
  <2>2. q \in Rebuilds BY <1>s, FlyingTyped
  <2>3. q.unit # 0 BY <2>2, RebuildFields
  <2>4. q.unit = OpenedFiles[q.file] => q.file # f BY <2>3, <1>3, <1>6
  <2> QED BY <2>1, <2>4, <1>5, <1>7, <1>8, <1>13, <1>14 DEF Sound
<1>16. Apart' BY <1>12 DEF IInv, Apart
<1>17. Guarded' BY <1>5, <1>7 DEF IInv, Guarded, Unit
<1>18. OpenASTs'
  <2> SUFFICES ASSUME NEW g \in Files, OpenedFiles[g] # 0
               PROVE  /\ OpenedFiles[g] <= Len(Units[g])
                      /\ Units[g][OpenedFiles[g]].ready =>
                           Units[g][OpenedFiles[g]].ast = Version[g]
    BY <1>5, <1>7, <1>8 DEF OpenASTs
  <2>1. g # f BY <1>3, <1>6
  <2> QED BY <2>1, <1>14 DEF IInv, OpenASTs
<1>19. Endings' BY <1>5, <1>7 DEF IInv, Endings, Superseded, Unit
<1>20. NoneFromTheFuture' BY <1>5 DEF IInv, NoneFromTheFuture
<1>21. Pending'
  <2> SUFFICES ASSUME NEW g \in Files, HasDraft[g], ReportedDiagnosticVersions[g] # Version[g]
               PROVE  Coming(g)'
    BY <1>5 DEF Pending
  <2>1. Coming(g) BY DEF IInv, Pending
  <2> QED BY <2>1, <1>2, <1>5, <1>13, ComingKeeps
<1> QED BY <1>9, <1>10, <1>11, <1>15, <1>16, <1>17, <1>18, <1>19, <1>20, <1>21 DEF IInv

LEMMA ScheduleStep ==
  ASSUME IInv, scheduleReparseAndDiags \/ scheduleCancelRebuild
  PROVE  IInv'
BY ReparseDefers, CancelDefers, CancelNothingStep, DeferStep

-----------------------------------------------------------------------------
LEMMA InitHolds == ASSUME Init PROVE IInv
<1>1. Shape
  <2>1. <<>> \in Seq(UnitRecords) /\ <<>> \in Seq(Rebuilds \cup Completions) OBVIOUS
  <2> QED BY <2>1 DEF Init, Shape
<1>2. client.pc = "idle" /\ \A w \in Workers : worker[w].pc = "idle" BY DEF Init, Idle
<1>3. Flying = {} BY <1>2 DEF Flying, Init
<1>4. ClientShape /\ WorkerShape BY <1>2 DEF ClientShape, WorkerShape
<1>5. AllSound /\ Apart BY <1>3 DEF AllSound, Apart
<1>6. Guarded /\ Endings BY <1>2 DEF Guarded, Endings, Guard
<1>7. OpenASTs /\ NoneFromTheFuture /\ Pending
  BY DEF Init, OpenASTs, NoneFromTheFuture, Pending
<1> QED BY <1>1, <1>4, <1>5, <1>6, <1>7 DEF IInv

LEMMA StepHolds == ASSUME IInv, [Next]_vars PROVE IInv'
<1>1. ASSUME UNCHANGED vars PROVE IInv'
  <2>u. UNCHANGED <<Version, HasDraft, OpenedFiles, Units, RequestQueue, client, worker,
                    ReportedDiagnosticVersions>>
    BY <1>1 DEF vars
  <2>1. Shape' /\ ClientShape' /\ WorkerShape' BY <2>u DEF IInv, Shape, ClientShape, WorkerShape
  <2>2. Flying' = Flying /\ \A g : Changing(g)' <=> Changing(g) BY <2>u DEF Flying, Changing
  <2>3. AllSound' BY <2>u, <2>2 DEF IInv, AllSound, Sound, Superseded, Unit
  <2>4. Apart' BY <2>2 DEF IInv, Apart
  <2>5. Guarded' BY <2>u DEF IInv, Guarded, Unit
  <2>6. OpenASTs' BY <2>u, <2>2 DEF IInv, OpenASTs
  <2>7. Endings' BY <2>u DEF IInv, Endings, Superseded, Unit
  <2>8. NoneFromTheFuture' BY <2>u DEF IInv, NoneFromTheFuture
  <2>9. Pending' BY <2>u DEF IInv, Pending, Coming, OnItsWay, Superseded, Unit
  <2> QED BY <2>1, <2>3, <2>4, <2>5, <2>6, <2>7, <2>8, <2>9 DEF IInv
<1>2. ASSUME ClientCall PROVE IInv' BY <1>2, ClientCallStep
<1>3. ASSUME ClientStep PROVE IInv'
  BY <1>3, ScheduleStep, addToFrontStep, ReturnStep
     DEF ClientStep
<1>4. ASSUME NEW w \in Workers, WorkerStep(w) PROVE IInv'
  BY <1>4, TakeRequestStep, CheckVersionStep, EnterGuardStep, PublishPreambleStep,
     BuildASTStep, PublishASTStep, LeaveGuardStep, PublishDiagsStep, CancelReparsesStep,
     FinishStep
     DEF WorkerStep
<1> QED BY <1>1, <1>2, <1>3, <1>4 DEF Next, Destroyed

\* The invariant that carries the rest: requests come from the past of their
\* unit and their draft, one worker at a time is inside a unit, and the newest
\* text of an open file is reported or on its way.
THEOREM Invariance == Spec => []IInv
<1>1. Init => IInv BY InitHolds
<1>2. IInv /\ [Next]_vars => IInv' BY StepHolds
<1> QED BY <1>1, <1>2, PTL DEF Spec

\* DefinitionsAreFresh: findDefinitions() answers from the AST of the text the
\* client sent last (the future of CppFile is only fulfilled by its newest
\* request, and the client waits on the unit its file is open with).
THEOREM Freshness == Spec => []DefinitionsAreFresh
<1>1. IInv => DefinitionsAreFresh
  <2> SUFFICES ASSUME IInv, client.pc = "get", Unit(client.r).ready
               PROVE  Unit(client.r).ast = Version[client.r.file]
    BY DEF DefinitionsAreFresh, IsAt
  <2>1. PICK f : f = client.r.file OBVIOUS
  <2>2. f \in Files /\ client.r.unit = OpenedFiles[f] /\ OpenedFiles[f] # 0
    BY <2>1 DEF IInv, ClientShape
  <2>3. ~Changing(f) BY DEF Changing
  <2>4. Unit(client.r) = Units[f][OpenedFiles[f]] BY <2>1, <2>2 DEF Unit
  <2> QED BY <2>1, <2>2, <2>3, <2>4 DEF IInv, OpenASTs
<1> QED BY <1>1, Invariance, PTL

\* DoneAfterDiagnostics: the future of addDocument() is ready only after the
\* diagnostics of its text were reported, unless a newer request superseded it.
THEOREM DoneMeansReported == Spec => []DoneAfterDiagnostics
<1>1. IInv => DoneAfterDiagnostics
  <2> SUFFICES ASSUME IInv, NEW w \in Workers, worker[w].pc = "finish", NEW r, r = worker[w].r,
                      r.kind = "reparse", ~Superseded(r), Version[r.file] = r.version
               PROVE  ReportedDiagnosticVersions[r.file] = r.version
    BY DEF DoneAfterDiagnostics, Working, IsAt
  <2>1. r.file \in Files /\ r.version \in Nat BY AtWork, RebuildFields DEF Reparsing, Guard
  <2>2. /\ ReportedDiagnosticVersions[r.file] \in Nat
        /\ ReportedDiagnosticVersions[r.file] <= Version[r.file]
    BY <2>1 DEF IInv, Shape, NoneFromTheFuture
  <2>3. r.version < Version[r.file] \/ r.version <= ReportedDiagnosticVersions[r.file]
    BY DEF IInv, Endings
  <2> QED BY <2>1, <2>2, <2>3
<1> QED BY <1>1, Invariance, PTL

\* RemovedFileIsIdle: the future of removeDocument() is ready only when no
\* worker is inside a rebuild of the removed file.
THEOREM RemovalWaits == Spec => []RemovedFileIsIdle
<1>1. IInv => RemovedFileIsIdle
  <2> SUFFICES ASSUME IInv, NEW w \in Workers, NEW v \in Workers, worker[w].pc = "finish",
                      NEW r, r = worker[w].r, r.kind = "cancel", ~Superseded(r),
                      worker[v].pc \in Guard, NEW q, q = worker[v].r,
                      q.file = r.file, q.unit = r.unit
               PROVE  FALSE
    BY DEF RemovedFileIsIdle, Working, IsAt, Guard
  <2>1. ~Unit(r).InProgress BY DEF IInv, Endings
  <2>2. Unit(q).InProgress BY DEF IInv, Guarded
  <2> QED BY <2>1, <2>2 DEF Unit
<1> QED BY <1>1, Invariance, PTL

\* ShownDiagnosticsAreCurrent: a server with nothing left to do has shown the
\* diagnostics of the current text of every open file.
THEOREM NothingForgotten == Spec => []ShownDiagnosticsAreCurrent
<1>1. IInv => ShownDiagnosticsAreCurrent
  <2> SUFFICES ASSUME IInv, Quiet, NEW f \in Files, HasDraft[f]
               PROVE  ReportedDiagnosticVersions[f] = Version[f]
    BY DEF ShownDiagnosticsAreCurrent
  <2>1. /\ client.pc = "idle" /\ Len(RequestQueue) = 0
        /\ \A w \in Workers : worker[w].pc = "idle"
    BY DEF Quiet, IsAt, Working
  <2>2. ~Coming(f)
    <3>1. "idle" \notin Reparsing BY DEF Reparsing, Guard
    <3> QED BY <2>1, <3>1 DEF Coming
  <2> QED BY <2>2 DEF IInv, Pending
<1> QED BY <1>1, Invariance, PTL

-------------------------------------------------------------------------------
(* What IndexIsCurrent, which does not hold, depends on. *)

\* A file is opened again while a worker is still building it for the CppFile it
\* had before it was closed.
ReopensDuringBuild ==
  /\ scheduleReparseAndDiags /\ OpenedFiles[client.r.file] = 0
  /\ \E w \in Workers : Working(w, "build") /\ worker[w].r.file = client.r.file

\* A request that nobody has superseded is for the unit its file is open with.
NewestIsOpen ==
  \A r \in Flying : r.kind = "reparse" /\ ~Superseded(r) => r.unit = OpenedFiles[r.file]

\* Who builds an open file builds the unit it is open with.
Builds(w, f) == worker[w].pc = "build" /\ worker[w].r.file = f
BuildsOpen ==
  \A w \in Workers, f \in Files : Builds(w, f) => OpenedFiles[f] \in {0, worker[w].r.unit}

\* The requests that have not reached the index.
BeforeIndex == {"reparse", "rebuild", "preamble", "build"}
Ahead ==
  (IF client.pc = "enqueue" THEN {client.r} ELSE {})
  \cup {RequestQueue[k] : k \in 1 .. Len(RequestQueue)}
  \cup {worker[w].r : w \in {v \in Workers : worker[v].pc \in BeforeIndex}}
Asked(f) == client.pc = "reparse" /\ client.r.file = f
Current(f) == NoAST[f] = Version[f] \/ Indexed[f] = Version[f]
Settled(f) ==
  /\ Current(f)
  /\ \A w \in Workers : Builds(w, f) => worker[w].r.version = Version[f]

\* The newest text of an open file is indexed, unless it gave no AST, and nobody
\* is about to index another one, or it is on its way to the index.
IndexFollows ==
  \A f \in Files : HasDraft[f] =>
    Settled(f) \/ Asked(f) \/ \E r \in Ahead : OnItsWay(f, r)

IndexInv ==
  /\ Indexed \in [Files -> Nat] /\ NoAST \in [Files -> Nat]
  /\ NewestIsOpen /\ BuildsOpen /\ IndexFollows

LEMMA AheadFlies ==
  ASSUME IInv, NEW r \in Ahead, r.kind = "reparse"
  PROVE  r \in Flying /\ r \in Rebuilds
<1>1. r \in Flying BY DEF Ahead, Flying, BeforeIndex
<1> QED BY <1>1, FlyingTyped DEF IInv

\* A step that changes no unit and moves requests without losing one.
LEMMA CalmStep ==
  ASSUME IInv, IndexInv, UNCHANGED <<Units, OpenedFiles, Indexed, NoAST>>,
         Flying' \subseteq Flying \cup Completions,
         \A w \in Workers : worker'[w].pc = "build" => worker'[w] = worker[w],
         \A q \in Ahead : q.kind = "reparse" => q \in Ahead',
         \A f \in Files : HasDraft'[f] =>
           \/ Asked(f)'
           \/ HasDraft[f] /\ Version'[f] = Version[f] /\ ~Asked(f)
  PROVE  IndexInv'
<1>1. \A q : Superseded(q)' <=> Superseded(q) BY DEF Superseded, Unit
<1>2. NewestIsOpen' BY <1>1, CompletionFields DEF IndexInv, NewestIsOpen
<1>3. \A w \in Workers, f \in Files :
        Builds(w, f)' => Builds(w, f) /\ worker'[w].r = worker[w].r
  BY DEF Builds
<1>4. BuildsOpen' BY <1>3 DEF IndexInv, BuildsOpen
<1>5. IndexFollows'
  <2> SUFFICES ASSUME NEW f \in Files, HasDraft'[f], ~Asked(f)'
               PROVE  Settled(f)' \/ \E r \in Ahead' : OnItsWay(f, r)'
    BY DEF IndexFollows, OnItsWay, Superseded, Unit
  <2>1. HasDraft[f] /\ Version'[f] = Version[f] /\ ~Asked(f) OBVIOUS
  <2>2. CASE Settled(f) BY <1>3, <2>1, <2>2 DEF Settled, Current
  <2>3. ASSUME NEW r \in Ahead, OnItsWay(f, r) PROVE r \in Ahead' /\ OnItsWay(f, r)'
    BY <1>1, <2>1, <2>3 DEF OnItsWay
  <2> QED BY <2>1, <2>2, <2>3 DEF IndexInv, IndexFollows
<1> QED BY <1>2, <1>4, <1>5 DEF IndexInv

LEMMA CallsAreCalm == ASSUME IInv, IndexInv, ClientCall \/ getReturns \/ join PROVE IndexInv'
<1>s. Shape BY DEF IInv
<1>1. /\ UNCHANGED <<Units, OpenedFiles, Indexed, NoAST, RequestQueue, worker>>
      /\ client.pc \in {"idle", "get", "join"}
      /\ client'.pc = "enqueue" => client'.r.kind = "complete" /\ client'.r \in Completions
  BY DEF ClientCall, getReturns, join, addDocument, forceReparse, removeDocument, codeComplete,
     findDefinitions, shutdown, Call, IsAt, At, Idle, results, documents, Completions
<1>2. Flying' \subseteq Flying \cup Completions
  BY <1>1 DEF Flying
<1>3. \A q \in Ahead : q \in Ahead'
  BY <1>1 DEF Ahead
<1>4. ASSUME NEW f \in Files, HasDraft'[f]
      PROVE  Asked(f)' \/ (HasDraft[f] /\ Version'[f] = Version[f] /\ ~Asked(f))
  <2>1. ~Asked(f) BY <1>1 DEF Asked
  <2>2. ASSUME NEW g \in Files, addDocument(g) \/ forceReparse(g) \/ removeDocument(g)
        PROVE  Asked(f)' \/ (HasDraft[f] /\ Version'[f] = Version[f])
    BY <1>s, <1>4, <2>2 DEF addDocument, forceReparse, removeDocument, updateDraft, removeDraft,
       documents, Asked, At, Shape
  <2>3. ASSUME NEW g \in Files, codeComplete(g) \/ findDefinitions(g)
        PROVE  HasDraft[f] /\ Version'[f] = Version[f]
    BY <1>4, <2>3 DEF codeComplete, findDefinitions, documents
  <2>4. ASSUME shutdown \/ getReturns \/ join PROVE HasDraft[f] /\ Version'[f] = Version[f]
    BY <1>4, <2>4 DEF shutdown, getReturns, join, documents
  <2> QED BY <2>1, <2>2, <2>3, <2>4 DEF ClientCall
<1> QED BY <1>1, <1>2, <1>3, <1>4, CalmStep

\* The queue after addToFront and after TakeRequest.
LEMMA FrontQueue ==
  ASSUME IInv, addToFront
  PROVE  /\ client.pc = "enqueue" /\ client'.pc = "idle" /\ UNCHANGED <<Units, worker>>
         /\ Len(RequestQueue) \in Nat /\ Len(RequestQueue') = Len(RequestQueue) + 1
         /\ \A k \in 1 .. Len(RequestQueue') :
              \/ k = 1 /\ RequestQueue'[k] = client.r
              \/ /\ k # 1 /\ k - 1 \in 1 .. Len(RequestQueue)
                 /\ RequestQueue'[k] = RequestQueue[k - 1]
<1>1. /\ UNCHANGED <<Units, worker>> /\ client.pc = "enqueue" /\ client'.pc = "idle"
      /\ RequestQueue' = <<client.r>> \o RequestQueue
  BY DEF addToFront, IsAt, Idle
<1> DEFINE S == Rebuilds \cup Completions
           s == <<client.r>>
<1>2. /\ s \in Seq(S) /\ Len(s) = 1 /\ s[1] = client.r
      /\ RequestQueue \in Seq(S) /\ Len(RequestQueue) \in Nat
  BY <1>1 DEF IInv, Shape, ClientShape
<1>3. RequestQueue' = s \o RequestQueue BY <1>1
<1> HIDE DEF S, s
<1>4. /\ Len(RequestQueue') = 1 + Len(RequestQueue)
      /\ \A k \in 1 .. 1 + Len(RequestQueue) :
           RequestQueue'[k] = IF k <= 1 THEN s[k] ELSE RequestQueue[k - 1]
  BY <1>2, <1>3, ConcatProperties
<1> QED BY <1>1, <1>2, <1>4

LEMMA TailQueue ==
  ASSUME IInv, NEW w \in Workers, TakeRequest(w)
  PROVE  \/ worker'[w].pc = "exited" /\ UNCHANGED RequestQueue
         \/ /\ 1 \in 1 .. Len(RequestQueue)
            /\ worker'[w].pc = RequestQueue[1].kind /\ worker'[w].r = RequestQueue[1]
            /\ \A k \in 1 .. Len(RequestQueue') :
                 /\ k + 1 \in 1 .. Len(RequestQueue) /\ k + 1 # 1
                 /\ RequestQueue'[k] = RequestQueue[k + 1]
<1>s. Shape BY DEF IInv
<1>1. CASE Become(w, [pc |-> "exited"]) /\ UNCHANGED RequestQueue
  BY <1>s, <1>1 DEF Become, Shape
<1>2. CASE /\ RequestQueue # <<>> /\ RequestQueue' = Tail(RequestQueue)
           /\ Become(w, At(Head(RequestQueue).kind, Head(RequestQueue)))
  <2>1. /\ Len(RequestQueue) \in Nat \ {0} /\ Head(RequestQueue) = RequestQueue[1]
        /\ Len(RequestQueue') = Len(RequestQueue) - 1
        /\ \A k \in 1 .. Len(RequestQueue) - 1 : RequestQueue'[k] = RequestQueue[k + 1]
    BY <1>s, <1>2 DEF Shape
  <2>2. worker'[w] = At(RequestQueue[1].kind, RequestQueue[1])
    BY <1>s, <1>2, <2>1 DEF Become, Shape
  <2> QED BY <2>1, <2>2 DEF At
<1> QED BY <1>1, <1>2 DEF TakeRequest

LEMMA addToFrontIsCalm == ASSUME IInv, IndexInv, addToFront PROVE IndexInv'
<1>1. /\ UNCHANGED <<Units, OpenedFiles, Indexed, NoAST, worker, HasDraft, Version>>
      /\ client.pc = "enqueue" /\ client'.pc = "idle"
  BY DEF addToFront, IsAt, Idle, documents, results
<1>2. /\ Len(RequestQueue) \in Nat /\ Len(RequestQueue') = Len(RequestQueue) + 1
      /\ \A k \in 1 .. Len(RequestQueue') :
           \/ k = 1 /\ RequestQueue'[k] = client.r
           \/ /\ k # 1 /\ k - 1 \in 1 .. Len(RequestQueue)
              /\ RequestQueue'[k] = RequestQueue[k - 1]
  BY FrontQueue
<1>3. RequestQueue'[1] = client.r /\ 1 \in 1 .. Len(RequestQueue')
  BY <1>2
<1>4. \A k \in 1 .. Len(RequestQueue) :
        k + 1 \in 1 .. Len(RequestQueue') /\ RequestQueue'[k + 1] = RequestQueue[k]
  BY <1>2
<1>5. \A k \in 1 .. Len(RequestQueue') :
        \/ RequestQueue'[k] = client.r
        \/ k - 1 \in 1 .. Len(RequestQueue) /\ RequestQueue'[k] = RequestQueue[k - 1]
  BY <1>2
<1>6. Flying' \subseteq Flying
  BY <1>1, <1>5 DEF Flying
<1>7. \A q \in Ahead : q \in Ahead'
  BY <1>1, <1>3, <1>4 DEF Ahead
<1>8. \A f \in Files : ~Asked(f)
  BY <1>1 DEF Asked
<1> QED BY <1>1, <1>6, <1>7, <1>8, CalmStep

LEMMA WorkersRest ==
  ASSUME IInv, IndexInv, NEW w \in Workers, TakeRequest(w) \/ Finish(w)
  PROVE  IndexInv'
<1>s. Shape BY DEF IInv
<1>1. UNCHANGED <<Units, OpenedFiles, Indexed, NoAST, client, HasDraft, Version>>
  BY DEF TakeRequest, Finish, documents, results
<1>2. ASSUME NEW t, worker' = [worker EXCEPT ![w] = t]
      PROVE  worker'[w] = t /\ \A v \in Workers : v # w => worker'[v] = worker[v]
  BY <1>s, <1>2 DEF Shape
<1>3. /\ worker[w].pc \notin BeforeIndex
      /\ \A v \in Workers : v # w => worker'[v] = worker[v]
  BY <1>2 DEF TakeRequest, Finish, Become, Working, IsAt, BeforeIndex
<1>4. CASE /\ worker'[w].pc \in {"idle", "exited"} /\ UNCHANGED RequestQueue
  <2>1. Flying' \subseteq Flying BY <1>1, <1>3, <1>4 DEF Flying
  <2>2. \A q \in Ahead : q \in Ahead' BY <1>1, <1>3, <1>4 DEF Ahead
  <2>3. \A v \in Workers : worker'[v].pc = "build" => worker'[v] = worker[v]
    BY <1>3, <1>4
  <2>4. \A f \in Files : Asked(f)' <=> Asked(f) BY <1>1 DEF Asked
  <2> QED BY <1>1, <2>1, <2>2, <2>3, <2>4, CalmStep
<1>5. CASE /\ RequestQueue # <<>> /\ RequestQueue' = Tail(RequestQueue)
           /\ worker'[w] = At(Head(RequestQueue).kind, Head(RequestQueue))
  <2>1. PICK r : r = RequestQueue[1] OBVIOUS
  <2>2. /\ Len(RequestQueue) \in Nat \ {0} /\ r = Head(RequestQueue)
        /\ Len(RequestQueue') = Len(RequestQueue) - 1
        /\ \A k \in 1 .. Len(RequestQueue) - 1 : RequestQueue'[k] = RequestQueue[k + 1]
    BY <1>s, <1>5, <2>1 DEF Shape
  <2>3. r \in Flying BY <2>1, <2>2 DEF Flying
  <2>4. r.kind \in {"reparse", "cancel", "complete"} BY <2>3, FlyingTyped DEF IInv
  <2>5. worker'[w].pc = r.kind /\ worker'[w].r = r BY <1>5, <2>2 DEF At
  <2>6. \A k \in 1 .. Len(RequestQueue') :
          k + 1 \in 1 .. Len(RequestQueue) /\ RequestQueue'[k] = RequestQueue[k + 1]
    BY <2>2
  <2>7. \A k \in 1 .. Len(RequestQueue) : k # 1 =>
          k - 1 \in 1 .. Len(RequestQueue') /\ RequestQueue'[k - 1] = RequestQueue[k]
    BY <2>2
  <2>8. Flying' \subseteq Flying
    <3>1. \A v \in Workers : worker'[v].pc \notin {"idle", "exited"} => worker'[v].r \in Flying
      BY <1>3, <2>3, <2>5 DEF Flying
    <3> QED BY <1>1, <2>6, <3>1 DEF Flying
  <2>9. ASSUME NEW q \in Ahead, q.kind = "reparse" PROVE q \in Ahead'
    <3>1. CASE q = r BY <2>5, <2>9, <3>1 DEF Ahead, BeforeIndex
    <3>2. CASE q # r
      <4>1. CASE client.pc = "enqueue" /\ q = client.r BY <1>1, <4>1 DEF Ahead
      <4>2. ASSUME NEW k \in 1 .. Len(RequestQueue), q = RequestQueue[k] PROVE q \in Ahead'
        <5>1. PICK j \in 1 .. Len(RequestQueue') : RequestQueue'[j] = q
          BY <2>1, <2>7, <3>2, <4>2
        <5> QED BY <5>1 DEF Ahead
      <4>3. ASSUME NEW v \in Workers, worker[v].pc \in BeforeIndex, q = worker[v].r
            PROVE  q \in Ahead'
        BY <1>3, <4>3 DEF Ahead
      <4> QED BY <4>1, <4>2, <4>3 DEF Ahead
    <3> QED BY <3>1, <3>2
  <2>10. \A v \in Workers : worker'[v].pc = "build" => worker'[v] = worker[v]
    BY <1>3, <2>4, <2>5
  <2>11. \A f \in Files : Asked(f)' <=> Asked(f) BY <1>1 DEF Asked
  <2> QED BY <1>1, <2>8, <2>9, <2>10, <2>11, CalmStep
<1>6. CASE TakeRequest(w)
  <2>1. CASE Done /\ Become(w, [pc |-> "exited"]) /\ UNCHANGED RequestQueue
    BY <1>2, <1>4, <2>1 DEF Become
  <2>2. CASE /\ ~Done /\ RequestQueue # <<>>
             /\ Become(w, At(Head(RequestQueue).kind, Head(RequestQueue)))
             /\ RequestQueue' = Tail(RequestQueue)
    BY <1>2, <1>5, <2>2 DEF Become
  <2> QED BY <1>6, <2>1, <2>2 DEF TakeRequest
<1>7. CASE Finish(w)
  BY <1>2, <1>4, <1>7 DEF Finish, Become, Idle
<1> QED BY <1>6, <1>7

\* A worker goes on with its request r to the place l.
LEMMA MoveIndexed ==
  ASSUME IInv, IndexInv, NEW w \in Workers, NEW r, r = worker[w].r,
         worker[w].pc \in Reparsing \cup {"cancel"}, NEW l, l \notin {"idle", "exited"},
         Moves(w, l), Kept(r),
         Indexed' \in [Files -> Nat], NoAST' \in [Files -> Nat],
         \A f \in Files : IF worker[w].pc = "build" /\ r.file = f
                        THEN r.version \in {Indexed'[f], NoAST'[f]}
                        ELSE Indexed'[f] = Indexed[f] /\ NoAST'[f] = NoAST[f],
         l = "build" => worker[w].pc = "preamble" /\ ~Superseded(r),
         worker[w].pc \in BeforeIndex /\ ~Superseded(r) /\ r.version = Version[r.file] =>
           l \in BeforeIndex \/ worker[w].pc = "build"
  PROVE  IndexInv'
<1>s. Shape BY DEF IInv
<1>a. /\ r \in Rebuilds /\ r \in Flying /\ Sound(r) /\ r.file \in Files
      /\ worker[w].pc \notin {"idle", "exited"}
      /\ worker[w].pc \in Reparsing => r.kind = "reparse"
  BY AtWork, RebuildFields DEF Reparsing, Guard
<1>m. /\ worker'[w].pc = l /\ worker'[w].r = r
      /\ \A v \in Workers : v # w => worker'[v] = worker[v]
      /\ Flying' = Flying
      /\ \A q \in Flying : q \in Rebuilds => (Superseded(q)' <=> Superseded(q))
  BY <1>a, MoveKeeps
<1>u. UNCHANGED <<Version, HasDraft, OpenedFiles, RequestQueue, client>> BY DEF Moves
<1>1. NewestIsOpen'
  <2> SUFFICES ASSUME NEW q \in Flying, q.kind = "reparse", ~Superseded(q)'
               PROVE  q.unit = OpenedFiles[q.file]
    BY <1>m, <1>u DEF NewestIsOpen
  <2>1. q \in Rebuilds BY FlyingTyped DEF IInv
  <2> QED BY <2>1, <1>m DEF IndexInv, NewestIsOpen
<1>2. ASSUME NEW v \in Workers, NEW f \in Files, Builds(v, f)'
      PROVE  \/ Builds(v, f) /\ worker'[v].r = worker[v].r
             \/ v = w /\ l = "build" /\ f = r.file
  BY <1>2, <1>m DEF Builds
<1>3. l = "build" => ~Superseded(r) /\ r.kind = "reparse" /\ r.unit = OpenedFiles[r.file]
  BY <1>a DEF IndexInv, NewestIsOpen, Reparsing, Guard
<1>4. BuildsOpen' BY <1>2, <1>3, <1>m, <1>u DEF IndexInv, BuildsOpen
<1>5. IndexFollows'
  <2> SUFFICES ASSUME NEW f \in Files, HasDraft[f], ~Asked(f)
               PROVE  Settled(f)' \/ \E q \in Ahead' : OnItsWay(f, q)'
    BY <1>u DEF IndexFollows, Asked, OnItsWay, Superseded, Unit
  <2>1. ASSUME NEW q \in Ahead, OnItsWay(f, q), q \in Ahead' PROVE OnItsWay(f, q)'
    <3>1. q \in Flying /\ q \in Rebuilds BY <2>1, AheadFlies DEF OnItsWay
    <3> QED BY <2>1, <3>1, <1>m, <1>u DEF OnItsWay
  <2>2. ASSUME NEW q \in Ahead, OnItsWay(f, q), ~(worker[w].pc = "build" /\ q = r)
        PROVE  q \in Ahead'
    <3>1. CASE client.pc = "enqueue" /\ q = client.r BY <3>1, <1>u DEF Ahead
    <3>2. CASE q \in {RequestQueue[k] : k \in 1 .. Len(RequestQueue)} BY <3>2, <1>u DEF Ahead
    <3>3. ASSUME NEW v \in Workers, worker[v].pc \in BeforeIndex, q = worker[v].r
          PROVE  q \in Ahead'
      <4>1. CASE v # w BY <3>3, <4>1, <1>m DEF Ahead
      <4>2. CASE v = w
        <5>1. q = r /\ ~Superseded(r) /\ r.version = Version[r.file] /\ worker[w].pc # "build"
          BY <2>2, <3>3, <4>2 DEF OnItsWay
        <5>2. l \in BeforeIndex BY <3>3, <4>2, <5>1
        <5> QED BY <5>1, <5>2, <1>m DEF Ahead
      <4> QED BY <4>1, <4>2
    <3> QED BY <3>1, <3>2, <3>3 DEF Ahead
  <2>3. CASE Settled(f)
    <3>1. \A v \in Workers : Builds(v, f) => worker[v].r.version = Version[f]
      BY <2>3 DEF Settled
    <3>2. Current(f)'
      <4>1. worker[w].pc = "build" /\ r.file = f => r.version = Version[f]
        BY <3>1 DEF Builds
      <4> QED BY <2>3, <4>1, <1>u DEF Settled, Current
    <3>3. ASSUME l = "build", r.file = f PROVE r.version = Version[f]
      <4>1. ~Changing(f) BY DEF Changing, Asked, IInv, ClientShape
      <4> QED BY <1>a, <1>3, <3>3, <4>1 DEF Sound
    <3>4. \A v \in Workers : Builds(v, f)' => worker'[v].r.version = Version[f]
      BY <1>2, <1>m, <3>1, <3>3
    <3> QED BY <3>2, <3>4, <1>u DEF Settled, Builds
  <2>4. ASSUME NEW q \in Ahead, OnItsWay(f, q), worker[w].pc = "build", q = r PROVE Settled(f)'
    <3>1. /\ r.file = f /\ r.version = Version[f] /\ ~Superseded(r) /\ r.kind = "reparse"
          /\ l # "build"
      BY <2>4 DEF OnItsWay
    <3>2. Current(f)'
      BY <2>4, <3>1, <1>u DEF Current
    <3>3. r.unit = OpenedFiles[f] /\ r.unit # 0
      BY <3>1, <1>a, RebuildFields DEF IndexInv, NewestIsOpen
    <3>4. ASSUME NEW v \in Workers, Builds(v, f)' PROVE FALSE
      <4>1. Builds(v, f) /\ v # w
        BY <1>2, <1>m, <3>1, <3>4 DEF Builds
      <4>2. worker[v].r.unit = r.unit
        BY <3>3, <4>1 DEF IndexInv, BuildsOpen
      <4> QED BY <2>4, <3>1, <4>1, <4>2 DEF IInv, Guarded, Guard, Builds
    <3> QED BY <3>2, <3>4, <1>u DEF Settled, Builds
  <2> QED BY <2>1, <2>2, <2>3, <2>4 DEF IndexInv, IndexFollows
<1> QED BY <1>1, <1>4, <1>5 DEF IndexInv

LEMMA WorkersMove ==
  ASSUME IInv, IndexInv, NEW w \in Workers,
         \/ CheckVersion(w) \/ EnterGuard(w) \/ PublishPreamble(w) \/ BuildAST(w)
         \/ PublishAST(w) \/ LeaveGuard(w) \/ PublishDiags(w) \/ CancelReparses(w)
  PROVE  IndexInv'
<1>1. PICK r : r = worker[w].r OBVIOUS
<1>s. Shape BY DEF IInv
<1> USE DEF Working, IsAt, Moves, documents, results
<1>t. Indexed \in [Files -> Nat] /\ NoAST \in [Files -> Nat] BY DEF IndexInv
<1>2. CASE CheckVersion(w)
  <2>1. PICK l : l = IF Outdated(r) THEN "finish" ELSE "rebuild" OBVIOUS
  <2>2. worker[w].pc = "reparse" /\ Moves(w, l) /\ UNCHANGED <<Units, Indexed, NoAST>>
    BY <1>1, <1>2, <2>1 DEF CheckVersion
  <2>3. worker[w].pc \in Reparsing BY <2>2 DEF Reparsing
  <2>4. r.version = Version[r.file] => l \in BeforeIndex BY <2>1 DEF Outdated, BeforeIndex
  <2>5. l \notin {"idle", "exited", "build"} BY <2>1
  <2> QED BY <1>1, <1>t, <1>s, <2>2, <2>3, <2>4, <2>5, UnchangedKeeps, MoveIndexed
<1>3. CASE PublishPreamble(w)
  <2>1. PICK l : l = IF Superseded(r) THEN "leave" ELSE "build" OBVIOUS
  <2>2. worker[w].pc = "preamble" /\ Moves(w, l) /\ UNCHANGED <<Units, Indexed, NoAST>>
    BY <1>1, <1>3, <2>1 DEF PublishPreamble, GiveUp
  <2>3. worker[w].pc \in Reparsing BY <2>2 DEF Reparsing, Guard
  <2>4. ~Superseded(r) => l \in BeforeIndex BY <2>1 DEF BeforeIndex
  <2>5. l \notin {"idle", "exited"} /\ (l = "build" => ~Superseded(r)) BY <2>1
  <2> QED BY <1>1, <1>t, <1>s, <2>2, <2>3, <2>4, <2>5, UnchangedKeeps, MoveIndexed
<1>4. CASE BuildAST(w)
  <2>1. PICK l : l = "publish" OBVIOUS
  <2>2. /\ worker[w].pc = "build" /\ Moves(w, l) /\ UNCHANGED Units
        /\ \/ /\ Indexed' = [Indexed EXCEPT ![r.file] = r.version]
              /\ NoAST' = [NoAST EXCEPT ![r.file] = 0]
           \/ /\ NoAST' = [NoAST EXCEPT ![r.file] = r.version]
              /\ UNCHANGED Indexed
    BY <1>1, <1>4, <2>1 DEF BuildAST
  <2>3. worker[w].pc \in Reparsing BY <2>2 DEF Reparsing, Guard
  <2>4. r.file \in Files /\ r.version \in Nat BY <1>1, <2>3, AtWork, RebuildFields
  <2>5. /\ Indexed' \in [Files -> Nat] /\ NoAST' \in [Files -> Nat]
        /\ r.version \in {Indexed'[r.file], NoAST'[r.file]}
        /\ \A f \in Files : f # r.file => Indexed'[f] = Indexed[f] /\ NoAST'[f] = NoAST[f]
    BY <1>t, <2>2, <2>4
  <2>6. Kept(r) BY <1>s, <2>2, UnchangedKeeps
  <2>7. /\ l \notin {"idle", "exited"} /\ l # "build"
        /\ \A f \in Files : IF worker[w].pc = "build" /\ r.file = f
                          THEN r.version \in {Indexed'[f], NoAST'[f]}
                          ELSE Indexed'[f] = Indexed[f] /\ NoAST'[f] = NoAST[f]
    BY <2>1, <2>2, <2>5
  <2> QED BY <1>1, <2>2, <2>3, <2>5, <2>6, <2>7, MoveIndexed
<1>5. CASE PublishDiags(w)
  <2>1. PICK l : l = "finish" OBVIOUS
  <2>2. worker[w].pc = "diags" /\ Moves(w, l) /\ UNCHANGED <<Units, Indexed, NoAST>>
    BY <1>1, <1>5, <2>1 DEF PublishDiags
  <2>3. worker[w].pc \in Reparsing /\ worker[w].pc \notin BeforeIndex
    BY <2>2 DEF Reparsing, Guard, BeforeIndex
  <2> QED BY <1>1, <1>t, <1>s, <2>1, <2>2, <2>3, UnchangedKeeps, MoveIndexed
<1>6. ASSUME worker[w].pc \in Reparsing \cup {"cancel"},
             NEW u, SetUnit(r, u), u \in {[Unit(r) EXCEPT !.InProgress = TRUE],
                                          [Unit(r) EXCEPT !.InProgress = FALSE],
                                          Fulfilled(r, r.version), Fulfilled(r, 0)}
      PROVE  Kept(r)
  <2>1. r \in Rebuilds /\ Sound(r) BY <1>1, <1>6, AtWork
  <2>2. Unit(r) \in UnitRecords /\ r.version \in Nat BY <1>s, <2>1, UnitOf, RebuildFields
  <2>3. u \in UnitRecords /\ u.RebuildCounter = Unit(r).RebuildCounter
    <3>1. CASE u = [Unit(r) EXCEPT !.InProgress = TRUE] BY <2>2, <3>1 DEF UnitRecords
    <3>2. CASE u = [Unit(r) EXCEPT !.InProgress = FALSE] BY <2>2, <3>2 DEF UnitRecords
    <3>3. ASSUME NEW a \in Nat, u = Fulfilled(r, a)
          PROVE  u \in UnitRecords /\ u.RebuildCounter = Unit(r).RebuildCounter
      BY <2>2, <3>3 DEF UnitRecords, Fulfilled
    <3> QED BY <1>6, <2>2, <3>1, <3>2, <3>3
  <2> QED BY <1>6, <1>s, <2>1, <2>3, SetUnitKeeps
<1>7. CASE EnterGuard(w)
  <2>1. PICK l : l = IF Superseded(r) THEN "finish" ELSE "preamble" OBVIOUS
  <2>2. worker[w].pc = "rebuild" /\ Moves(w, l) /\ UNCHANGED <<Indexed, NoAST>>
    BY <1>1, <1>7, <2>1 DEF EnterGuard
  <2>3. worker[w].pc \in Reparsing BY <2>2 DEF Reparsing
  <2>4. ~Superseded(r) => l \in BeforeIndex BY <2>1 DEF BeforeIndex
  <2>5. l \notin {"idle", "exited", "build"} BY <2>1
  <2>6. Kept(r)
    <3>1. CASE UNCHANGED Units BY <1>s, <3>1, UnchangedKeeps
    <3>2. CASE SetUnit(r, [Unit(r) EXCEPT !.InProgress = TRUE]) BY <1>6, <2>3, <3>2
    <3> QED BY <1>1, <1>7, <3>1, <3>2 DEF EnterGuard
  <2> QED BY <1>1, <1>t, <2>2, <2>3, <2>4, <2>5, <2>6, MoveIndexed
<1>8. CASE PublishAST(w)
  <2>1. PICK l : l = "leavewithdiags" OBVIOUS
  <2>2. worker[w].pc = "publish" /\ Moves(w, l) /\ UNCHANGED <<Indexed, NoAST>>
    BY <1>1, <1>8, <2>1 DEF PublishAST
  <2>3. worker[w].pc \in Reparsing /\ worker[w].pc \notin BeforeIndex
    BY <2>2 DEF Reparsing, Guard, BeforeIndex
  <2>4. Kept(r) BY <1>1, <1>6, <1>8, <2>3 DEF PublishAST
  <2> QED BY <1>1, <1>t, <2>1, <2>2, <2>3, <2>4, MoveIndexed DEF BeforeIndex
<1>9. CASE LeaveGuard(w)
  <2>1. PICK l : l = IF worker[w].pc = "leave" THEN "finish" ELSE "diags" OBVIOUS
  <2>2. worker[w].pc \in {"leave", "leavewithdiags"} /\ Moves(w, l) /\ UNCHANGED <<Indexed, NoAST>>
    BY <1>1, <1>9, <2>1 DEF LeaveGuard
  <2>3. worker[w].pc \in Reparsing /\ worker[w].pc \notin BeforeIndex
    BY <2>2 DEF Reparsing, Guard, BeforeIndex
  <2>4. Kept(r) BY <1>1, <1>6, <1>9, <2>3 DEF LeaveGuard
  <2> QED BY <1>1, <1>t, <2>1, <2>2, <2>3, <2>4, MoveIndexed DEF BeforeIndex
<1>10. CASE CancelReparses(w)
  <2>1. PICK l : l = "finish" OBVIOUS
  <2>2. worker[w].pc = "cancel" /\ Moves(w, l) /\ UNCHANGED <<Indexed, NoAST>>
    BY <1>1, <1>10, <2>1 DEF CancelReparses
  <2>3. worker[w].pc \in Reparsing \cup {"cancel"} /\ worker[w].pc \notin BeforeIndex
    BY <2>2 DEF BeforeIndex
  <2>4. Kept(r) BY <1>1, <1>6, <1>10, <2>3 DEF CancelReparses
  <2> QED BY <1>1, <1>t, <2>1, <2>2, <2>3, <2>4, MoveIndexed DEF BeforeIndex
<1> QED BY <1>2, <1>3, <1>4, <1>5, <1>7, <1>8, <1>9, <1>10

\* The client tells a unit of a new request: only the requests of the file that is
\* open give way to it.
LEMMA DeferIndexed ==
  ASSUME IInv, IndexInv, NEW f \in Files, NEW vs, NEW i, NEW r, Defers(f, vs, i, r),
         r.kind = "reparse" /\ OpenedFiles[f] = 0 => \A w \in Workers : ~Builds(w, f)
  PROVE  IndexInv'
<1>1. /\ OpenedFiles'[f] = IF r.kind = "reparse" THEN i ELSE 0
      /\ Units'[f] = vs
      /\ \A g \in Files \ {f} : OpenedFiles'[g] = OpenedFiles[g]
  BY DeferredUnits
<1>2. ASSUME NEW q \in Flying, q \in Rebuilds
      PROVE  /\ q.file = f /\ q.unit = i => Superseded(q)'
             /\ ~(q.file = f /\ q.unit = i) => (Superseded(q)' <=> Superseded(q))
             /\ q.file \in Files /\ q.unit # 0 /\ q.unit \in 1 .. Len(Units[q.file])
  BY <1>2, DeferKeeps, RebuildFields
<1> USE DEF Defers, results
<1>s. Shape /\ ClientShape BY DEF IInv
<1>3. Flying' \subseteq Flying \cup {r} BY DEF Flying
<1>4. NewestIsOpen'
  <2> SUFFICES ASSUME NEW q \in Flying', q.kind = "reparse", ~Superseded(q)'
               PROVE  q.unit = OpenedFiles'[q.file]
    BY DEF NewestIsOpen
  <2>1. CASE q = r BY <1>1, <2>1
  <2>2. CASE q \in Flying
    <3>1. q \in Rebuilds BY <2>2, FlyingTyped DEF IInv
    <3>2. ~(q.file = f /\ q.unit = i) /\ ~Superseded(q) BY <1>2, <2>2, <3>1
    <3>3. q.unit = OpenedFiles[q.file] BY <2>2, <3>2 DEF IndexInv, NewestIsOpen
    <3>4. q.file # f BY <1>2, <2>2, <3>1, <3>2, <3>3
    <3> QED BY <1>1, <1>2, <2>2, <3>1, <3>3, <3>4
  <2> QED BY <1>3, <2>1, <2>2
<1>5. BuildsOpen'
  <2> SUFFICES ASSUME NEW w \in Workers, NEW g \in Files, Builds(w, g)
               PROVE  OpenedFiles'[g] \in {0, worker[w].r.unit}
    BY DEF BuildsOpen, Builds
  <2>1. OpenedFiles[g] \in {0, worker[w].r.unit} BY DEF IndexInv, BuildsOpen
  <2>2. CASE g = f BY <1>1, <2>1, <2>2
  <2>3. CASE g # f BY <1>1, <2>1, <2>3
  <2> QED BY <2>2, <2>3
<1>6. IndexFollows'
  <2> SUFFICES ASSUME NEW g \in Files, HasDraft[g]
               PROVE  Settled(g)' \/ \E q \in Ahead' : OnItsWay(g, q)'
    BY DEF IndexFollows, OnItsWay, Superseded, Unit
  <2>1. CASE g = f
    <3>1. r.kind = "reparse" BY <2>1, RebuildFields
    <3>2. ~Superseded(r)' BY <1>1 DEF Superseded, Unit
    <3>3. r \in Ahead' BY DEF Ahead
    <3> QED BY <2>1, <3>1, <3>2, <3>3 DEF OnItsWay
  <2>2. CASE g # f
    <3>1. ~Asked(g) BY <2>2 DEF Asked
    <3>2. Settled(g) => Settled(g)' BY DEF Settled, Current, Builds
    <3>3. ASSUME NEW q \in Ahead, OnItsWay(g, q) PROVE q \in Ahead' /\ OnItsWay(g, q)'
      <4>1. q \in Flying /\ q \in Rebuilds BY <3>3, AheadFlies DEF OnItsWay
      <4>2. q \in Ahead' BY DEF Ahead
      <4> QED BY <1>2, <2>2, <3>3, <4>1, <4>2 DEF OnItsWay
    <3> QED BY <3>1, <3>2, <3>3 DEF IndexInv, IndexFollows
  <2> QED BY <2>1, <2>2
<1> QED BY <1>4, <1>5, <1>6 DEF IndexInv

\* The step that makes the difference: it may not open a file that is being built.
LEMMA SchedulesFollow ==
  ASSUME IInv, IndexInv, scheduleReparseAndDiags \/ scheduleCancelRebuild, ~ReopensDuringBuild
  PROVE  IndexInv'
<1>1. CASE scheduleReparseAndDiags
  <2>1. PICK f \in Files, vs \in Seq(UnitRecords), i \in Nat, r \in Rebuilds :
               Defers(f, vs, i, r) /\ r.kind = "reparse"
    BY <1>1, ReparseDefers
  <2>2. f = client.r.file BY <2>1 DEF Defers
  <2>3. OpenedFiles[f] = 0 => \A w \in Workers : ~Builds(w, f)
    BY <1>1, <2>2 DEF ReopensDuringBuild, Builds, Working, IsAt
  <2> QED BY <2>1, <2>3, DeferIndexed
<1>2. CASE scheduleCancelRebuild /\ OpenedFiles[client.r.file] # 0
  <2>1. PICK f \in Files, vs \in Seq(UnitRecords), i \in Nat, r \in Rebuilds :
               Defers(f, vs, i, r) /\ r.kind = "cancel"
    BY <1>2, CancelDefers
  <2> QED BY <2>1, DeferIndexed
<1>3. CASE scheduleCancelRebuild /\ OpenedFiles[client.r.file] = 0
  <2>1. /\ client.pc = "cancel" /\ client' = Idle /\ UNCHANGED Units
        /\ OpenedFiles' = [OpenedFiles EXCEPT ![client.r.file] = 0]
        /\ UNCHANGED <<Version, HasDraft, RequestQueue, worker, Indexed, NoAST>>
    BY <1>3 DEF scheduleCancelRebuild, removeIfPresent, IsAt, results
  <2>2. OpenedFiles' = OpenedFiles BY <1>3, <2>1 DEF IInv, Shape
  <2>3. Flying' \subseteq Flying BY <2>1 DEF Flying, Idle
  <2>4. \A q \in Ahead : q \in Ahead' BY <2>1 DEF Ahead, Idle
  <2>5. \A g \in Files : ~Asked(g) BY <2>1 DEF Asked
  <2> QED BY <2>1, <2>2, <2>3, <2>4, <2>5, CalmStep
<1> QED BY <1>1, <1>2, <1>3

LEMMA IndexStep ==
  ASSUME IInv, IndexInv, [Next /\ ~ReopensDuringBuild]_vars
  PROVE  IndexInv'
<1>1. ASSUME ClientCall \/ ClientStep, ~ReopensDuringBuild PROVE IndexInv'
  BY <1>1, CallsAreCalm, addToFrontIsCalm, SchedulesFollow DEF ClientStep
<1>2. ASSUME NEW w \in Workers, WorkerStep(w) PROVE IndexInv'
  BY <1>2, WorkersRest, WorkersMove DEF WorkerStep
<1>3. CASE UNCHANGED vars
  <2>1. /\ UNCHANGED <<Units, OpenedFiles, Indexed, NoAST, worker, HasDraft, Version>>
        /\ Flying' = Flying /\ Ahead' = Ahead /\ \A f : Asked(f)' <=> Asked(f)
    BY <1>3 DEF vars, Flying, Ahead, Asked
  <2> QED BY <2>1, CalmStep
<1> QED BY <1>1, <1>2, <1>3 DEF Next, Destroyed

\* IndexIsCurrent, which does not hold, is lost only by opening a file again while
\* its old CppFile is still being built: as long as nobody does that, the index of
\* a server with nothing left to do is that of the current texts, in whatever order
\* the requests were taken, and whichever builds gave no AST, except for the files
\* whose last build gave none.  (FileIdx->update is one step here; FileIndex has
\* what two updates at once can do.)
THEOREM IndexFollowsUnlessReopened ==
  Init /\ [][Next /\ ~ReopensDuringBuild]_vars => []IndexIsCurrent
<1>1. Init => IndexInv
  <2> SUFFICES ASSUME Init PROVE IndexInv
    OBVIOUS
  <2>1. Indexed \in [Files -> Nat] /\ NoAST \in [Files -> Nat] BY DEF Init
  <2>2. Flying = {} /\ \A w \in Workers, f \in Files : ~Builds(w, f)
    BY DEF Init, Flying, Builds, Idle
  <2> QED BY <2>1, <2>2 DEF Init, IndexInv, NewestIsOpen, BuildsOpen, IndexFollows
<1>2. IInv /\ IndexInv => IndexIsCurrent
  <2> SUFFICES ASSUME IInv, IndexInv, Quiet, NEW f \in Files, HasDraft[f]
               PROVE  Current(f)
    BY DEF IndexIsCurrent, Current
  <2>1. /\ client.pc = "idle" /\ Len(RequestQueue) = 0
        /\ \A w \in Workers : worker[w].pc = "idle"
    BY DEF Quiet, IsAt, Working
  <2>2. ~Asked(f) /\ Ahead = {} BY <2>1 DEF Asked, Ahead, BeforeIndex
  <2> QED BY <2>2 DEF IndexInv, IndexFollows, Settled
<1>3. [Next /\ ~ReopensDuringBuild]_vars => [Next]_vars
  OBVIOUS
<1> QED BY <1>1, <1>2, <1>3, InitHolds, StepHolds, IndexStep, PTL
-----------------------------------------------------------------------------
(* Requests and futures: what CppFile.tla takes for granted of its caller. *)

Busy(w) == worker[w].pc \notin {"idle", "exited"}
Twins(r, q) ==
  /\ r.kind # "complete" /\ q.kind # "complete"
  /\ r.file = q.file /\ r.unit = q.unit /\ r.counter = q.counter

\* Every deferred computation is at one place: on its way to the queue, in the
\* queue or with a worker, so that it is run at most once.
RequestsAreSingle ==
  /\ client.pc = "enqueue" =>
       /\ \A k \in 1 .. Len(RequestQueue) : ~Twins(client.r, RequestQueue[k])
       /\ \A w \in Workers : Busy(w) => ~Twins(client.r, worker[w].r)
  /\ \A k \in 1 .. Len(RequestQueue) :
       /\ \A j \in 1 .. Len(RequestQueue) : j # k => ~Twins(RequestQueue[j], RequestQueue[k])
       /\ \A w \in Workers : Busy(w) => ~Twins(RequestQueue[k], worker[w].r)
  /\ \A v, w \in Workers : Busy(v) /\ Busy(w) /\ v # w => ~Twins(worker[v].r, worker[w].r)

\* The requests that have not reached the future of their unit, and the future
\* that the newest of them is to fulfil.
BeforeFuture == {"reparse", "rebuild", "preamble", "build", "publish", "cancel"}
Unanswered ==
  (IF client.pc = "enqueue" THEN {client.r} ELSE {})
  \cup {RequestQueue[k] : k \in 1 .. Len(RequestQueue)}
  \cup {worker[w].r : w \in {v \in Workers : worker[v].pc \in BeforeFuture}}
FuturesPend ==
  \A r \in Unanswered : r.kind # "complete" /\ ~Superseded(r) => ~Unit(r).ready

\* No promise of a unit is set twice: std::promise would throw on a worker.
PromisesSetOnce ==
  \A w \in Workers : worker[w].pc \in {"publish", "cancel"} /\ ~Superseded(worker[w].r) =>
    ~Unit(worker[w].r).ready

\* A step that moves no request, except that a worker may be done with its own.
LEMMA PlacesKept ==
  ASSUME RequestsAreSingle, UNCHANGED RequestQueue,
         client'.pc = "enqueue" => client' = client \/ client'.r.kind = "complete",
         \A w \in Workers : Busy(w)' => Busy(w) /\ worker'[w].r = worker[w].r
  PROVE  RequestsAreSingle'
BY DEF RequestsAreSingle, Twins

\* A step that makes no future ready.
LEMMA FuturesKept ==
  ASSUME IInv, FuturesPend, Unanswered' \subseteq Unanswered \cup Completions,
         UNCHANGED Units
         \/ \E r \in Rebuilds : Kept(r) /\ Sound(r) /\ Unit(r)'.ready = Unit(r).ready
  PROVE  FuturesPend'
<1> SUFFICES ASSUME NEW q \in Unanswered', q.kind # "complete", ~Superseded(q)'
             PROVE  ~Unit(q)'.ready
  BY DEF FuturesPend
<1>1. q \in Unanswered /\ q \in Flying
  BY CompletionFields DEF Unanswered, Flying, BeforeFuture
<1>2. CASE UNCHANGED Units BY <1>1, <1>2 DEF FuturesPend, Superseded, Unit
<1>3. ASSUME NEW r \in Rebuilds, Kept(r), Sound(r), Unit(r)'.ready = Unit(r).ready
      PROVE  ~Unit(q)'.ready
  <2>1. q \in Rebuilds /\ Sound(q) BY <1>1, FlyingTyped DEF IInv, AllSound
  <2>2. q.file \in Files /\ q.unit \in 1 .. Len(Units[q.file])
    BY <2>1, UnitOf, RebuildFields DEF IInv
  <2>3. /\ Unit(q)'.RebuildCounter = Unit(q).RebuildCounter
        /\ ~(q.file = r.file /\ q.unit = r.unit) => Unit(q)' = Unit(q)
    BY <1>3, <2>2 DEF Kept, Unit
  <2>4. Unit(q)'.ready = Unit(q).ready BY <1>3, <2>3 DEF Unit
  <2> QED BY <1>1, <2>3, <2>4 DEF FuturesPend, Superseded
<1> QED BY <1>2, <1>3

LEMMA CallsMoveNothing ==
  ASSUME IInv, RequestsAreSingle, FuturesPend, ClientCall \/ getReturns \/ join
  PROVE  RequestsAreSingle' /\ FuturesPend'
<1>1. /\ UNCHANGED <<Units, RequestQueue, worker>>
      /\ client'.pc = "enqueue" => client'.r.kind = "complete" /\ client'.r \in Completions
  BY DEF ClientCall, getReturns, join, addDocument, forceReparse, removeDocument, codeComplete,
     findDefinitions, shutdown, Call, IsAt, At, Idle, results, documents, Completions
<1>2. RequestsAreSingle' BY <1>1, PlacesKept DEF Busy
<1>3. Unanswered' \subseteq Unanswered \cup Completions BY <1>1 DEF Unanswered
<1> QED BY <1>1, <1>2, <1>3, FuturesKept

LEMMA addToFrontMoves ==
  ASSUME IInv, RequestsAreSingle, FuturesPend, addToFront
  PROVE  RequestsAreSingle' /\ FuturesPend'
<1>1. PICK r : r = client.r OBVIOUS
<1>2. /\ client.pc = "enqueue" /\ client'.pc = "idle" /\ UNCHANGED <<Units, worker>>
      /\ Len(RequestQueue) \in Nat
      /\ \A k \in 1 .. Len(RequestQueue') :
           \/ k = 1 /\ RequestQueue'[k] = r
           \/ /\ k # 1 /\ k - 1 \in 1 .. Len(RequestQueue)
              /\ RequestQueue'[k] = RequestQueue[k - 1]
  BY <1>1, FrontQueue
<1>3. RequestsAreSingle'
  <2>1. ASSUME NEW k \in 1 .. Len(RequestQueue'), NEW j \in 1 .. Len(RequestQueue'), j # k
        PROVE  ~Twins(RequestQueue'[j], RequestQueue'[k])
    <3>1. CASE j = 1 BY <1>1, <1>2, <2>1, <3>1 DEF RequestsAreSingle
    <3>2. CASE k = 1
      <4>1. ~Twins(RequestQueue'[k], RequestQueue'[j])
        BY <1>1, <1>2, <2>1, <3>2 DEF RequestsAreSingle
      <4> QED BY <4>1 DEF Twins
    <3>3. CASE j # 1 /\ k # 1
      <4>1. j - 1 # k - 1 BY <1>2, <2>1
      <4> QED BY <1>2, <3>3, <4>1 DEF RequestsAreSingle
    <3> QED BY <3>1, <3>2, <3>3
  <2>2. ASSUME NEW k \in 1 .. Len(RequestQueue'), NEW w \in Workers, Busy(w)
        PROVE  ~Twins(RequestQueue'[k], worker[w].r)
    BY <1>1, <1>2, <2>2 DEF RequestsAreSingle
  <2> QED BY <1>2, <2>1, <2>2 DEF RequestsAreSingle, Busy
<1>4. Unanswered' \subseteq Unanswered
  BY <1>1, <1>2 DEF Unanswered
<1> QED BY <1>2, <1>3, <1>4, FuturesKept

LEMMA TakeMoves ==
  ASSUME IInv, RequestsAreSingle, FuturesPend, NEW w \in Workers, TakeRequest(w) \/ Finish(w)
  PROVE  RequestsAreSingle' /\ FuturesPend'
<1>1. UNCHANGED <<Units, client>> /\ \A v \in Workers : v # w => worker'[v] = worker[v]
  BY DEF TakeRequest, Finish, Become, documents, IInv, Shape
<1>2. CASE worker'[w].pc \in {"idle", "exited"} /\ UNCHANGED RequestQueue
  <2>1. RequestsAreSingle'
    <3>1. \A v \in Workers : Busy(v)' => Busy(v) /\ worker'[v].r = worker[v].r
      BY <1>1, <1>2 DEF Busy
    <3> QED BY <1>1, <1>2, <3>1, PlacesKept
  <2>2. Unanswered' \subseteq Unanswered BY <1>1, <1>2 DEF Unanswered, BeforeFuture
  <2> QED BY <1>1, <2>1, <2>2, FuturesKept
<1>3. ASSUME NEW r, r = RequestQueue[1], 1 \in 1 .. Len(RequestQueue),
             worker'[w].pc = r.kind, worker'[w].r = r,
             \A k \in 1 .. Len(RequestQueue') :
               /\ k + 1 \in 1 .. Len(RequestQueue) /\ k + 1 # 1
               /\ RequestQueue'[k] = RequestQueue[k + 1]
      PROVE  RequestsAreSingle' /\ FuturesPend'
  <2>1. r.kind \in {"reparse", "cancel", "complete"}
    BY <1>3, FlyingTyped DEF IInv, Flying
  <2>2. RequestsAreSingle'
    <3>1. ASSUME NEW k \in 1 .. Len(RequestQueue'), NEW j \in 1 .. Len(RequestQueue'), j # k
          PROVE  ~Twins(RequestQueue'[j], RequestQueue'[k])
      <4>1. j + 1 # k + 1 BY <3>1
      <4> QED BY <1>3, <4>1 DEF RequestsAreSingle
    <3>2. ASSUME NEW v \in Workers, Busy(v)', NEW k \in 1 .. Len(RequestQueue')
          PROVE  ~Twins(RequestQueue'[k], worker'[v].r)
      <4>1. CASE v = w BY <1>3, <4>1 DEF RequestsAreSingle
      <4>2. CASE v # w BY <1>1, <1>3, <3>2, <4>2 DEF RequestsAreSingle, Busy
      <4> QED BY <4>1, <4>2
    <3>3. ASSUME NEW v \in Workers, Busy(v), v # w
          PROVE  ~Twins(worker[v].r, r) /\ ~Twins(r, worker[v].r)
      BY <1>3, <3>3 DEF RequestsAreSingle, Twins
    <3>4. ASSUME NEW u \in Workers, NEW v \in Workers, Busy(u)', Busy(v)', u # v
          PROVE  ~Twins(worker'[u].r, worker'[v].r)
      BY <1>1, <1>3, <3>3, <3>4 DEF RequestsAreSingle, Busy
    <3>5. ASSUME client.pc = "enqueue"
          PROVE  /\ \A k \in 1 .. Len(RequestQueue') : ~Twins(client.r, RequestQueue'[k])
                 /\ \A v \in Workers : Busy(v)' => ~Twins(client.r, worker'[v].r)
      BY <1>1, <1>3, <3>5 DEF RequestsAreSingle, Busy
    <3> QED BY <1>1, <3>1, <3>2, <3>4, <3>5 DEF RequestsAreSingle
  <2>3. Unanswered' \subseteq Unanswered \cup Completions
    <3>1. r \in Unanswered BY <1>3 DEF Unanswered
    <3>2. \A k \in 1 .. Len(RequestQueue') : RequestQueue'[k] \in Unanswered
      BY <1>3 DEF Unanswered
    <3>3. \A v \in Workers : worker'[v].pc \in BeforeFuture => worker'[v].r \in Unanswered
      BY <1>1, <1>3, <3>1 DEF Unanswered
    <3> QED BY <1>1, <3>2, <3>3 DEF Unanswered
  <2> QED BY <1>1, <2>2, <2>3, FuturesKept
<1>4. CASE Finish(w)
  BY <1>2, <1>4 DEF Finish, Become, Idle, IInv, Shape
<1>5. CASE TakeRequest(w) BY <1>2, <1>3, <1>5, TailQueue
<1> QED BY <1>4, <1>5

\* The client tells a unit of a new request, which has a number of its own.
LEMMA DeferMoves ==
  ASSUME IInv, RequestsAreSingle, FuturesPend,
         NEW f \in Files, NEW vs, NEW i, NEW r, Defers(f, vs, i, r)
  PROVE  RequestsAreSingle' /\ FuturesPend'
<1>1. Units'[f] = vs /\ \A g \in Files \ {f} : Units'[g] = Units[g]
  BY DeferredUnits
<1>2. ASSUME NEW q \in Flying, q \in Rebuilds
      PROVE  /\ q.file = f /\ q.unit = i => q.counter < vs[i].RebuildCounter /\ Superseded(q)'
             /\ ~(q.file = f /\ q.unit = i) => (Superseded(q)' <=> Superseded(q))
             /\ q.file \in Files /\ q.unit \in 1 .. Len(Units[q.file]) /\ q.counter \in Nat
  BY <1>2, DeferKeeps, RebuildFields
<1> USE DEF Defers, results
<1>3. ASSUME NEW q \in Flying PROVE ~Twins(r, q)
  <2>1. CASE q.kind = "complete" BY <2>1 DEF Twins
  <2>2. CASE q \in Rebuilds
    <3>1. r.counter = vs[i].RebuildCounter /\ r.counter \in Nat BY RebuildFields
    <3> QED BY <1>2, <2>2, <3>1 DEF Twins
  <2> QED BY <2>1, <2>2, FlyingTyped DEF IInv
<1>4. /\ \A k \in 1 .. Len(RequestQueue) : ~Twins(r, RequestQueue[k])
      /\ \A w \in Workers : Busy(w) => ~Twins(r, worker[w].r)
  BY <1>3 DEF Flying, Busy
<1>5. RequestsAreSingle' BY <1>4 DEF RequestsAreSingle, Busy
<1>6. FuturesPend'
  <2> SUFFICES ASSUME NEW q \in Unanswered', q.kind # "complete", ~Superseded(q)'
               PROVE  ~Unit(q)'.ready
    BY DEF FuturesPend
  <2>1. CASE q = r
    <3>1. Unit(r)' = vs[i] BY <1>1 DEF Unit
    <3> QED BY <2>1, <3>1
  <2>2. CASE q \in Unanswered
    <3>1. q \in Flying /\ q \in Rebuilds
      <4>1. q \in Flying BY <2>2 DEF Unanswered, Flying, BeforeFuture
      <4> QED BY <4>1, FlyingTyped DEF IInv
    <3>2. ~(q.file = f /\ q.unit = i) /\ ~Superseded(q) BY <1>2, <3>1
    <3>3. Unit(q)' = Unit(q)
      <4>1. CASE q.file = f BY <1>1, <1>2, <3>1, <3>2, <4>1 DEF Unit
      <4>2. CASE q.file # f BY <1>1, <1>2, <3>1, <4>2 DEF Unit
      <4> QED BY <4>1, <4>2
    <3> QED BY <2>2, <3>2, <3>3 DEF FuturesPend
  <2>3. Unanswered' \subseteq Unanswered \cup {r} BY DEF Unanswered
  <2> QED BY <2>1, <2>2, <2>3
<1> QED BY <1>5, <1>6

LEMMA ScheduleMoves ==
  ASSUME IInv, RequestsAreSingle, FuturesPend, scheduleReparseAndDiags \/ scheduleCancelRebuild
  PROVE  RequestsAreSingle' /\ FuturesPend'
<1>1. CASE scheduleReparseAndDiags BY <1>1, ReparseDefers, DeferMoves
<1>2. CASE scheduleCancelRebuild /\ OpenedFiles[client.r.file] # 0
  BY <1>2, CancelDefers, DeferMoves
<1>3. CASE scheduleCancelRebuild /\ OpenedFiles[client.r.file] = 0
  <2>1. client'.pc = "idle" /\ UNCHANGED <<Units, RequestQueue, worker>>
    BY <1>3 DEF scheduleCancelRebuild, Idle
  <2>2. RequestsAreSingle' BY <2>1, PlacesKept DEF Busy
  <2>3. Unanswered' \subseteq Unanswered BY <2>1 DEF Unanswered
  <2> QED BY <2>1, <2>2, <2>3, FuturesKept
<1> QED BY <1>1, <1>2, <1>3

\* A worker goes on with its request r; if it fulfils the future it is the only
\* one to do so.
LEMMA MoveMoves ==
  ASSUME IInv, RequestsAreSingle, FuturesPend, NEW w \in Workers, NEW r, r = worker[w].r,
         worker[w].pc \in Reparsing \cup {"cancel"}, NEW l, Moves(w, l), Kept(r),
         \/ Unit(r)'.ready = Unit(r).ready /\ (l \in BeforeFuture => worker[w].pc \in BeforeFuture)
         \/ worker[w].pc \in BeforeFuture /\ l \notin BeforeFuture /\ ~Superseded(r)
  PROVE  RequestsAreSingle' /\ FuturesPend'
<1>1. /\ r \in Rebuilds /\ r \in Flying /\ Sound(r) /\ Busy(w)
  BY AtWork DEF Busy
<1>2. /\ worker'[w].pc = l /\ worker'[w].r = r
      /\ \A v \in Workers : v # w => worker'[v] = worker[v]
      /\ UNCHANGED <<RequestQueue, client>>
  BY DEF Moves, Proceed, Become, At, IInv, Shape
<1>3. RequestsAreSingle'
  <2>1. \A v \in Workers : Busy(v)' => Busy(v) /\ worker'[v].r = worker[v].r
    BY <1>1, <1>2 DEF Busy
  <2> QED BY <1>2, <2>1, PlacesKept
<1>4. CASE Unit(r)'.ready = Unit(r).ready /\ (l \in BeforeFuture => worker[w].pc \in BeforeFuture)
  <2>1. Unanswered' \subseteq Unanswered BY <1>2, <1>4 DEF Unanswered
  <2> QED BY <1>1, <1>3, <1>4, <2>1, FuturesKept
<1>5. CASE worker[w].pc \in BeforeFuture /\ l \notin BeforeFuture /\ ~Superseded(r)
  <2> SUFFICES ASSUME NEW q \in Unanswered', q.kind # "complete", ~Superseded(q)'
               PROVE  ~Unit(q)'.ready
    BY <1>3 DEF FuturesPend
  <2>1. \/ client.pc = "enqueue" /\ q = client.r
        \/ \E k \in 1 .. Len(RequestQueue) : q = RequestQueue[k]
        \/ \E v \in Workers : v # w /\ worker[v].pc \in BeforeFuture /\ q = worker[v].r
    BY <1>2, <1>5 DEF Unanswered
  <2>2. q \in Flying /\ q \in Unanswered BY <2>1 DEF Flying, Unanswered, BeforeFuture
  <2>3. q \in Rebuilds /\ Sound(q) BY <2>2, FlyingTyped DEF IInv, AllSound
  <2>4. q.file \in Files /\ q.unit \in 1 .. Len(Units[q.file])
    BY <2>3, UnitOf, RebuildFields DEF IInv
  <2>5. ~Twins(q, r)
    <3>1. \A v \in Workers : worker[v].pc \in BeforeFuture => Busy(v)
      BY DEF Busy, BeforeFuture
    <3> QED BY <1>1, <2>1, <3>1 DEF RequestsAreSingle
  <2>6. Unit(q)'.RebuildCounter = Unit(q).RebuildCounter
    BY <2>4 DEF Kept, Unit
  <2>7. ~(q.file = r.file /\ q.unit = r.unit)
    <3>1. r.kind # "complete" BY <1>1, RebuildFields
    <3> QED BY <1>5, <2>5, <2>6, <3>1 DEF Twins, Superseded, Unit
  <2>8. Unit(q)' = Unit(q) BY <2>4, <2>7 DEF Kept, Unit
  <2> QED BY <2>2, <2>8 DEF FuturesPend, Superseded
<1> QED BY <1>4, <1>5
LEMMA WorkersMoveOn ==
  ASSUME IInv, RequestsAreSingle, FuturesPend, NEW w \in Workers,
         \/ CheckVersion(w) \/ EnterGuard(w) \/ PublishPreamble(w) \/ BuildAST(w)
         \/ PublishAST(w) \/ LeaveGuard(w) \/ PublishDiags(w) \/ CancelReparses(w)
  PROVE  RequestsAreSingle' /\ FuturesPend'
<1>1. PICK r : r = worker[w].r OBVIOUS
<1>s. Shape BY DEF IInv
<1> USE DEF Working, IsAt, documents, results
\* Steps that leave the units alone.
<1>2. CASE CheckVersion(w) \/ PublishPreamble(w) \/ BuildAST(w) \/ PublishDiags(w)
  <2>1. PICK l : Proceed(w, l)
    BY <1>2 DEF CheckVersion, PublishPreamble, BuildAST, PublishDiags
  <2>2. /\ UNCHANGED Units /\ Moves(w, l) /\ worker[w].pc \in Reparsing
        /\ worker[w].pc = "diags" => l = "finish"
        /\ worker[w].pc \in {"reparse", "preamble", "build", "diags"}
    <3>1. worker'[w].pc = l BY <1>s, <2>1 DEF Proceed, Become, At, Shape
    <3>2. PublishDiags(w) => worker'[w].pc = "finish"
      BY <1>s DEF PublishDiags, Proceed, Become, At, Shape
    <3> QED BY <1>2, <2>1, <3>1, <3>2
         DEF CheckVersion, PublishPreamble, BuildAST, PublishDiags, Moves, Reparsing, Guard
  <2>3. l \in BeforeFuture => worker[w].pc \in BeforeFuture BY <2>2 DEF BeforeFuture
  <2> QED BY <1>1, <1>s, <2>2, <2>3, UnchangedKeeps, MoveMoves
\* Steps that change the unit of r.
<1>3. ASSUME worker[w].pc \in Reparsing \cup {"cancel"}
      PROVE  /\ r \in Rebuilds /\ Sound(r) /\ Unit(r) \in UnitRecords /\ r.version \in Nat
             /\ \A b \in BOOLEAN : \A u : u = [Unit(r) EXCEPT !.InProgress = b] =>
                  /\ u \in UnitRecords /\ u.ready = Unit(r).ready
                  /\ u.RebuildCounter = Unit(r).RebuildCounter
             /\ \A a \in Nat : \A u : u = Fulfilled(r, a) =>
                  /\ u \in UnitRecords /\ u.RebuildCounter = Unit(r).RebuildCounter
                  /\ Superseded(r) => u.ready = Unit(r).ready
  <2>1. r \in Rebuilds /\ Sound(r) BY <1>1, <1>3, AtWork
  <2>2. Unit(r) \in UnitRecords /\ r.version \in Nat BY <1>s, <2>1, UnitOf, RebuildFields
  <2>3. ASSUME NEW b \in BOOLEAN, NEW u, u = [Unit(r) EXCEPT !.InProgress = b]
        PROVE  /\ u \in UnitRecords /\ u.ready = Unit(r).ready
               /\ u.RebuildCounter = Unit(r).RebuildCounter
    BY <2>2, <2>3 DEF UnitRecords
  <2>4. ASSUME NEW a \in Nat, NEW u, u = Fulfilled(r, a)
        PROVE  /\ u \in UnitRecords /\ u.RebuildCounter = Unit(r).RebuildCounter
               /\ Superseded(r) => u.ready = Unit(r).ready
    BY <2>2, <2>4 DEF UnitRecords, Fulfilled
  <2> QED BY <2>1, <2>2, <2>3, <2>4
<1>4. CASE EnterGuard(w)
  <2>1. PICK l : l = IF Superseded(r) THEN "finish" ELSE "preamble" OBVIOUS
  <2>2. worker[w].pc = "rebuild" /\ Moves(w, l)
    BY <1>1, <1>4, <2>1 DEF EnterGuard, Moves
  <2>3. worker[w].pc \in Reparsing /\ worker[w].pc \in BeforeFuture
    BY <2>2 DEF Reparsing, BeforeFuture
  <2>4. Kept(r) /\ Unit(r)'.ready = Unit(r).ready
    <3>1. CASE UNCHANGED Units BY <1>s, <3>1, UnchangedKeeps
    <3>2. ASSUME NEW u, u = [Unit(r) EXCEPT !.InProgress = TRUE], SetUnit(r, u)
          PROVE  Kept(r) /\ Unit(r)'.ready = Unit(r).ready
      BY <1>s, <1>3, <2>3, <3>2, SetUnitKeeps
    <3> QED BY <1>1, <1>4, <3>1, <3>2 DEF EnterGuard
  <2> QED BY <1>1, <2>2, <2>3, <2>4, MoveMoves
<1>5. CASE LeaveGuard(w)
  <2>1. PICK l : l = IF worker[w].pc = "leave" THEN "finish" ELSE "diags" OBVIOUS
  <2>2. worker[w].pc \in {"leave", "leavewithdiags"} /\ Moves(w, l)
    BY <1>1, <1>5, <2>1 DEF LeaveGuard, Moves
  <2>3. worker[w].pc \in Reparsing BY <2>2 DEF Reparsing, Guard
  <2>4. PICK u : u = [Unit(r) EXCEPT !.InProgress = FALSE] OBVIOUS
  <2>5. SetUnit(r, u) BY <1>1, <1>5, <2>4 DEF LeaveGuard
  <2>6. Kept(r) /\ Unit(r)'.ready = Unit(r).ready
    BY <1>s, <1>3, <2>3, <2>4, <2>5, SetUnitKeeps
  <2>7. l \notin BeforeFuture BY <2>1 DEF BeforeFuture
  <2> QED BY <1>1, <2>2, <2>3, <2>6, <2>7, MoveMoves
\* The steps that fulfil the future.
<1>6. ASSUME worker[w].pc \in {"publish", "cancel"}, NEW l \in {"leavewithdiags", "finish"},
             Moves(w, l), NEW a \in Nat, SetUnit(r, Fulfilled(r, a))
      PROVE  RequestsAreSingle' /\ FuturesPend'
  <2>1. worker[w].pc \in Reparsing \cup {"cancel"} /\ worker[w].pc \in BeforeFuture
        /\ l \notin BeforeFuture
    BY <1>6 DEF Reparsing, Guard, BeforeFuture
  <2>2. PICK u : u = Fulfilled(r, a) OBVIOUS
  <2>3. Kept(r) /\ Unit(r)' = u
    BY <1>s, <1>3, <1>6, <2>1, <2>2, SetUnitKeeps
  <2>4. Superseded(r) => Unit(r)'.ready = Unit(r).ready
    BY <1>3, <2>1, <2>2, <2>3
  <2> QED BY <1>1, <1>6, <2>1, <2>3, <2>4, MoveMoves
<1>7. CASE PublishAST(w)
  <2>1. worker[w].pc = "publish" /\ Moves(w, "leavewithdiags")
        /\ SetUnit(r, Fulfilled(r, r.version))
    BY <1>1, <1>7 DEF PublishAST, Moves
  <2>2. r.version \in Nat BY <1>3, <2>1 DEF Reparsing, Guard
  <2> QED BY <1>6, <2>1, <2>2
<1>8. CASE CancelReparses(w)
  <2>1. worker[w].pc = "cancel" /\ Moves(w, "finish") /\ SetUnit(r, Fulfilled(r, 0))
    BY <1>1, <1>8 DEF CancelReparses, Moves
  <2> QED BY <1>6, <2>1
<1> QED BY <1>2, <1>4, <1>5, <1>7, <1>8

LEMMA PlacesStep ==
  ASSUME IInv, RequestsAreSingle, FuturesPend, [Next]_vars
  PROVE  RequestsAreSingle' /\ FuturesPend'
<1>1. CASE ClientCall \/ ClientStep
  BY <1>1, CallsMoveNothing, addToFrontMoves, ScheduleMoves DEF ClientStep
<1>2. ASSUME NEW w \in Workers, WorkerStep(w) PROVE RequestsAreSingle' /\ FuturesPend'
  BY <1>2, TakeMoves, WorkersMoveOn DEF WorkerStep
<1>3. CASE UNCHANGED vars
  <2>1. UNCHANGED <<Units, RequestQueue, client, worker>> BY <1>3 DEF vars
  <2>2. RequestsAreSingle' BY <2>1, PlacesKept DEF Busy
  <2>3. Unanswered' = Unanswered BY <2>1 DEF Unanswered
  <2> QED BY <2>1, <2>2, <2>3, FuturesKept
<1> QED BY <1>1, <1>2, <1>3 DEF Next, Destroyed

LEMMA Places == Spec => [](IInv /\ RequestsAreSingle /\ FuturesPend)
<1>1. Init => RequestsAreSingle /\ FuturesPend
  <2> SUFFICES ASSUME Init PROVE RequestsAreSingle /\ FuturesPend
    OBVIOUS
  <2>1. Unanswered = {} /\ client.pc = "idle" /\ Len(RequestQueue) = 0
        /\ \A w \in Workers : ~Busy(w)
    BY DEF Init, Unanswered, Busy, BeforeFuture, Idle
  <2> QED BY <2>1 DEF RequestsAreSingle, FuturesPend
<1> QED BY <1>1, InitHolds, StepHolds, PlacesStep, PTL DEF Spec

\* RequestsAreSingle: no computation that deferRebuild() or deferCancelRebuild()
\* returned gets to two workers or stays in the queue after it was taken, and each
\* has a number of its own, which is what CppFile.tla says of its requests.
THEOREM EachRequestOnce == Spec => []RequestsAreSingle
BY Places, PTL

\* PromisesSetOnce: the workers of the server, whatever the order in which they
\* take the requests of a file, never set a promise of its CppFile twice.
THEOREM SetOnce == Spec => []PromisesSetOnce
<1>1. IInv /\ FuturesPend => PromisesSetOnce
  <2> SUFFICES ASSUME IInv, FuturesPend, NEW w \in Workers,
                      worker[w].pc \in {"publish", "cancel"}, ~Superseded(worker[w].r)
               PROVE  ~Unit(worker[w].r).ready
    BY DEF PromisesSetOnce
  <2>1. worker[w].r \in Unanswered BY DEF Unanswered, BeforeFuture
  <2>2. worker[w].r \in Rebuilds BY AtWork DEF Reparsing, Guard
  <2> QED BY <2>1, <2>2, RebuildFields DEF FuturesPend
<1> QED BY <1>1, Places, PTL
=============================================================================
