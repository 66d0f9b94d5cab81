------------------------------ MODULE FileIndex ------------------------------
(***************************************************************************)
(* clangd's dynamic symbol index (clang-tools-extra/clangd/index): every   *)
(* worker that parsed a file calls FileIndex::update, which stores the     *)
(* file's new slab, takes a snapshot of all slabs, builds an index from it *)
(* and swaps that in.  Each of the three has a critical section of its     *)
(* own.  A slab is named by the number of the update that brought it.      *)
(***************************************************************************)
EXTENDS Naturals

CONSTANTS
  Files,
  Workers,
  MaxUpdates   \* bound on the calls of update()

ASSUME UpdatesAssumption == MaxUpdates \in Nat

VARIABLES
  FileToSlabs,  \* FileSymbols: the newest slab of each file, 0 for none
  Index,        \* MemIndex: the slab of each file that queries see
  worker,       \* where a worker is in update(), and its snapshot
  updates,      \* number of updates so far
  wanted,       \* history: what the last update() of each file asked for
  states,       \* history: every value FileToSlabs has had
  raced         \* history: two calls of update() have overlapped

vars == <<FileToSlabs, Index, worker, updates, wanted, states, raced>>

Empty == [f \in Files |-> 0]
Idle == [pc |-> "idle"]

Init ==
  /\ FileToSlabs = Empty /\ Index = Empty /\ wanted = Empty
  /\ worker = [w \in Workers |-> Idle]
  /\ updates = 0
  /\ states = {Empty}
  /\ raced = FALSE

\* FileSymbols::update: a null slab erases the file.  A mutant ignores it.
StoredMutant(f, slab) == IF slab = 0 THEN FileToSlabs[f] ELSE slab
Stored(f, slab) == slab

\* The AST of f was parsed and indexed (slab), or there is none (0).
UpdateSymbols(w, f, slab) ==
  /\ worker[w] = Idle
  /\ updates < MaxUpdates
  /\ updates' = updates + 1
  /\ slab \in {0, updates + 1}
  /\ FileToSlabs' = [FileToSlabs EXCEPT ![f] = Stored(f, slab)]
  /\ wanted' = [wanted EXCEPT ![f] = slab]
  /\ states' = states \cup {FileToSlabs'}
  /\ raced' = (raced \/ \E v \in Workers : worker[v] # Idle)
  /\ worker' = [worker EXCEPT ![w] = [pc |-> "snapshot"]]
  /\ UNCHANGED Index

\* FileSymbols::allSymbols; building the index from the snapshot is private.
AllSymbols(w) ==
  /\ worker[w].pc = "snapshot"
  /\ worker' = [worker EXCEPT ![w] = [pc |-> "build", snapshot |-> FileToSlabs]]
  /\ UNCHANGED <<FileToSlabs, Index, updates, wanted, states, raced>>

\* MemIndex::build replaces the index; a mutant merges the new one into it.
RebuiltMutant(snap) == [f \in Files |-> IF snap[f] = 0 THEN Index[f] ELSE snap[f]]
Rebuilt(snap) == snap

Build(w) ==
  /\ worker[w].pc = "build"
  /\ Index' = Rebuilt(worker[w].snapshot)
  /\ worker' = [worker EXCEPT ![w] = Idle]
  /\ UNCHANGED <<FileToSlabs, updates, wanted, states, raced>>

Quiet == \A w \in Workers : worker[w] = Idle
Stopped == Quiet /\ updates = MaxUpdates /\ UNCHANGED vars

Next ==
  \/ \E w \in Workers : AllSymbols(w) \/ Build(w)
  \/ \E w \in Workers, f \in Files, slab \in 0..MaxUpdates : UpdateSymbols(w, f, slab)
  \/ Stopped

Spec == Init /\ [][Next]_vars
-----------------------------------------------------------------------------
\* Snapshot semantics: a query never sees a mixture, only a set of slabs that
\* was the content of FileSymbols at one moment.
IndexIsSnapshot == Index \in states

\* As long as no two updates overlap, the index is exact after each of them.
ExactWhenSerial == Quiet /\ ~raced => Index = wanted

\* ClangdServer.h on FileIdx: "an up-to-date of symbols in open files".
ExactWhenQuiet == Quiet => Index = wanted
=============================================================================
