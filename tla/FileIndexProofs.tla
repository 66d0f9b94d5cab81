--------------------------- MODULE FileIndexProofs ---------------------------
(***************************************************************************)
(* What FileIndex promises, for any files, any number of workers and any   *)
(* number of updates.                                                      *)
(***************************************************************************)
EXTENDS FileIndex, TLAPS

Slabs == [Files -> Nat]

TypeOK ==
  /\ FileToSlabs \in Slabs /\ Index \in Slabs /\ wanted \in Slabs
  /\ worker \in [Workers -> {Idle, [pc |-> "snapshot"]}
                            \cup [pc : {"build"}, snapshot : Slabs]]
  /\ updates \in Nat
  /\ raced \in BOOLEAN

\* Whatever is in the index or on its way to it has once been stored.
FromStates ==
  /\ FileToSlabs \in states /\ Index \in states
  /\ \A w \in Workers : worker[w].pc = "build" => worker[w].snapshot \in states

\* Until two updates overlap, one worker at a time is in update(), and its
\* snapshot is up to date because nobody stores meanwhile.
OneAtATime ==
  ~raced => /\ \A v, w \in Workers : worker[v] # Idle /\ worker[w] # Idle => v = w
            /\ \A w \in Workers : worker[w].pc = "build" => worker[w].snapshot = FileToSlabs
            /\ Quiet => Index = FileToSlabs

IInv == TypeOK /\ wanted = FileToSlabs /\ FromStates /\ OneAtATime

LEMMA InitIInv == Init => IInv
<1> SUFFICES ASSUME Init PROVE IInv
  OBVIOUS
<1>1. \A w \in Workers : worker[w] = Idle /\ worker[w].pc = "idle"
  BY DEF Init, Idle
<1>2. TypeOK
  BY DEF Init, TypeOK, Slabs, Empty
<1>3. FromStates /\ wanted = FileToSlabs
  BY <1>1 DEF Init, FromStates
<1>4. OneAtATime
  BY <1>1 DEF Init, OneAtATime
<1> QED BY <1>2, <1>3, <1>4 DEF IInv

LEMMA NextIInv == IInv /\ [Next]_vars => IInv'
<1> SUFFICES ASSUME IInv, [Next]_vars PROVE IInv'
  OBVIOUS
<1> USE DEF IInv
<1>1. ASSUME NEW w \in Workers, AllSymbols(w) PROVE IInv'
  <2>0. worker' = [worker EXCEPT ![w] = [pc |-> "build", snapshot |-> FileToSlabs]]
    BY <1>1 DEF AllSymbols
  <2>w. worker[w] # Idle /\ worker'[w] # Idle
    BY <1>1, <2>0 DEF AllSymbols, Idle, TypeOK
  <2>1. TypeOK'
    BY <1>1 DEF AllSymbols, TypeOK
  <2>2. FromStates' /\ wanted' = FileToSlabs'
    BY <1>1 DEF AllSymbols, TypeOK, FromStates
  <2>3. OneAtATime'
    BY <1>1, <2>0, <2>w DEF AllSymbols, TypeOK, OneAtATime, Quiet
  <2> QED BY <2>1, <2>2, <2>3
<1>2. ASSUME NEW w \in Workers, Build(w) PROVE IInv'
  <2>0. /\ worker' = [worker EXCEPT ![w] = Idle]
        /\ worker[w].pc = "build" /\ Index' = worker[w].snapshot
    BY <1>2 DEF Build, Rebuilt
  <2>w. worker[w] # Idle /\ worker[w] \in [pc : {"build"}, snapshot : Slabs]
    BY <2>0 DEF Idle, TypeOK
  <2>1. TypeOK'
    BY <1>2, <2>0, <2>w DEF Build, TypeOK
  <2>2. FromStates' /\ wanted' = FileToSlabs'
    BY <1>2, <2>0 DEF Build, TypeOK, FromStates, Idle
  <2>3. OneAtATime'
    BY <1>2, <2>0, <2>w DEF Build, TypeOK, OneAtATime, Quiet, Idle
  <2> QED BY <2>1, <2>2, <2>3
<1>3. ASSUME NEW w \in Workers, NEW f \in Files, NEW slab \in 0..MaxUpdates,
             UpdateSymbols(w, f, slab)
      PROVE  IInv'
  <2>0. /\ worker' = [worker EXCEPT ![w] = [pc |-> "snapshot"]]
        /\ FileToSlabs' = [FileToSlabs EXCEPT ![f] = slab]
        /\ wanted' = [wanted EXCEPT ![f] = slab]
        /\ slab \in Nat
    BY <1>3, UpdatesAssumption DEF UpdateSymbols, Stored
  <2>1. TypeOK'
    BY <1>3, <2>0 DEF UpdateSymbols, TypeOK, Slabs
  <2>2. FromStates' /\ wanted' = FileToSlabs'
    <3>1. worker'[w].pc # "build"
      BY <2>0 DEF TypeOK
    <3>2. \A v \in Workers : v # w => worker'[v] = worker[v]
      BY <2>0 DEF TypeOK
    <3>3. states' = states \cup {FileToSlabs'} /\ Index' = Index
      BY <1>3 DEF UpdateSymbols
    <3> QED BY <2>0, <3>1, <3>2, <3>3 DEF FromStates
  <2>3. OneAtATime'
    <3> SUFFICES ASSUME ~raced' PROVE OneAtATime'
      BY DEF OneAtATime
    <3>1. \A v \in Workers : worker[v] = Idle
      BY <1>3 DEF UpdateSymbols
    <3>2. \A v \in Workers : v # w => worker'[v] = Idle
      BY <2>0, <3>1 DEF TypeOK
    <3>3. worker'[w] = [pc |-> "snapshot"]
      BY <2>0 DEF TypeOK
    <3> QED BY <3>2, <3>3 DEF OneAtATime, Quiet, Idle
  <2> QED BY <2>1, <2>2, <2>3
<1>4. CASE UNCHANGED vars
  BY <1>4 DEF vars, TypeOK, FromStates, OneAtATime, Quiet
<1> QED BY <1>1, <1>2, <1>3, <1>4 DEF Next, Stopped

\* A query of the dynamic index sees the symbols of all files as they were at
\* one moment, however many workers are inside FileIndex::update.
THEOREM Snapshot == Spec => []IndexIsSnapshot
<1>1. IInv => IndexIsSnapshot
  BY DEF IInv, FromStates, IndexIsSnapshot
<1> QED BY <1>1, InitIInv, NextIInv, PTL DEF Spec

\* As long as no two calls of FileIndex::update overlap, the index shows the
\* last update of every file whenever no call is in progress.
THEOREM Serial == Spec => []ExactWhenSerial
<1>1. IInv => ExactWhenSerial
  BY DEF IInv, OneAtATime, ExactWhenSerial
<1> QED BY <1>1, InitIInv, NextIInv, PTL DEF Spec
=============================================================================
