-------------------------------- MODULE RWLock --------------------------------
(***************************************************************************)
(* What a shared mutex promises: the threads that own it, exclusively or   *)
(* shared.  SharedMutex.tla is shown to implement it.                      *)
(***************************************************************************)
CONSTANT Threads

VARIABLES writers, readers

vars == <<writers, readers>>

Init == writers = {} /\ readers = {}

Acquire(t) ==
  /\ writers = {} /\ readers = {}
  /\ writers' = {t}
  /\ UNCHANGED readers

Release(t) ==
  /\ t \in writers
  /\ writers' = writers \ {t}
  /\ UNCHANGED readers

AcquireShared(t) ==
  /\ writers = {} /\ t \notin readers
  /\ readers' = readers \union {t}
  /\ UNCHANGED writers

ReleaseShared(t) ==
  /\ t \in readers
  /\ readers' = readers \ {t}
  /\ UNCHANGED writers

Next == \E t \in Threads :
  Acquire(t) \/ Release(t) \/ AcquireShared(t) \/ ReleaseShared(t)

Spec == Init /\ [][Next]_vars
===============================================================================
