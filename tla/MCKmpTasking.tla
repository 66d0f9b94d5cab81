---------------------------- MODULE MCKmpTasking ----------------------------
(* Programs of three tasks for a team of three threads. *)
EXTENDS KmpTasking

CONSTANTS m, w1, w2

MCPrograms ==
  { [parent |-> <<m, m, m>>, untied |-> {}],
    [parent |-> <<m, 1, w1>>, untied |-> {}],
    [parent |-> <<w1, w1, m>>, untied |-> {2}] }
=============================================================================
