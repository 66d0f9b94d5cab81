-------------------------- MODULE MCLockFileManager --------------------------
(* LockFileManager on two hosts: two processes share one, a third is alone. *)
EXTENDS LockFileManager

CONSTANTS h1, h2, p3

MCHost == [p \in Processes |-> IF p = p3 THEN h2 ELSE h1]
=============================================================================
