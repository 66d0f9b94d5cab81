----------------------------- MODULE FreshFuture -----------------------------
(***************************************************************************)
(* What CppFile promises to a reader of one of its futures.  Requests are  *)
(* numbered; asking makes the future pending again; a pending future is    *)
(* fulfilled once, with the newest request.                                *)
(***************************************************************************)
EXTENDS Naturals

CONSTANT Pending
VARIABLES latest, value

Init == latest = 0 /\ value = 0

Ask == latest' = latest + 1 /\ value' = Pending

Fulfil == value = Pending /\ value' = latest /\ latest' = latest

Next == Ask \/ Fulfil
Spec == Init /\ [][Next]_<<latest, value>>
=============================================================================
