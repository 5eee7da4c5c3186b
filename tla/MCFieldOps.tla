------------------------------ MODULE MCFieldOps ------------------------------
(* Small instances of FieldOps for TLC. *)
EXTENDS FieldOps, TLC

CONSTANTS j1, j2

Cents(trip, tip, cod) ==
  [k \in {"trip_earning", "tip", "cod_collected"} |->
     CASE k = "trip_earning" -> trip
       [] k = "tip" -> tip
       [] k = "cod_collected" -> cod]

\* One prepaid job, and one paid in cash at the door.
Prepaid  == Cents(1, 0, 0)
Cash     == Cents(1, 0, 1)
MCPay    == {Prepaid, Cash}
MCDeclared == (j1 :> Prepaid) @@ (j2 :> Cash)
Symmetry == Permutations(Request)
=============================================================================
