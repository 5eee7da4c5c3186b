--------------------------- MODULE MCCourierLedger ---------------------------
(* Small instances of CourierLedger for TLC. *)
EXTENDS CourierLedger, TLC

Cents(trip, tip, cod) ==
  [k \in Kind |-> CASE k = "trip_earning" -> trip
                    [] k = "tip" -> tip
                    [] k = "cod_collected" -> cod]

\* A plain trip, and a trip paid in cash at the door.
TripsAndCash == {Cents(2, 0, 0), Cents(1, 0, 1)}

Symmetry == Permutations(Job) \cup Permutations(Request)
=============================================================================
