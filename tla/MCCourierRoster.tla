--------------------------- MODULE MCCourierRoster ---------------------------
(* Small instances of CourierRoster for TLC. *)
EXTENDS CourierRoster, TLC

Symmetry == Permutations(Courier) \cup Permutations(Request)
=============================================================================
