--------------------------- MODULE MCDispatchQueue ---------------------------
(* Small instances of DispatchQueue for TLC. *)
EXTENDS DispatchQueue, TLC

\* Drivers are all part-time here, and the trips of a driver interchangeable.
Symmetry == Permutations(Shipment) \cup Permutations(Driver) \cup Permutations(Attempt)
=============================================================================
