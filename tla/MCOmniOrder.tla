----------------------------- MODULE MCOmniOrder -----------------------------
(* OmniOrder for TLC: the stores of the basket are interchangeable.        *)
EXTENDS OmniOrder, TLC

Stores == Permutations(Vendor)
=============================================================================
