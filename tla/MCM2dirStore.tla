--------------------------- MODULE MCM2dirStore ---------------------------
(* Small instances of M2dirStore for TLC. *)
EXTENDS M2dirStore, TLC

MCFirst == <<"m1", "m2">>
MCMessage == {"m1", "m2"}

Symmetry == Permutations(Client)
=============================================================================
