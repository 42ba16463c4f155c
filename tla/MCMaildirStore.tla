-------------------------- MODULE MCMaildirStore --------------------------
(* Small instances of MaildirStore for TLC. *)
EXTENDS MaildirStore, TLC

Symmetry == Permutations(Client)
=============================================================================
