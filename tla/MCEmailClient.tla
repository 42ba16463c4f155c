--------------------------- MODULE MCEmailClient ---------------------------
(* Small instances of EmailClient for TLC. *)
EXTENDS EmailClient, TLC
=============================================================================
