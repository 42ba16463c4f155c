--------------------------- MODULE MCGmailWatch ---------------------------
(* Small instances of GmailWatch for TLC. *)
EXTENDS GmailWatch, TLC
=============================================================================
