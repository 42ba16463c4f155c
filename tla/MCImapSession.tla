--------------------------- MODULE MCImapSession ---------------------------
(* Small instances of ImapSession for TLC. *)
EXTENDS ImapSession, TLC

Symmetry == Permutations(Mailbox) \cup Permutations(MessageId)
=============================================================================
