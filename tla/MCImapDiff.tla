----------------------------- MODULE MCImapDiff -----------------------------
(* ImapDiff on a small mailbox, for TLC.                                   *)
EXTENDS ImapDiff, TLC

\* Flags are interchangeable; UIDs are not, they are ordered.
Symmetry == Permutations(Keyword)
=============================================================================
