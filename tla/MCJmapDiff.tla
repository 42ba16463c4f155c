----------------------------- MODULE MCJmapDiff -----------------------------
(* JmapDiff on a small account, for TLC.                                   *)
EXTENDS JmapDiff, TLC

\* Keywords are interchangeable; emails are told apart by Omitted.
Symmetry == Permutations(Keyword)
=============================================================================
