---------------------------- MODULE MCJmapWatch ----------------------------
(* JmapWatch on a small account, for TLC.                                  *)
EXTENDS JmapWatch, TLC

\* Message ids and keywords are interchangeable. Only for runs that check
\* no liveness property.
Symmetry == Permutations(Id) \union Permutations(Keyword)
=============================================================================
