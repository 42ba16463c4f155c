------------------------- MODULE MCEnvelopeListing -------------------------
(* Small instances of EnvelopeListing for TLC. *)
EXTENDS EnvelopeListing, TLC

\* A message of day 1; one of day 1 sent east of UTC, where it was day 0; one
\* of day 2.
MCKinds ==
    {[sent |-> 2, zone |-> 0, from |-> 1, seen |-> FALSE],
     [sent |-> 1, zone |-> 1, from |-> 2, seen |-> TRUE],
     [sent |-> 4, zone |-> 0, from |-> 2, seen |-> FALSE]}

Day1 == [op |-> "date", day |-> 1]
After1 == [op |-> "after", day |-> 1]
FromOne == [op |-> "from", from |-> 1]
Seen == [op |-> "seen"]
ByFrom == <<[kind |-> "from", desc |-> FALSE], [kind |-> "date", desc |-> TRUE]>>

MCQueries ==
    {[filter |-> All, sort |-> ByFrom],
     [filter |-> AndF(Day1, NotF(Seen)), sort |-> <<>>],
     [filter |-> OrF(AndF(FromOne, NotF(Seen)), After1), sort |-> <<>>],
     [filter |-> AndF(NotF(OrF(FromOne, Seen)), After1), sort |-> ByFrom]}
=============================================================================
