----------------------------- MODULE SearchQuery -----------------------------
(***************************************************************************)
(* The search language: the parser of a query, what a filter means to a    *)
(* backend that evaluates it here (m2dir, Maildir), and what becomes of it *)
(* at a server (IMAP, JMAP).                                               *)
(*                                                                         *)
(* A message is a record: `sent`, the instant of its Date header in half   *)
(* days UTC; `zone`, the sender's offset in half days; `from`, its sender; *)
(* `seen`, its flag.  A filter is a tree of records told apart by `op`; a  *)
(* query text is a sequence of such records, words and conditions.  The    *)
(* conditions on From, To, Subject and Body differ only in the field they  *)
(* read: `from` stands for them.                                           *)
(***************************************************************************)
EXTENDS Integers, Sequences, FiniteSets, SequencesExt

-----------------------------------------------------------------------------
(* Trees and texts. *)

All == [op |-> "all"]
Word(w) == [op |-> w]
NotF(f) == [op |-> "not", arg |-> f]
AndF(f, g) == [op |-> "and", left |-> f, right |-> g]
OrF(f, g) == [op |-> "or", left |-> f, right |-> g]
Condition == {"date", "after", "from", "seen"}

\* How a caller writes a filter: the parentheses its precedences need, and
\* no other.
RECURSIVE Written(_, _)
Written(f, level) ==
    LET within(own, text) ==
            IF level > own THEN <<Word("(")>> \o text \o <<Word(")")>> ELSE text
    IN CASE f.op = "not" -> <<Word("not")>> \o Written(f.arg, 3)
         [] f.op = "and" -> within(2, Written(f.left, 2) \o <<Word("and")>> \o Written(f.right, 3))
         [] f.op = "or" -> within(1, Written(f.left, 1) \o <<Word("or")>> \o Written(f.right, 2))
         [] OTHER -> <<f>>

\* How a caller writes a query; an ascending order is the one to leave out.
Text(q) ==
    (IF q.filter = All THEN <<>> ELSE Written(q.filter, 1))
        \o (IF q.sort = <<>> THEN <<>> ELSE <<Word("order by")>>)
        \o [i \in DOMAIN q.sort |->
              [op |-> "sort", kind |-> q.sort[i].kind,
               order |-> IF q.sort[i].desc THEN "desc" ELSE "none"]]

-----------------------------------------------------------------------------
(* The parser. *)

Failure == [ok |-> FALSE]
Parsed(tree, rest) == [ok |-> TRUE, tree |-> tree, rest |-> rest]
StartsWith(ts, w) == ts # <<>> /\ Head(ts).op = w

\* query: `not` binds a condition or a parenthesis, `and` joins those, `or`
\* joins what `and` joined; both lean to the left.
RECURSIVE Chain(_, _), More(_, _), Negation(_)
Operand(word, ts) == IF word = "and" THEN Negation(ts) ELSE Chain("and", ts)

Chain(word, ts) == More(word, Operand(word, ts))

More(word, left) ==
    IF ~left.ok \/ ~StartsWith(left.rest, word) THEN left
    ELSE LET right == Operand(word, Tail(left.rest))
             both == [op |-> word, left |-> left.tree, right |-> right.tree]
         IN IF right.ok THEN More(word, Parsed(both, right.rest)) ELSE left

Negation(ts) ==
    CASE ts = <<>> -> Failure
      [] StartsWith(ts, "not") ->
           LET inner == Negation(Tail(ts))
           IN IF inner.ok THEN Parsed(NotF(inner.tree), inner.rest) ELSE Failure
      [] StartsWith(ts, "(") ->
           LET inner == Chain("or", Tail(ts))
           IN IF inner.ok /\ StartsWith(inner.rest, ")")
                  THEN Parsed(inner.tree, Tail(inner.rest)) ELSE Failure
      [] OTHER -> IF Head(ts).op \in Condition THEN Parsed(Head(ts), Tail(ts)) ELSE Failure

\* parse_filter: the whole text has to be one filter.
ParseFilter(ts) ==
    LET parsed == Chain("or", ts)
    IN IF parsed.ok /\ parsed.rest = <<>> THEN parsed.tree ELSE Word("error")

\* sort::parser::query: an order left out is ascending.
ParseSort(ts) ==
    [i \in DOMAIN ts |-> [kind |-> ts[i].kind, desc |-> ts[i].order = "desc"]]

\* parse: the text is cut at its last "order by".
Parse(ts) ==
    LET cuts == {i \in DOMAIN ts : ts[i].op = "order by"}
        cut == Max(cuts)
    IN IF cuts = {} THEN [filter |-> ParseFilter(ts), sort |-> <<>>]
       ELSE [filter |-> IF cut = 1 THEN All ELSE ParseFilter(SubSeq(ts, 1, cut - 1)),
             sort |-> ParseSort(SubSeq(ts, cut + 1, Len(ts)))]

-----------------------------------------------------------------------------
(* What a filter means where this library evaluates it. *)

\* date_naive: the day of a message, by its sender's clock.
Day(m) == (m.sent + m.zone) \div 2

\* matches_filter.
RECURSIVE Matches(_, _)
Matches(m, f) ==
    CASE f.op = "all" -> TRUE
      [] f.op = "and" -> Matches(m, f.left) /\ Matches(m, f.right)
      [] f.op = "or" -> Matches(m, f.left) \/ Matches(m, f.right)
      [] f.op = "not" -> ~Matches(m, f.arg)
      [] f.op = "date" -> Day(m) = f.day
      [] f.op = "after" -> Day(m) > f.day
      [] f.op = "from" -> m.from = f.from
      [] f.op = "seen" -> m.seen

-----------------------------------------------------------------------------
(* What becomes of it at an IMAP server. *)

\* Mutant: "after" a day takes the day in.
NextDaySame(day) == day

\* succ_opt: the servers' date conditions take their day in, "after" does not.
NextDay(day) == day + 1

\* convert_filter.
RECURSIVE ImapKey(_)
ImapKey(f) ==
    CASE f.op = "all" -> [key |-> "ALL"]
      [] f.op = "and" -> [key |-> "AND", left |-> ImapKey(f.left), right |-> ImapKey(f.right)]
      [] f.op = "or" -> [key |-> "OR", left |-> ImapKey(f.left), right |-> ImapKey(f.right)]
      [] f.op = "not" -> [key |-> "NOT", arg |-> ImapKey(f.arg)]
      [] f.op = "date" -> [key |-> "SENTON", day |-> f.day]
      [] f.op = "after" -> [key |-> "SENTSINCE", day |-> NextDay(f.day)]
      [] f.op = "from" -> [key |-> "FROM", from |-> f.from]
      [] f.op = "seen" -> [key |-> "SEEN"]

\* The server: the sent keys read the Date header, whatever its zone.
RECURSIVE KeyHolds(_, _)
KeyHolds(m, k) ==
    CASE k.key = "ALL" -> TRUE
      [] k.key = "AND" -> KeyHolds(m, k.left) /\ KeyHolds(m, k.right)
      [] k.key = "OR" -> KeyHolds(m, k.left) \/ KeyHolds(m, k.right)
      [] k.key = "NOT" -> ~KeyHolds(m, k.arg)
      [] k.key = "SENTON" -> Day(m) = k.day
      [] k.key = "SENTSINCE" -> Day(m) >= k.day
      [] k.key = "FROM" -> m.from = k.from
      [] k.key = "SEEN" -> m.seen

-----------------------------------------------------------------------------
(* What becomes of it at a JMAP server. *)

\* convert_filter: a condition on the date becomes one on the instant the
\* message was received, from midnight UTC on.
RECURSIVE JmapFilter(_)
JmapFilter(f) ==
    CASE f.op \in {"and", "or"} ->
           [f EXCEPT !.left = JmapFilter(@), !.right = JmapFilter(@)]
      [] f.op = "not" -> [f EXCEPT !.arg = JmapFilter(@)]
      [] f.op = "date" -> [op |-> "received", since |-> 2 * f.day]
      [] f.op = "after" -> [op |-> "received", since |-> 2 * NextDay(f.day)]
      [] OTHER -> f

\* convert_filter, post_filters: every condition on the date, wherever it
\* stands in the tree.
RECURSIVE PostFilters(_)
PostFilters(f) ==
    CASE f.op \in {"and", "or"} -> PostFilters(f.left) \cup PostFilters(f.right)
      [] f.op = "not" -> PostFilters(f.arg)
      [] f.op \in {"date", "after"} -> {f}
      [] OTHER -> {}

\* post_match: the envelope meets all of them.
PostMatch(m, posts) ==
    \A post \in posts :
        IF post.op = "date" THEN Day(m) = post.day ELSE Day(m) > post.day

\* The server: a message is received when it is sent.
RECURSIVE ConditionHolds(_, _)
ConditionHolds(m, f) ==
    CASE f.op = "all" -> TRUE
      [] f.op = "and" -> ConditionHolds(m, f.left) /\ ConditionHolds(m, f.right)
      [] f.op = "or" -> ConditionHolds(m, f.left) \/ ConditionHolds(m, f.right)
      [] f.op = "not" -> ~ConditionHolds(m, f.arg)
      [] f.op = "received" -> m.sent >= f.since
      [] f.op = "from" -> m.from = f.from
      [] f.op = "seen" -> m.seen

-----------------------------------------------------------------------------
(* Orders. *)

\* The sort of a query; one without sorters is by date, latest first.
Sorters(sort) == IF sort = <<>> THEN <<[kind |-> "date", desc |-> TRUE]>> ELSE sort

SortKey(m, kind) == IF kind = "date" THEN m.sent ELSE m.from

\* compare_with: the first sorter that tells two messages apart decides.
Before(a, b, sorters) ==
    LET deciding == {i \in DOMAIN sorters : SortKey(a, sorters[i].kind) # SortKey(b, sorters[i].kind)}
        by == sorters[Min(deciding)]
    IN /\ deciding # {}
       /\ IF by.desc THEN SortKey(a, by.kind) > SortKey(b, by.kind)
          ELSE SortKey(a, by.kind) < SortKey(b, by.kind)

\* sort_by is stable: equal messages stay in the order they are listed in.
Sorted(ms, sorters) ==
    SetToSortSeq(ms, LAMBDA a, b :
        Before(a, b, sorters) \/ (~Before(b, a, sorters) /\ a.id < b.id))
=============================================================================
