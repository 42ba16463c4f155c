--------------------------- MODULE EnvelopeListing ---------------------------
(***************************************************************************)
(* The pages of a mailbox: `list_envelopes` on the five kinds of backend   *)
(* and `search_envelopes` on the three that have it, called for one page   *)
(* or for page after page, while other clients deliver and remove.         *)
(*                                                                         *)
(* IMAP reads a page in two or three commands (SELECT, UID SORT, FETCH),   *)
(* Gmail walks the server's pages by token and then gets the messages one  *)
(* by one, JMAP and Graph ask once.  "local" is m2dir and Maildir, whose   *)
(* two reads belong to M2dirStore and MaildirStore.  Page sizes of zero    *)
(* are left out.                                                           *)
(***************************************************************************)
EXTENDS SearchQuery, Paging

CONSTANTS
    Kinds,       \* the messages others deliver, without their ids
    Queries,     \* the queries callers search by
    Sizes,       \* page sizes
    MaxPage,     \* bound on the page number
    MaxBox,      \* bound on the messages there at first
    MaxMeddles   \* bound on what other clients do during the calls

ASSUME ListingAssumption ==
    /\ Sizes \subseteq 1 .. MaxU32 /\ NoSize \notin Sizes
    /\ MaxPage \in 1 .. MaxU32 /\ MaxBox + MaxMeddles <= MaxU32
    /\ ServerPage \in Nat \ {0}

VARIABLES
    box,        \* the messages of the mailbox, oldest arrival first
    next,       \* the id of the next message
    meddles,    \* how much other clients have done
    call,       \* the call in progress: its arguments, then what it has read
    answer,     \* the envelopes of the last page
    error,      \* the last page was refused
    walk        \* the calls so far: what was there, what was got and removed

vars == <<box, next, meddles, call, answer, error, walk>>

\* The query of a call that lists.
Listing == [filter |-> Word("list"), sort |-> <<>>]
Ids(ms) == {m.id : m \in ms}
Present == ToSet(box)

\* Email order of a server that keeps the order of arrival: latest first.
Latest == Reverse(box)

Message(id, kind) ==
    [id |-> id, sent |-> kind.sent, zone |-> kind.zone, from |-> kind.from, seen |-> kind.seen]

-----------------------------------------------------------------------------
(* The steps of a call. *)

Call(backend, query, page, size, stage) ==
    [backend |-> backend, query |-> query, page |-> page, size |-> size,
     stage |-> stage, read |-> <<>>, window |-> <<>>, uids |-> <<>>,
     got |-> <<>>, skip |-> page - 1, after |-> 0, removed |-> FALSE]

FirstStage(backend) ==
    CASE backend = "imap" -> "select" [] backend = "gmail" -> "token" [] OTHER -> "ask"

\* What is parsed of what the caller wrote; a caller with no query writes none.
Parsing(query) ==
    IF query = Listing \/ query = [filter |-> All, sort |-> <<>>] THEN query
    ELSE Parse(Text(query))

Begin(backend, query, page, size) ==
    /\ call' = Call(backend, query, page, size, FirstStage(backend))
    /\ walk' = [walk EXCEPT !.start = Ids(Present), !.first = page]
    /\ UNCHANGED <<box, next, meddles, answer, error>>

Start ==
    /\ call.stage = "idle"
    /\ \E page \in 1 .. MaxPage, size \in Sizes \cup {NoSize} :
        \/ \E backend \in {"imap", "jmap", "gmail", "msgraph", "local"} :
               Begin(backend, Listing, page, size)
        \/ \E backend \in {"imap", "jmap", "local"}, query \in Queries :
               Begin(backend, query, page, size)

\* The call returns ms, read from `read`.
Answer(ms, read) ==
    /\ answer' = ms /\ error' = FALSE
    /\ call' = [call EXCEPT !.stage = "done", !.read = read]
    /\ walk' = [walk EXCEPT !.got = @ \cup Ids(ToSet(ms)),
                            !.emptied = ms = <<>> /\ (call.window # <<>> \/ call.uids # <<>>)]

Refuse ==
    /\ answer' = <<>> /\ error' = TRUE
    /\ call' = [call EXCEPT !.stage = "done"]
    /\ UNCHANGED walk

Continue(stage, changed) ==
    /\ call' = [changed EXCEPT !.stage = stage]
    /\ UNCHANGED <<answer, error, walk>>

\* ImapEnvelopeList, ImapEnvelopeSearch: SELECT tells how many there are.
Select ==
    LET window == ComputeWindow(Len(box), call.page, call.size)
    IN /\ call.stage = "select"
       /\ IF call.query # Listing
              THEN IF box = <<>> THEN Answer(<<>>, <<>>) ELSE Continue("sort", call)
          ELSE IF box = <<>> THEN Answer(<<>>, <<>>)
          ELSE IF call.size = NoSize THEN Continue("fetch", [call EXCEPT !.read = box])
          ELSE IF window = <<>> THEN Answer(<<>>, box)
          ELSE Continue("fetch", [call EXCEPT !.read = box, !.window = window])
       /\ UNCHANGED <<box, next, meddles>>

\* ImapEnvelopeList: FETCH by sequence number, in the mailbox as selected,
\* latest first; "1:*" may take in what came since.
FetchWindow ==
    /\ call.stage = "fetch" /\ call.query = Listing
    /\ \E told \in BOOLEAN :
           LET new == SelectSeq(box, LAMBDA m : m \notin ToSet(call.read))
               read == IF told /\ call.size = NoSize THEN call.read \o new ELSE call.read
               asked == IF call.size = NoSize THEN read
                        ELSE SubSeq(read, call.window[1], call.window[2])
           IN Answer(Reverse(SelectSeq(asked, LAMBDA m : m \in Present)), read)
    /\ UNCHANGED <<box, next, meddles>>

\* ImapEnvelopeSearch: UID SORT, and the page of what it found.
Sort ==
    LET parsed == Parsing(call.query)
        found == {m \in Present : KeyHolds(m, ImapKey(parsed.filter))}
        uids == Paginate(Sorted(found, Sorters(parsed.sort)), call.page, call.size)
    IN /\ call.stage = "sort"
       /\ IF uids = <<>> THEN Answer(<<>>, box)
          ELSE Continue("fetch", [call EXCEPT !.read = box, !.uids = uids])
       /\ UNCHANGED <<box, next, meddles>>

\* reorder_envelopes: what FETCH gave, in the order of the sort.
FetchUids ==
    /\ call.stage = "fetch" /\ call.query # Listing
    /\ Answer(SelectSeq(call.uids, LAMBDA m : m \in Present), call.read)
    /\ UNCHANGED <<box, next, meddles>>

\* JmapEnvelopeList.
JmapList ==
    LET at == PositionLimit(call.page, call.size)
    IN /\ call.stage = "ask" /\ call.backend = "jmap" /\ call.query = Listing
       /\ Answer(Slice(Latest, at[1], at[2]), box)
       /\ UNCHANGED <<box, next, meddles>>

\* JmapEnvelopeSearch: with a condition on the date the server is asked for
\* everything, and the page is cut from what is left of its answer here.
JmapSearch ==
    LET parsed == Parsing(call.query)
        posts == PostFilters(parsed.filter)
        at == PositionLimit(call.page, IF posts = {} THEN call.size ELSE NoSize)
        found == {m \in Present : ConditionHolds(m, JmapFilter(parsed.filter))}
        told == Slice(Sorted(found, Sorters(parsed.sort)), at[1], at[2])
        kept == SelectSeq(told, LAMBDA m : PostMatch(m, posts))
    IN /\ call.stage = "ask" /\ call.backend = "jmap" /\ call.query # Listing
       /\ Answer(IF posts = {} THEN told ELSE Paginate(kept, call.page, call.size), box)
       /\ UNCHANGED <<box, next, meddles>>

\* MsgraphEnvelopeList: the skip is a plain product of u32, which panics or
\* wraps by the build's profile.
GraphList ==
    LET skip == IF call.size = NoSize THEN 0 ELSE (call.page - 1) * call.size
        top == IF call.size = NoSize THEN ServerPage ELSE call.size
    IN /\ call.stage = "ask" /\ call.backend = "msgraph"
       /\ \/ Answer(Slice(Latest, skip % (MaxU32 + 1), top), box)
          \/ skip > MaxU32 /\ Refuse
       /\ UNCHANGED <<box, next, meddles>>

\* M2dirEnvelopeList, MaildirEnvelopeList and the searches: everything is
\* read, filtered, sorted and cut here.
LocalRead ==
    LET parsed == IF call.query = Listing THEN [filter |-> All, sort |-> <<>>]
                  ELSE Parsing(call.query)
        found == {m \in Present : Matches(m, parsed.filter)}
    IN /\ call.stage = "ask" /\ call.backend = "local"
       /\ Answer(Paginate(Sorted(found, Sorters(parsed.sort)), call.page, call.size), box)
       /\ UNCHANGED <<box, next, meddles>>

\* GmailEnvelopeList: one more page of the server, until the one asked for.
\* A token goes on after the last message of its page.
Token ==
    LET rest == SelectSeq(Latest, LAMBDA m : call.after = 0 \/ m.id < call.after)
        size == IF call.size = NoSize THEN ServerPage ELSE call.size
        page == Slice(rest, 0, size)
        read == IF call.after = 0 THEN box ELSE call.read
        more == Len(rest) > size
    IN /\ call.stage = "token"
       /\ IF call.skip > 0
              THEN IF more
                   THEN Continue("token", [call EXCEPT !.skip = @ - 1, !.read = read,
                                                       !.after = Last(page).id])
                   ELSE Answer(<<>>, read)
          ELSE IF page = <<>> THEN Answer(<<>>, read)
          ELSE Continue("get", [call EXCEPT !.uids = page, !.read = read])
       /\ UNCHANGED <<box, next, meddles>>

\* GmailEnvelopeList: the messages of the page, one request each; the first
\* that is gone fails the page.  One that only lost its label is still got.
GetEach ==
    LET asked == call.uids[Len(call.got) + 1]
        got == Append(call.got, asked)
    IN /\ call.stage = "get"
       /\ \/ IF got = call.uids THEN Answer(got, call.read)
             ELSE Continue("get", [call EXCEPT !.got = got])
          \/ asked \notin Present /\ Refuse
       /\ UNCHANGED <<box, next, meddles>>

InProgress == call.stage \notin {"idle", "done", "over"}

\* A command, a request or a read fails: so does the page.
Fail == InProgress /\ Refuse /\ UNCHANGED <<box, next, meddles>>

\* The caller asks for the next page until one is empty.
Turn ==
    /\ call.stage = "done" /\ answer # <<>> /\ call.size # NoSize
    /\ call.page < MaxPage
    /\ call' = Call(call.backend, call.query, call.page + 1, call.size,
                    FirstStage(call.backend))
    /\ UNCHANGED <<box, next, meddles, answer, error, walk>>

End ==
    /\ call.stage = "done" /\ ~error /\ (answer = <<>> \/ call.size = NoSize)
    /\ call' = [call EXCEPT !.stage = "over"]
    /\ UNCHANGED <<box, next, meddles, answer, error, walk>>

\* Other clients, from the call of a page to its answer.
Meddle ==
    /\ InProgress /\ meddles < MaxMeddles
    /\ meddles' = meddles + 1
    /\ \/ \E kind \in Kinds :
              /\ box' = Append(box, Message(next, kind)) /\ next' = next + 1
              /\ UNCHANGED <<call, walk>>
       \/ \E i \in DOMAIN box :
              /\ box' = RemoveAt(box, i)
              /\ call' = [call EXCEPT !.removed = TRUE]
              /\ walk' = [walk EXCEPT !.removed = @ + 1]
              /\ UNCHANGED next
    /\ UNCHANGED <<answer, error>>

Init ==
    /\ \E n \in 0 .. MaxBox : \E kinds \in [1 .. n -> Kinds] :
           box = [i \in 1 .. n |-> Message(i, kinds[i])] /\ next = n + 1
    /\ meddles = 0
    /\ call = Call("none", Listing, 1, NoSize, "idle")
    /\ answer = <<>> /\ error = FALSE
    /\ walk = [start |-> {}, first |-> 1, got |-> {}, removed |-> 0, emptied |-> FALSE]

Next ==
    \/ Start \/ Turn \/ End \/ Fail \/ Meddle
    \/ Select \/ FetchWindow \/ Sort \/ FetchUids
    \/ JmapList \/ JmapSearch \/ GraphList \/ LocalRead
    \/ Token \/ GetEach

Spec == Init /\ [][Next]_vars

-----------------------------------------------------------------------------
(* What a page should be. *)

\* The messages of S a filter is about, as sets.
RECURSIVE Meant(_, _)
Meant(f, S) ==
    CASE f.op = "all" -> S
      [] f.op = "and" -> Meant(f.left, S) \cap Meant(f.right, S)
      [] f.op = "or" -> Meant(f.left, S) \cup Meant(f.right, S)
      [] f.op = "not" -> S \ Meant(f.arg, S)
      [] f.op = "date" -> {m \in S : Day(m) = f.day}
      [] f.op = "after" -> {m \in S : Day(m) >= f.day + 1}
      [] f.op = "from" -> {m \in S : m.from = f.from}
      [] f.op = "seen" -> {m \in S : m.seen}

\* a comes before b by the sorters a caller wrote, or by the default.
Precedes(a, b, sort) ==
    LET by == IF sort = <<>> THEN <<[kind |-> "date", desc |-> TRUE]>> ELSE sort
        same(i) == SortKey(a, by[i].kind) = SortKey(b, by[i].kind)
        less(i) == SortKey(a, by[i].kind) < SortKey(b, by[i].kind)
    IN \/ \E i \in DOMAIN by :
              /\ \A j \in 1 .. i - 1 : same(j)
              /\ ~same(i) /\ (less(i) <=> ~by[i].desc)
       \/ (\A i \in DOMAIN by : same(i)) /\ a.id < b.id

\* ms is what is left of the messages of S with start up to start + count of
\* the others before them, in that order.
IsPage(ms, S, Comes(_, _), start, count) ==
    LET place(m) == Cardinality({n \in S : Comes(n, m)})
    IN /\ ToSet(ms) = {m \in S : place(m) >= start /\ place(m) < start + count} \cap Present
       /\ \A i, j \in DOMAIN ms : i < j => Comes(ms[i], ms[j])

\* Where the page of a call starts, and how much of it there may be.
PageStart ==
    IF call.size # NoSize THEN (call.page - 1) * call.size
    ELSE IF call.backend = "gmail" THEN (call.page - 1) * ServerPage ELSE 0
PageCount ==
    IF call.size # NoSize THEN call.size
    ELSE IF call.backend \in {"imap", "local"} THEN MaxU32 ELSE ServerPage

-----------------------------------------------------------------------------
(* Properties. *)

\* Every variable holds a value of its kind, and an IMAP window names
\* sequence numbers that exist in the mailbox it was computed for.
TypeOK ==
    /\ next \in Nat \ {0} /\ meddles \in 0 .. MaxMeddles
    /\ Ids(Present) \subseteq 1 .. next - 1
    /\ call.page \in 1 .. MaxPage /\ call.size \in Sizes \cup {NoSize}
    /\ call.window # <<>> =>
           /\ call.window[1] \in 1 .. Len(call.read)
           /\ call.window[2] \in call.window[1] .. Len(call.read)
    /\ error \in BOOLEAN /\ walk.first \in 1 .. MaxPage

\* A page of a listing is the page of the mailbox as the call found it, in
\* the order the backend keeps, less what was removed before it was read.
\* Left out: a Gmail page with a removal under way, which the server fills up
\* with the messages that follow; and a Graph page whose skip passes u32.
PageIsSlice ==
    /\ call.stage = "done" /\ ~error /\ call.query = Listing
    /\ call.backend = "gmail" => ~call.removed
    /\ call.backend = "msgraph" => PageStart <= MaxU32
    =>
    IsPage(answer, ToSet(call.read),
           LAMBDA a, b : IF call.backend = "local" THEN Precedes(a, b, <<>>) ELSE a.id > b.id,
           PageStart, PageCount)

\* The conditions on the date are all joined to the rest by "and".
RECURSIVE OnlyConjoined(_)
OnlyConjoined(f) ==
    IF f.op = "and" THEN OnlyConjoined(f.left) /\ OnlyConjoined(f.right)
    ELSE f.op \in {"or", "not"} => PostFilters(f) = {}

\* A page of a search is the page of the messages the query is about, as the
\* caller wrote it, in the order the caller wrote: from text to page, IMAP and
\* the local stores agree on that.  JMAP agrees with them when the conditions
\* on the date are only conjoined, the day of every message had begun in UTC
\* too, and the server answers all it is asked for.
SearchAgrees ==
    /\ call.stage = "done" /\ ~error /\ call.query # Listing
    /\ call.backend = "jmap" =>
           /\ OnlyConjoined(call.query.filter)
           /\ \A m \in ToSet(call.read) : m.sent >= 2 * Day(m)
           /\ Len(call.read) <= ServerPage
    =>
    IsPage(answer, Meant(call.query.filter, ToSet(call.read)),
           LAMBDA a, b : Precedes(a, b, call.query.sort), PageStart, PageCount)

\* Page after page until an empty one misses no more of the messages that
\* stay than others removed meanwhile.  Left out: an empty page that had
\* messages when it was computed, calls without a size where the server has
\* one of its own, and JMAP searches.
PagesCover ==
    /\ call.stage = "over" /\ walk.first = 1 /\ ~walk.emptied
    /\ call.size = NoSize => call.backend \in {"imap", "local"}
    /\ call.backend = "jmap" => call.query = Listing
    =>
    LET due == IF call.query = Listing THEN Present ELSE Meant(call.query.filter, Present)
        missed == {id \in Ids(due) : id \in walk.start /\ id \notin walk.got}
    IN Cardinality(missed) <= walk.removed
=============================================================================
