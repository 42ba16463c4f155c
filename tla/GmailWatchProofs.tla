-------------------------- MODULE GmailWatchProofs --------------------------
(***************************************************************************)
(* Proofs about GmailWatch, for any messages, any labels, any number of    *)
(* changes and any interval between two polls: the types; how long the     *)
(* watch outlives the shutdown flag; and that a diff told by kind leaves   *)
(* its consumer with the mailbox it led to, but for the messages that      *)
(* cannot be told that way.                                                *)
(***************************************************************************)
EXTENDS GmailWatch, TLAPS

\* Before the flag is raised no poll is late.  After a late poll the watcher
\* comes to the sleep with all its chunks to go, so that it reads the flag.
LateIsLast ==
    /\ ~shutdown => late = 0
    /\ late # 0 /\ phase = "sleep" => chunk = Chunks

IInv ==
    /\ phase \in {"poll", "details", "send", "sleep", "ended"}
    /\ shutdown \in BOOLEAN
    /\ late \in {0, 1}
    /\ late # 0 => phase # "poll"
    /\ LateIsLast

LEMMA InitInv == Init => IInv
BY DEF Init, IInv, LateIsLast

LEMMA NextInv == IInv /\ [Next]_vars => IInv'
  <1> SUFFICES ASSUME IInv, [Next]_vars PROVE IInv'
    OBVIOUS
  <1> USE WatchAssumption DEF IInv, LateIsLast
  <1>1. CASE \E i \in Id : Come(i) \/ Go(i) \/ \E ls \in SUBSET Label : Give(i, ls) \/ Take(i, ls)
    <2>1. Change
      BY ONLY <1>1, Zenon DEF Come, Go, Give, Take
    <2>2. QED
      BY <2>1 DEF Change, watcher, ghosts
  <1>2. CASE Poll
    BY <1>2 DEF Poll
  <1>3. CASE Diff
    BY <1>3 DEF Diff
  <1>4. CASE Send
    BY <1>4 DEF Send
  <1>5. CASE Sleep
    BY <1>5 DEF Sleep, ghosts
  <1>6. CASE Fail
    BY <1>6 DEF Fail, ghosts
  <1>7. CASE Shutdown
    BY <1>7 DEF Shutdown, watcher, ghosts
  <1>8. CASE Drop
    BY <1>8 DEF Drop, watcher, ghosts
  <1>9. CASE UNCHANGED vars
    BY <1>9 DEF vars, watcher, ghosts
  <1>10. QED
    BY <1>1, <1>2, <1>3, <1>4, <1>5, <1>6, <1>7, <1>8, <1>9 DEF Next, Watch

\* At most one poll begins after the shutdown flag is raised, however many
\* sleeps lie between two polls.
THEOREM LatePoll == Spec => []OneLatePoll
  <1>1. IInv => OneLatePoll
    BY DEF IInv, OneLatePoll
  <1>2. QED
    BY <1>1, InitInv, NextInv, PTL DEF Spec

-----------------------------------------------------------------------------
(* The diffs, and what is known of them. *)

\* The labels that stand for a flag, and the flags each message is known by.
System == {"UNREAD", "STARRED", "IMPORTANT", "DRAFT", "SPAM"}
Known == {Out} \cup (SUBSET Flag)

RecordType == [id : Id, labels : SUBSET Label]
DiffType == [added : SUBSET Id, removed : SUBSET Id, given : Seq(RecordType), taken : Seq(RecordType)]
EventType == [what : {"EnvelopeAdded", "EnvelopeRemoved", "FlagsAdded", "FlagsRemoved"},
              id : Id, flags : SUBSET Flag, place : Nat]

Types ==
    /\ here \subseteq Id
    /\ labels \in [Id -> SUBSET Label]
    /\ {history, diff} \subseteq DiffType
    /\ changes \in 0..MaxChanges
    /\ phase \in {"poll", "details", "send", "sleep", "ended"}
    /\ events = {KeepAlive} \/ events \subseteq EventType
    /\ chunk \in 0..Chunks
    /\ shutdown \in BOOLEAN /\ dropped \in BOOLEAN
    /\ {replica, picture} \subseteq [Id -> Known]
    /\ muddled \subseteq Id
    /\ late \in Nat

\* What flags say of a label, and what an event says of it.
Has(fs, l) == IF l = "UNREAD" THEN FlagOf(l).flag \notin fs ELSE FlagOf(l).flag \in fs
Says(e, l) == IF l = "UNREAD" THEN e.what = "FlagsRemoved" ELSE e.what = "FlagsAdded"

About(e, i, l) ==
    /\ e.what \in {"FlagsAdded", "FlagsRemoved"}
    /\ e.id = i
    /\ FlagOf(l).flag \in e.flags

\* A message that neither came nor went since the last diff is where that diff
\* left it, and what has happened to a label since is in the records: the last
\* of them, in whichever kind, tells how the label is now.
Recorded(i, l) ==
    /\ \/ Has(picture[i], l) <=> l \in labels[i]
       \/ l \in labels[i] /\ Names(history.given, i, l)
       \/ l \notin labels[i] /\ Names(history.taken, i, l)
    /\ l \in labels[i] /\ Names(history.taken, i, l) => Names(history.given, i, l)
    /\ l \notin labels[i] /\ Names(history.given, i, l) => Names(history.taken, i, l)

HistoryOK ==
    \A i \in Id :
        /\ i \in history.removed \ history.added => i \notin here
        /\ i \notin history.added \cup history.removed =>
               /\ i \in here <=> picture[i] # Out
               /\ i \in here => \A l \in System : Recorded(i, l)

\* Between two diffs the consumer knows the picture.
ToldOK == phase \in {"poll", "sleep"} => \A i \in Id \ muddled : replica[i] = picture[i]

\* A diff leads from what the consumer knows to the picture; told by kind, the
\* labels given before those taken, it would lead there too.
Leads(i, l) ==
    /\ \/ Has(replica[i], l) <=> Has(picture[i], l)
       \/ Has(picture[i], l) /\ Names(diff.given, i, l)
       \/ ~Has(picture[i], l) /\ Names(diff.taken, i, l)
    /\ Has(picture[i], l) => ~Names(diff.taken, i, l)
    /\ ~Has(picture[i], l) /\ Names(diff.given, i, l) => Names(diff.taken, i, l)

DiffOK ==
    phase = "details" =>
        \A i \in Id \ muddled :
            /\ i \in diff.added => picture[i] # Out
            /\ i \in diff.removed \ diff.added => picture[i] = Out
            /\ i \notin diff.added \cup diff.removed =>
                   /\ replica[i] = Out <=> picture[i] = Out
                   /\ picture[i] # Out => \A l \in System : Leads(i, l)

\* The events in line agree with the picture, or are corrected by a later one.
Corrected(i, l) ==
    \A e \in events : About(e, i, l) /\ (~(Says(e, l) <=> Has(picture[i], l))) =>
        \E o \in events : About(o, i, l) /\ (Says(o, l) <=> Has(picture[i], l)) /\ e.place < o.place

\* What the consumer does not know yet is in line.
Pending(i, l) ==
    \/ Has(replica[i], l) <=> Has(picture[i], l)
    \/ \E e \in events : About(e, i, l)

Arrives(e, i) == e.what = "EnvelopeAdded" /\ e.id = i
Leaves(e, i) == e.what = "EnvelopeRemoved" /\ e.id = i

InLine(i) ==
    /\ \A e \in events : Arrives(e, i) => e.flags = picture[i]
    /\ \A e \in events : Leaves(e, i) => picture[i] = Out
    /\ picture[i] = Out => replica[i] = Out \/ \E e \in events : Leaves(e, i)
    /\ picture[i] # Out =>
           /\ \A l \in System : Corrected(i, l)
           /\ \/ \E e \in events : Arrives(e, i)
              \/ replica[i] # Out /\ \A l \in System : Pending(i, l)

SendOK == phase = "send" => \A i \in Id \ muddled : InLine(i)

TellInv == Types /\ HistoryOK /\ ToldOK /\ DiffOK /\ SendOK

-----------------------------------------------------------------------------
(* Labels, flags and events. *)

LEMMA FlagFacts ==
    /\ \A m : FlagOf(m).flag \in Flag \cup {"none"} /\ FlagOf(m).inverted \in BOOLEAN
    /\ \A l \in System : FlagOf(l).flag \in Flag /\ (FlagOf(l).inverted <=> l = "UNREAD")
    /\ \A l \in System : \A m : FlagOf(m).flag = FlagOf(l).flag => m = l
BY DEF FlagOf, Flag, System

LEMMA FlagsOfLabels ==
  ASSUME NEW ls
  PROVE  /\ FlagsOf(ls) \in SUBSET Flag
         /\ FlagsOf(ls) # Out
         /\ \A l \in System : Has(FlagsOf(ls), l) <=> l \in ls
  <1>1. FlagsOf(ls) \in SUBSET Flag
    BY DEF FlagsOf, Flag
  <1>2. \A l \in System : Has(FlagsOf(ls), l) <=> l \in ls
    BY DEF FlagsOf, System, Has, FlagOf
  <1> QED
    BY <1>1, <1>2, OutAssumption

\* Flags that say the same of every label are the same.
LEMMA SameFlags ==
  ASSUME NEW fs \in SUBSET Flag, NEW gs \in SUBSET Flag,
         \A l \in System : Has(fs, l) <=> Has(gs, l)
  PROVE  fs = gs
  <1>1. ASSUME NEW f \in Flag PROVE \E l \in System : FlagOf(l).flag = f
    BY <1>1 DEF Flag, System, FlagOf
  <1>2. ASSUME NEW f \in Flag PROVE f \in fs <=> f \in gs
    BY <1>1 DEF Has
  <1> QED
    BY <1>2

LEMMA NamesAppend ==
  ASSUME NEW s \in Seq(RecordType), NEW r \in RecordType, NEW i, NEW l
  PROVE  Names(Append(s, r), i, l) <=> Names(s, i, l) \/ (r.id = i /\ l \in r.labels)
  <1>1. DOMAIN Append(s, r) = 1..Len(s) + 1 /\ DOMAIN s = 1..Len(s) /\ Len(s) \in Nat
    OBVIOUS
  <1>2. \A k \in 1..Len(s) : Append(s, r)[k] = s[k]
    OBVIOUS
  <1>3. Append(s, r)[Len(s) + 1] = r
    OBVIOUS
  <1>4. \A k : k \in 1..Len(s) + 1 <=> k \in 1..Len(s) \/ k = Len(s) + 1
    BY <1>1
  <1> QED
    BY <1>1, <1>2, <1>3, <1>4 DEF Names

\* The events of the n-th record are about its message and say of its labels,
\* and of no other, that they are there or that they are not.
TellsOfRecord(told, r, given, n) ==
    /\ told \subseteq EventType
    /\ \A e \in told :
           /\ e.what \in {"FlagsAdded", "FlagsRemoved"}
           /\ e.id = r.id
           /\ e.place \in {2 * n, 2 * n + 1}
           /\ \A l \in System : FlagOf(l).flag \in e.flags =>
                  l \in r.labels /\ (Says(e, l) <=> given)
    /\ \A l \in System : l \in r.labels => \E e \in told : FlagOf(l).flag \in e.flags

LEMMA FlagEventsTell ==
  ASSUME NEW r \in RecordType, NEW given \in BOOLEAN, NEW n \in Nat
  PROVE  TellsOfRecord(FlagEvents(r, given, n), r, given, n)
  <1> DEFINE named == {FlagOf(l) : l \in r.labels}
             raised == {f.flag : f \in {g \in named : g.inverted # given}} \ {"none"}
             lowered == {f.flag : f \in {g \in named : g.inverted = given}} \ {"none"}
             Up == [what |-> "FlagsAdded", id |-> r.id, flags |-> raised, place |-> 2 * n]
             Down == [what |-> "FlagsRemoved", id |-> r.id, flags |-> lowered, place |-> 2 * n + 1]
  <1>1. \A e : e \in FlagEvents(r, given, n) <=> e \in {Up, Down} /\ e.flags # {}
    BY DEF FlagEvents
  <1>2. raised \subseteq Flag /\ lowered \subseteq Flag
    BY FlagFacts
  <1>3. ASSUME NEW l \in System
        PROVE  /\ FlagOf(l).flag \in raised <=> l \in r.labels /\ FlagOf(l).inverted # given
               /\ FlagOf(l).flag \in lowered <=> l \in r.labels /\ FlagOf(l).inverted = given
    <2>1. FlagOf(l).flag # "none"
      BY FlagFacts DEF Flag
    <2>2. \A m : FlagOf(m).flag = FlagOf(l).flag => m = l
      BY FlagFacts
    <2>3. QED
      BY <2>1, <2>2
  <1>4. Up.flags = raised /\ Down.flags = lowered
    OBVIOUS
  <1>5. r.id \in Id
    BY DEF RecordType
  <1>6. 2 * n \in Nat /\ 2 * n + 1 \in Nat
    OBVIOUS
  <1>7. Up \in EventType /\ Down \in EventType
    BY <1>2, <1>5, <1>6 DEF EventType
  <1>8. /\ Up.what = "FlagsAdded" /\ Up.id = r.id /\ Up.place = 2 * n
        /\ Down.what = "FlagsRemoved" /\ Down.id = r.id /\ Down.place = 2 * n + 1
    OBVIOUS
  <1>9. ASSUME NEW l \in System
        PROVE  /\ (FlagOf(l).inverted # given) <=> (Says(Up, l) <=> given)
               /\ (FlagOf(l).inverted = given) <=> (Says(Down, l) <=> given)
    <2> HIDE DEF Up, Down
    <2>1. FlagOf(l).inverted \in BOOLEAN /\ (FlagOf(l).inverted <=> l = "UNREAD")
      BY FlagFacts
    <2>2. (Says(Up, l) <=> l # "UNREAD") /\ (Says(Down, l) <=> l = "UNREAD")
      BY <1>8 DEF Says
    <2>3. QED
      BY ONLY <2>1, <2>2, given \in BOOLEAN
  <1> HIDE DEF Up, Down, raised, lowered
  <1>10. FlagEvents(r, given, n) \subseteq EventType
    BY <1>1, <1>7
  <1>11. ASSUME NEW e \in FlagEvents(r, given, n), NEW l \in System, FlagOf(l).flag \in e.flags
         PROVE  l \in r.labels /\ (Says(e, l) <=> given)
    BY <1>1, <1>3, <1>4, <1>9, <1>11
  <1>12. ASSUME NEW l \in System, l \in r.labels
         PROVE  \E e \in FlagEvents(r, given, n) : FlagOf(l).flag \in e.flags
    BY <1>1, <1>3, <1>4, <1>12
  <1> QED
    BY <1>1, <1>8, <1>10, <1>11, <1>12 DEF TellsOfRecord

\* What a set of events tells of the diff: every change of it once, the labels
\* given before those taken.
Between == 2 * Len(diff.given) + 1

TellsOfLabel(told, i, l) ==
    /\ \A e \in told : About(e, i, l) =>
           /\ i \notin diff.added
           /\ Says(e, l) => Names(diff.given, i, l) /\ e.place <= Between
           /\ ~Says(e, l) => Names(diff.taken, i, l)
    /\ i \notin diff.added /\ Names(diff.given, i, l) =>
           \E e \in told : About(e, i, l) /\ Says(e, l)
    /\ i \notin diff.added /\ Names(diff.taken, i, l) =>
           \E e \in told : About(e, i, l) /\ ~Says(e, l) /\ Between < e.place

TellsOf(told, i) ==
    /\ \A e \in told : Arrives(e, i) => i \in diff.added /\ e.flags = FlagsOf(labels[i])
    /\ i \in diff.added => \E e \in told : Arrives(e, i)
    /\ \A e \in told : Leaves(e, i) => i \in diff.removed \ diff.added
    /\ i \in diff.removed \ diff.added => \E e \in told : Leaves(e, i)
    /\ \A l \in System : TellsOfLabel(told, i, l)

LEMMA EventsTell ==
  ASSUME Types
  PROVE  EventsOf(diff) \subseteq EventType /\ \A i \in Id : TellsOf(EventsOf(diff), i)
  <1> DEFINE given == {k \in DOMAIN diff.given : diff.given[k].id \notin diff.added}
             taken == {k \in DOMAIN diff.taken : diff.taken[k].id \notin diff.added}
             Came == CameEvents(diff.added)
             Went == WentEvents(diff.removed \ diff.added)
             Given(k) == FlagEvents(diff.given[k], TRUE, k)
             Taken(k) == FlagEvents(diff.taken[k], FALSE, Len(diff.given) + k)
  <1>1. /\ diff.added \subseteq Id /\ diff.removed \subseteq Id
        /\ diff.given \in Seq(RecordType) /\ diff.taken \in Seq(RecordType)
    BY DEF Types, DiffType
  <1>2. /\ Len(diff.given) \in Nat /\ DOMAIN diff.given = 1..Len(diff.given)
        /\ DOMAIN diff.taken = 1..Len(diff.taken) /\ Len(diff.taken) \in Nat
    BY <1>1
  <1>3. \A e : e \in EventsOf(diff) <=>
            \/ e \in Came \/ e \in Went
            \/ \E k \in given : e \in Given(k)
            \/ \E k \in taken : e \in Taken(k)
    BY DEF EventsOf, GivenEvents, TakenEvents
  <1>4. ASSUME NEW e \in Came
        PROVE  /\ e \in EventType /\ e.what = "EnvelopeAdded"
               /\ e.id \in diff.added /\ e.flags = FlagsOf(labels[e.id])
    <2>1. PICK i \in diff.added :
            e = [what |-> "EnvelopeAdded", id |-> i, flags |-> FlagsOf(labels[i]), place |-> 0]
      BY <1>4 DEF CameEvents
    <2>2. FlagsOf(labels[i]) \in SUBSET Flag
      BY FlagsOfLabels
    <2>3. QED
      BY <2>1, <2>2, <1>1 DEF EventType
  <1>5. ASSUME NEW e \in Went
        PROVE  /\ e \in EventType /\ e.what = "EnvelopeRemoved"
               /\ e.id \in diff.removed \ diff.added
    <2>1. PICK i \in diff.removed \ diff.added :
            e = [what |-> "EnvelopeRemoved", id |-> i, flags |-> {}, place |-> 1]
      BY <1>5 DEF WentEvents
    <2>2. QED
      BY <2>1, <1>1 DEF EventType
  <1>6. ASSUME NEW k \in given
        PROVE  /\ k \in Nat /\ k \in 1..Len(diff.given)
               /\ diff.given[k] \in RecordType /\ diff.given[k].id \notin diff.added
    BY <1>1, <1>2
  <1>7. ASSUME NEW k \in given PROVE TellsOfRecord(Given(k), diff.given[k], TRUE, k)
    <2>1. diff.given[k] \in RecordType /\ k \in Nat /\ TRUE \in BOOLEAN
      BY <1>6
    <2>2. QED
      BY <2>1, FlagEventsTell
  <1>8. ASSUME NEW k \in taken
        PROVE  /\ k \in Nat /\ k \in 1..Len(diff.taken) /\ Len(diff.given) + k \in Nat
               /\ diff.taken[k] \in RecordType /\ diff.taken[k].id \notin diff.added
    BY <1>1, <1>2
  <1>9. ASSUME NEW k \in taken
        PROVE  TellsOfRecord(Taken(k), diff.taken[k], FALSE, Len(diff.given) + k)
    <2>1. diff.taken[k] \in RecordType /\ Len(diff.given) + k \in Nat /\ FALSE \in BOOLEAN
      BY <1>8
    <2>2. QED
      BY <2>1, FlagEventsTell
  <1>10. \A k \in given : k \in DOMAIN diff.given /\ 2 * k + 1 <= Between /\ 2 * k <= Between
    BY <1>6, <1>2 DEF Between
  <1>11. \A k \in taken : /\ k \in DOMAIN diff.taken
                          /\ Between < 2 * (Len(diff.given) + k)
                          /\ Between < 2 * (Len(diff.given) + k) + 1
    BY <1>8, <1>2 DEF Between
  <1>12. \A k \in DOMAIN diff.given : diff.given[k].id \notin diff.added => k \in given
    OBVIOUS
  <1>13. \A k \in DOMAIN diff.taken : diff.taken[k].id \notin diff.added => k \in taken
    OBVIOUS
  <1>14. \A i \in diff.added : \E e \in Came : Arrives(e, i)
    <2> TAKE i \in diff.added
    <2> DEFINE e == [what |-> "EnvelopeAdded", id |-> i, flags |-> FlagsOf(labels[i]), place |-> 0]
    <2>1. e \in Came
      BY DEF CameEvents
    <2>2. Arrives(e, i)
      BY DEF Arrives
    <2> HIDE DEF e, Came
    <2> QED
      BY <2>1, <2>2
  <1>15. \A i \in diff.removed \ diff.added : \E e \in Went : Leaves(e, i)
    <2> TAKE i \in diff.removed \ diff.added
    <2> DEFINE e == [what |-> "EnvelopeRemoved", id |-> i, flags |-> {}, place |-> 1]
    <2>1. e \in Went
      BY DEF WentEvents
    <2>2. Leaves(e, i)
      BY DEF Leaves
    <2> HIDE DEF e, Went
    <2> QED
      BY <2>1, <2>2
  <1> HIDE DEF given, taken, Came, Went, Given, Taken
  <1>16. EventsOf(diff) \subseteq EventType
    BY <1>3, <1>4, <1>5, <1>7, <1>9 DEF TellsOfRecord
  <1>17. ASSUME NEW i \in Id, NEW l \in System PROVE TellsOfLabel(EventsOf(diff), i, l)
    <2>1. ASSUME NEW e \in EventsOf(diff), About(e, i, l)
          PROVE  /\ i \notin diff.added
                 /\ Says(e, l) => Names(diff.given, i, l) /\ e.place <= Between
                 /\ ~Says(e, l) => Names(diff.taken, i, l)
      <3>1. e \notin Came /\ e \notin Went
        BY <2>1, <1>4, <1>5 DEF About
      <3>2. CASE \E k \in given : e \in Given(k)
        <4>1. PICK k \in given : e \in Given(k)
          BY <3>2
        <4>2. l \in diff.given[k].labels /\ Says(e, l) /\ diff.given[k].id = i
          BY <4>1, <1>7, <2>1 DEF About, TellsOfRecord
        <4>3. e.place <= Between
          BY <4>1, <1>7, <1>10 DEF TellsOfRecord
        <4>4. Names(diff.given, i, l) /\ i \notin diff.added
          BY <4>2, <1>10, <1>6 DEF Names
        <4>5. QED
          BY <4>2, <4>3, <4>4
      <3>3. CASE \E k \in taken : e \in Taken(k)
        <4>1. PICK k \in taken : e \in Taken(k)
          BY <3>3
        <4>2. l \in diff.taken[k].labels /\ ~Says(e, l) /\ diff.taken[k].id = i
          BY <4>1, <1>9, <2>1 DEF About, TellsOfRecord
        <4>3. Names(diff.taken, i, l) /\ i \notin diff.added
          BY <4>2, <1>11, <1>8 DEF Names
        <4>4. QED
          BY <4>2, <4>3
      <3>4. QED
        BY <1>3, <3>1, <3>2, <3>3
    <2>2. ASSUME i \notin diff.added, Names(diff.given, i, l)
          PROVE  \E e \in EventsOf(diff) : About(e, i, l) /\ Says(e, l)
      <3>1. PICK k \in DOMAIN diff.given : diff.given[k].id = i /\ l \in diff.given[k].labels
        BY <2>2 DEF Names
      <3>2. k \in given
        BY <3>1, <2>2, <1>12
      <3>3. PICK e \in Given(k) : FlagOf(l).flag \in e.flags
        BY <3>1, <3>2, <1>7 DEF TellsOfRecord
      <3>4. About(e, i, l) /\ Says(e, l)
        BY <3>1, <3>2, <3>3, <1>7 DEF About, TellsOfRecord
      <3>5. QED
        BY <3>2, <3>3, <3>4, <1>3
    <2>3. ASSUME i \notin diff.added, Names(diff.taken, i, l)
          PROVE  \E e \in EventsOf(diff) : About(e, i, l) /\ ~Says(e, l) /\ Between < e.place
      <3>1. PICK k \in DOMAIN diff.taken : diff.taken[k].id = i /\ l \in diff.taken[k].labels
        BY <2>3 DEF Names
      <3>2. k \in taken
        BY <3>1, <2>3, <1>13
      <3>3. PICK e \in Taken(k) : FlagOf(l).flag \in e.flags
        BY <3>1, <3>2, <1>9 DEF TellsOfRecord
      <3>4. About(e, i, l) /\ ~Says(e, l)
        BY <3>1, <3>2, <3>3, <1>9 DEF About, TellsOfRecord
      <3>5. Between < e.place
        BY <3>2, <3>3, <1>9, <1>11 DEF TellsOfRecord
      <3>6. QED
        BY <3>2, <3>3, <3>4, <3>5, <1>3
    <2>4. QED
      BY <2>1, <2>2, <2>3 DEF TellsOfLabel
  <1>18. ASSUME NEW i \in Id PROVE TellsOf(EventsOf(diff), i)
    <2>1. ASSUME NEW e \in EventsOf(diff)
          PROVE  /\ Arrives(e, i) => i \in diff.added /\ e.flags = FlagsOf(labels[i])
                 /\ Leaves(e, i) => i \in diff.removed \ diff.added
      BY <1>3, <1>4, <1>5, <1>7, <1>9 DEF Arrives, Leaves, TellsOfRecord
    <2>2. i \in diff.added => \E e \in EventsOf(diff) : Arrives(e, i)
      BY <1>14, <1>3
    <2>3. i \in diff.removed \ diff.added => \E e \in EventsOf(diff) : Leaves(e, i)
      BY <1>15, <1>3
    <2>4. QED
      BY <2>1, <2>2, <2>3, <1>17 DEF TellsOf
  <1> QED
    BY <1>16, <1>18

\* A KeepAlive tells of nothing.
LEMMA TellsTell ==
  ASSUME Types
  PROVE  LET told == Tells(EventsOf(diff))
         IN  /\ told = {KeepAlive} \/ told \subseteq EventType
             /\ \A i \in Id : TellsOf(told, i)
  <1>1. CASE EventsOf(diff) # {}
    BY <1>1, EventsTell DEF Tells
  <1>2. CASE EventsOf(diff) = {}
    <2>1. Tells(EventsOf(diff)) = {KeepAlive}
      BY <1>2 DEF Tells
    <2>2. KeepAlive.what = "KeepAlive"
      BY DEF KeepAlive
    <2>3. \A i, l : ~About(KeepAlive, i, l) /\ ~Arrives(KeepAlive, i) /\ ~Leaves(KeepAlive, i)
      BY <2>2 DEF About, Arrives, Leaves
    <2>4. \A i \in Id : TellsOf({}, i)
      BY <1>2, EventsTell
    <2>5. \A i \in Id : TellsOf({KeepAlive}, i)
      BY <2>3, <2>4 DEF TellsOf, TellsOfLabel
    <2>6. QED
      BY <2>1, <2>5
  <1> QED
    BY <1>1, <1>2

-----------------------------------------------------------------------------
(* The invariant. *)

\* What flags say of labels they are, and nothing is said of Out.
LEMMA PictureIs ==
  ASSUME here \subseteq Id
  PROVE  /\ Picture \in [Id -> Known]
         /\ \A i \in Id : i \in here <=> Picture[i] # Out
         /\ \A i \in here : \A l \in System : Has(Picture[i], l) <=> l \in labels[i]
  <1>1. \A i \in Id : FlagsOf(labels[i]) \in Known
    BY FlagsOfLabels DEF Known
  <1>3. \A i \in Id : Picture[i] = IF i \in here THEN FlagsOf(labels[i]) ELSE Out
    BY DEF Picture
  <1>4. Picture \in [Id -> Known]
    <2>1. \A i \in Id : (IF i \in here THEN FlagsOf(labels[i]) ELSE Out) \in Known
      BY <1>1 DEF Known
    <2>2. QED
      BY <2>1 DEF Picture
  <1>5. \A i \in Id : i \in here <=> Picture[i] # Out
    BY <1>3, FlagsOfLabels
  <1>6. \A i \in here : \A l \in System : Has(Picture[i], l) <=> l \in labels[i]
    BY <1>3, FlagsOfLabels
  <1> QED
    BY <1>4, <1>5, <1>6

LEMMA EmptyDiff ==
    /\ Empty \in DiffType
    /\ \A i, l : ~Names(Empty.given, i, l) /\ ~Names(Empty.taken, i, l)
  <1>1. << >> \in Seq(RecordType) /\ DOMAIN << >> = {}
    OBVIOUS
  <1>2. Empty.given = << >> /\ Empty.taken = << >>
    BY DEF Empty
  <1>3. Empty \in DiffType
    BY <1>1 DEF Empty, DiffType
  <1> QED
    BY <1>1, <1>2, <1>3 DEF Names

LEMMA InitTell == Init => TellInv
  <1> SUFFICES ASSUME Init PROVE TellInv
    OBVIOUS
  <1>1. here \subseteq Id /\ labels \in [Id -> SUBSET Label]
    BY DEF Init
  <1>2. Picture \in [Id -> Known]
    BY <1>1, PictureIs
  <1>3. {history, diff} \subseteq DiffType /\ {replica, picture} \subseteq [Id -> Known]
    BY <1>2, EmptyDiff DEF Init
  <1>4. Types
    <2>1. events \subseteq EventType /\ muddled \subseteq Id
      BY DEF Init
    <2>2. changes \in 0..MaxChanges /\ chunk \in 0..Chunks /\ late \in Nat
      BY WatchAssumption DEF Init
    <2>3. shutdown \in BOOLEAN /\ dropped \in BOOLEAN /\ phase = "poll"
      BY Zenon DEF Init
    <2>4. QED
      BY <1>1, <1>3, <2>1, <2>2, <2>3 DEF Types
  <1>5. HistoryOK
    <2>1. history = Empty /\ picture = Picture
      BY DEF Init
    <2>2. history.added = {} /\ history.removed = {}
      BY <2>1 DEF Empty
    <2>3. QED
      BY <1>1, <2>1, <2>2, EmptyDiff, PictureIs DEF HistoryOK, Recorded
  <1>6. ToldOK /\ DiffOK /\ SendOK
    BY DEF Init, ToldOK, DiffOK, SendOK
  <1> QED
    BY <1>4, <1>5, <1>6 DEF TellInv

\* What the watcher does next, what it knows and what it has told do not hang
\* on what the other clients or the caller do.
LEMMA OthersTell ==
  ASSUME UNCHANGED <<phase, diff, events, replica, picture, muddled>>
  PROVE  (ToldOK => ToldOK') /\ (DiffOK => DiffOK') /\ (SendOK => SendOK')
  <1>1. ToldOK' <=> ToldOK
    BY DEF ToldOK
  <1>2. DiffOK' <=> DiffOK
    BY DEF DiffOK, Leads, Names, Has
  <1>3. SendOK' <=> SendOK
    BY DEF SendOK, InLine, Corrected, Pending, About, Says, Has, Arrives, Leaves
  <1> QED
    BY <1>1, <1>2, <1>3

LEMMA ChangeTell ==
  ASSUME TellInv, Change, here' \subseteq Id, labels' \in [Id -> SUBSET Label],
         history' \in DiffType, HistoryOK'
  PROVE  TellInv'
  <1>1. UNCHANGED <<phase, diff, events, chunk, shutdown, dropped, replica, picture, muddled, late>>
    BY DEF Change, watcher, ghosts
  <1>2. changes' \in 0..MaxChanges
    BY WatchAssumption DEF Change, TellInv, Types
  <1>3. Types'
    BY <1>1, <1>2 DEF TellInv, Types, KeepAlive
  <1> QED
    BY <1>1, <1>3, OthersTell DEF TellInv

LEMMA ComeTell ==
  ASSUME TellInv, NEW i \in Id, Come(i)
  PROVE  TellInv'
  <1>1. history \in DiffType /\ here \subseteq Id /\ labels \in [Id -> SUBSET Label]
    BY DEF TellInv, Types
  <1>2. Change /\ here' = here \cup {i} /\ labels' = labels
    BY DEF Come
  <1>3. /\ history' \in DiffType
        /\ history'.added = history.added \cup {i} /\ history'.removed = history.removed
        /\ history'.given = history.given /\ history'.taken = history.taken
    BY <1>1 DEF Come, DiffType
  <1>4. picture' = picture
    BY <1>2 DEF Change, ghosts
  <1>5. HistoryOK'
    BY <1>2, <1>3, <1>4 DEF TellInv, HistoryOK, Recorded, Has, Names
  <1> QED
    BY <1>1, <1>2, <1>3, <1>5, ChangeTell

LEMMA GoTell ==
  ASSUME TellInv, NEW i \in Id, Go(i)
  PROVE  TellInv'
  <1>1. history \in DiffType /\ here \subseteq Id /\ labels \in [Id -> SUBSET Label]
    BY DEF TellInv, Types
  <1>2. Change /\ here' = here \ {i} /\ labels' = labels
    BY DEF Go
  <1>3. /\ history' \in DiffType
        /\ history'.added = history.added /\ history'.removed = history.removed \cup {i}
        /\ history'.given = history.given /\ history'.taken = history.taken
    BY <1>1 DEF Go, DiffType
  <1>4. picture' = picture
    BY <1>2 DEF Change, ghosts
  <1>5. HistoryOK'
    BY <1>2, <1>3, <1>4 DEF TellInv, HistoryOK, Recorded, Has, Names
  <1> QED
    BY <1>1, <1>2, <1>3, <1>5, ChangeTell

LEMMA GiveTell ==
  ASSUME TellInv, NEW i \in Id, NEW ls \in SUBSET Label, Give(i, ls)
  PROVE  TellInv'
  <1>1. history \in DiffType /\ here \subseteq Id /\ labels \in [Id -> SUBSET Label]
    BY DEF TellInv, Types
  <1> DEFINE r == [id |-> i, labels |-> ls]
  <1>2. Change /\ here' = here /\ labels' = [labels EXCEPT ![i] = @ \cup ls]
    BY DEF Give
  <1>3. labels' \in [Id -> SUBSET Label]
    BY <1>1, <1>2
  <1>4. history.given \in Seq(RecordType) /\ r \in RecordType
    BY <1>1 DEF DiffType, RecordType
  <1>5. picture' = picture
    BY <1>2 DEF Change, ghosts
  <1>6. CASE i \notin here
    <2>1. history' = history
      BY <1>6 DEF Give
    <2>2. HistoryOK'
      BY <1>1, <1>2, <1>5, <1>6, <2>1 DEF TellInv, HistoryOK, Recorded, Has, Names
    <2>3. QED
      BY <1>1, <1>2, <1>3, <2>1, <2>2, ChangeTell
  <1>7. CASE i \in here
    <2>1. history' = [history EXCEPT !.given = Append(@, r)]
      BY <1>7 DEF Give
    <2>2. Append(history.given, r) \in Seq(RecordType)
      BY <1>4
    <2>3. /\ history' \in DiffType
          /\ history'.added = history.added /\ history'.removed = history.removed
          /\ history'.given = Append(history.given, r) /\ history'.taken = history.taken
      BY <1>1, <2>1, <2>2 DEF DiffType
    <2>4. \A j, l : Names(history.given, j, l)' <=>
                        Names(history.given, j, l) \/ (i = j /\ l \in ls)
      <3> TAKE j, l
      <3>1. Names(Append(history.given, r), j, l) <=>
                Names(history.given, j, l) \/ (r.id = j /\ l \in r.labels)
        BY <1>4, NamesAppend
      <3>2. Names(history.given, j, l)' <=> Names(Append(history.given, r), j, l)
        BY <2>3 DEF Names
      <3>3. QED
        BY <3>1, <3>2
    <2>5. \A j, l : Names(history.taken, j, l)' <=> Names(history.taken, j, l)
      BY <2>3 DEF Names
    <2>6. \A j \in Id, l \in System : j \in here /\ Recorded(j, l) => Recorded(j, l)'
      <3> SUFFICES ASSUME NEW j \in Id, NEW l \in System, Recorded(j, l) PROVE Recorded(j, l)'
        OBVIOUS
      <3>1. Has(picture[j], l)' <=> Has(picture[j], l)
        BY <1>5 DEF Has
      <3>2. l \in labels'[j] <=> l \in labels[j] \/ (i = j /\ l \in ls)
        BY <1>1, <1>2
      <3>3. i = j /\ l \in ls => l \notin labels[j]
        BY DEF Give
      <3>4. QED
        BY <2>4, <2>5, <3>1, <3>2, <3>3 DEF Recorded
    <2>7. HistoryOK'
      BY <1>2, <1>5, <2>3, <2>6 DEF TellInv, HistoryOK
    <2>8. QED
      BY <1>1, <1>2, <1>3, <2>3, <2>7, ChangeTell
  <1> QED
    BY <1>6, <1>7

LEMMA TakeTell ==
  ASSUME TellInv, NEW i \in Id, NEW ls \in SUBSET Label, Take(i, ls)
  PROVE  TellInv'
  <1>1. history \in DiffType /\ here \subseteq Id /\ labels \in [Id -> SUBSET Label]
    BY DEF TellInv, Types
  <1> DEFINE r == [id |-> i, labels |-> ls]
  <1>2. Change /\ here' = here /\ labels' = [labels EXCEPT ![i] = @ \ ls]
    BY DEF Take
  <1>3. labels' \in [Id -> SUBSET Label]
    BY <1>1, <1>2
  <1>4. history.taken \in Seq(RecordType) /\ r \in RecordType
    BY <1>1 DEF DiffType, RecordType
  <1>5. picture' = picture
    BY <1>2 DEF Change, ghosts
  <1>6. CASE i \notin here
    <2>1. history' = history
      BY <1>6 DEF Take
    <2>2. HistoryOK'
      BY <1>1, <1>2, <1>5, <1>6, <2>1 DEF TellInv, HistoryOK, Recorded, Has, Names
    <2>3. QED
      BY <1>1, <1>2, <1>3, <2>1, <2>2, ChangeTell
  <1>7. CASE i \in here
    <2>1. history' = [history EXCEPT !.taken = Append(@, r)]
      BY <1>7 DEF Take
    <2>2. Append(history.taken, r) \in Seq(RecordType)
      BY <1>4
    <2>3. /\ history' \in DiffType
          /\ history'.added = history.added /\ history'.removed = history.removed
          /\ history'.given = history.given /\ history'.taken = Append(history.taken, r)
      BY <1>1, <2>1, <2>2 DEF DiffType
    <2>4. \A j, l : Names(history.taken, j, l)' <=>
                        Names(history.taken, j, l) \/ (i = j /\ l \in ls)
      <3> TAKE j, l
      <3>1. Names(Append(history.taken, r), j, l) <=>
                Names(history.taken, j, l) \/ (r.id = j /\ l \in r.labels)
        BY <1>4, NamesAppend
      <3>2. Names(history.taken, j, l)' <=> Names(Append(history.taken, r), j, l)
        BY <2>3 DEF Names
      <3>3. QED
        BY <3>1, <3>2
    <2>5. \A j, l : Names(history.given, j, l)' <=> Names(history.given, j, l)
      BY <2>3 DEF Names
    <2>6. \A j \in Id, l \in System : j \in here /\ Recorded(j, l) => Recorded(j, l)'
      <3> SUFFICES ASSUME NEW j \in Id, NEW l \in System, Recorded(j, l) PROVE Recorded(j, l)'
        OBVIOUS
      <3>1. Has(picture[j], l)' <=> Has(picture[j], l)
        BY <1>5 DEF Has
      <3>2. l \in labels'[j] <=> l \in labels[j] /\ ~(i = j /\ l \in ls)
        BY <1>1, <1>2
      <3>3. i = j /\ l \in ls => l \in labels[j]
        BY DEF Take
      <3>4. QED
        BY <2>4, <2>5, <3>1, <3>2, <3>3 DEF Recorded
    <2>7. HistoryOK'
      BY <1>2, <1>5, <2>3, <2>6 DEF TellInv, HistoryOK
    <2>8. QED
      BY <1>1, <1>2, <1>3, <2>3, <2>7, ChangeTell
  <1> QED
    BY <1>6, <1>7

LEMMA PollTell ==
  ASSUME TellInv, Poll
  PROVE  TellInv'
  <1>1. /\ here \subseteq Id /\ labels \in [Id -> SUBSET Label]
        /\ history \in DiffType /\ late \in Nat
        /\ replica \in [Id -> Known] /\ picture \in [Id -> Known]
        /\ events = {KeepAlive} \/ events \subseteq EventType
        /\ chunk \in 0..Chunks /\ changes \in 0..MaxChanges
        /\ shutdown \in BOOLEAN /\ dropped \in BOOLEAN
    BY DEF TellInv, Types
  <1>2. /\ phase = "poll" /\ phase' = "details" /\ diff' = history /\ history' = Empty
        /\ picture' = Picture
        /\ muddled' = (muddled \ (history.added \cup history.removed))
                          \cup {i \in Id : Muddled(history, i)}
        /\ late' \in {late, late + 1}
        /\ UNCHANGED <<here, labels, changes, events, chunk, shutdown, dropped, replica>>
    BY DEF Poll
  <1>3. late' \in Nat /\ muddled' \subseteq Id
    BY <1>1, <1>2 DEF TellInv, Types
  <1>4. Types'
    <2>1. diff' \in DiffType /\ history' \in DiffType /\ picture' \in [Id -> Known]
      BY <1>1, <1>2, EmptyDiff, PictureIs
    <2>2. QED
      BY <1>1, <1>2, <1>3, <2>1 DEF Types, KeepAlive
  <1>5. HistoryOK'
    <2>1. history'.added = {} /\ history'.removed = {}
      BY <1>2 DEF Empty
    <2>2. \A i, l : ~Names(history.given, i, l)' /\ ~Names(history.taken, i, l)'
      BY <1>2, EmptyDiff
    <2>3. \A i \in Id : i \in here' <=> picture'[i] # Out
      BY <1>1, <1>2, PictureIs
    <2>4. \A i \in here : \A l \in System : Has(picture[i], l)' <=> l \in labels'[i]
      <3> TAKE i \in here
      <3> TAKE l \in System
      <3>1. Has(Picture[i], l) <=> l \in labels[i]
        BY <1>1, PictureIs
      <3>2. Has(picture[i], l)' <=> Has(Picture[i], l)
        BY <1>2 DEF Has
      <3>3. QED
        BY <1>2, <3>1, <3>2
    <2>5. QED
      BY <1>2, <2>1, <2>2, <2>3, <2>4 DEF HistoryOK, Recorded
  <1>6. ASSUME NEW i \in Id, i \notin muddled'
        PROVE  /\ i \in diff'.added => picture'[i] # Out
               /\ i \in diff'.removed \ diff'.added => picture'[i] = Out
               /\ i \notin diff'.added \cup diff'.removed =>
                      /\ replica'[i] = Out <=> picture'[i] = Out
                      /\ picture'[i] # Out => \A l \in System : Leads(i, l)'
    <2>1. ~Muddled(history, i)
      BY <1>2, <1>6
    <2>2. i \in here <=> picture'[i] # Out
      BY <1>1, <1>2, PictureIs
    <2>3. i \in history.added => picture'[i] # Out
      BY <2>1, <2>2 DEF Muddled
    <2>4. i \in history.removed \ history.added => picture'[i] = Out
      BY <2>2 DEF TellInv, HistoryOK
    <2>5. ASSUME i \notin history.added \cup history.removed
          PROVE  /\ replica[i] = Out <=> picture'[i] = Out
                 /\ picture'[i] # Out => \A l \in System : Leads(i, l)'
      <3>1. i \notin muddled
        BY <1>2, <1>6, <2>5
      <3>2. replica[i] = picture[i]
        BY <1>2, <3>1 DEF TellInv, ToldOK
      <3>3. i \in here <=> picture[i] # Out
        BY <2>5 DEF TellInv, HistoryOK
      <3>4. ASSUME picture'[i] # Out, NEW l \in System PROVE Leads(i, l)'
        <4>1. i \in here
          BY <2>2, <3>4
        <4>2. Recorded(i, l)
          BY <2>5, <4>1 DEF TellInv, HistoryOK
        <4>3. ~(l \in labels[i] /\ Names(history.given, i, l) /\ Names(history.taken, i, l))
          BY <2>1, <2>5 DEF Muddled
        <4>4. Has(picture[i], l)' <=> l \in labels[i]
          <5>1. Has(Picture[i], l) <=> l \in labels[i]
            BY <1>1, <4>1, PictureIs
          <5>2. QED
            BY <1>2, <5>1 DEF Has
        <4>5. Has(replica[i], l)' <=> Has(picture[i], l)
          BY <1>2, <3>2 DEF Has
        <4>6. /\ Names(diff.given, i, l)' <=> Names(history.given, i, l)
              /\ Names(diff.taken, i, l)' <=> Names(history.taken, i, l)
          BY <1>2 DEF Names
        <4>7. QED
          BY <4>2, <4>3, <4>4, <4>5, <4>6 DEF Recorded, Leads
      <3>5. QED
        BY <2>2, <3>2, <3>3, <3>4
    <2>6. QED
      BY <1>2, <2>3, <2>4, <2>5
  <1>7. DiffOK'
    BY <1>6 DEF DiffOK
  <1>8. ToldOK' /\ SendOK'
    BY <1>2 DEF ToldOK, SendOK
  <1> QED
    BY <1>4, <1>5, <1>7, <1>8 DEF TellInv

\* The events of a diff are in line: those that speak against the picture are
\* of labels given and then taken, told in that order.
LEMMA DiffTell ==
  ASSUME TellInv, Diff
  PROVE  TellInv'
  <1> DEFINE told == Tells(EventsOf(diff))
  <1>1. /\ here \subseteq Id /\ labels \in [Id -> SUBSET Label]
        /\ history \in DiffType /\ diff \in DiffType /\ late \in Nat
        /\ replica \in [Id -> Known] /\ picture \in [Id -> Known] /\ muddled \subseteq Id
        /\ chunk \in 0..Chunks /\ changes \in 0..MaxChanges
        /\ shutdown \in BOOLEAN /\ dropped \in BOOLEAN
    BY DEF TellInv, Types
  <1>2. /\ phase = "details" /\ phase' = "send" /\ events' = told
        /\ UNCHANGED <<server, diff, chunk, shutdown, dropped, replica, muddled, late>>
    BY DEF Diff
  <1>3. \A i \in Id : picture'[i] =
            IF i \in diff.added /\ picture[i] # Out THEN FlagsOf(labels[i]) ELSE picture[i]
    BY DEF Diff
  <1>4. picture' \in [Id -> Known]
    <2>1. \A i \in Id : FlagsOf(labels[i]) \in Known
      BY FlagsOfLabels DEF Known
    <2>2. \A i \in Id :
              (IF i \in diff.added /\ picture[i] # Out THEN FlagsOf(labels[i]) ELSE picture[i]) \in Known
      BY <1>1, <2>1
    <2>3. QED
      BY <2>2 DEF Diff
  <1>5. (told = {KeepAlive} \/ told \subseteq EventType) /\ \A i \in Id : TellsOf(told, i)
    BY TellsTell DEF TellInv
  <1> HIDE DEF told
  <1>6. UNCHANGED <<here, labels, history, changes>>
    BY <1>2 DEF server
  <1>7. Types'
    BY <1>1, <1>2, <1>4, <1>5, <1>6 DEF Types, KeepAlive
  <1>8. \A i \in Id : picture'[i] = Out <=> picture[i] = Out
    BY <1>3, FlagsOfLabels
  <1>9. HistoryOK'
    <2>1. ASSUME NEW i \in Id, i \notin history.added \cup history.removed, i \in here,
                 NEW l \in System
          PROVE  Recorded(i, l)'
      <3>1. Recorded(i, l)
        BY <2>1 DEF TellInv, HistoryOK
      <3>2. /\ Names(history.given, i, l)' <=> Names(history.given, i, l)
            /\ Names(history.taken, i, l)' <=> Names(history.taken, i, l)
        BY <1>6 DEF Names
      <3>3. CASE picture'[i] = picture[i]
        <4>1. Has(picture[i], l)' <=> Has(picture[i], l)
          BY <3>3 DEF Has
        <4>2. QED
          BY <1>6, <3>1, <3>2, <4>1 DEF Recorded
      <3>4. CASE picture'[i] = FlagsOf(labels[i])
        <4>1. Has(FlagsOf(labels[i]), l) <=> l \in labels[i]
          BY FlagsOfLabels
        <4>2. Has(picture[i], l)' <=> l \in labels[i]
          BY <3>4, <4>1 DEF Has
        <4>3. QED
          BY <1>6, <3>1, <3>2, <4>2 DEF Recorded
      <3>5. QED
        BY <1>3, <3>3, <3>4
    <2>2. QED
      BY <1>6, <1>8, <2>1 DEF TellInv, HistoryOK
  <1>10. ASSUME NEW i \in Id, i \notin muddled PROVE InLine(i)'
    <2>1. TellsOf(told, i)
      BY <1>5
    <2>2. /\ i \in diff.added => picture[i] # Out
          /\ i \in diff.removed \ diff.added => picture[i] = Out
          /\ i \notin diff.added \cup diff.removed =>
                 /\ replica[i] = Out <=> picture[i] = Out
                 /\ picture[i] # Out => \A l \in System : Leads(i, l)
      BY <1>2, <1>10 DEF TellInv, DiffOK
    <2>3. \A e \in told : Arrives(e, i) => e.flags = picture'[i]
      BY <1>3, <2>1, <2>2 DEF TellsOf
    <2>4. \A e \in told : Leaves(e, i) => picture'[i] = Out
      BY <1>8, <2>1, <2>2 DEF TellsOf
    <2>5. picture'[i] = Out => replica[i] = Out \/ \E e \in told : Leaves(e, i)
      BY <1>8, <2>1, <2>2 DEF TellsOf
    <2>6. ASSUME picture'[i] # Out, i \notin diff.added, NEW l \in System
          PROVE  Leads(i, l) /\ (Has(picture[i], l)' <=> Has(picture[i], l))
      BY <1>3, <1>8, <2>2, <2>6 DEF Has
    <2>7. ASSUME picture'[i] # Out, NEW l \in System PROVE Corrected(i, l)'
      <3> SUFFICES ASSUME NEW e \in told, About(e, i, l), ~(Says(e, l) <=> Has(picture[i], l)')
                   PROVE  \E o \in told : /\ About(o, i, l) /\ (Says(o, l) <=> Has(picture[i], l)')
                                          /\ e.place < o.place
        BY <1>2 DEF Corrected, About, Says
      <3>1. TellsOfLabel(told, i, l)
        BY <2>1 DEF TellsOf
      <3>2. i \notin diff.added
        BY <3>1 DEF TellsOfLabel
      <3>3. Leads(i, l) /\ (Has(picture[i], l)' <=> Has(picture[i], l))
        BY <2>6, <2>7, <3>2
      <3>4. ~Has(picture[i], l) /\ Says(e, l)
        BY <3>1, <3>3 DEF TellsOfLabel, Leads
      <3>5. e.place <= Between /\ Names(diff.taken, i, l)
        BY <3>1, <3>3, <3>4 DEF TellsOfLabel, Leads
      <3>6. PICK o \in told : About(o, i, l) /\ ~Says(o, l) /\ Between < o.place
        BY <3>1, <3>2, <3>5 DEF TellsOfLabel
      <3>7. e.place \in Nat /\ o.place \in Nat /\ Between \in Nat
        <4>1. told # {KeepAlive}
          BY DEF About, KeepAlive
        <4>2. told \subseteq EventType
          BY <1>5, <4>1
        <4>3. Len(diff.given) \in Nat
          BY <1>1 DEF DiffType
        <4>4. QED
          BY <4>2, <4>3 DEF EventType, Between
      <3>8. e.place < o.place
        BY <3>5, <3>6, <3>7
      <3>9. QED
        BY <3>3, <3>4, <3>6, <3>8
    <2>8. ASSUME picture'[i] # Out
          PROVE  \/ \E e \in told : Arrives(e, i)
                 \/ replica[i] # Out /\ \A l \in System :
                        \/ Has(replica[i], l) <=> Has(picture[i], l)'
                        \/ \E e \in told : About(e, i, l)
      <3>1. CASE i \in diff.added
        BY <2>1, <3>1 DEF TellsOf
      <3>2. CASE i \notin diff.added
        <4>1. i \notin diff.removed /\ replica[i] # Out
          BY <1>8, <2>2, <2>8, <3>2
        <4>2. ASSUME NEW l \in System
              PROVE  \/ Has(replica[i], l) <=> Has(picture[i], l)'
                     \/ \E e \in told : About(e, i, l)
          <5>1. Leads(i, l) /\ (Has(picture[i], l)' <=> Has(picture[i], l))
            BY <2>6, <2>8, <3>2
          <5>2. TellsOfLabel(told, i, l)
            BY <2>1 DEF TellsOf
          <5>3. QED
            BY <3>2, <5>1, <5>2 DEF Leads, TellsOfLabel
        <4>3. QED
          BY <4>1, <4>2
      <3>3. QED
        BY <3>1, <3>2
    <2>9. \A l : Has(replica[i], l)' <=> Has(replica[i], l)
      BY <1>2 DEF Has
    <2>10. picture'[i] # Out =>
               \/ \E e \in events' : Arrives(e, i)
               \/ replica'[i] # Out /\ \A l \in System : Pending(i, l)'
      BY <1>2, <2>8, <2>9 DEF Pending, About
    <2>11. QED
      BY <1>2, <2>3, <2>4, <2>5, <2>7, <2>10 DEF InLine, Arrives, Leaves
  <1>11. SendOK'
    BY <1>2, <1>10 DEF SendOK
  <1>12. ToldOK' /\ DiffOK'
    BY <1>2 DEF ToldOK, DiffOK
  <1> QED
    BY <1>7, <1>9, <1>11, <1>12 DEF TellInv

\* The first event in line brings what the consumer knows closer to the
\* picture, or is corrected by one that is still to come.
LEMMA OneSent ==
  ASSUME TellInv, phase = "send", events \subseteq EventType,
         NEW e \in events, \A o \in events : e.place <= o.place,
         replica' = Applied(e), events' = events \ {e}, picture' = picture,
         NEW i \in Id \ muddled
  PROVE  InLine(i)'
  <1>1. replica \in [Id -> Known] /\ picture \in [Id -> Known] /\ e \in EventType
    BY DEF TellInv, Types
  <1>2. InLine(i)
    BY DEF TellInv, SendOK
  <1>3. e.id \in Id /\ e.flags \in SUBSET Flag
    BY <1>1 DEF EventType
  <1>4. ASSUME picture[i] # Out, NEW l \in System PROVE Corrected(i, l)'
    <2> SUFFICES ASSUME NEW c \in events \ {e}, About(c, i, l), ~(Says(c, l) <=> Has(picture[i], l))
                 PROVE  \E o \in events \ {e} :
                            About(o, i, l) /\ (Says(o, l) <=> Has(picture[i], l)) /\ c.place < o.place
      BY DEF Corrected, About, Says, Has
    <2>1. Corrected(i, l)
      BY <1>2, <1>4 DEF InLine
    <2>2. PICK o \in events :
            About(o, i, l) /\ (Says(o, l) <=> Has(picture[i], l)) /\ c.place < o.place
      BY <2>1 DEF Corrected
    <2>3. c.place \in Nat /\ o.place \in Nat /\ e.place \in Nat /\ e.place <= c.place
      BY <1>1 DEF EventType
    <2>4. o # e
      BY <2>2, <2>3
    <2>5. QED
      BY <2>2, <2>4
  <1>5. picture[i] = Out => replica'[i] = Out \/ \E o \in events \ {e} : Leaves(o, i)
    <2> SUFFICES ASSUME picture[i] = Out
                 PROVE  replica'[i] = Out \/ \E o \in events \ {e} : Leaves(o, i)
      OBVIOUS
    <2>1. replica[i] = Out \/ \E o \in events : Leaves(o, i)
      BY <1>2 DEF InLine
    <2>2. ~Arrives(e, i)
      <3> SUFFICES ASSUME Arrives(e, i) PROVE FALSE
        OBVIOUS
      <3>1. e.flags = Out
        BY <1>2 DEF InLine
      <3>2. QED
        BY <1>3, <3>1, OutAssumption
    <2>3. CASE Leaves(e, i)
      <3>1. replica' = [replica EXCEPT ![i] = Out]
        BY <2>3 DEF Applied, Leaves
      <3>2. QED
        BY <1>1, <3>1
    <2>4. CASE ~Leaves(e, i)
      <3>1. replica[i] = Out => replica'[i] = Out
        BY <1>1, <1>3, <2>2, <2>4 DEF Applied, Leaves, Arrives
      <3>2. QED
        BY <2>1, <2>4, <3>1
    <2>5. QED
      BY <2>3, <2>4
  <1>6. ASSUME picture[i] # Out
        PROVE  \/ \E o \in events \ {e} : Arrives(o, i)
               \/ replica'[i] # Out /\ \A l \in System : Pending(i, l)'
    <2>1. ~Leaves(e, i)
      BY <1>2, <1>6 DEF InLine
    <2>2. CASE Arrives(e, i)
      <3>1. e.flags = picture[i]
        BY <1>2, <2>2 DEF InLine
      <3>2. replica' = [replica EXCEPT ![i] = e.flags]
        BY <2>2 DEF Applied, Arrives
      <3>3. replica'[i] = picture[i]
        BY <1>1, <3>1, <3>2
      <3>4. QED
        BY <1>6, <3>3 DEF Pending, Has
    <2>3. CASE ~Arrives(e, i) /\ \E o \in events : Arrives(o, i)
      BY <2>3
    <2>4. CASE /\ ~Arrives(e, i) /\ ~\E o \in events : Arrives(o, i)
      <3>1. replica[i] # Out /\ \A l \in System : Pending(i, l)
        BY <1>2, <1>6, <2>4 DEF InLine
      <3>2. replica[i] \in SUBSET Flag
        BY <1>1, <3>1 DEF Known
      <3>3. CASE e.id # i
        <4>1. replica'[i] = replica[i]
          BY <1>1, <1>3, <3>3 DEF Applied
        <4>2. ASSUME NEW l \in System PROVE Pending(i, l)'
          <5>1. Has(replica[i], l)' <=> Has(replica[i], l)
            BY <4>1 DEF Has
          <5>2. Has(picture[i], l)' <=> Has(picture[i], l)
            BY DEF Has
          <5>3. \A o : About(o, i, l) => o # e
            BY <3>3 DEF About
          <5>4. \A o : About(o, i, l)' <=> About(o, i, l)
            BY DEF About
          <5>5. QED
            BY <3>1, <5>1, <5>2, <5>3, <5>4 DEF Pending
        <4>3. QED
          BY <3>1, <4>1, <4>2
      <3>4. CASE e.id = i
        <4>1. e.what \in {"FlagsAdded", "FlagsRemoved"}
          BY <1>1, <2>1, <2>4, <3>4 DEF EventType, Arrives, Leaves
        <4>2. replica'[i] = IF e.what = "FlagsAdded" THEN replica[i] \cup e.flags
                                                     ELSE replica[i] \ e.flags
          BY <1>1, <3>1, <3>4, <4>1 DEF Applied
        <4>3. replica'[i] # Out
          <5>1. replica'[i] \in SUBSET Flag
            BY <1>3, <3>2, <4>2
          <5>2. QED
            BY <5>1, OutAssumption
        <4>4. ASSUME NEW l \in System PROVE Pending(i, l)'
          <5>1. Has(picture[i], l)' <=> Has(picture[i], l)
            BY DEF Has
          <5>2. \A o : About(o, i, l)' <=> About(o, i, l)
            BY DEF About
          <5>3. CASE About(e, i, l)
            <6>1. Has(replica[i], l)' <=> Says(e, l)
              BY <4>1, <4>2, <5>3 DEF Has, Says, About
            <6>2. CASE Says(e, l) <=> Has(picture[i], l)
              BY <5>1, <6>1, <6>2 DEF Pending
            <6>3. CASE ~(Says(e, l) <=> Has(picture[i], l))
              <7>1. Corrected(i, l)
                BY <1>2, <1>6 DEF InLine
              <7>2. PICK o \in events : About(o, i, l) /\ e.place < o.place
                BY <5>3, <6>3, <7>1 DEF Corrected
              <7>3. o # e
                BY <1>1, <7>2 DEF EventType
              <7>4. QED
                BY <5>2, <7>2, <7>3 DEF Pending
            <6>4. QED
              BY <6>2, <6>3
          <5>4. CASE ~About(e, i, l)
            <6>1. FlagOf(l).flag \notin e.flags
              BY <3>4, <4>1, <5>4 DEF About
            <6>2. Has(replica[i], l)' <=> Has(replica[i], l)
              BY <4>2, <6>1 DEF Has
            <6>3. QED
              BY <3>1, <5>1, <5>2, <5>4, <6>2 DEF Pending
          <5>5. QED
            BY <5>3, <5>4
        <4>5. QED
          BY <4>3, <4>4
      <3>5. QED
        BY <3>3, <3>4
    <2>5. QED
      BY <2>2, <2>3, <2>4
  <1>7. /\ \A o \in events \ {e} : Arrives(o, i) => o.flags = picture[i]
        /\ \A o \in events \ {e} : Leaves(o, i) => picture[i] = Out
    BY <1>2 DEF InLine
  <1> QED
    BY <1>4, <1>5, <1>6, <1>7 DEF InLine, Arrives, Leaves

\* What a consumer knows stays flags or Out.
LEMMA AppliedKnown ==
  ASSUME replica \in [Id -> Known], NEW e \in EventType
  PROVE  Applied(e) \in [Id -> Known]
  <1>1. e.id \in Id /\ e.flags \in SUBSET Flag
    BY DEF EventType
  <1>2. Out \in Known /\ e.flags \in Known
    BY <1>1 DEF Known
  <1>3. replica[e.id] # Out => /\ replica[e.id] \cup e.flags \in Known
                               /\ replica[e.id] \ e.flags \in Known
    BY <1>1 DEF Known
  <1> QED
    BY <1>1, <1>2, <1>3 DEF Applied

LEMMA SendTell ==
  ASSUME TellInv, Send
  PROVE  TellInv'
  <1>1. /\ phase = "send"
        /\ UNCHANGED <<server, diff, shutdown, dropped, picture, muddled, late>>
    BY DEF Send
  <1>2. UNCHANGED <<here, labels, history, changes>>
    BY <1>1 DEF server
  <1>3. HistoryOK'
    BY <1>1, <1>2 DEF TellInv, HistoryOK, Recorded, Has, Names
  <1>4. DiffOK'
    BY <1>1 DEF Send, DiffOK
  <1>5. CASE events = {}
    <2>1. phase' = "sleep" /\ chunk' = Chunks /\ UNCHANGED <<events, replica>>
      BY <1>5 DEF Send
    <2>2. Types'
      BY <1>1, <1>2, <2>1, WatchAssumption DEF TellInv, Types, KeepAlive
    <2>3. ASSUME NEW i \in Id \ muddled PROVE replica[i] = picture[i]
      <3>1. InLine(i)
        BY <1>1 DEF TellInv, SendOK
      <3>2. picture[i] = Out => replica[i] = Out
        BY <1>5, <3>1 DEF InLine
      <3>3. picture[i] # Out => replica[i] # Out /\ \A l \in System : Has(replica[i], l) <=> Has(picture[i], l)
        BY <1>5, <3>1 DEF InLine, Pending
      <3>4. replica[i] \in Known /\ picture[i] \in Known
        BY DEF TellInv, Types
      <3>5. picture[i] # Out => replica[i] = picture[i]
        BY <3>3, <3>4, SameFlags DEF Known
      <3>6. QED
        BY <3>2, <3>5
    <2>4. ToldOK' /\ SendOK'
      BY <1>1, <2>1, <2>3 DEF ToldOK, SendOK
    <2>5. QED
      BY <1>3, <1>4, <2>2, <2>4 DEF TellInv
  <1>6. CASE events # {} /\ dropped
    <2>1. phase' = "ended" /\ UNCHANGED <<events, replica, chunk>>
      BY <1>6 DEF Send
    <2>2. Types'
      BY <1>1, <1>2, <2>1 DEF TellInv, Types, KeepAlive
    <2>3. ToldOK' /\ SendOK'
      BY <2>1 DEF ToldOK, SendOK
    <2>4. QED
      BY <1>3, <1>4, <2>2, <2>3 DEF TellInv
  <1>7. CASE events # {} /\ ~dropped
    <2>1. UNCHANGED <<phase, chunk>>
      BY <1>7 DEF Send
    <2>2. PICK e \in events : /\ \A o \in events : e.place <= o.place
                              /\ replica' = Applied(e)
                              /\ events' = events \ {e}
      BY <1>7 DEF Send
    <2>3. CASE events = {KeepAlive}
      <3>1. e = KeepAlive /\ events' = {}
        BY <2>2, <2>3
      <3>2. replica' = replica
        BY <2>2, <3>1 DEF Applied, KeepAlive
      <3>3. Types'
        BY <1>1, <1>2, <2>1, <3>1, <3>2 DEF TellInv, Types, KeepAlive
      <3>4. ASSUME NEW i \in Id \ muddled PROVE InLine(i)'
        <4>1. InLine(i)
          BY <1>1 DEF TellInv, SendOK
        <4>2. \A l : ~About(KeepAlive, i, l) /\ ~Arrives(KeepAlive, i) /\ ~Leaves(KeepAlive, i)
          BY DEF About, Arrives, Leaves, KeepAlive
        <4>3. picture[i] = Out => replica[i] = Out
          BY <2>3, <4>1, <4>2 DEF InLine
        <4>4. picture[i] # Out => replica[i] # Out /\ \A l \in System : Has(replica[i], l) <=> Has(picture[i], l)
          BY <2>3, <4>1, <4>2 DEF InLine, Pending
        <4>5. \A l : (Has(replica[i], l)' <=> Has(replica[i], l)) /\ (Has(picture[i], l)' <=> Has(picture[i], l))
          BY <1>1, <3>2 DEF Has
        <4>6. QED
          BY <1>1, <3>1, <3>2, <4>3, <4>4, <4>5 DEF InLine, Corrected, Pending
      <3>5. ToldOK' /\ SendOK'
        BY <1>1, <2>1, <3>4 DEF ToldOK, SendOK
      <3>6. QED
        BY <1>3, <1>4, <3>3, <3>5 DEF TellInv
    <2>4. CASE events \subseteq EventType
      <3>1. replica' \in [Id -> Known] /\ events' \subseteq EventType
        BY <2>2, <2>4, AppliedKnown DEF TellInv, Types
      <3>2. Types'
        BY <1>1, <1>2, <2>1, <3>1 DEF TellInv, Types, KeepAlive
      <3>3. ASSUME NEW i \in Id \ muddled PROVE InLine(i)'
        BY <1>1, <2>2, <2>4, OneSent
      <3>4. ToldOK' /\ SendOK'
        BY <1>1, <2>1, <3>3 DEF ToldOK, SendOK
      <3>5. QED
        BY <1>3, <1>4, <3>2, <3>4 DEF TellInv
    <2>5. QED
      BY <2>3, <2>4 DEF TellInv, Types
  <1> QED
    BY <1>5, <1>6, <1>7

LEMMA NextTell == TellInv /\ [Next]_vars => TellInv'
  <1> SUFFICES ASSUME TellInv, [Next]_vars PROVE TellInv'
    OBVIOUS
  <1>1. ASSUME NEW i \in Id, Come(i) \/ Go(i) \/ \E ls \in SUBSET Label : Give(i, ls) \/ Take(i, ls)
        PROVE  TellInv'
    BY <1>1, ComeTell, GoTell, GiveTell, TakeTell
  <1>2. CASE Poll
    BY <1>2, PollTell
  <1>3. CASE Diff
    BY <1>3, DiffTell
  <1>4. CASE Send
    BY <1>4, SendTell
  <1>5. CASE Sleep \/ Fail \/ Shutdown \/ Drop \/ UNCHANGED vars
    <2>1. UNCHANGED <<here, labels, history, changes, diff, events, replica, picture, muddled, late>>
      BY <1>5 DEF Sleep, Fail, Shutdown, Drop, vars, server, watcher, ghosts
    <2>2. HistoryOK'
      BY <2>1 DEF TellInv, HistoryOK, Recorded, Has, Names
    <2>3. CASE Sleep \/ Fail
      <3>1. /\ phase' \in {"poll", "sleep", "ended"}
            /\ phase' # "ended" => phase = "sleep"
            /\ UNCHANGED <<shutdown, dropped>>
        BY <2>3 DEF Sleep, Fail
      <3>2. chunk' \in 0..Chunks
        BY <2>3, WatchAssumption DEF TellInv, Types, Sleep, Fail
      <3>3. Types'
        BY <2>1, <3>1, <3>2 DEF TellInv, Types, KeepAlive
      <3>4. ToldOK' /\ DiffOK' /\ SendOK'
        BY <2>1, <3>1 DEF TellInv, ToldOK, DiffOK, SendOK
      <3>5. QED
        BY <2>2, <3>3, <3>4 DEF TellInv
    <2>4. CASE Shutdown \/ Drop \/ UNCHANGED vars
      <3>1. UNCHANGED <<phase, chunk>>
        BY <2>4 DEF Shutdown, Drop, vars, watcher
      <3>2. shutdown' \in BOOLEAN /\ dropped' \in BOOLEAN
        BY <2>4, Zenon DEF TellInv, Types, Shutdown, Drop, vars
      <3>3. Types'
        BY <2>1, <3>1, <3>2 DEF TellInv, Types, KeepAlive
      <3>4. QED
        BY <2>1, <2>2, <3>1, <3>3, OthersTell DEF TellInv
    <2>5. QED
      BY <1>5, <2>3, <2>4
  <1>6. QED
    BY <1>1, <1>2, <1>3, <1>4, <1>5 DEF Next, Watch

\* The watcher's state has the types declared, whatever the other clients do.
THEOREM TypeCorrect == Spec => []TypeOK
  <1>1. TellInv => TypeOK
    BY DEF TellInv, Types, TypeOK, DiffType, Known
  <1>2. QED
    BY <1>1, InitTell, NextTell, PTL DEF Spec

\* Once a diff is told, a consumer knows the mailbox it led to, but for the
\* messages that came and went, or lost and regained a label, within a diff.
THEOREM ToldUnlessMuddled == Spec => []WrongOnlyIfMuddled
  <1>1. TellInv => WrongOnlyIfMuddled
    BY DEF TellInv, ToldOK, WrongOnlyIfMuddled
  <1>2. QED
    BY <1>1, InitTell, NextTell, PTL DEF Spec

=============================================================================
