----------------------------- MODULE GmailWatch -----------------------------
(***************************************************************************)
(* The Gmail watcher: `watch_mailbox` of the Gmail client, which drives a  *)
(* poll of the account's history, and `history_diff_to_events`, which      *)
(* tells one diff of it as WatchEvents.                                    *)
(*                                                                         *)
(* A diff groups what happened since the last one by kind: the messages    *)
(* that came, those that went, the labels given and the labels taken.      *)
(* Within a kind the order is kept, between kinds it is lost.  The poll    *)
(* itself, and the answers of the server, belong to the library io_gmail.  *)
(***************************************************************************)
EXTENDS Naturals, Sequences

CONSTANTS
    Id,           \* messages
    Label,        \* labels other clients give and take
    Out,          \* not in the watched mailbox
    Chunks,       \* one-second sleeps between two polls
    MaxChanges    \* bound on what other clients do

ASSUME WatchAssumption == Chunks \in Nat \ {0} /\ MaxChanges \in Nat

\* The flags labels stand for.
Flag == {"seen", "flagged", "important", "draft", "junk"}

ASSUME OutAssumption == \A fs \in SUBSET Flag : fs # Out

VARIABLES
    here,       \* the messages that carry the watched label
    labels,     \* the other labels of each message
    history,    \* what happened since the last poll
    changes,    \* how much has happened
    phase,      \* what the watcher does next
    diff,       \* the history it was answered
    events,     \* the events it has yet to send, each with its place in line
    chunk,      \* the sleeps left
    shutdown,   \* the flag the caller raises
    dropped,    \* the receiver is gone
    replica,    \* what a consumer of the events knows: flags, or Out
    picture,    \* the mailbox the last diff led to
    muddled,    \* messages whose last diff cannot be told in kinds
    late        \* polls begun with the shutdown flag raised

server == <<here, labels, history, changes>>
watcher == <<phase, diff, events, chunk>>
ghosts == <<replica, picture, muddled, late>>
vars == <<server, watcher, shutdown, dropped, ghosts>>

-----------------------------------------------------------------------------
(* Labels and flags. *)

\* flag_of_label: the flag a label stands for; UNREAD stands for the absence
\* of `seen`, and a label of the user for none.
FlagOf(l) ==
    CASE l = "UNREAD" -> [flag |-> "seen", inverted |-> TRUE]
      [] l = "STARRED" -> [flag |-> "flagged", inverted |-> FALSE]
      [] l = "IMPORTANT" -> [flag |-> "important", inverted |-> FALSE]
      [] l = "DRAFT" -> [flag |-> "draft", inverted |-> FALSE]
      [] l = "SPAM" -> [flag |-> "junk", inverted |-> FALSE]
      [] OTHER -> [flag |-> "none", inverted |-> FALSE]

\* flags_from_labels: the flags of a message.
FlagsOf(ls) ==
    (IF "UNREAD" \in ls THEN {} ELSE {"seen"})
        \cup (IF "STARRED" \in ls THEN {"flagged"} ELSE {})
        \cup (IF "IMPORTANT" \in ls THEN {"important"} ELSE {})
        \cup (IF "DRAFT" \in ls THEN {"draft"} ELSE {})
        \cup (IF "SPAM" \in ls THEN {"junk"} ELSE {})

Picture == [i \in Id |-> IF i \in here THEN FlagsOf(labels[i]) ELSE Out]

\* A diff: ids that came, ids that went, and records of labels.
Empty == [added |-> {}, removed |-> {}, given |-> << >>, taken |-> << >>]

\* The consumer lists the mailbox before the watch begins.
Init ==
    /\ here \in SUBSET Id
    /\ \E ls \in {{}, Label} : labels = [i \in Id |-> ls]
    /\ history = Empty
    /\ changes = 0
    /\ phase = "poll"
    /\ diff = Empty
    /\ events = {}
    /\ chunk = 0
    /\ shutdown = FALSE
    /\ dropped = FALSE
    /\ replica = Picture
    /\ picture = Picture
    /\ muddled = {}
    /\ late = 0

-----------------------------------------------------------------------------
(* The other clients of the account.  The history of a mailbox has no      *)
(* record of a message that is not in it.                                  *)

Change ==
    /\ changes < MaxChanges
    /\ changes' = changes + 1
    /\ UNCHANGED <<watcher, shutdown, dropped, ghosts>>

Come(i) ==
    /\ i \notin here
    /\ here' = here \cup {i}
    /\ history' = [history EXCEPT !.added = @ \cup {i}]
    /\ UNCHANGED labels
    /\ Change

Go(i) ==
    /\ i \in here
    /\ here' = here \ {i}
    /\ history' = [history EXCEPT !.removed = @ \cup {i}]
    /\ UNCHANGED labels
    /\ Change

\* One record names the labels given, or taken, at once.
Give(i, ls) ==
    /\ ls # {} /\ ls \cap labels[i] = {}
    /\ labels' = [labels EXCEPT ![i] = @ \cup ls]
    /\ history' = IF i \in here
                  THEN [history EXCEPT !.given = Append(@, [id |-> i, labels |-> ls])]
                  ELSE history
    /\ UNCHANGED here
    /\ Change

Take(i, ls) ==
    /\ ls # {} /\ ls \subseteq labels[i]
    /\ labels' = [labels EXCEPT ![i] = @ \ ls]
    /\ history' = IF i \in here
                  THEN [history EXCEPT !.taken = Append(@, [id |-> i, labels |-> ls])]
                  ELSE history
    /\ UNCHANGED here
    /\ Change

-----------------------------------------------------------------------------
(* The watcher. *)

\* The records of a diff that concern message i and label l.
Names(records, i, l) ==
    \E k \in DOMAIN records : records[k].id = i /\ l \in records[k].labels

\* Told by kind, a message that came and went stays, and a label that was
\* taken and given again goes.
Muddled(d, i) ==
    \/ i \in d.added /\ i \notin here
    \/ /\ i \notin d.added
       /\ \E l \in labels[i] : Names(d.given, i, l) /\ Names(d.taken, i, l)

\* The answer of history.list.
Poll ==
    /\ phase = "poll"
    /\ phase' = "details"
    /\ diff' = history
    /\ history' = Empty
    /\ picture' = Picture
    /\ muddled' = (muddled \ (history.added \cup history.removed))
                      \cup {i \in Id : Muddled(history, i)}
    /\ late' = IF shutdown THEN late + 1 ELSE late
    /\ UNCHANGED <<here, labels, changes, events, chunk, shutdown, dropped, replica>>

\* push_flag_events: for the n-th record, the flags it raises, then those it
\* drops.
FlagEvents(r, given, n) ==
    LET named == {FlagOf(l) : l \in r.labels}
        raised == {f.flag : f \in {g \in named : g.inverted # given}} \ {"none"}
        lowered == {f.flag : f \in {g \in named : g.inverted = given}} \ {"none"}
    IN  {e \in {[what |-> "FlagsAdded", id |-> r.id, flags |-> raised, place |-> 2 * n],
                [what |-> "FlagsRemoved", id |-> r.id, flags |-> lowered, place |-> 2 * n + 1]} :
             e.flags # {}}

\* The messages that came, with the flags they have when they are read, and
\* those that went.
CameEvents(ids) ==
    {[what |-> "EnvelopeAdded", id |-> i, flags |-> FlagsOf(labels[i]), place |-> 0] : i \in ids}

WentEvents(ids) ==
    {[what |-> "EnvelopeRemoved", id |-> i, flags |-> {}, place |-> 1] : i \in ids}

\* The flags of some records; those of labels taken come after all the given.
GivenEvents(d, records) ==
    UNION {FlagEvents(d.given[k], TRUE, k) : k \in records}

TakenEvents(d, records) ==
    UNION {FlagEvents(d.taken[k], FALSE, Len(d.given) + k) : k \in records}

\* Mutant: the labels of a message that came are told, too.
EventsOfAll(d) ==
    CameEvents(d.added) \cup WentEvents(d.removed)
        \cup GivenEvents(d, DOMAIN d.given) \cup TakenEvents(d, DOMAIN d.taken)

\* history_diff_to_events: the messages that came; those that went and did
\* not come; then the flags of the others.
EventsOf(d) ==
    CameEvents(d.added) \cup WentEvents(d.removed \ d.added)
        \cup GivenEvents(d, {k \in DOMAIN d.given : d.given[k].id \notin d.added})
        \cup TakenEvents(d, {k \in DOMAIN d.taken : d.taken[k].id \notin d.added})

KeepAlive == [what |-> "KeepAlive", place |-> 0]

\* Mutant: a diff without events is not told.
TellsQuiet(told) == told

\* A diff without events is told as a KeepAlive.
Tells(told) == IF told = {} THEN {KeepAlive} ELSE told

\* The messages that came are read, and the diff is turned into events.
Diff ==
    /\ phase = "details"
    /\ phase' = "send"
    /\ events' = Tells(EventsOf(diff))
    /\ picture' = [i \in Id |->
           IF i \in diff.added /\ picture[i] # Out THEN FlagsOf(labels[i]) ELSE picture[i]]
    /\ UNCHANGED <<server, diff, chunk, shutdown, dropped, replica, muddled, late>>

\* A consumer: flags of a message it does not know say nothing.
Applied(e) ==
    CASE e.what = "EnvelopeAdded" -> [replica EXCEPT ![e.id] = e.flags]
      [] e.what = "EnvelopeRemoved" -> [replica EXCEPT ![e.id] = Out]
      [] e.what = "FlagsAdded" /\ replica[e.id] # Out -> [replica EXCEPT ![e.id] = @ \cup e.flags]
      [] e.what = "FlagsRemoved" /\ replica[e.id] # Out -> [replica EXCEPT ![e.id] = @ \ e.flags]
      [] OTHER -> replica

\* One event is sent, or the receiver is gone; after the last comes the sleep.
Send ==
    /\ phase = "send"
    /\ IF events = {}
       THEN /\ phase' = "sleep"
            /\ chunk' = Chunks
            /\ UNCHANGED <<events, replica>>
       ELSE IF dropped
       THEN /\ phase' = "ended"
            /\ UNCHANGED <<events, replica, chunk>>
       ELSE /\ \E e \in events :
                  /\ \A o \in events : e.place <= o.place
                  /\ replica' = Applied(e)
                  /\ events' = events \ {e}
            /\ UNCHANGED <<phase, chunk>>
    /\ UNCHANGED <<server, diff, shutdown, dropped, picture, muddled, late>>

\* Mutant: the flag is not read.
SleepDeaf ==
    /\ phase = "sleep"
    /\ IF chunk = 0
       THEN phase' = "poll" /\ UNCHANGED chunk
       ELSE chunk' = chunk - 1 /\ UNCHANGED phase
    /\ UNCHANGED <<server, diff, events, shutdown, dropped, ghosts>>

\* Mutant: one chunk more than the interval.
SleepOneMore ==
    /\ phase = "sleep"
    /\ IF chunk + 1 = 0
       THEN phase' = "poll" /\ UNCHANGED chunk
       ELSE IF shutdown
       THEN phase' = "ended" /\ UNCHANGED chunk
       ELSE chunk' = chunk - 1 /\ UNCHANGED phase
    /\ UNCHANGED <<server, diff, events, shutdown, dropped, ghosts>>

\* WantsSleep: the flag is read before each chunk of a second.
Sleep ==
    /\ phase = "sleep"
    /\ IF chunk = 0
       THEN phase' = "poll" /\ UNCHANGED chunk
       ELSE IF shutdown
       THEN phase' = "ended" /\ UNCHANGED chunk
       ELSE chunk' = chunk - 1 /\ UNCHANGED phase
    /\ UNCHANGED <<server, diff, events, shutdown, dropped, ghosts>>

\* A read or a write fails, or the poll does: the watch ends with an error.
Fail ==
    /\ phase \in {"poll", "details"}
    /\ phase' = "ended"
    /\ UNCHANGED <<server, diff, events, chunk, shutdown, dropped, ghosts>>

-----------------------------------------------------------------------------
(* The caller. *)

Shutdown ==
    /\ ~shutdown
    /\ shutdown' = TRUE
    /\ UNCHANGED <<server, watcher, dropped, ghosts>>

Drop ==
    /\ ~dropped
    /\ dropped' = TRUE
    /\ UNCHANGED <<server, watcher, shutdown, ghosts>>

Watch == Poll \/ Diff \/ Send \/ Sleep

Next ==
    \/ \E i \in Id : Come(i) \/ Go(i) \/ \E ls \in SUBSET Label : Give(i, ls) \/ Take(i, ls)
    \/ Watch \/ Fail
    \/ Shutdown \/ Drop

Spec == Init /\ [][Next]_vars

\* The watcher runs, and the server answers what it is asked.
FairSpec == Spec /\ WF_vars(Watch)

-----------------------------------------------------------------------------
(* Properties. *)

\* Type invariant.
TypeOK ==
    /\ here \subseteq Id
    /\ labels \in [Id -> SUBSET Label]
    /\ changes \in 0..MaxChanges
    /\ phase \in {"poll", "details", "send", "sleep", "ended"}
    /\ \A d \in {history, diff} : d.added \cup d.removed \subseteq Id
    /\ chunk \in 0..Chunks
    /\ {shutdown, dropped} \subseteq BOOLEAN
    /\ \A p \in {replica, picture} : \A i \in Id :
           p[i] = Out \/ p[i] \subseteq Flag
    /\ muddled \subseteq Id
    /\ late \in Nat

\* Once a diff is told, a consumer knows the mailbox the diff led to, but for
\* the messages whose changes cannot be told in kinds: those that came and
\* went within one diff, which stay with the consumer, and those that lost and
\* regained a label, of which it keeps the loss, until they next come or go.
WrongOnlyIfMuddled ==
    phase = "sleep" => \A i \in Id : replica[i] # picture[i] => i \in muddled

\* After the flag is raised at most one more poll begins: the one of a sleep
\* that had read the flag for its last chunk.
OneLatePoll == late <= 1

\* The watch ends once the caller raises the flag, or once its receiver is
\* gone, even if nothing happens in the mailbox any more: the KeepAlive of the
\* next poll finds out.
WatchEnds == shutdown \/ dropped ~> phase = "ended"

=============================================================================
