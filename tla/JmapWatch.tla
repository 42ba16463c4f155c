----------------------------- MODULE JmapWatch -----------------------------
(***************************************************************************)
(* The JMAP mailbox watcher: the coroutine JmapWatchMailbox                *)
(* (src/envelope/jmap/watch.rs) with the loop that drives it               *)
(* (JmapClientStd::watch_mailbox, src/jmap/client.rs), the JMAP server it  *)
(* talks to, the thread that may flip the shutdown flag at any moment, and *)
(* the consumer that folds the events it receives.                         *)
(*                                                                         *)
(* The server is kept as general as RFC 8620 allows: every change of a     *)
(* message takes a new Email state; Email/changes may stop at an           *)
(* intermediate state; Email/get reads the mailbox later than              *)
(* Email/changes did; the event source pushes a state after a change made  *)
(* while the subscription is open, and may close without a word.           *)
(***************************************************************************)
EXTENDS Integers, Sequences, FiniteSets

CONSTANTS
    Id,              \* Email ids (a JMAP id is never reused)
    Keyword,         \* JMAP keywords
    Out,             \* entry of a message that is not in the mailbox
    Unborn,          \* an id the server has not assigned yet
    Elsewhere,       \* a message of the account, in other mailboxes only
    Gone,            \* a destroyed message
    Start,           \* server Email state when the watch begins
    MaxState,        \* bound: last Email state the server reaches
    Truncates,       \* may Email/changes answer with hasMoreChanges?
    PushesOnConnect, \* does a new subscription get the current state?
    FlipsMidResume   \* may the shutdown flag flip while resume() runs?

ASSUME ConstantsAssumption ==
    /\ Start \in Nat /\ MaxState \in Nat /\ Start <= MaxState
    /\ IsFiniteSet(Id)
    /\ Unborn # Elsewhere /\ Unborn # Gone /\ Elsewhere # Gone
    /\ \A K \in SUBSET Keyword : K \notin {Out, Unborn, Elsewhere, Gone}
    /\ {Truncates, PushesOnConnect, FlipsMidResume} \subseteq BOOLEAN

VARIABLES
    \* the server
    mail,       \* Id -> the keywords of a message in the watched mailbox,
                \*       or Unborn, Elsewhere, Gone
    stamp,      \* Id -> Email state of the last change (0: never)
    srv,        \* current Email state
    owed,       \* a change was made under the open subscription
    \* the wire
    sub,        \* the event-source subscription
    note,       \* the StateChange frame sent on it, not read yet
    net,        \* the request of the current Email/changes or Email/get
    chg,        \* Email/changes response: live and gone ids, new state
    seen,       \* Email/get response: ids found, and what they looked like
    \* the coroutine
    pc,         \* State, "Failed" for Complete(Err(_))
    running,    \* resume() is executing; FALSE: parked at a yield
    latest,     \* latest_change of the Subscribing state
    shadow, emailState, pending, suppress,
    \* its callers
    shutdown,   \* the shared AtomicBool
    replica     \* the mailbox as the consumer of the events knows it

server == <<mail, stamp, srv>>
wire == <<owed, sub, note, net, chg, seen>>
memory == <<shadow, emailState, pending, suppress>>
vars == <<server, wire, pc, running, latest, memory, shutdown, replica>>

-----------------------------------------------------------------------------
NoState == -1     \* Option::None, and a StateChange without our Email state
NoChange == -2    \* no StateChange frame was received

Entry == {Out} \union SUBSET Keyword
Mail == {Unborn, Elsewhere, Gone} \union SUBSET Keyword
Exists(m) == m \notin {Unborn, Gone}

\* The watched mailbox as Email/get shows it: mailboxIds and keywords.
View(i) == IF mail[i] \in {Unborn, Elsewhere, Gone} THEN Out ELSE mail[i]

KeepAlive == [type |-> "KeepAlive"]
Event(t, i, f) == [type |-> t, id |-> i, flags |-> f]
EventTypes ==
    {"EnvelopeAdded", "EnvelopeRemoved", "FlagsAdded", "FlagsRemoved"}
Events == [type : EventTypes, id : Id, flags : SUBSET Keyword]

Stopped == pc \in {"Done", "Failed"}

Init ==
    /\ srv = Start
    /\ stamp \in [Id -> 0..Start]
    /\ mail \in [Id -> Mail]
    /\ \A i \in Id : mail[i] = Unborn <=> stamp[i] = 0
    /\ owed = FALSE /\ sub = "opening" /\ note = NoChange /\ net = "idle"
    /\ chg = [live |-> {}, gone |-> {}, upto |-> 0]
    /\ seen = [found |-> {}, view |-> [i \in Id |-> Out]]
    /\ pc = "Subscribing" /\ running = FALSE /\ latest = NoChange
    /\ shadow = [i \in Id |-> Out]
    /\ emailState = NoState /\ pending = <<>> /\ suppress = TRUE
    /\ shutdown = FALSE
    /\ replica = shadow

-----------------------------------------------------------------------------
(* The server and the other clients of the account.                        *)

\* Someone creates, moves, flags or destroys one message.
ServerChange(i) ==
    /\ srv < MaxState
    /\ mail[i] # Gone
    /\ \E m \in Mail \ {Unborn, mail[i]} :
           /\ mail[i] = Unborn => m # Gone
           /\ mail' = [mail EXCEPT ![i] = m]
    /\ srv' = srv + 1
    /\ stamp' = [stamp EXCEPT ![i] = srv + 1]
    /\ owed' = (owed \/ sub = "open")
    /\ UNCHANGED <<sub, note, net, chg, seen, pc, running, latest, memory,
                   shutdown, replica>>

\* A StateChange frame (closeafter=state ends the stream with it). The
\* frame may concern another account or type: it then has no Email state.
PushState ==
    /\ sub = "open"
    /\ note' \in IF owed THEN {srv} ELSE {srv, NoState}
    /\ sub' = "closed" /\ owed' = FALSE
    /\ UNCHANGED <<server, net, chg, seen, pc, running, latest, memory,
                   shutdown, replica>>

\* The server ends an idle stream.
CloseStream ==
    /\ sub = "open" /\ ~owed
    /\ sub' = "closed"
    /\ UNCHANGED <<server, owed, note, net, chg, seen, pc, running, latest,
                   memory, shutdown, replica>>

\* email_state.unwrap_or_default(): the empty state precedes every change.
Since == IF emailState = NoState THEN 0 ELSE emailState

\* The Email/changes responses allowed from state s. All changes up to the
\* answered state are in; a message that changed again later may be.
ChangesFrom(s) ==
    {c \in [live : SUBSET Id, gone : SUBSET Id, upto : s..srv] :
        /\ c.upto < srv => Truncates /\ s < c.upto
        /\ c.live \cap c.gone = {}
        /\ \A i \in Id : s < stamp[i] /\ stamp[i] <= c.upto =>
               IF mail[i] = Gone THEN i \in c.gone ELSE i \in c.live
        /\ \A i \in c.live \union c.gone : s < stamp[i]
        /\ \A i \in c.gone : mail[i] = Gone}

AnswerChanges ==
    /\ pc = "FetchingChanges" /\ net = "sent"
    /\ chg' \in ChangesFrom(Since)
    /\ net' = "answered"
    /\ UNCHANGED <<server, owed, sub, note, seen, pc, running, latest,
                   memory, shutdown, replica>>

\* Email/get answers from the mailbox as it is now, not as it was when
\* Email/changes answered.
AnswerGet ==
    /\ pc = "FetchingEmails" /\ net = "sent"
    /\ seen' = [found |-> {i \in chg.live : Exists(mail[i])},
                view |-> [i \in Id |-> View(i)]]
    /\ net' = "answered"
    /\ UNCHANGED <<server, owed, sub, note, chg, pc, running, latest,
                   memory, shutdown, replica>>

-----------------------------------------------------------------------------
(* The coroutine, one action per arm of resume()'s loop.                   *)

\* Mutant: resume() does not look at the flag.
ResumeAnyway ==
    /\ ~running /\ ~Stopped
    /\ running' = TRUE
    /\ UNCHANGED <<server, wire, pc, latest, memory, shutdown, replica>>

\* The driver calls resume(): the flag is looked at once, at the top.
Resume ==
    /\ ~running /\ ~Stopped
    /\ IF shutdown
       THEN pc' = "Done" /\ UNCHANGED running
       ELSE running' = TRUE /\ UNCHANGED pc
    /\ UNCHANGED <<server, wire, latest, memory, shutdown, replica>>

\* The event source, asked for the first time, yields its request.
OpenStream ==
    /\ running /\ pc = "Subscribing" /\ ~shutdown
    /\ sub = "opening"
    /\ sub' = "open" /\ owed' = PushesOnConnect
    /\ running' = FALSE
    /\ UNCHANGED <<server, note, net, chg, seen, pc, latest, memory,
                   shutdown, replica>>

\* Nothing to read (WouldBlock, TimedOut or a ping): WantsRead.
AwaitFrame ==
    /\ running /\ pc = "Subscribing" /\ ~shutdown
    /\ sub = "open"
    /\ running' = FALSE
    /\ UNCHANGED <<server, wire, pc, latest, memory, shutdown, replica>>

TakeFrame ==
    /\ running /\ pc = "Subscribing" /\ ~shutdown
    /\ note # NoChange
    /\ latest' = note /\ note' = NoChange
    /\ UNCHANGED <<server, owed, sub, net, chg, seen, pc, running, memory,
                   shutdown, replica>>

\* Mutant: the comparison is the wrong way round.
NeedsDiffWhenEqual == emailState = NoState \/ latest = emailState

\* observed_state against email_state.
NeedsDiff ==
    \/ emailState = NoState
    \/ latest >= 0 /\ latest # emailState

\* handle_cycle_end, once the stream ended. The event source shares the
\* shutdown flag and also completes, with Ok, when it finds it set.
EndCycle ==
    /\ running /\ pc = "Subscribing"
    /\ shutdown \/ (sub = "closed" /\ note = NoChange)
    /\ sub' = "closed" /\ note' = NoChange /\ owed' = FALSE
    /\ IF NeedsDiff
       THEN pc' = "FetchingChanges" /\ net' = "idle" /\ UNCHANGED pending
       ELSE /\ pc' = "Emitting"
            /\ pending' = IF ~suppress /\ latest # NoChange
                          THEN Append(pending, KeepAlive) ELSE pending
            /\ UNCHANGED net
    /\ UNCHANGED <<server, chg, seen, running, latest, shadow, emailState,
                   suppress, shutdown, replica>>

\* Email/changes or Email/get yields its request, then waits for bytes.
AwaitReply ==
    /\ running /\ pc \in {"FetchingChanges", "FetchingEmails"}
    /\ net # "answered"
    /\ net' = "sent"
    /\ running' = FALSE
    /\ UNCHANGED <<server, owed, sub, note, chg, seen, pc, latest, memory,
                   shutdown, replica>>

\* dispatch_get: hasMoreChanges is logged and otherwise ignored.
DispatchGet ==
    /\ running /\ pc = "FetchingChanges" /\ net = "answered"
    /\ pc' = "FetchingEmails" /\ net' = "idle"
    /\ UNCHANGED <<server, owed, sub, note, chg, seen, running, latest,
                   memory, shutdown, replica>>

\* Mutant: the destroyed ids are dropped between the two requests.
NewShadowKeepsDestroyed ==
    [i \in Id |-> IF i \in seen.found THEN seen.view[i] ELSE shadow[i]]

\* The shadow after apply_diff: emails first, destroyed ids after them.
NewShadow ==
    [i \in Id |-> IF i \in chg.gone THEN Out
                  ELSE IF i \in seen.found THEN seen.view[i]
                  ELSE shadow[i]]

\* Mutant: cleared keywords are not told.
DeltasOnlyAdded(i, old, new) ==
    IF old = new THEN {}
    ELSE IF old = Out THEN {Event("EnvelopeAdded", i, new)}
    ELSE IF new = Out THEN {Event("EnvelopeRemoved", i, {})}
    ELSE {e \in {Event("FlagsAdded", i, new \ old)} : e.flags # {}}

\* The deltas apply_diff finds between a shadow and the next one.
DeltasOf(i, old, new) ==
    IF old = new THEN {}
    ELSE IF old = Out THEN {Event("EnvelopeAdded", i, new)}
    ELSE IF new = Out THEN {Event("EnvelopeRemoved", i, {})}
    ELSE {e \in {Event("FlagsAdded", i, new \ old),
                 Event("FlagsRemoved", i, old \ new)} : e.flags # {}}

Deltas(old, new) == UNION {DeltasOf(i, old[i], new[i]) : i \in Id}

\* The orders in which apply_diff may queue these deltas: the server orders
\* the emails, each with its additions before its removals, and the
\* destroyed ids follow.
Queues(E) ==
    {q \in [1..Cardinality(E) -> E] :
        /\ \A e \in E : \E k \in DOMAIN q : q[k] = e
        /\ \A j, k \in DOMAIN q :
               /\ q[j].id \in chg.gone /\ j < k => q[k].id \in chg.gone
               /\ q[j].id = q[k].id /\ j < k =>
                      /\ q[j].type = "FlagsAdded"
                      /\ q[k].type = "FlagsRemoved"
                      /\ k = j + 1}

\* Mutant: email_state becomes the state of the last frame.
ApplyDiffFrameState ==
    /\ running /\ pc = "FetchingEmails" /\ net = "answered"
    /\ shadow' = NewShadow
    /\ IF suppress
       THEN replica' = NewShadow /\ UNCHANGED pending
       ELSE /\ \E q \in Queues(Deltas(shadow, NewShadow)) :
                   pending' = pending \o q
            /\ UNCHANGED replica
    /\ emailState' = latest
    /\ suppress' = FALSE
    /\ pc' = "Emitting" /\ net' = "idle"
    /\ UNCHANGED <<server, owed, sub, note, chg, seen, running, latest,
                   shutdown>>

ApplyDiff ==
    /\ running /\ pc = "FetchingEmails" /\ net = "answered"
    /\ shadow' = NewShadow
    /\ IF suppress
       THEN replica' = NewShadow /\ UNCHANGED pending
       ELSE /\ \E q \in Queues(Deltas(shadow, NewShadow)) :
                   pending' = pending \o q
            /\ UNCHANGED replica
    /\ emailState' = chg.upto
    /\ suppress' = FALSE
    /\ pc' = "Emitting" /\ net' = "idle"
    /\ UNCHANGED <<server, owed, sub, note, chg, seen, running, latest,
                   shutdown>>

\* What one event makes of the consumer's picture of the mailbox.
ApplyEvent(r, e) ==
    CASE e.type = "EnvelopeAdded" -> [r EXCEPT ![e.id] = e.flags]
      [] e.type = "EnvelopeRemoved" -> [r EXCEPT ![e.id] = Out]
      [] e.type = "FlagsAdded" -> [r EXCEPT ![e.id] = @ \union e.flags]
      [] e.type = "FlagsRemoved" -> [r EXCEPT ![e.id] = @ \ e.flags]
      [] e.type = "KeepAlive" -> r

\* One queued event is yielded and the driver hands it to the channel; a
\* send to a dropped receiver ends the watch.
Emit ==
    /\ running /\ pc = "Emitting" /\ pending # <<>>
    /\ pending' = Tail(pending)
    /\ running' = FALSE
    /\ \/ replica' = ApplyEvent(replica, Head(pending)) /\ UNCHANGED pc
       \/ pc' = "Done" /\ UNCHANGED replica
    /\ UNCHANGED <<server, wire, latest, shadow, emailState, suppress,
                   shutdown>>

\* Mutant: the next cycle starts before the queue is drained.
ResubscribeEarly ==
    /\ running /\ pc = "Emitting"
    /\ pc' = "Subscribing" /\ latest' = NoChange
    /\ sub' = "opening"
    /\ UNCHANGED <<server, owed, note, net, chg, seen, running, memory,
                   shutdown, replica>>

Resubscribe ==
    /\ running /\ pc = "Emitting" /\ pending = <<>>
    /\ pc' = "Subscribing" /\ latest' = NoChange
    /\ sub' = "opening"
    /\ UNCHANGED <<server, owed, note, net, chg, seen, running, memory,
                   shutdown, replica>>

\* A sub-coroutine, or the socket, reports an error: Complete(Err(_)).
Fail ==
    /\ running /\ pc \in {"Subscribing", "FetchingChanges", "FetchingEmails"}
    /\ pc' = "Failed" /\ running' = FALSE
    /\ UNCHANGED <<server, wire, latest, memory, shutdown, replica>>

\* Another thread asks the watch to stop.
FlipShutdown ==
    /\ ~shutdown /\ (running => FlipsMidResume)
    /\ shutdown' = TRUE
    /\ UNCHANGED <<server, wire, pc, running, latest, memory, replica>>

-----------------------------------------------------------------------------
Progress ==
    \/ Resume \/ OpenStream \/ AwaitFrame \/ TakeFrame \/ EndCycle
    \/ AwaitReply \/ DispatchGet \/ ApplyDiff \/ Emit \/ Resubscribe

Next ==
    \/ \E i \in Id : ServerChange(i)
    \/ PushState \/ CloseStream \/ AnswerChanges \/ AnswerGet
    \/ Progress \/ Fail \/ FlipShutdown

Spec == Init /\ [][Next]_vars

\* The driver keeps calling resume(), and the server answers every request,
\* pushes what it owes and ends idle streams; nothing forces a change, an
\* error or a shutdown.
FairSpec ==
    /\ Spec
    /\ WF_vars(Progress)
    /\ WF_vars(AnswerChanges) /\ WF_vars(AnswerGet)
    /\ WF_vars(PushState /\ owed) /\ WF_vars(CloseStream)

-----------------------------------------------------------------------------
(* Properties.                                                             *)

\* Every variable keeps its shape.
TypeOK ==
    /\ mail \in [Id -> Mail] /\ stamp \in [Id -> Nat] /\ srv \in Nat
    /\ owed \in BOOLEAN
    /\ sub \in {"opening", "open", "closed"}
    /\ note \in Nat \union {NoState, NoChange}
    /\ net \in {"idle", "sent", "answered"}
    /\ chg \in [live : SUBSET Id, gone : SUBSET Id, upto : Nat]
    /\ seen \in [found : SUBSET Id, view : [Id -> Entry]]
    /\ pc \in {"Subscribing", "FetchingChanges", "FetchingEmails",
              "Emitting", "Done", "Failed"}
    /\ running \in BOOLEAN
    /\ latest \in Nat \union {NoState, NoChange}
    /\ shadow \in [Id -> Entry]
    /\ emailState \in Nat \union {NoState}
    /\ pending \in Seq(Events \union {KeepAlive})
    /\ suppress \in BOOLEAN
    /\ shutdown \in BOOLEAN
    /\ replica \in [Id -> Entry]

\* A message the shadow has wrong has changed after email_state, so the
\* next Email/changes names it: whatever happens on the server between
\* Email/changes, Email/get and the next subscription, and wherever a
\* truncated answer stops, no difference is ever out of reach of a diff.
StaleIsCovered ==
    \A i \in Id : shadow[i] # View(i) => stamp[i] > emailState

EventsOn(i) ==
    {pending[k] : k \in {j \in DOMAIN pending :
                            pending[j] # KeepAlive /\ pending[j].id = i}}

\* The queued events about a message are exactly the difference between
\* what the consumer was told and the shadow, each queued once: no delta
\* is lost, doubled or told against a picture the consumer does not have
\* (until the watch is over and what is still queued is dropped).
PendingExplains ==
    ~suppress /\ pc # "Done" =>
        /\ \A i \in Id : EventsOn(i) = DeltasOf(i, replica[i], shadow[i])
        /\ \A j, k \in DOMAIN pending : pending[j] = pending[k] => j = k

\* The watcher implements the feed its consumers rely on: deltas of one
\* round are told one by one, each brings the consumer closer to the
\* shadow, and the next round starts from there.
Feed == INSTANCE MailboxFeed WITH
    Id <- Id, Keyword <- Keyword, Out <- Out,
    shadow <- shadow, replica <- replica, suppress <- suppress
ImplementsFeed == Feed!Spec

\* Once the server stays as it is, the consumer ends up with the mailbox
\* the server has, unless the watch ended.
Converges == <>[](Stopped \/ \A i \in Id : replica[i] = View(i))

\* A watch asked to stop does stop (client.rs: "Returns Ok(()) when
\* shutdown flips").
ShutdownStops == shutdown ~> Stopped
=============================================================================
