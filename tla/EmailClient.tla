---------------------------- MODULE EmailClient ----------------------------
(***************************************************************************)
(* The shared client (src/client.rs) over an account reached through JMAP, *)
(* the Gmail REST API or Microsoft Graph: the priorities by which a call   *)
(* picks one of the registered backends, and the message, flag and mailbox *)
(* coroutines of those three backends (message/{jmap,gmail,msgraph},       *)
(* flag/{jmap,gmail,msgraph}, mailbox/{jmap,gmail,msgraph}).               *)
(*                                                                         *)
(* A message is its content and its TAGS.  A Gmail message is a set of     *)
(* labels, some of them mailboxes and some of them flags; a JMAP email has *)
(* mailboxIds and keywords; a Graph message has one folder, and fields     *)
(* that stand for flags.  Every batch comes down to a patch of tags, sent  *)
(* id by id (Gmail, Graph) or in one Email/set (JMAP).  A request may be   *)
(* refused, or take effect while its answer is lost.  Other clients of the *)
(* account change it between two requests.                                 *)
(***************************************************************************)
EXTENDS Naturals, FiniteSets, FiniteSetsExt, SequencesExt

CONSTANTS
    Mbox,           \* mailboxes: labels, mailbox ids or folders
    Inbox,          \* where the account's messages are at first
    Drafts,         \* drafts_mailbox_id
    Keyword,        \* keywords that are no IANA flag
    FlagSets,       \* the sets of flags a caller stores
    Registrations,  \* the sets of slots a caller registers
    MaxId, MaxCalls, MaxMeddles

\* IanaFlag, as far as the three backends tell the flags apart.
Iana == {"Seen", "Flagged", "Important", "Draft", "Junk", "Answered"}

ASSUME MailboxesAssumption == Inbox \in Mbox /\ Drafts \in Mbox
ASSUME FlagsAssumption == UNION FlagSets \subseteq Iana \cup Keyword
ASSUME BoundsAssumption == MaxId \in Nat \ {0, 1} /\ {MaxCalls, MaxMeddles} \subseteq Nat

VARIABLES
    slots,    \* the backends registered
    ready,    \* whether identity_id and drafts_mailbox_id are set
    boxes,    \* the mailboxes that exist
    mail,     \* the account: id |-> message
    nextId,   \* the id the server gives to the next message
    call,     \* the call under way, or the last one
    meddled,  \* the ids other clients changed since that call began
    gone,     \* contents a caller or another client has deleted
    outbox,   \* how often the server accepted a message for delivery
    oks,      \* how often send_message returned Ok
    held,     \* the last id a caller was given: by which call, of which backend
    calls, meddles

vars == <<slots, ready, boxes, mail, nextId, call, meddled, gone, outbox, oks,
          held, calls, meddles>>

-----------------------------------------------------------------------------
(* Dispatch: the order in which a call tries the slots.                    *)

Everywhere == <<"maildir", "m2dir", "jmap", "gmail", "msgraph", "imap">>

ListOrder    == Everywhere
SearchOrder  == <<"maildir", "m2dir", "jmap", "imap">>
FlagOrder    == Everywhere
AddOrder     == <<"maildir", "m2dir", "jmap", "imap">>
MailboxOrder == Everywhere
\* Mutant: deleting, copying and moving prefer IMAP to the REST backends.
MessageOrderImapFirst == <<"maildir", "m2dir", "imap", "jmap", "gmail", "msgraph">>
MessageOrder == Everywhere
DiffOrder    == <<"jmap", "imap">>
BoxDiffOrder == <<"jmap">>
WatchOrder   == <<"jmap", "gmail", "imap">>
SendOrder    == <<"jmap", "gmail", "msgraph", "smtp">>

Order == [list |-> ListOrder, search |-> SearchOrder, diff |-> DiffOrder,
          boxDiff |-> BoxDiffOrder, watch |-> WatchOrder, add |-> AddOrder, store |-> FlagOrder,
          mailbox |-> MailboxOrder, message |-> MessageOrder, send |-> SendOrder]

\* Where in the order of a call the registered slots stand.
Registered(op) == {k \in DOMAIN Order[op] : Order[op][k] \in slots}

\* The slot a call goes to, the first registered: NoBackendRegistered or
\* UnsupportedOperation if none is.
Route(op) == IF Registered(op) = {} THEN "none" ELSE Order[op][Min(Registered(op))]

Remote == {"jmap", "gmail", "msgraph"}

\* The calls that give a caller ids, and the calls that take them.
Gives == {"list", "search", "diff", "watch", "add"}
Takes == {"store", "message"}

-----------------------------------------------------------------------------
(* Flags as tags.                                                          *)

\* Gmail: the labels that are flags.  An unread message is not seen.
LabelOf == [Seen |-> "UNREAD", Flagged |-> "STARRED", Important |-> "IMPORTANT",
            Draft |-> "DRAFT", Junk |-> "SPAM"]
Labelled == DOMAIN LabelOf
LabelsOf(flags) == {LabelOf[f] : f \in (flags \cap Labelled) \ {"Seen"}}
Unread == {"UNREAD"}

\* Answered and the like have no label and are dropped; a keyword is a label id.
LabelPatch(flags, op) ==
    LET named  == LabelsOf(flags) \cup (flags \cap Keyword)
        unread == IF "Seen" \in flags THEN Unread ELSE {}
    IN  CASE op = "Add"    -> [add |-> named, remove |-> unread]
          [] op = "Remove" -> [add |-> unread, remove |-> named]
          [] op = "Set"    -> [add    |-> named \cup (Unread \ unread),
                               remove |-> LabelsOf(Iana \ flags) \cup unread]

\* Microsoft Graph: isRead, flag, importance and categories.  Only Set writes the
\* categories, and a body without categories leaves them as they are.
FieldOf == [Seen |-> "isRead", Flagged |-> "flag", Important |-> "importance",
            Draft |-> "isDraft"]
FieldsOf(flags) == {FieldOf[f] : f \in flags \cap {"Seen", "Flagged", "Important"}}

\* Mutant: Add writes the categories too.
FieldPatchAllCategories(flags, op) ==
    CASE op = "Remove" -> [add |-> {}, remove |-> FieldsOf(flags)]
      [] OTHER -> [add |-> FieldsOf(flags) \cup (flags \cap Keyword),
                   remove |-> FieldsOf(IF op = "Set" THEN Iana \ flags ELSE {})
                                \cup (Keyword \ flags)]

FieldPatch(flags, op) ==
    LET keywords == flags \cap Keyword
    IN  CASE op = "Add"    -> [add |-> FieldsOf(flags), remove |-> {}]
          [] op = "Remove" -> [add |-> {}, remove |-> FieldsOf(flags)]
          [] op = "Set"    -> [add    |-> FieldsOf(flags) \cup keywords,
                               remove |-> FieldsOf(Iana \ flags) \cup
                                   IF keywords = {} THEN {} ELSE Keyword \ keywords]

\* A keyword stands for no other flag.  Mailboxes, flags and fields are different
\* things in JMAP and in Graph; a Gmail label may be a mailbox and a flag at once.
ASSUME TagsAssumption ==
    /\ Keyword \cap (Iana \cup {LabelOf[f] : f \in Labelled}
                          \cup {FieldOf[f] : f \in DOMAIN FieldOf}) = {}
    /\ (\E s \in Registrations : s \cap {"jmap", "msgraph"} # {}) =>
           Mbox \cap (Iana \cup Keyword \cup {FieldOf[f] : f \in DOMAIN FieldOf}) = {}

\* JMAP: one keyword per flag; Set replaces them all.
KeywordPatch(flags, op) ==
    CASE op = "Add"    -> [add |-> flags, remove |-> {}]
      [] op = "Remove" -> [add |-> {}, remove |-> flags]
      [] op = "Set"    -> [add |-> flags, remove |-> (Iana \cup Keyword) \ flags]

\* The flags an envelope shows, by backend.
LabelledFlags(tags) == {f \in Labelled : (LabelOf[f] \in tags) # (f = "Seen")}
FieldFlags(tags) == {f \in DOMAIN FieldOf : FieldOf[f] \in tags} \cup (tags \cap Keyword)
KeywordFlags(tags) == tags \cap (Iana \cup Keyword)

FlagsOf(tags) ==
    CASE Route("store") = "gmail"   -> LabelledFlags(tags)
      [] Route("store") = "msgraph" -> FieldFlags(tags)
      [] OTHER                      -> KeywordFlags(tags)

-----------------------------------------------------------------------------
(* The account at first: two messages in the inbox.                        *)

FreshTags(b) == IF b = "gmail" THEN Unread ELSE {}

Accounts(b) ==
    IF b \in Remote
    THEN {[i \in 1..2 |-> [raw |-> i, tags |-> {Inbox} \cup t]] :
             t \in {FreshTags(b), Keyword}}
    ELSE {<<>>}

Idle == [op |-> "none", ids |-> <<>>, at |-> 1, stage |-> "none", kind |-> "none",
         patch |-> [add |-> {}, remove |-> {}], flags |-> {}, how |-> "none",
         before |-> <<>>]

Init ==
    /\ slots \in Registrations
    /\ ready \in IF Route("send") = "jmap" THEN BOOLEAN ELSE {TRUE}
    /\ boxes = Mbox
    /\ mail \in Accounts(Route("message"))
    /\ nextId = 3
    /\ call = Idle
    /\ meddled = {} /\ gone = {}
    /\ outbox = 0 /\ oks = 0
    /\ held = [by |-> "none", of |-> "none"]
    /\ calls = 0 /\ meddles = 0

-----------------------------------------------------------------------------
(* Beginning a call.                                                       *)

Running == call.stage = "running"
Free == ~Running /\ calls < MaxCalls

\* A caller is given an id: by a listing, a search, a diff, a watch or an append.
Give(op) ==
    /\ Free
    /\ Route(op) # "none"
    /\ held' = [by |-> op, of |-> Route(op)]
    /\ calls' = calls + 1
    /\ UNCHANGED <<slots, ready, boxes, mail, nextId, call, meddled, gone, outbox,
                   oks, meddles>>

\* No slot takes the call: it ends with an error and nothing has changed.
NoBackend(op) ==
    /\ Free
    /\ Route(op) = "none"
    /\ call' = [Idle EXCEPT !.op = op, !.stage = "error", !.before = mail]
    /\ meddled' = {} /\ calls' = calls + 1
    /\ UNCHANGED <<slots, ready, boxes, mail, nextId, gone, outbox, oks, held, meddles>>

Begin(c) ==
    /\ call' = [c EXCEPT !.before = mail]
    /\ meddled' = {} /\ calls' = calls + 1
    /\ UNCHANGED <<slots, ready, boxes, mail, nextId, gone, outbox, oks, held, meddles>>

\* A batch of requests, one per id.  Without ids, or with nothing to change, it is
\* over at once (Noop).
PerId(op, kind, ids, patch) ==
    LET noop == ids = <<>> \/ (kind = "edit" /\ patch.add = {} /\ patch.remove = {})
    IN  [Idle EXCEPT !.op = op, !.kind = kind, !.ids = ids, !.patch = patch,
                     !.stage = IF noop THEN "ok" ELSE "running"]

\* One Email/set for all ids.
OneSet(op, kind, ids, patch) ==
    [Idle EXCEPT !.op = op, !.kind = kind, !.ids = ids, !.patch = patch,
                 !.stage = "running"]

GmailStore(ids, flags, how) == PerId("store", "edit", ids, LabelPatch(flags, how))
GraphStore(ids, flags, how) == PerId("store", "edit", ids, FieldPatch(flags, how))
JmapStore(ids, flags, how)  == OneSet("store", "edit", ids, KeywordPatch(flags, how))

\* Gmail and JMAP change the mailboxes of the message that is there; Graph makes
\* another message in the target folder, with another id.
GmailMove(ids, from, to) == PerId("move", "edit", ids, [add |-> {to}, remove |-> {from}])
GraphMove(ids, to)       == PerId("move", "move", ids, [add |-> {to}, remove |-> Mbox])
JmapMove(ids, from, to)  == OneSet("move", "edit", ids, [add |-> {to}, remove |-> {from}])

GmailCopy(ids, to) == PerId("copy", "edit", ids, [add |-> {to}, remove |-> {}])
GraphCopy(ids, to) == PerId("copy", "copy", ids, [add |-> {to}, remove |-> Mbox])
JmapCopy(ids, to)  == OneSet("copy", "edit", ids, [add |-> {to}, remove |-> {}])

\* Deleting takes the message out of every mailbox; JMAP says so id by id.
GmailDelete(id) == PerId("delete", "delete", <<id>>, Idle.patch)
GraphDelete(id) == PerId("delete", "delete", <<id>>, Idle.patch)
JmapDelete(id)  == OneSet("delete", "delete", <<id>>, Idle.patch)

\* The batches: no id, one, or two in either order; a caller may hold ids that are
\* not there any more.
Batches == {ids \in BoundedSeq(1..(nextId - 1), 2) : IsInjective(ids)}

StoreFlags ==
    /\ Free
    /\ \E ids \in Batches, flags \in FlagSets, how \in {"Add", "Remove", "Set"} :
       LET by == Route("store")
           c  == CASE by = "gmail"   -> GmailStore(ids, flags, how)
                   [] by = "msgraph" -> GraphStore(ids, flags, how)
                   [] OTHER          -> JmapStore(ids, flags, how)
       IN  /\ by \in Remote
           /\ Begin([c EXCEPT !.flags = flags, !.how = how])

MoveMessages ==
    /\ Free
    /\ \E ids \in Batches, from \in boxes : \E to \in boxes \ {from} :
       LET by == Route("message")
       IN  /\ by \in Remote
           /\ Begin(CASE by = "gmail"   -> GmailMove(ids, from, to)
                      [] by = "msgraph" -> GraphMove(ids, to)
                      [] OTHER          -> JmapMove(ids, from, to))

CopyMessages ==
    /\ Free
    /\ \E ids \in Batches, to \in boxes :
       LET by == Route("message")
       IN  /\ by \in Remote
           /\ Begin(CASE by = "gmail"   -> GmailCopy(ids, to)
                      [] by = "msgraph" -> GraphCopy(ids, to)
                      [] OTHER          -> JmapCopy(ids, to))

DeleteMessage ==
    /\ Free
    /\ \E id \in 1..(nextId - 1) :
       LET by == Route("message")
       IN  /\ by \in Remote
           /\ Begin(CASE by = "gmail"   -> GmailDelete(id)
                      [] by = "msgraph" -> GraphDelete(id)
                      [] OTHER          -> JmapDelete(id))

-----------------------------------------------------------------------------
(* The requests of a batch.                                                *)

Edit(m, p) == [m EXCEPT !.tags = (@ \ p.remove) \cup p.add]
Without(id) == [i \in DOMAIN mail \ {id} |-> mail[i]]
With(id, m) == [i \in DOMAIN mail \cup {id} |-> IF i = id THEN m ELSE mail[i]]

\* What a request about one message does at the server.
Effect(id) ==
    CASE call.kind = "edit" -> With(id, Edit(mail[id], call.patch))
      [] call.kind = "copy" -> With(nextId, Edit(mail[id], call.patch))
      [] call.kind = "move" ->
            [i \in (DOMAIN mail \ {id}) \cup {nextId} |->
                IF i = nextId THEN Edit(mail[id], call.patch) ELSE mail[i]]
      [] call.kind = "delete" -> Without(id)

Deletes(ids) == IF call.kind = "delete" THEN {mail[i].raw : i \in ids} ELSE {}

\* How a request ends: answered, refused, or done without an answer.
Replies == {"ok", "refused", "lost"}

\* Mutant: what the server did not create is overlooked.
EndedAnyhow(reply) == [call EXCEPT !.stage = IF reply = "lost" THEN "error" ELSE "ok"]

Ended(reply) == [call EXCEPT !.stage = IF reply = "ok" THEN "ok" ELSE "error"]

\* Mutant: a batch does not see its last id.
NextIdNeverEnds(reply) ==
    IF reply = "ok" THEN [call EXCEPT !.at = @ + 1] ELSE Ended(reply)
\* Mutant: the last id of the batch is left out.
NextIdStopsShort(reply) ==
    IF reply = "ok" /\ call.at + 1 < Len(call.ids) THEN [call EXCEPT !.at = @ + 1]
    ELSE Ended(reply)

\* After an answer: the next id, the end of the batch, or its first error.
NextId(reply) ==
    IF reply = "ok" /\ call.at < Len(call.ids) THEN [call EXCEPT !.at = @ + 1]
    ELSE Ended(reply)

\* One request of a Gmail or Graph batch.
Request == \E reply \in Replies :
    LET id == call.ids[call.at]
        takes == reply # "refused"
    IN  /\ Running /\ call.op \in {"store", "move", "copy", "delete"}
        /\ Route("message") # "jmap"
        /\ takes => id \in DOMAIN mail /\ nextId <= MaxId
        /\ mail' = IF takes THEN Effect(id) ELSE mail
        /\ nextId' = IF takes /\ call.kind \in {"copy", "move"} THEN nextId + 1 ELSE nextId
        /\ gone' = IF takes THEN gone \cup Deletes({id}) ELSE gone
        /\ call' = NextId(reply)
        /\ UNCHANGED <<slots, ready, boxes, meddled, outbox, oks, held, calls, meddles>>

\* Email/set: the server takes some of the ids and says which it did not take.
SetEmails == \E took \in SUBSET (Range(call.ids) \cap DOMAIN mail), told \in BOOLEAN :
    /\ Running /\ call.op \in {"store", "move", "copy", "delete"}
    /\ Route("message") = "jmap"
    /\ mail' = IF call.kind = "delete"
               THEN [i \in DOMAIN mail \ took |-> mail[i]]
               ELSE [i \in DOMAIN mail |->
                        IF i \in took THEN Edit(mail[i], call.patch) ELSE mail[i]]
    /\ gone' = gone \cup Deletes(took)
    /\ call' = Ended(IF told /\ took = Range(call.ids) THEN "ok" ELSE "refused")
    /\ UNCHANGED <<slots, ready, boxes, nextId, meddled, outbox, oks, held, calls, meddles>>

-----------------------------------------------------------------------------
(* Appending and sending.                                                  *)

\* JMAP uploads the message, imports the blob and, sending, submits the import; the
\* others send in one request or one mail transaction, after what they check alone.
JmapAdd   == <<"upload", "import">>
JmapSend  == <<"upload", "import", "submit">>
GmailSend == <<"submit">>
GraphSend == <<"submit">>
SmtpSend  == <<"submit">>

Steps == IF call.op = "add" THEN JmapAdd
         ELSE [jmap |-> JmapSend, gmail |-> GmailSend, msgraph |-> GraphSend,
               smtp |-> SmtpSend][Route("send")]

AddMessage ==
    /\ Free
    /\ \E b \in boxes, flags \in FlagSets :
       /\ Route("add") = "jmap"
       /\ Begin([Idle EXCEPT !.op = "add", !.stage = "running",
                             !.patch = [add |-> {b} \cup flags, remove |-> {}]])

\* A JMAP client without identity or drafts mailbox sends nothing (MissingSession).
SendMessage ==
    /\ Free
    /\ Route("send") # "none"
    /\ Begin([Idle EXCEPT !.op = "send",
                          !.patch = [add |-> {Drafts, "Draft"}, remove |-> {}],
                          !.stage = IF Route("send") = "jmap" /\ ~ready
                                    THEN "error" ELSE "running"])

Step == Steps[call.at]

\* One step of an append or a sending.  An import that another client has deleted
\* cannot be submitted; Drafts may have been deleted, too.
Deliver == \E reply \in Replies :
    LET takes == reply # "refused"
        here  == Route(call.op) \in Remote /\ Route(call.op) = Route("message")
        last  == call.at = Len(Steps)
    IN  /\ Running /\ call.op \in {"add", "send"}
        /\ takes /\ Step = "import" /\ here =>
               nextId <= MaxId /\ call.patch.add \cap Mbox \subseteq boxes
        /\ takes /\ Step = "submit" /\ Len(Steps) > 1 /\ here =>
               \E i \in DOMAIN mail : mail[i].raw = 0 /\ i \notin DOMAIN call.before
        /\ IF takes /\ Step = "import" /\ here
           THEN /\ mail' = With(nextId, [raw |-> 0, tags |-> call.patch.add])
                /\ nextId' = nextId + 1
           ELSE UNCHANGED <<mail, nextId>>
        /\ outbox' = IF takes /\ Step = "submit" THEN outbox + 1 ELSE outbox
        /\ call' = IF reply = "ok" /\ ~last THEN [call EXCEPT !.at = @ + 1]
                   ELSE Ended(reply)
        /\ oks' = IF call'.stage = "ok" /\ call.op = "send" THEN oks + 1 ELSE oks
        /\ UNCHANGED <<slots, ready, boxes, meddled, gone, held, calls, meddles>>

-----------------------------------------------------------------------------
(* Mailboxes: one request each.                                            *)

MailboxesOf(m) == m.tags \cap Mbox

\* The messages that go with a mailbox: none of Gmail's, which lose a label; those of
\* a Graph folder; the JMAP emails that are in no other mailbox
\* (onDestroyRemoveEmails).
GmailDoomed(b) == {}
GraphDoomed(b) == {i \in DOMAIN mail : b \in MailboxesOf(mail[i])}
\* Mutant: a JMAP mailbox takes every email it holds with it.
JmapDoomedAll(b) == {i \in DOMAIN mail : b \in MailboxesOf(mail[i])}
JmapDoomed(b)  == {i \in DOMAIN mail : MailboxesOf(mail[i]) = {b}}

Doomed(b) == [gmail |-> GmailDoomed(b), msgraph |-> GraphDoomed(b),
              jmap |-> JmapDoomed(b)][Route("mailbox")]

DeleteMailbox == \E b \in boxes \ {Inbox}, reply \in Replies :
    /\ Free /\ Route("mailbox") \in Remote
    /\ IF reply # "refused"
       THEN /\ boxes' = boxes \ {b}
            /\ mail' = [i \in DOMAIN mail \ Doomed(b) |-> [mail[i] EXCEPT !.tags = @ \ {b}]]
            /\ gone' = gone \cup
                   {mail[i].raw : i \in {j \in DOMAIN mail : MailboxesOf(mail[j]) = {b}}}
       ELSE UNCHANGED <<boxes, mail, gone>>
    /\ call' = [Ended(reply) EXCEPT !.op = "mailbox", !.before = mail]
    /\ meddled' = {} /\ calls' = calls + 1
    /\ UNCHANGED <<slots, ready, nextId, outbox, oks, held, meddles>>

CreateMailbox == \E b \in Mbox \ boxes, reply \in Replies :
    /\ Free /\ Route("mailbox") \in Remote
    /\ boxes' = IF reply = "refused" THEN boxes ELSE boxes \cup {b}
    /\ call' = [Ended(reply) EXCEPT !.op = "mailbox", !.before = mail]
    /\ meddled' = {} /\ calls' = calls + 1
    /\ UNCHANGED <<slots, ready, mail, nextId, gone, outbox, oks, held, meddles>>

-----------------------------------------------------------------------------
(* Other clients of the account, while a call is under way.                *)

Meddle == \E id \in DOMAIN mail :
    /\ Running /\ meddles < MaxMeddles
    /\ \/ \E k \in Keyword : 
            /\ mail' = With(id, [mail[id] EXCEPT !.tags = SymDiff(@, {k})])
            /\ UNCHANGED gone
       \/ /\ mail' = Without(id)
          /\ gone' = gone \cup {mail[id].raw}
    /\ meddled' = meddled \cup {id}
    /\ meddles' = meddles + 1
    /\ UNCHANGED <<slots, ready, boxes, nextId, call, outbox, oks, held, calls>>

Next ==
    \/ \E op \in Gives : Give(op)
    \/ \E op \in DOMAIN Order : NoBackend(op)
    \/ StoreFlags \/ MoveMessages \/ CopyMessages \/ DeleteMessage
    \/ Request \/ SetEmails
    \/ AddMessage \/ SendMessage \/ Deliver
    \/ DeleteMailbox \/ CreateMailbox
    \/ Meddle

Spec == Init /\ [][Next]_vars

-----------------------------------------------------------------------------
(* Properties.                                                             *)

Tags == Mbox \cup Iana \cup Keyword \cup {LabelOf[f] : f \in Labelled}
            \cup {FieldOf[f] : f \in DOMAIN FieldOf}
Message == [raw : 0..2, tags : SUBSET Tags]

\* Every id is one the server has given; a batch stands at one of its ids.
TypeOK ==
    /\ slots \in Registrations /\ boxes \subseteq Mbox
    /\ DOMAIN mail \subseteq 1..(nextId - 1) /\ nextId <= MaxId + 1
    /\ \A i \in DOMAIN mail : mail[i] \in Message
    /\ call.stage \in {"none", "running", "ok", "error"}
    /\ Running /\ call.op \in {"store", "move", "copy", "delete"} /\
           Route("message") # "jmap" => call.at \in 1..Len(call.ids)
    /\ meddled \subseteq 1..MaxId /\ gone \subseteq 0..2
    /\ outbox \in 0..MaxCalls /\ oks \in 0..MaxCalls

\* An id a caller was given goes back to the backend that gave it (client.rs
\* dispatches every call on its own, with no record of where an id came from),
\* except when the backend that takes ids cannot make the call that gave it: a
\* Gmail or Graph account searched, appended to or watched through another slot.
RoutedBack ==
    held.by # "none" =>
        \A op \in Takes :
            \/ Route(op) = held.of
            \/ \A k \in 1..Len(Order[held.by]) : Order[held.by][k] # Route(op)

\* The ids a call may have changed: all of them once it has returned Ok; the ones
\* before the current one, and that one itself if its answer was lost; any of
\* them after an Email/set that did not end well.
Prefix(n) == {call.ids[k] : k \in 1..n}
Parts ==
    CASE call.stage = "ok"      -> {Range(call.ids)}
      [] call.stage = "running" -> IF Route("message") = "jmap" THEN {{}}
                                   ELSE {Prefix(call.at - 1)}
      [] OTHER                  -> IF Route("message") = "jmap" THEN SUBSET Range(call.ids)
                                   ELSE {Prefix(call.at - 1), Prefix(call.at)}

Arrived(m) == \E j \in DOMAIN mail \ DOMAIN call.before :
                  j \in meddled \/ mail[j] = Edit(m, call.patch)
MeddledNew == meddled \ DOMAIN call.before # {}

Changed(id) ==
    LET m == call.before[id]
    IN  CASE call.kind = "edit"   -> id \in DOMAIN mail /\ mail[id] = Edit(m, call.patch)
          [] call.kind = "copy"   -> id \in DOMAIN mail /\ mail[id] = m
                                        /\ (Arrived(m) \/ MeddledNew)
          [] call.kind = "move"   -> id \notin DOMAIN mail /\ (Arrived(m) \/ MeddledNew)
          [] call.kind = "delete" -> id \notin DOMAIN mail

\* A call that returned Ok changed every id it was given, and one that failed
\* changed the ids before the failure and no other (the resume loops of the Gmail
\* and Graph batches), or some of them (Email/set with notUpdated): whatever other
\* clients do to other messages meanwhile.
BatchOutcome ==
    call.op \in {"store", "move", "copy", "delete"} /\ call.kind # "none" =>
        \E part \in Parts : \A id \in (Range(call.ids) \cap DOMAIN call.before) \ meddled :
            IF id \in part THEN Changed(id)
            ELSE id \in DOMAIN mail /\ mail[id] = call.before[id]

\* The flags a backend can store by an operation: \Answered and the like have no
\* Gmail label, Graph adds and removes no keyword, and a Set without keyword leaves
\* the categories.
Stores(flags, how) ==
    CASE Route("store") = "gmail"   -> Labelled
      [] Route("store") = "msgraph" ->
            {"Seen", "Flagged", "Important"}
                \cup IF how = "Set" /\ flags \cap Keyword # {} THEN Keyword ELSE {}
      [] OTHER                      -> Iana \cup Keyword

Asked(old, flags, how) ==
    CASE how = "Add"    -> old \cup flags
      [] how = "Remove" -> old \ flags
      [] how = "Set"    -> flags

\* After store_flags the next listing shows the flags asked for, as far as the
\* backend has them, and leaves the other flags as they were: the translation of
\* flags to labels, fields or keywords and the one back fit together.
FlagsAsAsked ==
    call.op = "store" /\ call.stage = "ok" =>
        \A id \in (Range(call.ids) \cap DOMAIN call.before) \ meddled :
            LET old  == FlagsOf(call.before[id].tags)
                new  == FlagsOf(mail[id].tags)
                able == Stores(call.flags, call.how)
            IN  new = (Asked(old, call.flags, call.how) \cap able) \cup (old \ able)

\* No message is lost: its content stays in the account until somebody deletes it,
\* or the only mailbox it is in.
NothingLost ==
    Route("message") \in Remote =>
        \A r \in 1..2 : r \in gone \/ \E i \in DOMAIN mail : mail[i].raw = r

\* A message is delivered at most once per send_message, at least once if it
\* returned Ok, and JMAP submits only what it has imported: every delivery has
\* left an email in the drafts, unless somebody deleted it.
SendAccounted ==
    /\ oks <= outbox
    /\ outbox <= calls
    /\ Route("send") = "jmap" /\ Route("message") = "jmap" /\ outbox > 0 =>
           0 \in gone \/ \E i \in DOMAIN mail : mail[i].raw = 0
=============================================================================
