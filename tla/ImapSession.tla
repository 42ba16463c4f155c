---------------------------- MODULE ImapSession ----------------------------
(***************************************************************************)
(* The per-message operations of the IMAP client (`ImapClientStd`): get,   *)
(* store_flags, delete, copy, move and add_message.  Each is a coroutine   *)
(* that sends one to three commands over a connection whose state, the     *)
(* selected mailbox, outlives the call.  Other sessions act on the same    *)
(* account between any two commands.                                       *)
(*                                                                         *)
(* `AutoSelect` is the field `auto_select` of the client: when it is off,  *)
(* the caller selects a mailbox once and calls the operations on that      *)
(* mailbox only.                                                           *)
(***************************************************************************)
EXTENDS Naturals

CONSTANTS
    Mailbox,      \* the mailboxes of the account
    NoMailbox,    \* no mailbox is selected
    MessageId,    \* values of the header Message-ID
    Flag,         \* the flags
    Deleted,      \* the flag \Deleted
    NoMessage,    \* no message has that UID
    MaxUid,       \* bound on the UIDs given out in a mailbox
    AutoSelect    \* each operation selects its mailbox first

ASSUME SessionAssumption ==
    /\ MaxUid \in Nat
    /\ Deleted \in Flag
    /\ NoMailbox \notin Mailbox
    /\ NoMessage \notin MessageId
    /\ NoMessage \notin [id : MessageId, flags : SUBSET Flag]
    /\ AutoSelect \in BOOLEAN

VARIABLES
    mail,       \* the message of each UID of each mailbox
    nextUid,    \* the UID the next message of each mailbox gets
    selected,   \* the mailbox this connection has selected
    chosen,     \* the mailbox the caller selected for its batch
    call,       \* the operation in progress
    step,       \* the command the coroutine sends next
    answer,     \* what the last operation returned
    appended    \* the UID the server gave to the appended message, 0 if none

vars == <<mail, nextUid, selected, chosen, call, step, answer, appended>>

Uid == 1..MaxUid
Message == [id : MessageId, flags : SUBSET Flag]
NoMail == [u \in Uid |-> NoMessage]

\* The UIDs among `uids` that mailbox b holds a message for: UID commands
\* ignore the others.
Held(b, uids) == {u \in uids : mail[b][u] # NoMessage}

(* The calls; `how` is FlagOp. *)

One == {{u} : u \in Uid}
Some == (SUBSET Uid) \ {{}}

Gets == [op : {"get"}, box : Mailbox, uids : One]
Deletes == [op : {"delete"}, box : Mailbox, uids : One]
Transfers == [op : {"copy", "move"}, box : Mailbox, to : Mailbox, uids : Some]
Stores ==
    [op : {"store"}, box : Mailbox, uids : Some, how : {"add", "set", "remove"},
     flags : SUBSET Flag]

\* ImapMessageAdd::new: the Message-ID is the one of the message, or one made
\* up for a message that has none.
Adds == [op : {"append"}, box : Mailbox, flags : SUBSET Flag, id : MessageId]

PerMessage == Gets \cup Deletes \cup Transfers \cup Stores
Calls == PerMessage \cup Adds
NoCall == [op |-> "none"]

Err == [ok |-> FALSE, uid |-> 0, id |-> NoMessage]
Ok == [ok |-> TRUE, uid |-> 0, id |-> NoMessage]
Added(u) == [ok |-> TRUE, uid |-> u, id |-> NoMessage]

Init ==
    /\ mail = [b \in Mailbox |-> NoMail]
    /\ nextUid = [b \in Mailbox |-> 1]
    /\ selected = NoMailbox
    /\ chosen = NoMailbox
    /\ call = NoCall
    /\ step = "idle"
    /\ answer = Err
    /\ appended = 0

-----------------------------------------------------------------------------
(* The other sessions. *)

Deliver(b, m) ==
    /\ nextUid[b] <= MaxUid
    /\ mail' = [mail EXCEPT ![b][nextUid[b]] = m]
    /\ nextUid' = [nextUid EXCEPT ![b] = @ + 1]
    /\ UNCHANGED <<selected, chosen, call, step, answer, appended>>

Reflag(b, u, fs) ==
    /\ u \in Held(b, Uid)
    /\ mail' = [mail EXCEPT ![b][u].flags = fs]
    /\ UNCHANGED <<nextUid, selected, chosen, call, step, answer, appended>>

Expunge(b, u) ==
    /\ u \in Held(b, Uid)
    /\ mail' = [mail EXCEPT ![b][u] = NoMessage]
    /\ UNCHANGED <<nextUid, selected, chosen, call, step, answer, appended>>

-----------------------------------------------------------------------------
(* The caller and the coroutines. *)

\* A caller that turned auto_select off selects the mailbox of its batch.
Preselect(b) ==
    /\ step = "idle"
    /\ selected' = b
    /\ chosen' = b
    /\ UNCHANGED <<mail, nextUid, call, step, answer, appended>>

\* The state `new` builds: Selecting, or the command itself.
FirstStep(c) ==
    IF c.op = "append" THEN "append" ELSE IF AutoSelect THEN "select" ELSE "command"

Begin(c) ==
    /\ step = "idle"
    /\ AutoSelect \/ c \in Adds \/ c.box = chosen
    /\ call' = c
    /\ step' = FirstStep(c)
    /\ answer' = Err
    /\ UNCHANGED <<mail, nextUid, selected, chosen, appended>>

\* The call ends; it may end with an error although the command was carried
\* out, when the answer is lost.
Return(a) ==
    /\ step' = "idle"
    /\ answer' \in {a, Err}
    /\ call' = NoCall
    /\ appended' = 0

\* Mutant: the destination is selected.
SelectDestination ==
    /\ step \in {"select", "lookup"}
    /\ selected' = IF call.op = "move" THEN call.to ELSE call.box
    /\ step' = IF step = "select" THEN "command" ELSE "search"
    /\ UNCHANGED <<mail, nextUid, chosen, call, answer, appended>>

\* The SELECT that starts an operation, and the one that precedes the search
\* for an appended message.
Select ==
    /\ step \in {"select", "lookup"}
    /\ selected' = call.box
    /\ step' = IF step = "select" THEN "command" ELSE "search"
    /\ UNCHANGED <<mail, nextUid, chosen, call, answer, appended>>

\* UID FETCH BODY.PEEK[]: an answer without a body is an error.
Fetch ==
    /\ step = "command" /\ call.op = "get" /\ selected # NoMailbox
    /\ \E u \in Held(selected, call.uids) :
          Return([ok |-> TRUE, uid |-> u, id |-> mail[selected][u].id])
    /\ UNCHANGED <<mail, nextUid, selected, chosen>>

Applied(how, old, fs) ==
    CASE how = "add"    -> old \cup fs
      [] how = "set"    -> fs
      [] how = "remove" -> old \ fs

Reflagged(b, uids, how, fs) ==
    [mail EXCEPT ![b] =
        [u \in Uid |-> IF u \in Held(b, uids)
                         THEN [mail[b][u] EXCEPT !.flags = Applied(how, @, fs)]
                         ELSE mail[b][u]]]

\* Mutant: a store is followed by an EXPUNGE, as a deletion is.
StoreFlagsExpunges ==
    /\ step = "command" /\ call.op = "store" /\ selected # NoMailbox
    /\ mail' = Reflagged(selected, call.uids, call.how, call.flags)
    /\ step' = "expunge"
    /\ UNCHANGED <<nextUid, selected, chosen, call, answer, appended>>

\* UID STORE of store_flags.
StoreFlags ==
    /\ step = "command" /\ call.op = "store" /\ selected # NoMailbox
    /\ mail' = Reflagged(selected, call.uids, call.how, call.flags)
    /\ Return(Ok)
    /\ UNCHANGED <<nextUid, selected, chosen>>

\* UID STORE +FLAGS (\Deleted), the first command of a deletion.
MarkDeleted ==
    /\ step = "command" /\ call.op = "delete" /\ selected # NoMailbox
    /\ mail' = Reflagged(selected, call.uids, "add", {Deleted})
    /\ step' = "expunge"
    /\ UNCHANGED <<nextUid, selected, chosen, call, answer, appended>>

\* Mutant: the outcome of the command is not looked at.
ExpungeDeletedUnchecked ==
    /\ step = "expunge" /\ selected # NoMailbox
    /\ Return(Ok)
    /\ UNCHANGED <<mail, nextUid, selected, chosen>>

\* EXPUNGE removes every message marked \Deleted, whoever marked it.
ExpungeDeleted ==
    /\ step = "expunge" /\ selected # NoMailbox
    /\ mail' = [mail EXCEPT ![selected] = [u \in Uid |->
                   IF u \in Held(selected, Uid) /\ Deleted \in mail[selected][u].flags
                     THEN NoMessage ELSE mail[selected][u]]]
    /\ Return(Ok)
    /\ UNCHANGED <<nextUid, selected, chosen>>

\* The server gives the copies of `from` fresh UIDs, in the order of the old.
Placing(b, from) ==
    {f \in UNION {[nextUid[b]..n -> from] : n \in (nextUid[b] - 1)..MaxUid} :
        /\ \A i, j \in DOMAIN f : i < j => f[i] < f[j]
        /\ \A u \in from : \E i \in DOMAIN f : f[i] = u}

Placed(m, b, f) ==
    [m EXCEPT ![b] = [u \in Uid |->
        IF u \in DOMAIN f THEN mail[selected][f[u]] ELSE m[b][u]]]

Without(b, uids) ==
    [mail EXCEPT ![b] = [u \in Uid |-> IF u \in uids THEN NoMessage ELSE mail[b][u]]]

Given(b, f) ==
    [nextUid EXCEPT ![b] = CHOOSE n \in @..(MaxUid + 1) : DOMAIN f = @..(n - 1)]

\* UID COPY and UID MOVE are one command each: the server does all or nothing.
Copy ==
    /\ step = "command" /\ call.op = "copy" /\ selected # NoMailbox
    /\ \E f \in Placing(call.to, Held(selected, call.uids)) :
          /\ mail' = Placed(mail, call.to, f)
          /\ nextUid' = Given(call.to, f)
    /\ Return(Ok)
    /\ UNCHANGED <<selected, chosen>>

Move ==
    /\ step = "command" /\ call.op = "move" /\ selected # NoMailbox
    /\ \E f \in Placing(call.to, Held(selected, call.uids)) :
          /\ mail' = Placed(Without(selected, call.uids), call.to, f)
          /\ nextUid' = Given(call.to, f)
    /\ Return(Ok)
    /\ UNCHANGED <<selected, chosen>>

\* APPEND names its mailbox; a server with UIDPLUS tells the UID, and another
\* one leaves it to be looked up.
Append ==
    /\ step = "append"
    /\ nextUid[call.box] <= MaxUid
    /\ mail' = [mail EXCEPT ![call.box][nextUid[call.box]] =
                                [id |-> call.id, flags |-> call.flags]]
    /\ nextUid' = [nextUid EXCEPT ![call.box] = @ + 1]
    /\ \/ Return(Added(nextUid[call.box]))
       \/ /\ step' = "lookup"
          /\ appended' = nextUid[call.box]
          /\ UNCHANGED <<call, answer>>
    /\ UNCHANGED <<selected, chosen>>

Matches == {u \in Held(selected, Uid) : mail[selected][u].id = call.id}

\* Mutant: the first match is taken.
SearchTakesFirst ==
    /\ step = "search" /\ selected # NoMailbox
    /\ \E u \in Matches :
          /\ \A v \in Matches : u <= v
          /\ Return(Added(u))
    /\ UNCHANGED <<mail, nextUid, selected, chosen>>

\* UID SEARCH HEADER Message-ID: the highest match is the answer.
Search ==
    /\ step = "search" /\ selected # NoMailbox
    /\ \E u \in Matches :
          /\ \A v \in Matches : v <= u
          /\ Return(Added(u))
    /\ UNCHANGED <<mail, nextUid, selected, chosen>>

\* Any command may fail, and a SELECT that fails leaves no mailbox selected.
\* A fetch or a search without a match ends here too.
Fail ==
    /\ step # "idle"
    /\ Return(Err)
    /\ selected' = IF step \in {"select", "lookup"} THEN NoMailbox ELSE selected
    /\ UNCHANGED <<mail, nextUid, chosen>>

\* A new connection has no mailbox selected: a batch is to be started again.
Reconnect ==
    /\ step = "idle"
    /\ selected' = NoMailbox
    /\ chosen' = NoMailbox
    /\ UNCHANGED <<mail, nextUid, call, step, answer, appended>>

-----------------------------------------------------------------------------
Command ==
    \/ Select \/ Fetch \/ StoreFlags \/ MarkDeleted \/ ExpungeDeleted
    \/ Copy \/ Move \/ Append \/ Search \/ Fail

Others ==
    \E b \in Mailbox :
        \/ \E m \in Message : Deliver(b, m)
        \/ \E u \in Uid : Expunge(b, u) \/ \E fs \in SUBSET Flag : Reflag(b, u, fs)

Next ==
    \/ Others
    \/ \E b \in Mailbox : Preselect(b)
    \/ \E c \in Calls : Begin(c)
    \/ Command
    \/ Reconnect

Spec == Init /\ [][Next]_vars

-----------------------------------------------------------------------------
Steps == {"idle", "select", "command", "expunge", "append", "lookup", "search"}

\* The variables keep their shape, no message has a UID that was not given
\* out yet, only a deletion expunges and only add_message looks a UID up.
TypeOK ==
    /\ mail \in [Mailbox -> [Uid -> Message \cup {NoMessage}]]
    /\ nextUid \in [Mailbox -> 1..(MaxUid + 1)]
    /\ \A b \in Mailbox, u \in Uid : u >= nextUid[b] => mail[b][u] = NoMessage
    /\ selected \in Mailbox \cup {NoMailbox}
    /\ chosen \in Mailbox \cup {NoMailbox}
    /\ call \in (IF step = "idle" THEN {NoCall} ELSE Calls)
    /\ step \in Steps
    /\ answer \in [ok : BOOLEAN, uid : 0..MaxUid, id : MessageId \cup {NoMessage}]
    /\ appended \in 0..MaxUid
    /\ step = "expunge" => call.op = "delete"
    /\ step \in {"append", "lookup", "search"} => call.op = "append"
    /\ step \in {"lookup", "search"} <=> appended # 0

\* A command of this session (the steps of others leave `step` alone).
OwnStep == step' # step

\* A call changes nothing but the messages it names in the mailbox it names,
\* the messages marked \Deleted in the mailbox of a deletion, and adds to the
\* mailbox it adds to: no command runs in a mailbox an earlier call left
\* selected.
OnlyNamed ==
    OwnStep => \A b \in Mailbox, u \in Uid : mail'[b][u] # mail[b][u] =>
        \/ /\ call.op \in {"store", "delete", "move"}
           /\ b = call.box /\ u \in call.uids
        \/ /\ b = call.box /\ call.op = "delete"
           /\ Deleted \in mail[b][u].flags /\ mail'[b][u] = NoMessage
        \/ /\ u >= nextUid[b]
           /\ \/ call.op \in {"copy", "move"} /\ b = call.to
              \/ call.op = "append" /\ b = call.box

TouchesOnlyNamed == [][OnlyNamed]_vars

\* What an operation answers is about the message the caller named: get
\* returns a message of the named mailbox, and the UID add_message returns is
\* that of a message with the Message-ID it appended, never an older copy
\* while the new one is there.
AboutNamed ==
    OwnStep /\ step' = "idle" /\ answer'.ok =>
        /\ call.op = "get" =>
              /\ answer'.uid \in call.uids
              /\ mail[call.box][answer'.uid] # NoMessage
              /\ mail[call.box][answer'.uid].id = answer'.id
        /\ call.op = "append" =>
              /\ mail'[call.box][answer'.uid] # NoMessage
              /\ mail'[call.box][answer'.uid].id = call.id
              /\ \/ answer'.uid >= appended
                 \/ mail[call.box][appended] = NoMessage

AnswersAboutNamed == [][AboutNamed]_vars

\* A deletion that succeeds leaves the message only if another session took
\* \Deleted off it after the first command.
GoneOrUnmarked ==
    OwnStep /\ step = "expunge" /\ answer'.ok =>
        \A u \in call.uids :
            \/ mail'[call.box][u] = NoMessage
            \/ Deleted \notin mail[call.box][u].flags

DeletedIsGone == [][GoneOrUnmarked]_vars
=============================================================================
