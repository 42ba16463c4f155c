----------------------------- MODULE CopyStore -----------------------------
(***************************************************************************)
(* What a store promises the processes that share it when a message cannot *)
(* go from one mailbox to another in one step: it is found, a copy of it   *)
(* is put under an id that was never given before and without flags, and   *)
(* the original of a move is dropped; between any two of these the others  *)
(* act.  A message that is added gets its flags one step after it appears. *)
(* Of a flag change only what was asked is promised, not what becomes of   *)
(* the other flags.  A listing shows one moment.                           *)
(*                                                                         *)
(* There are no files here, no sidecars and no reading: the detailed store *)
(* is shown to implement this module.                                      *)
(***************************************************************************)
EXTENDS Sequences

CONSTANTS
    Client,    \* the processes
    Box,       \* the mailboxes
    Message,   \* contents of messages
    Flag,      \* flags
    Home,      \* the mailbox that holds the first messages
    First,     \* the contents of the first messages, by id
    Id         \* the ids

VARIABLES
    mail,      \* the messages of each mailbox: an id and flags
    content,   \* the contents of the messages, by the ids given out
    boxes,     \* the mailboxes that exist
    task       \* what each process has left to do, or the outcome

vars == <<mail, content, boxes, task>>

-----------------------------------------------------------------------------
(* What a process may ask; of a batch, `id` is next and `ids` are after it. *)

Given == DOMAIN content

Task ==
    [kind : {"move", "copy"}, step : {"get"}, from : boxes, to : boxes,
     id : Given, ids : Seq(Given)]
        \cup [kind : {"add"}, to : boxes, body : Message, flags : SUBSET Flag]
        \cup [kind : {"delete"}, from : boxes, id : Given]
        \cup [kind : {"flags"}, from : boxes, id : Given, ids : Seq(Given),
              flags : SUBSET Flag, how : {"add", "set", "remove"}]
        \cup [kind : {"list"}, from : boxes]

Idle == [kind |-> "none"]
Done == [kind |-> "done"]
Failed == [kind |-> "failed"]

Init ==
    /\ mail = [b \in Box |-> IF b = Home THEN [id : DOMAIN First, flags : {{}}] ELSE {}]
    /\ content = First
    /\ boxes = Box
    /\ task = [c \in Client |-> Idle]

Ask(c) ==
    /\ task[c] = Idle
    /\ task'[c] \in Task
    /\ task' = [task EXCEPT ![c] = task'[c]]
    /\ UNCHANGED <<mail, content, boxes>>

-----------------------------------------------------------------------------
(* Transfers. *)

\* The batch without its next id.
Rest(t) == IF t.ids = << >> THEN Done ELSE [t EXCEPT !.id = Head(t.ids), !.ids = Tail(t.ids)]

Find(c) ==
    LET t == task[c] IN
    /\ t.kind \in {"move", "copy"} /\ t.step = "get"
    /\ \E m \in mail[t.from] : m.id = t.id
    /\ task' = [task EXCEPT ![c].step = "store"]
    /\ UNCHANGED <<mail, content, boxes>>

\* Message i, never seen before, appears in mailbox b without flags.
Appears(b, i, body) ==
    /\ i \in Id \ Given
    /\ mail' = [mail EXCEPT ![b] = @ \cup {[id |-> i, flags |-> {}]}]
    /\ content' = [j \in Given \cup {i} |-> IF j = i THEN body ELSE content[j]]

Put(c) ==
    LET t == task[c] IN
    /\ t.kind \in {"move", "copy"} /\ t.step = "store"
    /\ \E i \in Id : Appears(t.to, i, content[t.id])
    /\ task' = [task EXCEPT ![c] = IF t.kind = "move" THEN [t EXCEPT !.step = "delete"]
                                   ELSE Rest([t EXCEPT !.step = "get"])]
    /\ UNCHANGED boxes

\* Mailbox b loses message i, if it has it still.
Goes(b, i) == mail' = [mail EXCEPT ![b] = {m \in @ : m.id # i}]

Drop(c) ==
    LET t == task[c] IN
    /\ t.kind = "move" /\ t.step = "delete"
    /\ Goes(t.from, t.id)
    /\ task' = [task EXCEPT ![c] = Rest([t EXCEPT !.step = "get"])]
    /\ UNCHANGED <<content, boxes>>

Delete(c) ==
    LET t == task[c] IN
    /\ t.kind = "delete"
    /\ Goes(t.from, t.id)
    /\ task' = [task EXCEPT ![c] = Done]
    /\ UNCHANGED <<content, boxes>>

-----------------------------------------------------------------------------
(* Additions and flags. *)

Add(c) ==
    LET t == task[c] IN
    /\ t.kind = "add"
    /\ \E i \in Id :
           /\ Appears(t.to, i, t.body)
           /\ task' = [task EXCEPT ![c] =
                  IF t.flags = {} THEN Done
                  ELSE [kind |-> "mark", to |-> t.to, id |-> i, flags |-> t.flags]]
    /\ UNCHANGED boxes

\* Message i of mailbox b has the flags fs, if it is there still.
Flagged(b, i, fs) ==
    mail' = [mail EXCEPT ![b] = {IF m.id = i THEN [m EXCEPT !.flags = fs] ELSE m : m \in @}]

Mark(c) ==
    LET t == task[c] IN
    /\ t.kind = "mark"
    /\ Flagged(t.to, t.id, t.flags)
    /\ task' = [task EXCEPT ![c] = Done]
    /\ UNCHANGED <<content, boxes>>

\* What is promised of the flags a change leaves.
AsAsked(t, fs) ==
    CASE t.how = "add" -> t.flags \subseteq fs
      [] t.how = "set" -> t.flags = fs
      [] t.how = "remove" -> t.flags \cap fs = {}

Reflag(c) ==
    LET t == task[c] IN
    /\ t.kind = "flags"
    /\ \E fs \in SUBSET Flag : AsAsked(t, fs) /\ Flagged(t.from, t.id, fs)
    /\ task' = [task EXCEPT ![c] = Rest(t)]
    /\ UNCHANGED <<content, boxes>>

-----------------------------------------------------------------------------
(* Listings, and the ends of tasks. *)

\* A listing is taken in one step, and told then or later.
List(c) ==
    /\ task[c].kind = "list"
    /\ \E kind \in {"shown", "listed"} :
           task' = [task EXCEPT ![c] =
               [kind |-> kind, ids |-> {m.id : m \in mail[task[c].from]}]]
    /\ UNCHANGED <<mail, content, boxes>>

Tell(c) ==
    /\ task[c].kind = "shown"
    /\ task' = [task EXCEPT ![c].kind = "listed"]
    /\ UNCHANGED <<mail, content, boxes>>

Fail(c) ==
    /\ task[c].kind \notin {"none", "done", "failed", "listed"}
    /\ task' = [task EXCEPT ![c] = Failed]
    /\ UNCHANGED <<mail, content, boxes>>

Return(c) ==
    /\ task[c].kind \in {"done", "failed", "listed"}
    /\ task' = [task EXCEPT ![c] = Idle]
    /\ UNCHANGED <<mail, content, boxes>>

Step(c) ==
    \/ Ask(c) \/ Return(c) \/ Fail(c)
    \/ Find(c) \/ Put(c) \/ Drop(c) \/ Delete(c)
    \/ Add(c) \/ Mark(c) \/ Reflag(c)
    \/ List(c) \/ Tell(c)

-----------------------------------------------------------------------------
(* The mailboxes. *)

CreateBox(b) ==
    /\ boxes' = boxes \cup {b}
    /\ UNCHANGED <<mail, content, task>>

DeleteBox(b) ==
    /\ mail' = [mail EXCEPT ![b] = {}]
    /\ boxes' = boxes \ {b}
    /\ UNCHANGED <<content, task>>

Next ==
    \/ \E c \in Client : Step(c)
    \/ \E b \in Box : CreateBox(b) \/ DeleteBox(b)

Spec == Init /\ [][Next]_vars
=============================================================================
