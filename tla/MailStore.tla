----------------------------- MODULE MailStore -----------------------------
(***************************************************************************)
(* What a store of messages promises the processes that share it: each     *)
(* message of a batch is moved, copied or flagged in one step, from what   *)
(* its flags are at that moment, and a message is added in one step.  A    *)
(* call goes through its batch in order; it may fail anywhere, and has     *)
(* then done what it had done so far.                                      *)
(*                                                                         *)
(* A listing is no such step.  A mailbox has two parts, and a listing that *)
(* succeeds shows each as it was at a moment of its own: together they may *)
(* be a mailbox that never was.                                            *)
(*                                                                         *)
(* There are no files here, no names and no looking up: the detailed store *)
(* is shown to implement this module.                                      *)
(***************************************************************************)
EXTENDS Sequences

CONSTANTS
    Client,    \* the processes
    Box,       \* the mailboxes
    Letter,    \* flags
    Trashed,   \* the flag of messages that may be expunged
    Home,      \* the mailbox that holds the first messages
    First,     \* the ids of the first messages
    Fresh,     \* those of them that are new
    Id         \* the ids

VARIABLES
    file,      \* the messages of each mailbox: an id, flags and the part it is in
    boxes,     \* the mailboxes that exist
    given,     \* the ids given out
    task       \* what each process has left to do, or the outcome

vars == <<file, boxes, given, task>>

\* The parts of a mailbox: messages new to it, and the others.
Sub == {"cur", "new"}

-----------------------------------------------------------------------------
(* What a process may ask; of a batch, `id` is next and `ids` are after it. *)

Task ==
    [kind : {"move", "copy"}, from : boxes, to : boxes, id : given, ids : Seq(given)]
        \cup [kind : {"flags"}, from : boxes, id : given, ids : Seq(given),
              flags : SUBSET Letter, how : {"add", "set", "remove"}]
        \cup [kind : {"add"}, to : boxes, flags : SUBSET Letter]
        \cup [kind : {"list"}, from : boxes, parts : {Sub}, messages : {{}}]

Idle == [kind |-> "none"]
Done == [kind |-> "done"]
Failed == [kind |-> "failed"]

Init ==
    /\ file = [b \in Box |->
           {[id |-> i, flags |-> {}, sub |-> IF i \in Fresh THEN "new" ELSE "cur"] :
               i \in IF b = Home THEN First ELSE {}}]
    /\ boxes = Box
    /\ given = First
    /\ task = [c \in Client |-> Idle]

Ask(c) ==
    /\ task[c] = Idle
    /\ task'[c] \in Task
    /\ task' = [task EXCEPT ![c] = task'[c]]
    /\ UNCHANGED <<file, boxes, given>>

\* The batch without its next id.
Rest(t) == IF t.ids = << >> THEN Done ELSE [t EXCEPT !.id = Head(t.ids), !.ids = Tail(t.ids)]

\* Message f of mailbox b becomes message g of mailbox d.
Becomes(b, f, d, g) ==
    file' = [e \in Box |->
        (file[e] \ IF e = b THEN {f} ELSE {}) \cup IF e = d THEN {g} ELSE {}]

Move(c) ==
    LET t == task[c] IN
    /\ t.kind = "move"
    /\ t.to \in boxes
    /\ \E f \in file[t.from] : f.id = t.id /\ Becomes(t.from, f, t.to, f)
    /\ task' = [task EXCEPT ![c] = Rest(t)]
    /\ UNCHANGED <<boxes, given>>

\* The flags a message gets, from those it has.
Changed(t, flags) ==
    CASE t.how = "add" -> flags \cup t.flags
      [] t.how = "set" -> t.flags
      [] t.how = "remove" -> flags \ t.flags

\* A message whose flags are changed may be new no longer.
Flag(c) ==
    LET t == task[c] IN
    /\ t.kind = "flags"
    /\ \E f \in file[t.from], sub \in Sub :
           /\ f.id = t.id
           /\ sub \in {f.sub, "cur"}
           /\ Becomes(t.from, f, t.from, [f EXCEPT !.flags = Changed(t, f.flags), !.sub = sub])
    /\ task' = [task EXCEPT ![c] = Rest(t)]
    /\ UNCHANGED <<boxes, given>>

\* A copy keeps its id or gets a new one.
Copy(c) ==
    LET t == task[c] IN
    /\ t.kind = "copy"
    /\ t.to \in boxes
    /\ \E f \in file[t.from], i \in {t.id} \cup (Id \ given) :
           /\ f.id = t.id
           /\ file' = [file EXCEPT ![t.to] = @ \cup {[f EXCEPT !.id = i]}]
           /\ given' = given \cup {i}
    /\ task' = [task EXCEPT ![c] = Rest(t)]
    /\ UNCHANGED boxes

\* A message is given its id before it is anywhere to be seen.
Draw(c) ==
    LET t == task[c] IN
    /\ t.kind = "add"
    /\ \E i \in Id \ given :
           /\ given' = given \cup {i}
           /\ task' = [task EXCEPT ![c] =
                  [kind |-> "adding", to |-> t.to, flags |-> t.flags, id |-> i]]
    /\ UNCHANGED <<file, boxes>>

Add(c) ==
    LET t == task[c] IN
    /\ t.kind = "adding"
    /\ t.to \in boxes
    /\ file' = [file EXCEPT ![t.to] = @ \cup {[id |-> t.id, flags |-> t.flags, sub |-> "cur"]}]
    /\ task' = [task EXCEPT ![c] = Done]
    /\ UNCHANGED <<boxes, given>>

Part(b, d) == {f \in file[b] : f.sub = d}

\* One part is read, and after the last the listing is told, then or later.
List(c) ==
    LET t == task[c] IN
    /\ t.kind = "list"
    /\ \E d \in t.parts :
           LET messages == t.messages \cup Part(t.from, d) IN
           IF t.parts = {d}
           THEN \E kind \in {"shown", "listed"} :
                    task' = [task EXCEPT ![c] = [kind |-> kind, messages |-> messages]]
           ELSE task' = [task EXCEPT ![c] =
                    [kind |-> "list", from |-> t.from, parts |-> t.parts \ {d},
                     messages |-> messages]]
    /\ UNCHANGED <<file, boxes, given>>

Tell(c) ==
    /\ task[c].kind = "shown"
    /\ task' = [task EXCEPT ![c].kind = "listed"]
    /\ UNCHANGED <<file, boxes, given>>

Fail(c) ==
    /\ task[c].kind \in {"move", "copy", "flags", "add", "adding", "list", "shown"}
    /\ task' = [task EXCEPT ![c] = Failed]
    /\ UNCHANGED <<file, boxes, given>>

Return(c) ==
    /\ task[c].kind \in {"done", "failed", "listed"}
    /\ task' = [task EXCEPT ![c] = Idle]
    /\ UNCHANGED <<file, boxes, given>>

Step(c) ==
    \/ Ask(c) \/ Return(c) \/ Fail(c)
    \/ Move(c) \/ Flag(c) \/ Copy(c) \/ Draw(c) \/ Add(c)
    \/ List(c) \/ Tell(c)

-----------------------------------------------------------------------------
(* The mailboxes, and the other programs that deliver, look and expunge. *)

Create(b) ==
    /\ boxes' = boxes \cup {b}
    /\ UNCHANGED <<file, given, task>>

Delete(b) ==
    /\ file' = [file EXCEPT ![b] = {}]
    /\ boxes' = boxes \ {b}
    /\ UNCHANGED <<given, task>>

Expunge(b) ==
    /\ \E f \in file[b] :
           /\ Trashed \in f.flags
           /\ file' = [file EXCEPT ![b] = @ \ {f}]
    /\ UNCHANGED <<boxes, given, task>>

\* A message is new no longer.
Settle(b) ==
    /\ \E f \in Part(b, "new") : Becomes(b, f, b, [f EXCEPT !.sub = "cur"])
    /\ UNCHANGED <<boxes, given, task>>

Deliver(b) ==
    /\ b \in boxes
    /\ \E i \in Id \ given :
           /\ file' = [file EXCEPT ![b] = @ \cup {[id |-> i, flags |-> {}, sub |-> "new"]}]
           /\ given' = given \cup {i}
    /\ UNCHANGED <<boxes, task>>

Next ==
    \/ \E c \in Client : Step(c)
    \/ \E b \in Box : Create(b) \/ Delete(b) \/ Expunge(b) \/ Settle(b) \/ Deliver(b)

Spec == Init /\ [][Next]_vars
=============================================================================
