---------------------------- MODULE MaildirStore ----------------------------
(***************************************************************************)
(* The Maildir backend: per mailbox the directories cur, new and tmp, per  *)
(* message a file of cur or new whose name is its id and its flags.  An    *)
(* operation on a message first reads the directories, one after the       *)
(* other, to find the file of that id, then renames, copies or reads it    *)
(* under the name it found; between any two of these steps another process *)
(* may have renamed it.  `MaildirClient::run` carries out the file         *)
(* operations, the first that fails ends the call.                         *)
(*                                                                         *)
(* The steps that look an entry up belong to the library io_maildir.       *)
(***************************************************************************)
EXTENDS Naturals, Sequences

CONSTANTS
    Client,      \* the processes that use the store
    Box,         \* the mailboxes
    Letter,      \* flags with a letter of their own
    Trashed,     \* the letter T
    Home,        \* the mailbox that holds the first messages
    First,       \* the ids of the first messages
    Fresh,       \* those of them that are in new
    Id,          \* the ids
    NoFile,      \* no file has been found
    MaxBatch,    \* bound on the ids of one call
    MaxFaults,   \* bound on the operations that are interrupted
    MaxCalls     \* bound on the calls

ASSUME StoreAssumption ==
    /\ {MaxBatch, MaxFaults, MaxCalls} \subseteq Nat
    /\ Home \in Box
    /\ First \subseteq Id
    /\ Trashed \in Letter
    /\ NoFile \notin [id : Id, flags : SUBSET Letter, sub : {"cur", "new"}]

VARIABLES
    file,      \* the files in cur and new of each mailbox
    tmp,       \* the ids written to tmp of each mailbox and not renamed from there
    boxes,     \* the mailboxes that exist
    given,     \* the ids given out
    original,  \* the id of the message each id holds a copy of
    op,        \* the call each process is in
    steady,    \* what has stayed in place since a process' listing began
    kept,      \* the messages stored and neither expunged nor in a deleted mailbox
    faults,    \* how many operations were interrupted
    calls      \* how many calls were made

store == <<file, tmp, boxes, given, original, kept>>
vars == <<file, tmp, boxes, given, original, kept, op, steady, faults, calls>>

Sub == {"cur", "new"}

File == [id : Id, flags : SUBSET Letter, sub : Sub]

Batch == UNION {[1..n -> Id] : n \in 1..MaxBatch}

Idle == [kind |-> "none", stage |-> "ok"]
Done == [kind |-> "over", stage |-> "ok"]
Failed == [kind |-> "over", stage |-> "err"]

\* The ids callers can know: a file that is only in tmp is known to nobody.
Told == given \ UNION {tmp[b] : b \in Box}

Messages(b) == {original[f.id] : f \in file[b]}
Stored == UNION {Messages(b) : b \in Box}

Init ==
    /\ file = [b \in Box |->
           {[id |-> i, flags |-> {}, sub |-> IF i \in Fresh THEN "new" ELSE "cur"] :
               i \in IF b = Home THEN First ELSE {}}]
    /\ tmp = [b \in Box |-> {}]
    /\ boxes = Box
    /\ given = First
    /\ original = [i \in Id |-> i]
    /\ kept = First
    /\ op = [c \in Client |-> Idle]
    /\ steady = [c \in Client |-> {}]
    /\ faults = 0
    /\ calls = 0

-----------------------------------------------------------------------------
(* The calls.  `ids` are those not begun yet, `id` the one at hand, `seek`  *)
(* the directories not read yet, `found` the file they showed for it.       *)

Begin(c, o) ==
    /\ op' = [op EXCEPT ![c] = o]
    /\ calls' = calls + 1
    /\ UNCHANGED <<store, faults>>

LookUp(o, ids) ==
    [o EXCEPT !.id = Head(ids), !.ids = Tail(ids), !.seek = Sub, !.found = NoFile, !.stage = "find"]

\* Mutant: the last id of a batch is left undone.
TurnEarly(o) == IF Len(o.ids) <= 1 THEN Done ELSE LookUp(o, o.ids)

\* The next id of the batch is looked up; there is none: the call is done.
Turn(o) == IF o.ids = << >> THEN Done ELSE LookUp(o, o.ids)

Transfer(kind, from, to, ids) ==
    [kind |-> kind, from |-> from, to |-> to, ids |-> Tail(ids), id |-> Head(ids),
     seek |-> Sub, found |-> NoFile, stage |-> "find"]

BeginMove(c, from, to, ids) == Begin(c, Transfer("move", from, to, ids))

\* To another mailbox: within one, io_maildir decides what a copy is.
BeginCopy(c, from, to, ids) == from # to /\ Begin(c, Transfer("copy", from, to, ids))

\* flags_to_maildir: flags without a letter go to a file of keywords that no
\* listing reads; here are those with one.
BeginFlags(c, from, ids, fs, how) ==
    Begin(c, [kind |-> "flags", from |-> from, ids |-> Tail(ids), id |-> Head(ids),
              flags |-> fs, how |-> how, seek |-> Sub, found |-> NoFile, stage |-> "find"])

\* Deleting a message is flagging it as trashed.
BeginDelete(c, from, i) == BeginFlags(c, from, <<i>>, {Trashed}, "add")

BeginAdd(c, to, fs) ==
    Begin(c, [kind |-> "add", to |-> to, flags |-> fs, stage |-> "store"])

BeginList(c, from) ==
    Begin(c, [kind |-> "list", from |-> from, seek |-> Sub, stage |-> "names",
              names |-> {}, shown |-> {}])

-----------------------------------------------------------------------------
(* The file operations. *)

\* WantsDirRead, one directory at a time: the one read next has a file of the
\* id at hand, or it has none; if none has, it is an error.
Find(c) ==
    LET o == op[c] IN
    /\ o.stage = "find"
    /\ \E d \in o.seek :
           \/ \E f \in file[o.from] :
                  /\ f.id = o.id /\ f.sub = d
                  /\ op' = [op EXCEPT ![c].found = f, ![c].seek = {}, ![c].stage = "rename"]
           \/ /\ \A f \in file[o.from] : ~(f.id = o.id /\ f.sub = d)
              /\ op' = [op EXCEPT ![c] =
                     IF o.seek = {d} THEN Failed ELSE [o EXCEPT !.seek = @ \ {d}]]
    /\ UNCHANGED <<store, faults, calls>>

\* FlagOp: the letters the file gets.
Letters(o) ==
    CASE o.how = "add" -> o.found.flags \cup o.flags
      [] o.how = "set" -> o.flags
      [] o.how = "remove" -> o.found.flags \ o.flags

Place(o) == IF o.kind = "flags" THEN o.from ELSE o.to

\* What the file may be renamed to: a move keeps the name and the directory
\* (cur or new), a change of flags may take a file of new to cur.
Renamings(o) ==
    IF o.kind = "flags"
    THEN {[o.found EXCEPT !.flags = Letters(o), !.sub = d] : d \in {o.found.sub, "cur"}}
    ELSE {o.found}

\* Mutant: the file of that id is renamed, whatever its flags are by now.
RenameById(c) ==
    LET o == op[c] IN
    /\ o.stage = "rename"
    /\ o.kind # "copy"
    /\ IF (\E f \in file[o.from] : f.id = o.id) /\ Place(o) \in boxes
       THEN /\ \E g \in Renamings(o) :
                   file' = [file EXCEPT ![o.from] = {f \in @ : f.id # o.id},
                                        ![Place(o)] = {f \in @ : f.id # o.id} \cup {g}]
            /\ op' = [op EXCEPT ![c] = Turn(o)]
       ELSE /\ op' = [op EXCEPT ![c] = Failed]
            /\ UNCHANGED file
    /\ UNCHANGED <<tmp, boxes, given, original, kept, faults, calls>>

\* Mutant: a move unlinks the source before the target's directory is opened.
RenameUnlinks(c) ==
    LET o == op[c] IN
    /\ o.stage = "rename"
    /\ o.kind # "copy"
    /\ IF o.found \in file[o.from]
       THEN /\ \E g \in Renamings(o) : file' = [b \in Box |->
                   (file[b] \ IF b = o.from THEN {o.found} ELSE {})
                       \cup IF b = Place(o) /\ b \in boxes THEN {g} ELSE {}]
            /\ op' = [op EXCEPT ![c] = Turn(o)]
       ELSE /\ op' = [op EXCEPT ![c] = Failed]
            /\ UNCHANGED file
    /\ UNCHANGED <<tmp, boxes, given, original, kept, faults, calls>>

\* WantsRename: the file is renamed if it still has the name that was found
\* and the directory it goes to is there.
Rename(c) ==
    LET o == op[c] IN
    /\ o.stage = "rename"
    /\ o.kind # "copy"
    /\ IF o.found \in file[o.from] /\ Place(o) \in boxes
       THEN /\ \E g \in Renamings(o) : file' = [b \in Box |->
                   (file[b] \ IF b = o.from THEN {o.found} ELSE {})
                       \cup IF b = Place(o) THEN {g} ELSE {}]
            /\ op' = [op EXCEPT ![c] = Turn(o)]
       ELSE /\ op' = [op EXCEPT ![c] = Failed]
            /\ UNCHANGED file
    /\ UNCHANGED <<tmp, boxes, given, original, kept, faults, calls>>

\* WantsCopy: into the same directory, cur or new, of the target; io_maildir
\* decides whether the copy keeps its id.
Copy(c) ==
    LET o == op[c] IN
    /\ o.stage = "rename"
    /\ o.kind = "copy"
    /\ IF o.found \in file[o.from] /\ o.to \in boxes
       THEN \E i \in {o.id} \cup (Id \ given) :
                /\ file' = [file EXCEPT ![o.to] = @ \cup {[o.found EXCEPT !.id = i]}]
                /\ given' = given \cup {i}
                /\ original' = [original EXCEPT ![i] = original[o.id]]
                /\ kept' = kept \cup {original[o.id]}
                /\ op' = [op EXCEPT ![c] = Turn(o)]
       ELSE /\ op' = [op EXCEPT ![c] = Failed]
            /\ UNCHANGED <<file, given, original, kept>>
    /\ UNCHANGED <<tmp, boxes, faults, calls>>

\* Mutant: the id of the new file may be given out again.
WriteForgets(c) ==
    LET o == op[c] IN
    /\ o.stage = "store"
    /\ \E i \in Id \ given :
           /\ tmp' = [tmp EXCEPT ![o.to] = @ \cup {i}]
           /\ op' = [op EXCEPT ![c] = [kind |-> "add", to |-> o.to, flags |-> o.flags,
                                       id |-> i, stage |-> "link"]]
    /\ UNCHANGED <<file, boxes, given, original, kept, faults, calls>>

\* WantsFileCreate: the message is written to tmp, the directory made if it is
\* missing; of a mailbox that was deleted nothing else is made.
Write(c) ==
    LET o == op[c] IN
    /\ o.stage = "store"
    /\ \E i \in Id \ given :
           /\ tmp' = [tmp EXCEPT ![o.to] = @ \cup {i}]
           /\ given' = given \cup {i}
           /\ op' = [op EXCEPT ![c] = [kind |-> "add", to |-> o.to, flags |-> o.flags,
                                       id |-> i, stage |-> "link"]]
    /\ UNCHANGED <<file, boxes, original, kept, faults, calls>>

\* WantsRename, from tmp to cur: both must be there.
Link(c) ==
    LET o == op[c] IN
    /\ o.stage = "link"
    /\ IF o.id \in tmp[o.to] /\ o.to \in boxes
       THEN /\ file' = [file EXCEPT ![o.to] =
                   @ \cup {[id |-> o.id, flags |-> o.flags, sub |-> "cur"]}]
            /\ tmp' = [tmp EXCEPT ![o.to] = @ \ {o.id}]
            /\ kept' = kept \cup {o.id}
            /\ op' = [op EXCEPT ![c] = Done]
       ELSE /\ op' = [op EXCEPT ![c] = Failed]
            /\ UNCHANGED <<file, tmp, kept>>
    /\ UNCHANGED <<boxes, given, original, faults, calls>>

\* State::Listing: WantsDirRead reads one directory after the other, and a
\* missing one has no entries.  A listing without entries is done.
Names(c) ==
    LET o == op[c] IN
    /\ o.stage = "names"
    /\ \E d \in o.seek :
           LET names == o.names \cup {f \in file[o.from] : f.sub = d} IN
           op' = [op EXCEPT
               ![c].names = names,
               ![c].seek = @ \ {d},
               ![c].stage = IF o.seek # {d} THEN "names" ELSE IF names = {} THEN "ok" ELSE "read"]
    /\ UNCHANGED <<store, faults, calls>>

\* Mutant: the listing ends with the first file read.
ReadOnce(c) ==
    LET o == op[c] IN
    /\ o.stage = "read"
    /\ \E f \in o.names :
           IF f \in file[o.from]
           THEN op' = [op EXCEPT ![c].shown = {f}, ![c].stage = "ok"]
           ELSE op' = [op EXCEPT ![c] = Failed]
    /\ UNCHANGED <<store, faults, calls>>

\* State::Reading: WantsFileRead reads one file after the other; a file that is
\* gone, or renamed, ends the listing.
Read(c) ==
    LET o == op[c] IN
    /\ o.stage = "read"
    /\ \E f \in o.names \ o.shown :
           LET shown == o.shown \cup {f} IN
           IF f \in file[o.from]
           THEN op' = [op EXCEPT ![c].shown = shown,
                                 ![c].stage = IF shown = o.names THEN "ok" ELSE "read"]
           ELSE op' = [op EXCEPT ![c] = Failed]
    /\ UNCHANGED <<store, faults, calls>>

-----------------------------------------------------------------------------
(* Mailboxes, and what this client leaves to other programs. *)

CreateBox(b) ==
    /\ calls < MaxCalls
    /\ b \notin boxes
    /\ boxes' = boxes \cup {b}
    /\ calls' = calls + 1
    /\ UNCHANGED <<file, tmp, given, original, kept, op, faults>>

DeleteBox(b) ==
    /\ calls < MaxCalls
    /\ b \in boxes
    /\ file' = [file EXCEPT ![b] = {}]
    /\ tmp' = [tmp EXCEPT ![b] = {}]
    /\ kept' = kept \ Messages(b)
    /\ boxes' = boxes \ {b}
    /\ calls' = calls + 1
    /\ UNCHANGED <<given, original, op, faults>>

Expunge(b, f) ==
    /\ calls < MaxCalls
    /\ f \in file[b]
    /\ Trashed \in f.flags
    /\ file' = [file EXCEPT ![b] = @ \ {f}]
    /\ kept' = kept \ {original[f.id]}
    /\ calls' = calls + 1
    /\ UNCHANGED <<tmp, boxes, given, original, op, faults>>

\* A mail reader takes a message it has seen from new to cur.
Settled(f) == [f EXCEPT !.sub = "cur"]

Settle(b, f) ==
    /\ calls < MaxCalls
    /\ f \in file[b]
    /\ f.sub = "new"
    /\ file' = [file EXCEPT ![b] = (@ \ {f}) \cup {Settled(f)}]
    /\ calls' = calls + 1
    /\ UNCHANGED <<tmp, boxes, given, original, kept, op, faults>>

\* A message comes in.
Deliver(b) ==
    /\ calls < MaxCalls
    /\ b \in boxes
    /\ \E i \in Id \ given :
           /\ file' = [file EXCEPT ![b] = @ \cup {[id |-> i, flags |-> {}, sub |-> "new"]}]
           /\ given' = given \cup {i}
           /\ kept' = kept \cup {i}
    /\ calls' = calls + 1
    /\ UNCHANGED <<tmp, boxes, original, op, faults>>

-----------------------------------------------------------------------------

\* A file operation fails, which ends the call, or the process ends.
Interrupt(c) ==
    /\ op[c].stage \notin {"ok", "err"}
    /\ faults < MaxFaults
    /\ op' = [op EXCEPT ![c] = Failed]
    /\ faults' = faults + 1
    /\ UNCHANGED <<store, calls>>

\* The caller has its answer.
Return(c) ==
    /\ op[c] # Idle
    /\ op[c].stage \in {"ok", "err"}
    /\ op' = [op EXCEPT ![c] = Idle]
    /\ UNCHANGED <<store, faults, calls>>

\* The caller names mailboxes and ids it was told of.
Calls(c) ==
    /\ op[c].kind = "none"
    /\ calls < MaxCalls
    /\ \/ \E from, to \in boxes, ids \in Batch :
              /\ \A k \in DOMAIN ids : ids[k] \in Told
              /\ \/ BeginMove(c, from, to, ids)
                 \/ BeginCopy(c, from, to, ids)
       \/ \E from \in boxes, ids \in Batch, fs \in SUBSET Letter, how \in {"add", "set", "remove"} :
              /\ \A k \in DOMAIN ids : ids[k] \in Told
              /\ BeginFlags(c, from, ids, fs, how)
       \/ \E from \in boxes, i \in Told : BeginDelete(c, from, i)
       \/ \E to \in boxes, fs \in SUBSET Letter : BeginAdd(c, to, fs)
       \/ \E from \in boxes : BeginList(c, from)

Step(c) == Find(c) \/ Rename(c) \/ Copy(c) \/ Write(c) \/ Link(c) \/ Names(c) \/ Read(c)

Moves ==
    \/ \E c \in Client : Calls(c) \/ Step(c) \/ Interrupt(c) \/ Return(c)
    \/ \E b \in Box :
           \/ CreateBox(b) \/ DeleteBox(b) \/ Deliver(b)
           \/ \E f \in file[b] : Expunge(b, f) \/ Settle(b, f)

\* History: the files that have been in the listed mailbox, under one name and
\* in one directory, ever since the listing began.
Steady(c) ==
    LET o == op'[c] IN
    IF o.kind # "list" THEN {}
    ELSE file'[o.from] \cap IF op[c].kind = "list" THEN steady[c] ELSE file[o.from]

Next == Moves /\ steady' = [c \in Client |-> Steady(c)]

Spec == Init /\ [][Next]_vars

-----------------------------------------------------------------------------
(* Properties. *)

CallOK(o) ==
    /\ o.kind \in {"move", "copy", "flags", "add", "list", "over"}
    /\ o.stage \in {"find", "rename", "store", "link", "names", "read", "ok", "err"}
    /\ o.stage \in {"find", "rename"} =>
          o.from \in Box /\ o.id \in given /\ o.ids \in Seq(given) /\ o.seek \subseteq Sub
    /\ o.stage = "rename" => o.found \in File /\ o.found.id = o.id
    /\ o.stage = "store" => o.to \in Box /\ o.flags \subseteq Letter
    /\ o.stage = "link" => o.to \in Box /\ o.flags \subseteq Letter /\ o.id \in given
    /\ o.kind = "list" => o.seek \subseteq Sub /\ o.shown \subseteq o.names

\* Type invariant.
TypeOK ==
    /\ file \in [Box -> SUBSET File]
    /\ boxes \subseteq Box
    /\ given \subseteq Id
    /\ tmp \in [Box -> SUBSET given]
    /\ \A b \in Box : \A f \in file[b] : f.id \in given
    /\ original \in [Id -> Id]
    /\ kept \subseteq Id
    /\ DOMAIN op = Client
    /\ \A c \in Client : op[c] = Idle \/ CallOK(op[c])
    /\ steady \in [Client -> SUBSET File]
    /\ faults \in 0..MaxFaults
    /\ calls \in 0..MaxCalls

\* No message is lost: one that was stored, and that no expunge or deletion
\* of its mailbox took, is in some mailbox; a call that is interrupted, or
\* whose target is deleted under it, leaves its message where it was.
NoLoss == kept \subseteq Stored

\* A file leaves a mailbox only under the name a call found it by, so no flag
\* another process has set since is undone: a move takes the flags along, and
\* a flag goes only if a call in progress removes or sets flags.  Others take a
\* file from new to cur with the flags it has.
NothingUndone ==
    [][\A b \in Box : \A f \in file[b] \ file'[b] :
           \/ b \notin boxes'
           \/ Trashed \in f.flags /\ calls' # calls
           \/ f.sub = "new" /\ Settled(f) \in file'[b]
           \/ \E c \in Client :
                  /\ op[c].stage = "rename" /\ op[c].found = f /\ op[c].from = b
                  /\ \/ op[c].kind = "move" /\ f \in file'[op[c].to]
                     \/ /\ op[c].kind = "flags"
                        /\ \E g \in file'[b] :
                               /\ g.id = f.id
                               /\ op[c].how = "add" => f.flags \subseteq g.flags
                               /\ op[c].how = "remove" => f.flags \ g.flags \subseteq op[c].flags]_vars

\* A listing that succeeds shows every message that stayed where it was, under
\* the same flags, from its beginning to its end, whatever happened to others.
\* It need not show one that went from new to cur, or came from another mailbox,
\* meanwhile, and what it shows need not be the mailbox of any moment.
ListShowsSteady ==
    \A c \in Client :
        op[c].kind = "list" /\ op[c].stage = "ok" => steady[c] \subseteq op[c].shown

-----------------------------------------------------------------------------
(* The store as its callers see it: no call has looked anything up yet.    *)

\* What a call has left to do, whether or not it has found a file for it.
Ahead(o) ==
    CASE o.kind \in {"move", "copy"} ->
           [kind |-> o.kind, from |-> o.from, to |-> o.to, id |-> o.id, ids |-> o.ids]
      [] o.kind = "flags" ->
           [kind |-> o.kind, from |-> o.from, id |-> o.id, ids |-> o.ids,
            flags |-> o.flags, how |-> o.how]
      [] o.kind = "add" -> [kind |-> o.kind, to |-> o.to, flags |-> o.flags]
      [] o.kind = "list" ->
           [kind |-> o.kind, from |-> o.from, parts |-> o.seek, messages |-> o.names]

\* How a call has ended well.
Outcome(o) ==
    CASE o.kind = "none" -> [kind |-> "none"]
      [] o.kind = "list" -> [kind |-> "listed", messages |-> o.shown]
      [] OTHER -> [kind |-> "done"]

\* Directories read and files not: the listing is taken, and not told yet.
TaskOf(o) ==
    CASE o.stage \in {"find", "rename", "store", "names"} -> Ahead(o)
      [] o.stage = "link" -> [kind |-> "adding", to |-> o.to, flags |-> o.flags, id |-> o.id]
      [] o.stage = "read" -> [kind |-> "shown", messages |-> o.names]
      [] o.stage = "ok" -> Outcome(o)
      [] o.stage = "err" -> [kind |-> "failed"]

Tasks == [c \in Client |-> TaskOf(op[c])]

Atomic == INSTANCE MailStore WITH task <- Tasks

\* The steps of an operation on a message look like one to everyone: finding
\* its file and then renaming or copying it under the name found is as good as
\* moving, flagging or copying it at one moment, and writing a file to tmp and
\* renaming it as adding it at one.  A listing that succeeds shows what each of
\* cur and new held at a moment, and not the same one.
ImplementsStore == Atomic!Spec
=============================================================================
