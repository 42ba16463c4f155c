----------------------------- MODULE M2dirStore -----------------------------
(***************************************************************************)
(* The m2dir backend: a directory per mailbox, a file per message named by *)
(* an id that is never given twice, and a sidecar file per message for its *)
(* flags.  Every operation is a coroutine that asks `M2dirClient::run` for *)
(* one file operation at a time; between two of them other processes act   *)
(* on the same directories, and any of them may fail or be the last one    *)
(* before the process ends.                                                *)
(*                                                                         *)
(* The file operations that find, store and remove one entry belong to the *)
(* library io_m2dir; each is one step here.                                *)
(***************************************************************************)
EXTENDS Naturals, Sequences

CONSTANTS
    Client,      \* the processes that use the store
    Box,         \* the mailboxes
    Message,     \* contents of messages
    Flag,        \* flags
    Home,        \* the mailbox that holds the first messages
    First,       \* the first messages
    MaxId,       \* bound on the ids given out
    MaxBatch,    \* bound on the ids of one call
    MaxFaults,   \* bound on the operations that are interrupted
    MaxCalls     \* bound on the calls

ASSUME StoreAssumption ==
    /\ {MaxId, MaxBatch, MaxFaults, MaxCalls} \subseteq Nat
    /\ Home \in Box
    /\ First \in Seq(Message)
    /\ Len(First) <= MaxId

VARIABLES
    entry,     \* the ids of each mailbox: its files
    content,   \* the message of each id: the id holds its checksum
    meta,      \* the flags of each mailbox's sidecars
    marked,    \* the mailboxes that have the marker .m2dir
    nextId,    \* the next id
    op,        \* the call each process is in
    kept,      \* the messages stored and not deleted by a call that says so
    faults,    \* how many operations were interrupted
    calls      \* how many calls were made

store == <<entry, content, meta, marked, nextId, kept>>
vars == <<entry, content, meta, marked, nextId, kept, op, faults, calls>>

Id == 1..MaxId

Batch == UNION {[1..n -> Id] : n \in 1..MaxBatch}

(***************************************************************************)
(* A call: `ids` are those not begun yet (`pending`), `id` the one at hand *)
(* (`current_id`), `body` its bytes, `stage` the next file operation.      *)
(* `batch` is the argument, `made` the ids the call has stored, `seen` the *)
(* names or flags it has read and `found` the envelopes read so far.       *)
(***************************************************************************)
Idle == [kind |-> "none", stage |-> "ok"]

Contents(b) == {content[i] : i \in entry[b]}
Stored == UNION {Contents(b) : b \in Box}

Init ==
    /\ entry = [b \in Box |-> IF b = Home THEN 1..Len(First) ELSE {}]
    /\ content = First
    /\ meta = [b \in Box |-> [i \in Id |-> {}]]
    /\ marked = Box
    /\ nextId = Len(First) + 1
    /\ kept = {First[i] : i \in 1..Len(First)}
    /\ op = [c \in Client |-> Idle]
    /\ faults = 0
    /\ calls = 0

-----------------------------------------------------------------------------
(* The calls. *)

\* M2dirClient::run begins a coroutine: its first file operation is next.
Begin(c, o) ==
    /\ op' = [op EXCEPT ![c] = o]
    /\ calls' = calls + 1
    /\ UNCHANGED <<store, faults>>

\* The first of the pending ids is taken up; there is none: the call is done.
Turn(o, stage) ==
    IF o.ids = << >>
    THEN [o EXCEPT !.stage = "ok"]
    ELSE [o EXCEPT !.id = Head(o.ids), !.ids = Tail(o.ids), !.stage = stage]

Transfer(kind, from, to, ids) ==
    [kind |-> kind, from |-> from, to |-> to, batch |-> ids, ids |-> Tail(ids),
     id |-> Head(ids), stage |-> "get", made |-> << >>]

BeginMove(c, from, to, ids) == Begin(c, Transfer("move", from, to, ids))
BeginCopy(c, from, to, ids) == Begin(c, Transfer("copy", from, to, ids))

BeginAdd(c, to, m, fs) ==
    Begin(c, [kind |-> "add", to |-> to, body |-> m, flags |-> fs,
              stage |-> "store", made |-> << >>])

BeginDelete(c, from, i) ==
    Begin(c, [kind |-> "delete", from |-> from, id |-> i, stage |-> "delete"])

\* Stage::start: FlagSet writes the sidecar, the others read it first.
BeginFlags(c, from, ids, fs, how) ==
    Begin(c, [kind |-> "flags", from |-> from, ids |-> Tail(ids), id |-> Head(ids),
              flags |-> fs, line |-> fs, how |-> how,
              stage |-> IF how = "set" THEN "write" ELSE "look"])

\* A listing, or a search for the messages of `wanted`.
BeginList(c, from, wanted) ==
    Begin(c, [kind |-> "list", from |-> from, wanted |-> wanted, stage |-> "names",
              names |-> {}, todo |-> {}, found |-> {}])

-----------------------------------------------------------------------------
(* The file operations. *)

\* Mutant: the message that moves is removed before it is stored.
GetRemoves(c) ==
    LET o == op[c] IN
    /\ o.stage = "get"
    /\ IF o.id \in entry[o.from]
       THEN /\ op' = [op EXCEPT ![c].stage = "store"]
            /\ entry' = IF o.kind = "move" THEN [entry EXCEPT ![o.from] = @ \ {o.id}] ELSE entry
       ELSE /\ op' = [op EXCEPT ![c].stage = "err"]
            /\ UNCHANGED entry
    /\ UNCHANGED <<content, meta, marked, nextId, kept, faults, calls>>

\* Mutant: an id that is not found is passed over.
GetSkips(c) ==
    LET o == op[c] IN
    /\ o.stage = "get"
    /\ op' = [op EXCEPT ![c] =
           IF o.id \in entry[o.from] THEN [o EXCEPT !.stage = "store"] ELSE Turn(o, "get")]
    /\ UNCHANGED <<store, faults, calls>>

\* Stage::Getting: the entry is found and its checksum holds, or the call ends.
Get(c) ==
    LET o == op[c] IN
    /\ o.stage = "get"
    /\ op' = [op EXCEPT ![c].stage = IF o.id \in entry[o.from] THEN "store" ELSE "err"]
    /\ UNCHANGED <<store, faults, calls>>

\* The bytes a call stores: those it got, or those it was given.
Body(o) == IF o.kind = "add" THEN o.body ELSE content[o.id]

\* What follows Storing: the source is deleted, the flags are set, or the
\* next id is taken up.
AfterStore(o) ==
    CASE o.kind = "move" -> [o EXCEPT !.stage = "delete", !.made = Append(@, nextId)]
      [] o.kind = "copy" -> Turn([o EXCEPT !.made = Append(@, nextId)], "get")
      [] o.kind = "add" ->
             [o EXCEPT !.stage = IF o.flags = {} THEN "ok" ELSE "set",
                       !.made = <<nextId>>]

\* Mutant: the id is used again.
StoreReusesId(c) ==
    LET o == op[c] IN
    /\ o.stage = "store"
    /\ nextId <= MaxId
    /\ entry' = [entry EXCEPT ![o.to] = @ \cup {nextId}]
    /\ content' = [i \in DOMAIN content \cup {nextId} |-> IF i = nextId THEN Body(o) ELSE content[i]]
    /\ kept' = kept \cup {Body(o)}
    /\ op' = [op EXCEPT ![c] = AfterStore(o)]
    /\ UNCHANGED <<meta, marked, faults, calls, nextId>>

\* Stage::Storing: a new id, without flags.  `write_files` makes the
\* directories that are missing.
Store(c) ==
    LET o == op[c] IN
    /\ o.stage = "store"
    /\ nextId <= MaxId
    /\ entry' = [entry EXCEPT ![o.to] = @ \cup {nextId}]
    /\ content' = Append(content, Body(o))
    /\ kept' = kept \cup {Body(o)}
    /\ nextId' = nextId + 1
    /\ op' = [op EXCEPT ![c] = AfterStore(o)]
    /\ UNCHANGED <<meta, marked, faults, calls>>

\* Mutant: the flags go to the message stored last.
SetFlagsLast(c) ==
    LET o == op[c] IN
    /\ o.stage = "set"
    /\ meta' = [meta EXCEPT ![o.to][nextId - 1] = o.flags]
    /\ op' = [op EXCEPT ![c].stage = "ok"]
    /\ UNCHANGED <<entry, content, marked, nextId, kept, faults, calls>>

\* State::SettingFlags of add.
SetFlags(c) ==
    LET o == op[c] IN
    /\ o.stage = "set"
    /\ meta' = [meta EXCEPT ![o.to][o.made[1]] = o.flags]
    /\ op' = [op EXCEPT ![c].stage = "ok"]
    /\ UNCHANGED <<entry, content, marked, nextId, kept, faults, calls>>

\* Mutant: the target loses the id, too.
RemoveEverywhere(c) ==
    LET o == op[c] IN
    /\ o.stage = "delete"
    /\ entry' = [b \in Box |-> entry[b] \ {o.id}]
    /\ meta' = [b \in Box |-> [meta[b] EXCEPT ![o.id] = {}]]
    /\ kept' = IF o.kind = "delete" THEN kept \ {content[o.id]} ELSE kept
    /\ op' = [op EXCEPT ![c] = IF o.kind = "delete" THEN [o EXCEPT !.stage = "ok"] ELSE Turn(o, "get")]
    /\ UNCHANGED <<content, marked, nextId, faults, calls>>

\* Stage::Deleting: the entry and its sidecars go.  When another process took
\* the entry away, io_m2dir decides whether that is an error.
Remove(c) ==
    LET o == op[c] IN
    /\ o.stage = "delete"
    /\ entry' = [entry EXCEPT ![o.from] = @ \ {o.id}]
    /\ meta' = [meta EXCEPT ![o.from][o.id] = {}]
    /\ kept' = IF o.kind = "delete" /\ o.id \in entry[o.from]
               THEN kept \ {content[o.id]} ELSE kept
    /\ LET done == IF o.kind = "delete" THEN [o EXCEPT !.stage = "ok"] ELSE Turn(o, "get")
       IN  \/ op' = [op EXCEPT ![c] = done]
           \/ /\ o.id \notin entry[o.from]
              /\ op' = [op EXCEPT ![c].stage = "err"]
    /\ UNCHANGED <<content, marked, nextId, faults, calls>>

\* FlagAdd and FlagRemove read the sidecar; one that is missing is empty.
Look(c) ==
    LET o == op[c]
        had == meta[o.from][o.id]
        new == IF o.how = "add" THEN had \cup o.flags ELSE had \ o.flags
    IN  /\ o.stage = "look"
        /\ op' = [op EXCEPT ![c].line = new, ![c].stage = "write"]
        /\ UNCHANGED <<store, faults, calls>>

\* The sidecar is written whole.
Write(c) ==
    LET o == op[c] IN
    /\ o.stage = "write"
    /\ meta' = [meta EXCEPT ![o.from][o.id] = o.line]
    /\ op' = [op EXCEPT ![c] =
           Turn([o EXCEPT !.line = o.flags], IF o.how = "set" THEN "write" ELSE "look")]
    /\ UNCHANGED <<entry, content, marked, nextId, kept, faults, calls>>

\* State::Listing: the names in the directory.
Names(c) ==
    LET o == op[c] IN
    /\ o.stage = "names"
    /\ op' = [op EXCEPT
           ![c].names = entry[o.from],
           ![c].todo = entry[o.from],
           ![c].stage = IF entry[o.from] = {} THEN "ok" ELSE "read"]
    /\ UNCHANGED <<store, faults, calls>>

\* A file that is gone reads as no bytes, which do not parse: the listing
\* fails once every file is read.
Parsed(o, found) == IF found = o.names THEN "ok" ELSE "err"

\* State::Reading, `read_files_tolerant`: one file after the other.
Read(c) ==
    LET o == op[c] IN
    /\ o.stage = "read"
    /\ \E i \in o.todo :
           LET found == IF i \in entry[o.from] THEN o.found \cup {i} ELSE o.found
           IN  op' = [op EXCEPT
                   ![c].todo = @ \ {i},
                   ![c].found = found,
                   ![c].stage = IF o.todo = {i} THEN Parsed(o, found) ELSE "read"]
    /\ UNCHANGED <<store, faults, calls>>

\* The envelopes a listing answers: those the filter of the search matches.
Hits(o) == {i \in o.found : content[i] \in o.wanted}

-----------------------------------------------------------------------------
(* Mailboxes: the directory with its marker, and all it holds. *)

CreateBox(b) ==
    /\ calls < MaxCalls
    /\ b \notin marked
    /\ marked' = marked \cup {b}
    /\ calls' = calls + 1
    /\ UNCHANGED <<entry, content, meta, nextId, kept, op, faults>>

DeleteBox(b) ==
    /\ calls < MaxCalls
    /\ b \in marked
    /\ entry' = [entry EXCEPT ![b] = {}]
    /\ meta' = [meta EXCEPT ![b] = [i \in Id |-> {}]]
    /\ kept' = kept \ Contents(b)
    /\ marked' = marked \ {b}
    /\ calls' = calls + 1
    /\ UNCHANGED <<content, nextId, op, faults>>

-----------------------------------------------------------------------------

\* A file operation fails, which ends the call, or the process ends.
Interrupt(c) ==
    /\ op[c].kind # "none"
    /\ op[c].stage \notin {"ok", "err"}
    /\ faults < MaxFaults
    /\ op' = [op EXCEPT ![c].stage = "err"]
    /\ faults' = faults + 1
    /\ UNCHANGED <<store, calls>>

\* The caller has its answer.
Return(c) ==
    /\ op[c].kind # "none"
    /\ op[c].stage \in {"ok", "err"}
    /\ op' = [op EXCEPT ![c] = Idle]
    /\ UNCHANGED <<store, faults, calls>>

\* The ids that were given out.
Known == 1..(nextId - 1)

\* A process that is in no call makes one; it names mailboxes and ids it was
\* told of.
Calls(c) ==
    /\ op[c].kind = "none"
    /\ calls < MaxCalls
    /\ \/ \E from, to \in marked, ids \in Batch :
              /\ \A k \in DOMAIN ids : ids[k] \in Known
              /\ \/ BeginMove(c, from, to, ids)
                 \/ BeginCopy(c, from, to, ids)
       \/ \E to \in marked, m \in Message, fs \in SUBSET Flag : BeginAdd(c, to, m, fs)
       \/ \E from \in marked, i \in Known : BeginDelete(c, from, i)
       \/ \E from \in marked, ids \in Batch, fs \in SUBSET Flag, how \in {"add", "set", "remove"} :
              /\ \A k \in DOMAIN ids : ids[k] \in Known
              /\ BeginFlags(c, from, ids, fs, how)
       \/ \E from \in marked, wanted \in SUBSET Message : BeginList(c, from, wanted)

Step(c) ==
    \/ Get(c) \/ Store(c) \/ SetFlags(c) \/ Remove(c)
    \/ Look(c) \/ Write(c) \/ Names(c) \/ Read(c)

Next ==
    \/ \E c \in Client : Calls(c) \/ Step(c) \/ Interrupt(c) \/ Return(c)
    \/ \E b \in Box : CreateBox(b) \/ DeleteBox(b)

Spec == Init /\ [][Next]_vars

-----------------------------------------------------------------------------
(* Properties. *)

CallOK(o) ==
    /\ o.stage \in {"get", "store", "delete", "set", "look", "write", "names", "read", "ok", "err"}
    /\ o.kind \in {"move", "copy", "delete", "flags"} => o.from \in Box /\ o.id \in Known
    /\ o.stage = "delete" => o.kind \in {"move", "delete"}
    /\ o.kind \in {"move", "copy"} => o.batch \in Batch /\ o.ids \in Seq(Known)
    /\ o.kind \in {"move", "copy", "add"} => o.to \in Box /\ o.made \in Seq(Known)
    /\ o.stage = "store" => o.kind \in {"move", "copy", "add"}
    /\ o.kind = "list" => o.found \subseteq o.names /\ o.names \subseteq Known

\* Type invariant; an entry of a mailbox has an id that was given out, and a
\* sidecar of flags is there only for such an id.
TypeOK ==
    /\ nextId \in 1..(MaxId + 1)
    /\ content \in [Known -> Message]
    /\ entry \in [Box -> SUBSET Known]
    /\ meta \in [Box -> [Id -> SUBSET Flag]]
    /\ \A b \in Box, i \in Id \ Known : meta[b][i] = {}
    /\ marked \subseteq Box
    /\ kept \subseteq Message
    /\ DOMAIN op = Client
    /\ \A c \in Client : op[c] = Idle \/ (op[c].kind # "none" /\ CallOK(op[c]))
    /\ faults \in 0..MaxFaults
    /\ calls \in 0..MaxCalls

\* No message is lost: one that was stored, and that no call told to delete
\* it or its mailbox named, is in some mailbox, whatever moves of the same
\* message run at once and wherever one of them is interrupted.
NoLoss == kept \subseteq Stored

\* A transfer that is over, or that failed, has stored copies of the first
\* messages of its batch, in order, and none past the id it stopped at; a move
\* that succeeded has stored them all and left none at the source.
TransferIsPrefix ==
    \A c \in Client :
        op[c].kind \in {"move", "copy"} =>
            LET o == op[c] IN
            /\ Len(o.made) <= Len(o.batch)
            /\ \A k \in DOMAIN o.made : content[o.made[k]] = content[o.batch[k]]
            /\ o.stage = "ok" =>
                   /\ Len(o.made) = Len(o.batch)
                   /\ o.kind = "move" => \A k \in DOMAIN o.batch : o.batch[k] \notin entry[o.from]

\* A file goes, or a sidecar changes, only because a call in progress names
\* that message in that mailbox, or its mailbox is deleted.
TouchesOnlyNamed ==
    [][\A b \in Box, i \in Id :
           \/ b \notin marked'
           \/ /\ i \in entry[b] =>
                    \/ i \in entry'[b]
                    \/ \E c \in Client : op[c].stage = "delete" /\ op[c].from = b /\ op[c].id = i
              /\ meta'[b][i] # meta[b][i] =>
                    \E c \in Client :
                        \/ op[c].stage \in {"delete", "write"} /\ op[c].from = b /\ op[c].id = i
                        \/ op[c].stage = "set" /\ op[c].to = b /\ op[c].made = <<i>>]_vars

\* A listing or a search that succeeds answers about all the messages whose
\* names it read in the directory: those moved or deleted before their file is
\* read make it fail, they are not left out.
ListIsSnapshot ==
    \A c \in Client :
        op[c].kind = "list" /\ op[c].stage = "ok" =>
            Hits(op[c]) = {i \in op[c].names : content[i] \in op[c].wanted}
-----------------------------------------------------------------------------
(* What the processes see of one another. *)

\* A sidecar without its file is nobody's: its id is never given again.
Mail == [b \in Box |-> {[id |-> i, flags |-> meta[b][i]] : i \in entry[b]}]

\* What a call that goes on has to do yet.
Ahead(o) ==
    CASE o.kind \in {"move", "copy"} ->
             [kind |-> o.kind, step |-> o.stage, from |-> o.from, to |-> o.to,
              id |-> o.id, ids |-> o.ids]
      [] o.kind = "add" /\ o.stage = "store" ->
             [kind |-> "add", to |-> o.to, body |-> o.body, flags |-> o.flags]
      [] o.kind = "add" /\ o.stage = "set" ->
             [kind |-> "mark", to |-> o.to, id |-> o.made[1], flags |-> o.flags]
      [] o.kind = "delete" -> [kind |-> "delete", from |-> o.from, id |-> o.id]
      [] o.kind = "flags" ->
             [kind |-> "flags", from |-> o.from, id |-> o.id, ids |-> o.ids,
              flags |-> o.flags, how |-> o.how]
      [] o.kind = "list" /\ o.stage = "names" -> [kind |-> "list", from |-> o.from]
      [] o.kind = "list" /\ o.stage = "read" -> [kind |-> "shown", ids |-> o.names]

\* How a call that did not fail ended.
Outcome(o) ==
    CASE o.kind = "none" -> [kind |-> "none"]
      [] o.kind = "list" -> [kind |-> "listed", ids |-> o.found]
      [] OTHER -> [kind |-> "done"]

TaskOf(o) ==
    CASE o.stage = "err" -> [kind |-> "failed"]
      [] o.stage = "ok" -> Outcome(o)
      [] OTHER -> Ahead(o)

Tasks == [c \in Client |-> TaskOf(op[c])]

Promised == INSTANCE CopyStore WITH mail <- Mail, boxes <- marked, task <- Tasks

\* The processes cannot tell the files and sidecars, written and read one at a
\* time, from a store that finds, puts and drops whole messages: every copy has
\* the content of a message that was found, under a new id; a flag change has
\* the effect asked for on its message or, when that is gone, on none; and a
\* listing is the mailbox of one moment.
ImplementsStore == Promised!Spec
=============================================================================
