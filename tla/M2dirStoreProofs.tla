-------------------------- MODULE M2dirStoreProofs --------------------------
(***************************************************************************)
(* Proofs about M2dirStore, for any number of processes, mailboxes,        *)
(* messages, calls and interruptions.                                      *)
(***************************************************************************)
EXTENDS M2dirStore, Integers, TLAPS

-----------------------------------------------------------------------------
(* The calls, by the file operations they are made of. *)

Transfers == [kind : {"move", "copy"}, from : Box, to : Box, batch : Batch \cap Seq(Known),
              ids : Seq(Known), id : Known, made : Seq(Known),
              stage : {"get", "store", "delete", "ok", "err"}]
Adding == [kind : {"add"}, to : Box, body : Message, flags : SUBSET Flag,
           made : Seq(Known), stage : {"store", "set", "ok", "err"}]
Deleting == [kind : {"delete"}, from : Box, id : Known, stage : {"delete", "ok", "err"}]
Flagging == [kind : {"flags"}, from : Box, ids : Seq(Known), id : Known,
             flags : SUBSET Flag, line : SUBSET Flag, how : {"add", "set", "remove"},
             stage : {"look", "write", "ok", "err"}]
Listing == [kind : {"list"}, from : Box, wanted : SUBSET Message, names : SUBSET Known,
            todo : SUBSET Known, found : SUBSET Known,
            stage : {"names", "read", "ok", "err"}]

Op == {Idle} \cup Transfers \cup Adding \cup Deleting \cup Flagging \cup Listing

\* What the fields of a call have to do with each other.
OpOK(o) ==
    /\ o.stage = "delete" => o.kind \in {"move", "delete"}
    /\ o.stage = "set" => Len(o.made) = 1
    /\ o.stage = "look" => o.how # "set"
    /\ o.stage = "write" => Promised!AsAsked(o, o.line)
    /\ o.kind = "list" =>
          /\ o.stage = "names" => o.found = {} /\ o.names = {}
          /\ o.stage = "ok" => o.found = o.names
          /\ o.found \cup o.todo \subseteq o.names

FilesOK ==
    /\ nextId \in 1..(MaxId + 1)
    /\ content \in Seq(Message) /\ Len(content) = nextId - 1
    /\ entry \in [Box -> SUBSET Known]
    /\ meta \in [Box -> [Id -> SUBSET Flag]]
    /\ \A b \in Box, i \in Id \ Known : meta[b][i] = {}
    /\ marked \subseteq Box
    /\ kept \subseteq Message

CallsOK ==
    /\ op \in [Client -> Op]
    /\ \A c \in Client : OpOK(op[c])

CountsOK == faults \in 0..MaxFaults /\ calls \in 0..MaxCalls

\* Entry i of mailbox b is not about to be removed by the end of a move.
Safe(b, i) ==
    /\ i \in entry[b]
    /\ \A c \in Client :
          ~(op[c].kind = "move" /\ op[c].stage = "delete" /\ op[c].from = b /\ op[c].id = i)

\* The message of a move is stored before the source goes: each message to be
\* kept has an entry no move is about to remove.
KeptIsSafe ==
    \A m \in kept : \E b \in Box : \E i \in Known : Safe(b, i) /\ content[i] = m

IInv == FilesOK /\ CallsOK /\ CountsOK /\ KeptIsSafe

-----------------------------------------------------------------------------
(* Calls that go on. *)

LEMMA KnownIds == FilesOK => Known \subseteq Id /\ nextId \notin Known /\ Known \subseteq Nat
BY StoreAssumption DEF FilesOK, Known, Id

\* What was given out stays so.
LEMMA OpGrows == Known \subseteq Known' => Op \subseteq Op'
  <1> SUFFICES ASSUME Known \subseteq Known' PROVE Op \subseteq Op'
    OBVIOUS
  <1>1. Seq(Known) \subseteq Seq(Known')
    OBVIOUS
  <1>2. Transfers \subseteq Transfers'
    BY <1>1 DEF Transfers, Batch, Id
  <1>3. Adding \subseteq Adding' /\ Deleting \subseteq Deleting' /\ Listing \subseteq Listing'
    BY <1>1 DEF Adding, Deleting, Listing
  <1>4. Flagging \subseteq Flagging'
    BY <1>1 DEF Flagging
  <1>5. QED
    BY <1>2, <1>3, <1>4 DEF Op, Idle

\* One call goes on, the others stay as they are.
LEMMA OneGoesOn ==
    ASSUME CallsOK, Known \subseteq Known', NEW c \in Client, NEW o \in Op', OpOK(o),
           op' = [op EXCEPT ![c] = o]
    PROVE  CallsOK'
  <1>1. Op \subseteq Op'
    BY OpGrows
  <1>2. op' \in [Client -> Op']
    BY <1>1 DEF CallsOK
  <1>3. \A d \in Client : OpOK(op'[d])
    BY DEF CallsOK
  <1>4. QED
    BY <1>2, <1>3 DEF CallsOK, OpOK

LEMMA Ends ==
    ASSUME CallsOK, NEW c \in Client, op[c].kind # "none"
    PROVE  LET o == [op[c] EXCEPT !.stage = "err"] IN o \in Op /\ OpOK(o)
  <1> DEFINE o == [op[c] EXCEPT !.stage = "err"]
  <1>1. op[c] \in Transfers \cup Adding \cup Deleting \cup Flagging \cup Listing /\ OpOK(op[c])
    BY DEF CallsOK, Op, Idle
  <1>2. CASE op[c] \in Transfers \cup Adding \cup Deleting \cup Flagging
    <2>1. o \in Op /\ o.stage = "err" /\ o.kind # "list"
      BY <1>2 DEF Op, Transfers, Adding, Deleting, Flagging
    <2>2. QED
      BY <2>1 DEF OpOK
  <1>3. CASE op[c] \in Listing
    <2>1. /\ o \in Op /\ o.stage = "err" /\ op[c].kind = "list"
          /\ o.found = op[c].found /\ o.todo = op[c].todo /\ o.names = op[c].names
      BY <1>3 DEF Op, Listing
    <2>2. QED
      BY <1>1, <2>1 DEF OpOK
  <1>4. QED
    BY <1>1, <1>2, <1>3

\* A batch takes up its next id or ends.
LEMMA Turns ==
    ASSUME NEW o \in Transfers \cup Flagging, NEW stage \in {"get", "look", "write"},
           o.kind = "flags" <=> stage # "get",
           stage = "look" => o.how # "set",
           stage = "write" => o.how = "set" /\ o.line = o.flags
    PROVE  /\ Turn(o, stage) \in Op /\ OpOK(Turn(o, stage))
           /\ Turn(o, stage).stage # "delete"
  <1> DEFINE p == Turn(o, stage)
  <1>1. CASE o.ids = << >>
    BY <1>1 DEF Turn, Op, Transfers, Flagging, OpOK
  <1>2. CASE o.ids # << >>
    <2>1. Head(o.ids) \in Known /\ Tail(o.ids) \in Seq(Known)
      BY <1>2 DEF Transfers, Flagging
    <2>2. p \in Op /\ p.kind = o.kind /\ p.stage = stage /\ p.kind # "list"
      BY <1>2, <2>1 DEF Turn, Op, Transfers, Flagging
    <2>3. ASSUME stage = "write" PROVE Promised!AsAsked(p, p.line)
      <3>1. p.how = "set" /\ p.line = p.flags
        BY <1>2, <2>3 DEF Turn, Transfers, Flagging
      <3>2. QED
        BY <3>1 DEF Promised!AsAsked
    <2>4. stage = "look" => p.how # "set"
      BY <1>2 DEF Turn, Transfers, Flagging
    <2>5. OpOK(p)
      BY <2>2, <2>3, <2>4 DEF OpOK
    <2>6. QED
      BY <2>2, <2>5
  <1>3. QED
    BY <1>1, <1>2

\* A step that removes nothing, gives no new id and brings no move to its end
\* keeps every entry safe.
LEMMA SafeStays ==
    ASSUME KeptIsSafe, NEW c \in Client, NEW o, op' = [op EXCEPT ![c] = o],
           o.kind # "move" \/ o.stage # "delete",
           op \in [Client -> Op],
           UNCHANGED <<entry, content, nextId, kept>>
    PROVE  KeptIsSafe'
  <1> SUFFICES ASSUME NEW m \in kept
               PROVE  \E b \in Box : \E i \in Known : Safe(b, i)' /\ content[i] = m
    BY DEF KeptIsSafe, Known
  <1>1. PICK b \in Box : \E i \in Known : Safe(b, i) /\ content[i] = m
    BY DEF KeptIsSafe
  <1>2. PICK i \in Known : Safe(b, i) /\ content[i] = m
    BY <1>1
  <1>3. Safe(b, i)'
    BY <1>2 DEF Safe
  <1>4. QED
    BY <1>2, <1>3

\* A step of one call that leaves all but the sidecars alone.
LEMMA QuietStep ==
    ASSUME IInv, NEW c \in Client, NEW o \in Op, OpOK(o), op' = [op EXCEPT ![c] = o],
           o.kind # "move" \/ o.stage # "delete",
           UNCHANGED <<entry, content, nextId, kept, marked>>,
           meta' \in [Box -> [Id -> SUBSET Flag]],
           \A b \in Box, i \in Id \ Known : meta'[b][i] = {},
           faults' \in 0..MaxFaults, calls' \in 0..MaxCalls
    PROVE  IInv'
  <1>1. Known' = Known
    BY DEF Known
  <1>2. FilesOK'
    BY <1>1 DEF IInv, FilesOK
  <1>3. CallsOK'
    BY <1>1, OpGrows, OneGoesOn DEF IInv
  <1>4. KeptIsSafe'
    BY SafeStays DEF IInv, CallsOK
  <1>5. QED
    BY <1>2, <1>3, <1>4 DEF IInv, CountsOK

-----------------------------------------------------------------------------
(* The calls. *)

LEMMA BatchIds ==
    ASSUME NEW ids \in Batch, \A k \in DOMAIN ids : ids[k] \in Known
    PROVE  /\ ids \in Seq(Known) /\ ids # << >>
           /\ Head(ids) \in Known /\ Tail(ids) \in Seq(Known)
  <1>1. PICK n \in 1..MaxBatch : ids \in [1..n -> Id]
    BY DEF Batch
  <1>2. n \in Nat \ {0} /\ DOMAIN ids = 1..n
    BY <1>1, StoreAssumption
  <1>3. ids \in [1..n -> Known]
    BY <1>1, <1>2
  <1>4. ids \in Seq(Known) /\ ids # << >>
    BY <1>2, <1>3
  <1>5. QED
    BY <1>4

LEMMA BeginInv ==
    ASSUME IInv, NEW c \in Client, NEW o \in Op, OpOK(o), calls < MaxCalls, Begin(c, o),
           o.kind # "move" \/ o.stage # "delete"
    PROVE  IInv'
  <1>1. calls' \in 0..MaxCalls /\ faults' \in 0..MaxFaults
    BY StoreAssumption DEF IInv, CountsOK, Begin
  <1>2. QED
    BY <1>1, QuietStep DEF IInv, FilesOK, Begin, store

LEMMA CallsInv ==
    ASSUME IInv, NEW c \in Client, Calls(c)
    PROVE  IInv'
  <1>0. calls < MaxCalls
    BY DEF Calls
  <1>1. ASSUME NEW from \in marked, NEW to \in marked, NEW ids \in Batch,
               \A k \in DOMAIN ids : ids[k] \in Known,
               BeginMove(c, from, to, ids) \/ BeginCopy(c, from, to, ids)
        PROVE  IInv'
    <2>1. Head(ids) \in Known /\ Tail(ids) \in Seq(Known)
      BY <1>1, BatchIds
    <2>2. \A kind \in {"move", "copy"} :
             LET o == Transfer(kind, from, to, ids)
             IN  o \in Op /\ OpOK(o) /\ o.stage # "delete"
      BY <2>1 DEF IInv, FilesOK, Op, Transfers, Transfer, OpOK
    <2>3. QED
      BY <1>0, <1>1, <2>2, BeginInv DEF BeginMove, BeginCopy
  <1>2. ASSUME NEW to \in marked, NEW m \in Message, NEW fs \in SUBSET Flag,
               BeginAdd(c, to, m, fs)
        PROVE  IInv'
    <2> DEFINE o == [kind |-> "add", to |-> to, body |-> m, flags |-> fs,
                     stage |-> "store", made |-> << >>]
    <2>1. o \in Op /\ OpOK(o)
      BY DEF IInv, FilesOK, Op, Adding, OpOK
    <2>2. QED
      BY <1>0, <1>2, <2>1, BeginInv DEF BeginAdd
  <1>3. ASSUME NEW from \in marked, NEW i \in Known, BeginDelete(c, from, i)
        PROVE  IInv'
    <2> DEFINE o == [kind |-> "delete", from |-> from, id |-> i, stage |-> "delete"]
    <2>1. o \in Op /\ OpOK(o)
      BY DEF IInv, FilesOK, Op, Deleting, OpOK
    <2>2. QED
      BY <1>0, <1>3, <2>1, BeginInv DEF BeginDelete
  <1>4. ASSUME NEW from \in marked, NEW ids \in Batch, NEW fs \in SUBSET Flag,
               NEW how \in {"add", "set", "remove"},
               \A k \in DOMAIN ids : ids[k] \in Known, BeginFlags(c, from, ids, fs, how)
        PROVE  IInv'
    <2> DEFINE o == [kind |-> "flags", from |-> from, ids |-> Tail(ids), id |-> Head(ids),
                     flags |-> fs, line |-> fs, how |-> how,
                     stage |-> IF how = "set" THEN "write" ELSE "look"]
    <2>1. Head(ids) \in Known /\ Tail(ids) \in Seq(Known)
      BY <1>4, BatchIds
    <2>2. o \in Op
      BY <2>1 DEF IInv, FilesOK, Op, Flagging
    <2>3. o.stage = "write" => Promised!AsAsked(o, o.line)
      <3>1. o.stage = "write" => how = "set"
        OBVIOUS
      <3>2. QED
        BY <3>1 DEF Promised!AsAsked
    <2>4. OpOK(o)
      BY <2>3 DEF OpOK
    <2>5. QED
      BY <1>0, <1>4, <2>2, <2>4, BeginInv DEF BeginFlags
  <1>5. ASSUME NEW from \in marked, NEW wanted \in SUBSET Message, BeginList(c, from, wanted)
        PROVE  IInv'
    <2> DEFINE o == [kind |-> "list", from |-> from, wanted |-> wanted, stage |-> "names",
                     names |-> {}, todo |-> {}, found |-> {}]
    <2>1. o \in Op /\ OpOK(o)
      BY DEF IInv, FilesOK, Op, Listing, OpOK
    <2>2. QED
      BY <1>0, <1>5, <2>1, BeginInv DEF BeginList
  <1>6. QED
    BY <1>1, <1>2, <1>3, <1>4, <1>5 DEF Calls

-----------------------------------------------------------------------------
(* The steps that neither store nor remove. *)

LEMMA GetInv ==
    ASSUME IInv, NEW c \in Client, Get(c)
    PROVE  IInv'
  <1> DEFINE o == op[c]
             p == [o EXCEPT !.stage = IF o.id \in entry[o.from] THEN "store" ELSE "err"]
  <1>1. o.stage = "get"
    BY DEF Get
  <1>2. o \in Transfers
    BY <1>1 DEF IInv, CallsOK, Op, Idle, Adding, Deleting, Flagging, Listing
  <1>3. p \in Op /\ OpOK(p) /\ p.stage # "delete"
    BY <1>2 DEF Op, Transfers, OpOK
  <1>4. op' = [op EXCEPT ![c] = p]
    BY DEF Get
  <1>5. QED
    BY <1>3, <1>4, QuietStep DEF Get, store, IInv, FilesOK, CountsOK

LEMMA SetFlagsInv ==
    ASSUME IInv, NEW c \in Client, SetFlags(c)
    PROVE  IInv'
  <1> DEFINE o == op[c]
             p == [o EXCEPT !.stage = "ok"]
  <1>1. o.stage = "set"
    BY DEF SetFlags
  <1>2. o \in Adding /\ Len(o.made) = 1
    BY <1>1 DEF IInv, CallsOK, OpOK, Op, Idle, Transfers, Deleting, Flagging, Listing
  <1>3. o.made[1] \in Known /\ o.to \in Box /\ o.flags \in SUBSET Flag
    BY <1>2 DEF Adding
  <1>4. p \in Op /\ OpOK(p) /\ p.stage # "delete"
    BY <1>2 DEF Op, Adding, OpOK
  <1>5. op' = [op EXCEPT ![c] = p] /\ meta' = [meta EXCEPT ![o.to][o.made[1]] = o.flags]
    BY DEF SetFlags
  <1>6. /\ meta' \in [Box -> [Id -> SUBSET Flag]]
        /\ \A b \in Box, i \in Id \ Known : meta'[b][i] = {}
    BY <1>3, <1>5, KnownIds DEF IInv, FilesOK
  <1>7. QED
    BY <1>4, <1>5, <1>6, QuietStep DEF SetFlags, IInv, FilesOK, CountsOK

LEMMA FlaggingInv ==
    ASSUME IInv, NEW c \in Client, Look(c) \/ Write(c)
    PROVE  IInv'
  <1> DEFINE o == op[c]
  <1>1. o.stage \in {"look", "write"}
    BY DEF Look, Write
  <1>2. o \in Flagging
    BY <1>1 DEF IInv, CallsOK, Op, Idle, Transfers, Adding, Deleting, Listing
  <1>3. o.from \in Box /\ o.id \in Known /\ o.line \in SUBSET Flag
    BY <1>2 DEF Flagging
  <1>4. CASE Look(c)
    <2> DEFINE had == meta[o.from][o.id]
               new == IF o.how = "add" THEN had \cup o.flags ELSE had \ o.flags
               p == [o EXCEPT !.line = new, !.stage = "write"]
    <2>1. new \in SUBSET Flag
      BY <1>2, <1>3, KnownIds DEF Flagging, IInv, FilesOK
    <2>2. /\ p \in Op /\ p.stage = "write" /\ p.kind = "flags"
          /\ p.how = o.how /\ p.flags = o.flags /\ p.line = new
      BY <1>2, <2>1 DEF Op, Flagging
    <2>3. op' = [op EXCEPT ![c] = p] /\ o.stage = "look"
      BY <1>4 DEF Look, IInv, CallsOK
    <2>4. OpOK(p)
      <3>1. o.how \in {"add", "remove"}
        BY <1>2, <2>3 DEF IInv, CallsOK, OpOK, Flagging
      <3> HIDE DEF p
      <3>2. Promised!AsAsked(p, p.line)
        BY <2>2, <3>1 DEF Promised!AsAsked
      <3>3. QED
        BY <2>2, <3>2 DEF OpOK
    <2>5. UNCHANGED <<entry, content, meta, marked, nextId, kept, faults, calls>>
      BY <1>4 DEF Look, store
    <2>6. /\ meta' \in [Box -> [Id -> SUBSET Flag]]
          /\ \A b \in Box, i \in Id \ Known : meta'[b][i] = {}
          /\ faults' \in 0..MaxFaults /\ calls' \in 0..MaxCalls
      BY <2>5 DEF IInv, FilesOK, CountsOK
    <2>7. p \in Op /\ p.stage # "delete"
      BY <2>2
    <2> HIDE DEF p, had, new
    <2>8. QED
      BY <2>3, <2>4, <2>5, <2>6, <2>7, QuietStep
  <1>5. CASE Write(c)
    <2> DEFINE q == [o EXCEPT !.line = o.flags]
               p == Turn(q, IF o.how = "set" THEN "write" ELSE "look")
    <2>1. q \in Flagging
      BY <1>2 DEF Flagging
    <2>2. p \in Op /\ OpOK(p) /\ p.stage # "delete"
      BY <2>1, Turns DEF Flagging
    <2>3. op' = [op EXCEPT ![c] = p] /\ meta' = [meta EXCEPT ![o.from][o.id] = o.line]
      BY <1>5 DEF Write
    <2>4. /\ meta' \in [Box -> [Id -> SUBSET Flag]]
          /\ \A b \in Box, i \in Id \ Known : meta'[b][i] = {}
      BY <1>3, <2>3, KnownIds DEF IInv, FilesOK
    <2>5. /\ UNCHANGED <<entry, content, marked, nextId, kept>>
          /\ faults' \in 0..MaxFaults /\ calls' \in 0..MaxCalls
      BY <1>5 DEF Write, IInv, CountsOK
    <2> HIDE DEF p, q
    <2>6. QED
      BY <2>2, <2>3, <2>4, <2>5, QuietStep
  <1>6. QED
    BY <1>4, <1>5

LEMMA ListingInv ==
    ASSUME IInv, NEW c \in Client, Names(c) \/ Read(c)
    PROVE  IInv'
  <1> DEFINE o == op[c]
  <1>1. o.stage \in {"names", "read"}
    BY DEF Names, Read
  <1>2. o \in Listing
    BY <1>1 DEF IInv, CallsOK, Op, Idle, Transfers, Adding, Deleting, Flagging
  <1>3. OpOK(o) /\ o.from \in Box
    BY <1>2 DEF IInv, CallsOK, Listing
  <1>4. CASE Names(c)
    <2> DEFINE p == [o EXCEPT !.names = entry[o.from], !.todo = entry[o.from],
                              !.stage = IF entry[o.from] = {} THEN "ok" ELSE "read"]
    <2>1. entry[o.from] \in SUBSET Known /\ o.found = {}
      BY <1>2, <1>3, <1>4 DEF IInv, FilesOK, OpOK, Listing, Names
    <2>2. p \in Op /\ OpOK(p) /\ p.stage # "delete"
      BY <1>2, <2>1 DEF Op, Listing, OpOK
    <2>3. op' = [op EXCEPT ![c] = p]
      <3>1. op \in [Client -> Op]
        BY DEF IInv, CallsOK
      <3>2. op' = [op EXCEPT ![c].names = entry[o.from], ![c].todo = entry[o.from],
                             ![c].stage = IF entry[o.from] = {} THEN "ok" ELSE "read"]
        BY <1>4 DEF Names
      <3>3. QED
        BY <3>1, <3>2
    <2>4. UNCHANGED <<store, faults, calls>>
      BY <1>4 DEF Names
    <2>5. QED
      BY <2>2, <2>3, <2>4, QuietStep DEF store, IInv, FilesOK, CountsOK
  <1>5. CASE Read(c)
    <2>1. PICK i \in o.todo :
             LET found == IF i \in entry[o.from] THEN o.found \cup {i} ELSE o.found
             IN  op' = [op EXCEPT ![c].todo = @ \ {i}, ![c].found = found,
                            ![c].stage = IF o.todo = {i} THEN Parsed(o, found) ELSE "read"]
      BY <1>5 DEF Read
    <2> DEFINE found == IF i \in entry[o.from] THEN o.found \cup {i} ELSE o.found
               stage == IF o.todo = {i} THEN Parsed(o, found) ELSE "read"
               p == [o EXCEPT !.todo = @ \ {i}, !.found = found, !.stage = stage]
    <2>2. op' = [op EXCEPT ![c] = p]
      BY <2>1 DEF IInv, CallsOK
    <2>3. found \cup (o.todo \ {i}) \subseteq o.names /\ o.names \in SUBSET Known
      BY <1>2, <1>3 DEF OpOK, Listing
    <2>4. stage \in {"read", "ok", "err"} /\ (stage = "ok" => found = o.names)
      BY DEF Parsed
    <2>5. p \in Listing
      <3>1. found \in SUBSET Known /\ o.todo \ {i} \in SUBSET Known
        BY <2>3
      <3>2. QED
        BY ONLY <1>2, <2>4, <3>1 DEF Listing
    <2>6. /\ p.kind = "list" /\ p.stage = stage /\ p.found = found /\ p.names = o.names
          /\ p.todo = o.todo \ {i}
      BY <1>2 DEF Listing
    <2>7. OpOK(p) /\ p.stage # "delete"
      BY <2>3, <2>4, <2>6 DEF OpOK
    <2>8. UNCHANGED <<store, faults, calls>> /\ p \in Op
      BY <1>5, <2>5 DEF Read, Op
    <2>9. /\ UNCHANGED <<entry, content, nextId, kept, marked>>
          /\ meta' \in [Box -> [Id -> SUBSET Flag]]
          /\ \A b \in Box, j \in Id \ Known : meta'[b][j] = {}
          /\ faults' \in 0..MaxFaults /\ calls' \in 0..MaxCalls
      BY <2>8 DEF store, IInv, FilesOK, CountsOK
    <2> HIDE DEF p
    <2>10. QED
      BY ONLY IInv, c \in Client, <2>2, <2>7, <2>8, <2>9, QuietStep
  <1>6. QED
    BY <1>4, <1>5

LEMMA EndingInv ==
    ASSUME IInv, NEW c \in Client, Interrupt(c) \/ Return(c)
    PROVE  IInv'
  <1>1. UNCHANGED <<store, calls>> /\ faults' \in 0..MaxFaults
    BY StoreAssumption DEF IInv, CountsOK, Interrupt, Return
  <1>2. PICK o \in Op : OpOK(o) /\ op' = [op EXCEPT ![c] = o] /\ o.stage # "delete"
    <2>1. CASE Interrupt(c)
      <3> DEFINE o == [op[c] EXCEPT !.stage = "err"]
      <3>1. o \in Op /\ OpOK(o)
        BY <2>1, Ends DEF Interrupt, IInv
      <3>2. o.stage = "err"
        BY DEF IInv, CallsOK, Op, Transfers, Adding, Deleting, Flagging, Listing, Idle
      <3>3. QED
        BY <2>1, <3>1, <3>2 DEF Interrupt
    <2>2. CASE Return(c)
      <3>1. Idle \in Op /\ OpOK(Idle) /\ Idle.stage # "delete"
        BY DEF Idle, Op, OpOK
      <3>2. op' = [op EXCEPT ![c] = Idle]
        BY <2>2 DEF Return
      <3>3. QED
        BY <3>1, <3>2
    <2>3. QED
      BY <2>1, <2>2
  <1>3. QED
    BY <1>1, <1>2, QuietStep DEF store, IInv, FilesOK, CountsOK

-----------------------------------------------------------------------------
(* The steps that store or remove. *)

LEMMA TurnsNext ==
    ASSUME NEW o \in Transfers'
    PROVE  /\ Turn(o, "get") \in Transfers' /\ OpOK(Turn(o, "get"))
           /\ Turn(o, "get").stage # "delete"
  <1>1. CASE o.ids = << >>
    BY <1>1 DEF Turn, Transfers, OpOK
  <1>2. CASE o.ids # << >>
    <2>1. Head(o.ids) \in Known' /\ Tail(o.ids) \in Seq(Known')
      BY <1>2 DEF Transfers
    <2>2. QED
      BY <1>2, <2>1 DEF Turn, Transfers, OpOK
  <1>3. QED
    BY <1>1, <1>2

\* A call that has stored a message goes on with a call that is well formed; only
\* a move comes to its end so, and still names the message it got.
LEMMA AfterStoreOK ==
    ASSUME IInv, NEW o \in Transfers \cup Adding, Known \subseteq Known', nextId \in Known'
    PROVE  LET p == AfterStore(o)
           IN  /\ p \in Op' /\ OpOK(p)
               /\ p.stage = "delete" => /\ p.kind = "move" /\ o.kind = "move"
                                        /\ p.from = o.from /\ p.id = o.id
  <1> DEFINE p == AfterStore(o)
  <1>1. CASE o \in Transfers
    <2> DEFINE q == [o EXCEPT !.made = Append(@, nextId)]
    <2>1. o \in Transfers'
      BY <1>1 DEF Transfers, Batch, Id
    <2>2. q \in Transfers'
      <3>1. o.made \in Seq(Known')
        BY <2>1 DEF Transfers
      <3>2. Append(o.made, nextId) \in Seq(Known')
        BY <3>1
      <3>3. QED
        BY <2>1, <3>2 DEF Transfers
    <2>3. CASE o.kind = "move"
      <3>1. p = [q EXCEPT !.stage = "delete"]
        BY <1>1, <2>3 DEF AfterStore, Transfers
      <3>2. p \in Transfers'
        BY <2>2, <3>1 DEF Transfers
      <3>3. p.kind = "move" /\ p.from = o.from /\ p.id = o.id /\ p.stage = "delete"
        BY <1>1, <2>3, <3>1 DEF Transfers
      <3>4. OpOK(p)
        BY <3>3 DEF OpOK
      <3>5. QED
        BY <2>3, <3>2, <3>3, <3>4 DEF Op
    <2>4. CASE o.kind = "copy"
      <3>1. p = Turn(q, "get")
        BY <2>4 DEF AfterStore
      <3>2. QED
        BY <2>2, <3>1, TurnsNext DEF Op
    <2>5. QED
      BY <1>1, <2>3, <2>4 DEF Transfers
  <1>2. CASE o \in Adding
    <2>1. p = [o EXCEPT !.stage = IF o.flags = {} THEN "ok" ELSE "set", !.made = <<nextId>>]
      BY <1>2 DEF AfterStore, Adding
    <2>2. <<nextId>> \in Seq(Known') /\ Len(<<nextId>>) = 1
      OBVIOUS
    <2>3. p \in Adding' /\ p.stage # "delete"
      BY <1>2, <2>1, <2>2 DEF Adding
    <2>4. p.kind = "add" /\ p.made = <<nextId>>
      BY <1>2, <2>1 DEF Adding
    <2>5. OpOK(p)
      <3>1. p.stage \in {"ok", "set", "store", "err"}
        BY <2>3 DEF Adding
      <3>2. QED
        BY <2>2, <2>4, <3>1 DEF OpOK
    <2>6. QED
      BY <2>3, <2>5 DEF Op
  <1>3. QED
    BY <1>1, <1>2

LEMMA StoreInv ==
    ASSUME IInv, NEW c \in Client, Store(c)
    PROVE  IInv'
  <1> DEFINE o == op[c]
             p == AfterStore(o)
  <1>1. o.stage = "store" /\ nextId <= MaxId /\ nextId' = nextId + 1
    BY DEF Store
  <1>2. o \in Transfers \cup Adding
    BY <1>1 DEF IInv, CallsOK, Op, Idle, Deleting, Flagging, Listing
  <1>3. nextId \in Nat \ {0} /\ MaxId \in Nat /\ Known = 1..(nextId - 1) /\ Known' = 1..nextId
    BY <1>1, StoreAssumption DEF IInv, FilesOK, Known
  <1>4. Known \subseteq Known' /\ nextId \in Known' /\ nextId \notin Known
    BY <1>3
  <1>5. Body(o) \in Message /\ o.to \in Box
    BY <1>2, <1>3 DEF IInv, FilesOK, Body, Transfers, Adding
  <1>6. op' = [op EXCEPT ![c] = p] /\ p \in Op' /\ OpOK(p)
    BY <1>2, <1>4, AfterStoreOK DEF Store
  <1>7. /\ content' = Append(content, Body(o))
        /\ content' \in Seq(Message) /\ Len(content') = nextId
        /\ content'[nextId] = Body(o)
        /\ \A i \in Known : content'[i] = content[i]
    BY <1>3, <1>5 DEF Store, IInv, FilesOK
  <1>8. FilesOK'
    <2>1. nextId' \in 1..(MaxId + 1) /\ Len(content') = nextId' - 1
      BY <1>1, <1>3, <1>7
    <2>2. entry' \in [Box -> SUBSET Known']
      BY <1>4, <1>5 DEF Store, IInv, FilesOK
    <2>3. meta' = meta /\ marked' = marked /\ kept' \subseteq Message
      BY <1>5 DEF Store, IInv, FilesOK
    <2>4. \A b \in Box, i \in Id \ Known' : meta'[b][i] = {}
      BY <1>4, <2>3 DEF IInv, FilesOK
    <2>5. Id' = Id
      BY DEF Id
    <2>6. QED
      BY <1>7, <2>1, <2>2, <2>3, <2>4, <2>5 DEF IInv, FilesOK
  <1>9. CallsOK'
    BY <1>4, <1>6, OneGoesOn DEF IInv
  <1>10. KeptIsSafe'
    <2> SUFFICES ASSUME NEW m \in kept'
                 PROVE  \E b \in Box : \E i \in Known' : Safe(b, i)' /\ content'[i] = m
      BY DEF KeptIsSafe
    <2>1. CASE m = Body(o)
      <3>1. PICK b \in Box : b = o.to
        BY <1>5
      <3>2. PICK i \in Known' : i = nextId
        BY <1>4
      <3>3. i \in entry'[b]
        BY <3>1, <3>2 DEF Store, IInv, FilesOK
      <3>4. ASSUME NEW d \in Client, op'[d].kind = "move", op'[d].stage = "delete"
            PROVE  op'[d].id \in Known
        <4>1. CASE d = c
          <5>1. p.kind = "move" /\ p.stage = "delete" /\ op'[d] = p
            BY <1>6, <3>4, <4>1 DEF IInv, CallsOK
          <5>2. p.id = o.id /\ o.kind = "move"
            BY <1>2, <1>4, <5>1, AfterStoreOK
          <5>3. QED
            BY <1>2, <5>1, <5>2 DEF Transfers, Adding
        <4>2. CASE d # c
          <5>1. op'[d] = op[d] /\ op[d] \in Op
            BY <1>6, <4>2 DEF IInv, CallsOK
          <5>2. QED
            BY <3>4, <5>1 DEF Op, Idle, Transfers, Adding, Deleting, Flagging, Listing
        <4>3. QED
          BY <4>1, <4>2
      <3>5. Safe(b, i)'
        BY <1>4, <3>2, <3>3, <3>4 DEF Safe
      <3>6. content'[i] = m
        BY <1>7, <2>1, <3>2
      <3>7. QED
        BY <3>5, <3>6
    <2>2. CASE m # Body(o)
      <3>1. m \in kept
        BY <2>2 DEF Store
      <3>2. PICK b \in Box : \E i \in Known : Safe(b, i) /\ content[i] = m
        BY <3>1 DEF IInv, KeptIsSafe
      <3>3. PICK i \in Known : Safe(b, i) /\ content[i] = m
        BY <3>2
      <3>4. i \in entry'[b]
        BY <1>5, <3>3 DEF Safe, Store, IInv, FilesOK
      <3>5. ASSUME NEW d \in Client, op'[d].kind = "move", op'[d].stage = "delete",
                   op'[d].from = b, op'[d].id = i
            PROVE  FALSE
        <4>1. CASE d = c
          <5>1. p.kind = "move" /\ p.stage = "delete" /\ p.id = i
            BY <1>6, <3>5, <4>1 DEF IInv, CallsOK
          <5>2. o.id = i /\ o.kind = "move"
            BY <1>2, <1>4, <5>1, AfterStoreOK
          <5>3. QED
            BY <2>2, <3>3, <5>2 DEF Body
        <4>2. CASE d # c
          <5>1. op'[d] = op[d]
            BY <1>6, <4>2 DEF IInv, CallsOK
          <5>2. QED
            BY <3>3, <3>5, <5>1 DEF Safe
        <4>3. QED
          BY <4>1, <4>2
      <3>6. Safe(b, i)'
        BY <3>4, <3>5 DEF Safe
      <3>7. QED
        BY <1>4, <1>7, <3>3, <3>6
    <2>3. QED
      BY <2>1, <2>2
  <1>11. CountsOK'
    BY DEF Store, IInv, CountsOK
  <1>12. QED
    BY <1>8, <1>9, <1>10, <1>11 DEF IInv

\* What a call is once it has removed an entry, or found it removed.
LEMMA AfterRemoveOK ==
    ASSUME IInv, NEW c \in Client, Remove(c)
    PROVE  /\ op[c] \in Transfers \cup Deleting
           /\ op[c].kind \in {"move", "delete"}
           /\ op[c].from \in Box /\ op[c].id \in Known
           /\ \E p \in Op : OpOK(p) /\ p.stage # "delete" /\ op' = [op EXCEPT ![c] = p]
  <1> DEFINE o == op[c]
  <1>1. o.stage = "delete" /\ o \in Op /\ OpOK(o)
    BY DEF Remove, IInv, CallsOK
  <1>2. o.kind \in {"move", "delete"}
    BY <1>1 DEF OpOK
  <1>3. o \in Transfers \cup Deleting
    BY <1>1 DEF Op, Idle, Adding, Flagging, Listing
  <1>4. o.from \in Box /\ o.id \in Known
    BY <1>3 DEF Transfers, Deleting
  <1>5. PICK p \in Op : OpOK(p) /\ p.stage # "delete" /\ op' = [op EXCEPT ![c] = p]
    <2>1. CASE op' = [op EXCEPT ![c].stage = "err"]
      <3> DEFINE p == [o EXCEPT !.stage = "err"]
      <3>1. p \in Op /\ OpOK(p)
        BY <1>2, Ends DEF IInv
      <3>2. p.stage = "err"
        BY <1>3 DEF Transfers, Deleting
      <3>3. op' = [op EXCEPT ![c] = p]
        BY <2>1
      <3>4. QED
        BY <3>1, <3>2, <3>3
    <2>2. CASE o.kind = "delete" /\ op' = [op EXCEPT ![c] = [o EXCEPT !.stage = "ok"]]
      <3> DEFINE p == [o EXCEPT !.stage = "ok"]
      <3>1. o \in Deleting
        BY <1>3, <2>2 DEF Transfers
      <3>2. p \in Op /\ OpOK(p) /\ p.stage = "ok"
        BY <3>1 DEF Deleting, Op, OpOK
      <3>3. QED
        BY <2>2, <3>2
    <2>3. CASE o.kind = "move" /\ op' = [op EXCEPT ![c] = Turn(o, "get")]
      <3>1. o \in Transfers
        BY <1>3, <2>3 DEF Deleting
      <3>2. Turn(o, "get") \in Op /\ OpOK(Turn(o, "get")) /\ Turn(o, "get").stage # "delete"
        BY <2>3, <3>1, Turns
      <3>3. QED
        BY <2>3, <3>2
    <2>4. QED
      BY <1>2, <2>1, <2>2, <2>3 DEF Remove
  <1>6. QED
    BY <1>2, <1>3, <1>4, <1>5

LEMMA RemoveInv ==
    ASSUME IInv, NEW c \in Client, Remove(c)
    PROVE  IInv'
  <1> DEFINE o == op[c]
  <1>1. o.stage = "delete" /\ o.kind \in {"move", "delete"} /\ o.from \in Box /\ o.id \in Known
    BY AfterRemoveOK DEF Remove
  <1>2. PICK p \in Op : OpOK(p) /\ p.stage # "delete" /\ op' = [op EXCEPT ![c] = p]
    BY AfterRemoveOK
  <1>3. /\ entry' = [entry EXCEPT ![o.from] = @ \ {o.id}]
        /\ meta' = [meta EXCEPT ![o.from][o.id] = {}]
        /\ kept' = IF o.kind = "delete" /\ o.id \in entry[o.from]
                   THEN kept \ {content[o.id]} ELSE kept
        /\ UNCHANGED <<content, marked, nextId, faults, calls>>
    BY DEF Remove
  <1>4. Known' = Known /\ Id' = Id
    BY <1>3 DEF Known, Id
  <1>5. FilesOK'
    <2>1. entry' \in [Box -> SUBSET Known'] /\ kept' \subseteq Message
      BY <1>1, <1>3, <1>4 DEF IInv, FilesOK
    <2>2. /\ meta' \in [Box -> [Id -> SUBSET Flag]]
          /\ \A b \in Box, i \in Id \ Known : meta'[b][i] = {}
      BY <1>1, <1>3, KnownIds DEF IInv, FilesOK
    <2>3. QED
      BY <1>3, <1>4, <2>1, <2>2 DEF IInv, FilesOK
  <1>6. CallsOK'
    BY <1>2, <1>4, OpGrows, OneGoesOn DEF IInv
  <1>7. KeptIsSafe'
    <2> SUFFICES ASSUME NEW m \in kept'
                 PROVE  \E b \in Box : \E i \in Known : Safe(b, i)' /\ content[i] = m
      BY <1>3, <1>4 DEF KeptIsSafe
    <2>1. m \in kept
      BY <1>3
    <2>2. PICK b \in Box : \E i \in Known : Safe(b, i) /\ content[i] = m
      BY <2>1 DEF IInv, KeptIsSafe
    <2>3. PICK i \in Known : Safe(b, i) /\ content[i] = m
      BY <2>2
    <2>4. i \in entry[b] /\ entry[b] \subseteq Known
      BY <2>3 DEF Safe, IInv, FilesOK
    <2>5. ~(b = o.from /\ i = o.id)
      <3>1. CASE o.kind = "move"
        BY <1>1, <2>3, <3>1 DEF Safe
      <3>2. CASE o.kind = "delete"
        BY <1>3, <2>3, <2>4, <3>2
      <3>3. QED
        BY <1>1, <3>1, <3>2
    <2>6. i \in entry'[b]
      BY <1>1, <1>3, <2>4, <2>5 DEF IInv, FilesOK
    <2>7. Safe(b, i)'
      BY <1>2, <2>3, <2>6 DEF Safe, IInv, CallsOK
    <2>8. QED
      BY <2>3, <2>7
  <1>8. QED
    BY <1>3, <1>5, <1>6, <1>7 DEF IInv, CountsOK

-----------------------------------------------------------------------------
(* Mailboxes. *)

LEMMA BoxesInv ==
    ASSUME IInv, NEW b \in Box, CreateBox(b) \/ DeleteBox(b)
    PROVE  IInv'
  <1>1. content' = content /\ nextId' = nextId /\ op' = op /\ faults' = faults
    BY DEF CreateBox, DeleteBox
  <1>2. Known' = Known /\ Id' = Id
    BY <1>1 DEF Known, Id
  <1>3. calls' \in 0..MaxCalls
    BY StoreAssumption DEF IInv, CountsOK, CreateBox, DeleteBox
  <1>4. CallsOK'
    BY <1>1, <1>2, OpGrows DEF IInv, CallsOK, OpOK
  <1>5. FilesOK'
    <2>1. entry' \in [Box -> SUBSET Known] /\ kept' \subseteq Message /\ marked' \subseteq Box
      BY DEF IInv, FilesOK, CreateBox, DeleteBox
    <2>2. /\ meta' \in [Box -> [Id -> SUBSET Flag]]
          /\ \A d \in Box, i \in Id \ Known : meta'[d][i] = {}
      <3>1. CASE CreateBox(b)
        BY <3>1 DEF IInv, FilesOK, CreateBox
      <3>2. CASE DeleteBox(b)
        <4>1. [i \in Id |-> {}] \in [Id -> SUBSET Flag]
          OBVIOUS
        <4>2. meta' = [meta EXCEPT ![b] = [i \in Id |-> {}]]
          BY <3>2 DEF DeleteBox
        <4>3. QED
          BY <4>1, <4>2 DEF IInv, FilesOK
      <3>3. QED
        BY <3>1, <3>2
    <2>3. QED
      BY <1>1, <1>2, <2>1, <2>2 DEF IInv, FilesOK
  <1>6. KeptIsSafe'
    <2> SUFFICES ASSUME NEW m \in kept'
                 PROVE  \E d \in Box : \E i \in Known : Safe(d, i)' /\ content[i] = m
      BY <1>1, <1>2 DEF KeptIsSafe
    <2>1. m \in kept
      BY DEF CreateBox, DeleteBox
    <2>2. PICK d \in Box : \E i \in Known : Safe(d, i) /\ content[i] = m
      BY <2>1 DEF IInv, KeptIsSafe
    <2>3. PICK i \in Known : Safe(d, i) /\ content[i] = m
      BY <2>2
    <2>4. i \in entry'[d]
      BY <2>3 DEF Safe, CreateBox, DeleteBox, Contents, IInv, FilesOK
    <2>5. Safe(d, i)'
      BY <1>1, <2>3, <2>4 DEF Safe
    <2>6. QED
      BY <2>3, <2>5
  <1>7. QED
    BY <1>1, <1>3, <1>4, <1>5, <1>6 DEF IInv, CountsOK

-----------------------------------------------------------------------------
(* The invariant. *)

LEMMA InitInv == Init => IInv
  <1> SUFFICES ASSUME Init PROVE IInv
    OBVIOUS
  <1>1. /\ Len(First) \in Nat /\ MaxId \in Nat /\ Len(First) <= MaxId
        /\ \A i \in 1..Len(First) : First[i] \in Message
    BY StoreAssumption
  <1>2. Known = 1..Len(First)
    BY <1>1 DEF Known, Init
  <1>3. FilesOK
    BY <1>1, <1>2, StoreAssumption DEF FilesOK, Init
  <1>4. CallsOK
    BY DEF Init, CallsOK, Op, OpOK, Idle
  <1>5. CountsOK
    BY StoreAssumption DEF Init, CountsOK
  <1>6. KeptIsSafe
    <2> SUFFICES ASSUME NEW m \in kept
                 PROVE  \E b \in Box : \E i \in Known : Safe(b, i) /\ content[i] = m
      BY DEF KeptIsSafe
    <2>1. PICK i \in 1..Len(First) : m = First[i]
      BY DEF Init
    <2>2. i \in Known /\ content[i] = m
      BY <1>2, <2>1 DEF Init
    <2>3. Safe(Home, i)
      BY StoreAssumption DEF Safe, Init, Idle
    <2>4. QED
      BY <2>2, <2>3, StoreAssumption
  <1>7. QED
    BY <1>3, <1>4, <1>5, <1>6 DEF IInv

LEMMA NextInv == IInv /\ [Next]_vars => IInv'
  <1> SUFFICES ASSUME IInv, [Next]_vars PROVE IInv'
    OBVIOUS
  <1>1. ASSUME NEW c \in Client, Calls(c) PROVE IInv'
    BY <1>1, CallsInv
  <1>2. ASSUME NEW c \in Client, Step(c) PROVE IInv'
    BY <1>2, GetInv, StoreInv, SetFlagsInv, RemoveInv, FlaggingInv, ListingInv DEF Step
  <1>3. ASSUME NEW c \in Client, Interrupt(c) \/ Return(c) PROVE IInv'
    BY <1>3, EndingInv
  <1>4. ASSUME NEW b \in Box, CreateBox(b) \/ DeleteBox(b) PROVE IInv'
    BY <1>4, BoxesInv
  <1>5. ASSUME UNCHANGED vars PROVE IInv'
    <2>1. Known' = Known
      BY <1>5 DEF vars, Known
    <2>2. FilesOK' /\ CountsOK'
      BY <1>5, <2>1 DEF vars, IInv, FilesOK, CountsOK, Id
    <2>3. CallsOK'
      BY <1>5, <2>1, OpGrows DEF vars, IInv, CallsOK, OpOK
    <2>4. KeptIsSafe'
      BY <1>5, <2>1 DEF vars, IInv, KeptIsSafe, Safe
    <2>5. QED
      BY <2>2, <2>3, <2>4 DEF IInv
  <1>6. QED
    BY <1>1, <1>2, <1>3, <1>4, <1>5 DEF Next

LEMMA Invariance == Spec => []IInv
  <1>1. Init => IInv
    BY InitInv
  <1>2. IInv /\ [Next]_vars => IInv'
    BY NextInv
  <1>3. QED
    BY <1>1, <1>2, PTL DEF Spec

-----------------------------------------------------------------------------
(* The theorems. *)

LEMMA TypeFollows == IInv => TypeOK
  <1> SUFFICES ASSUME IInv PROVE TypeOK
    OBVIOUS
  <1>1. content \in [Known -> Message]
    BY StoreAssumption DEF IInv, FilesOK, Known
  <1>2. ASSUME NEW c \in Client
        PROVE  op[c] = Idle \/ (op[c].kind # "none" /\ CallOK(op[c]))
    <2> DEFINE o == op[c]
    <2>1. o \in Op /\ OpOK(o)
      BY DEF IInv, CallsOK
    <2>2. CASE o \in Transfers
      BY <2>1, <2>2 DEF Transfers, CallOK, OpOK
    <2>3. CASE o \in Adding
      BY <2>3 DEF Adding, CallOK
    <2>4. CASE o \in Deleting
      BY <2>4 DEF Deleting, CallOK
    <2>5. CASE o \in Flagging
      BY <2>5 DEF Flagging, CallOK
    <2>6. CASE o \in Listing
      BY <2>1, <2>6 DEF Listing, CallOK, OpOK
    <2>7. QED
      BY <2>1, <2>2, <2>3, <2>4, <2>5, <2>6 DEF Op
  <1>3. DOMAIN op = Client
    BY DEF IInv, CallsOK
  <1>4. QED
    BY <1>1, <1>2, <1>3 DEF TypeOK, IInv, FilesOK, CountsOK

\* Whatever the coroutines of the m2dir store, the failures and the ends of
\* processes between their file operations, and the deletions of mailboxes do,
\* every call is in a state of its kind, and entries and sidecars belong to ids
\* that were given out.
THEOREM TypeCorrect == Spec => []TypeOK
  <1>1. IInv => TypeOK
    BY TypeFollows
  <1>2. QED
    BY <1>1, Invariance, PTL

\* A move stores in the target before it deletes at the source
\* (message/m2dir/move.rs): no number of moves, copies and deletions at once, cut
\* short anywhere, loses a message no caller deleted.
THEOREM NoMessageLost == Spec => []NoLoss
  <1>1. ASSUME IInv PROVE NoLoss
    <2> SUFFICES ASSUME NEW m \in kept PROVE m \in Stored
      BY DEF NoLoss
    <2>1. PICK b \in Box : \E i \in Known : Safe(b, i) /\ content[i] = m
      BY <1>1 DEF IInv, KeptIsSafe
    <2>2. QED
      BY <2>1 DEF Safe, Stored, Contents
  <1>2. IInv => NoLoss
    BY <1>1
  <1>3. QED
    BY <1>2, Invariance, PTL

\* A listing that succeeds (envelope/m2dir/list.rs, search.rs) has read every file
\* it found the name of, so that its answer leaves none of them out.
THEOREM ListingIsSnapshot == Spec => []ListIsSnapshot
  <1>1. ASSUME IInv PROVE ListIsSnapshot
    <2> SUFFICES ASSUME NEW c \in Client, op[c].kind = "list", op[c].stage = "ok"
                 PROVE  op[c].found = op[c].names
      BY DEF ListIsSnapshot, Hits
    <2>1. QED
      BY <1>1 DEF IInv, CallsOK, OpOK
  <1>2. IInv => ListIsSnapshot
    BY <1>1
  <1>3. QED
    BY <1>2, Invariance, PTL

LEMMA TouchesStep ==
    ASSUME IInv, Next, NEW b \in Box, NEW i \in Id, b \in marked'
    PROVE  /\ i \in entry[b] =>
                 \/ i \in entry'[b]
                 \/ \E c \in Client : op[c].stage = "delete" /\ op[c].from = b /\ op[c].id = i
           /\ meta'[b][i] # meta[b][i] =>
                 \E c \in Client :
                     \/ op[c].stage \in {"delete", "write"} /\ op[c].from = b /\ op[c].id = i
                     \/ op[c].stage = "set" /\ op[c].to = b /\ op[c].made = <<i>>
  <1> DEFINE Touched ==
        /\ i \in entry[b] =>
              \/ i \in entry'[b]
              \/ \E c \in Client : op[c].stage = "delete" /\ op[c].from = b /\ op[c].id = i
        /\ meta'[b][i] # meta[b][i] =>
              \E c \in Client :
                  \/ op[c].stage \in {"delete", "write"} /\ op[c].from = b /\ op[c].id = i
                  \/ op[c].stage = "set" /\ op[c].to = b /\ op[c].made = <<i>>
  <1>0. entry \in [Box -> SUBSET Known] /\ meta \in [Box -> [Id -> SUBSET Flag]]
    BY DEF IInv, FilesOK
  <1>1. CASE UNCHANGED <<entry, meta>>
    BY <1>1
  <1>2. ASSUME NEW c \in Client, Store(c) PROVE Touched
    BY <1>0, <1>2 DEF Store
  <1>3. ASSUME NEW c \in Client, SetFlags(c) PROVE Touched
    <2> DEFINE o == op[c]
    <2>1. o \in Adding /\ Len(o.made) = 1
      BY <1>3 DEF SetFlags, IInv, CallsOK, OpOK, Op, Idle, Transfers, Deleting, Flagging, Listing
    <2>2. o.made = <<o.made[1]>>
      BY <2>1 DEF Adding
    <2>3. meta'[b][i] # meta[b][i] => b = o.to /\ i = o.made[1]
      BY <1>0, <1>3 DEF SetFlags
    <2>4. QED
      BY <1>3, <2>2, <2>3 DEF SetFlags
  <1>4. ASSUME NEW c \in Client, Remove(c) PROVE Touched
    BY <1>0, <1>4 DEF Remove
  <1>5. ASSUME NEW c \in Client, Write(c) PROVE Touched
    BY <1>0, <1>5 DEF Write
  <1>6. ASSUME NEW d \in Box, DeleteBox(d) PROVE Touched
    <2>1. b # d
      BY <1>6 DEF DeleteBox
    <2>2. QED
      BY <1>0, <1>6, <2>1 DEF DeleteBox
  <1>7. ASSUME NEW c \in Client,
               Calls(c) \/ Get(c) \/ Look(c) \/ Names(c) \/ Read(c) \/ Interrupt(c) \/ Return(c)
        PROVE  Touched
    <2>1. UNCHANGED <<entry, meta>>
      BY <1>7 DEF Calls, BeginMove, BeginCopy, BeginAdd, BeginDelete, BeginFlags, BeginList,
                  Begin, Get, Look, Names, Read, Interrupt, Return, store
    <2>2. QED
      BY <1>1, <2>1
  <1>8. ASSUME NEW d \in Box, CreateBox(d) PROVE Touched
    BY <1>1, <1>8 DEF CreateBox
  <1>9. QED
    BY <1>2, <1>3, <1>4, <1>5, <1>6, <1>7, <1>8 DEF Next, Step

\* Nothing but the removal, the flag write or the flag setting of a call in progress
\* that names this message in this mailbox, or the deletion of the mailbox, takes a
\* file or changes a sidecar of the store.
THEOREM OnlyNamedTouched == Spec => TouchesOnlyNamed
  <1> DEFINE Touches ==
        \A b \in Box, i \in Id :
           \/ b \notin marked'
           \/ /\ i \in entry[b] =>
                    \/ i \in entry'[b]
                    \/ \E c \in Client : op[c].stage = "delete" /\ op[c].from = b /\ op[c].id = i
              /\ meta'[b][i] # meta[b][i] =>
                    \E c \in Client :
                        \/ op[c].stage \in {"delete", "write"} /\ op[c].from = b /\ op[c].id = i
                        \/ op[c].stage = "set" /\ op[c].to = b /\ op[c].made = <<i>>
  <1>1. IInv /\ [Next]_vars => [Touches]_vars
    BY TouchesStep
  <1>2. TouchesOnlyNamed <=> [][Touches]_vars
    BY PTL DEF TouchesOnlyNamed
  <1>3. QED
    BY <1>1, <1>2, Invariance, PTL DEF Spec

-----------------------------------------------------------------------------
(* How far a move or a copy is.  `con` and `ent` are the contents and the  *)
(* entries, now or after a step.                                           *)

\* The place of the current id in the batch.
At(o) == Len(o.batch) - Len(o.ids)

Standing(o) ==
    /\ At(o) >= 1
    /\ o.id = o.batch[At(o)]
    /\ \A j \in 1..Len(o.ids) : o.ids[j] = o.batch[At(o) + j]

Carried(o, con, ent) ==
    /\ \A j \in 1..Len(o.made) : con[o.made[j]] = con[o.batch[j]]
    /\ o.kind = "move" => \A j \in 1..(At(o) - 1) : o.batch[j] \notin ent[o.from]

\* The current id is done with.
DoneWith(o, ent) ==
    /\ Len(o.made) = At(o)
    /\ o.kind = "move" => o.batch[At(o)] \notin ent[o.from]

PrefixOK(o, con, ent) ==
    o.kind \in {"move", "copy"} =>
        /\ Standing(o) /\ Carried(o, con, ent)
        /\ o.stage \in {"get", "store"} => Len(o.made) = At(o) - 1
        /\ o.stage = "delete" => Len(o.made) = At(o)
        /\ o.stage = "ok" => o.ids = << >> /\ DoneWith(o, ent)
        /\ o.stage = "err" => Len(o.made) \in {At(o) - 1, At(o)}

PrefixInv == \A c \in Client : PrefixOK(op[c], content, entry)

\* What a step leaves: contents stay, and only a new id is a new entry.
Steady ==
    /\ Known \subseteq Known'
    /\ \A i \in Known : content'[i] = content[i]
    /\ \A b \in Box, i \in Known : i \in entry'[b] => i \in entry[b]

LEMMA TransferShape ==
    ASSUME NEW o \in Transfers
    PROVE  /\ o.batch \in Seq(Known) /\ o.ids \in Seq(Known) /\ o.made \in Seq(Known)
           /\ Len(o.batch) \in Nat /\ Len(o.ids) \in Nat /\ Len(o.made) \in Nat
           /\ At(o) \in Int /\ At(o) <= Len(o.batch)
           /\ o.from \in Box /\ o.to \in Box /\ o.id \in Known
  <1>1. o.batch \in Seq(Known) /\ o.ids \in Seq(Known) /\ o.made \in Seq(Known)
    BY DEF Transfers
  <1>2. QED
    BY <1>1 DEF Transfers, At

LEMMA PrefixStays ==
    ASSUME Steady, NEW o \in Op, PrefixOK(o, content, entry)
    PROVE  PrefixOK(o, content', entry')
  <1> SUFFICES ASSUME o.kind \in {"move", "copy"} PROVE PrefixOK(o, content', entry')
    BY DEF PrefixOK
  <1>1. o \in Transfers
    BY DEF Op, Idle, Adding, Deleting, Flagging, Listing
  <1>2. Standing(o) /\ Carried(o, content, entry)
    BY DEF PrefixOK
  <1>3. At(o) >= 1
    BY <1>2 DEF Standing
  <1>4. \A j \in 1..At(o) : o.batch[j] \in Known
    BY <1>1, TransferShape
  <1>5. Len(o.made) <= At(o)
    BY <1>1, <1>3, TransferShape DEF PrefixOK, DoneWith, Transfers
  <1>6. ASSUME NEW j \in 1..Len(o.made) PROVE content'[o.made[j]] = content'[o.batch[j]]
    <2>1. o.made[j] \in Known /\ o.batch[j] \in Known
      BY <1>1, <1>4, <1>5, TransferShape
    <2>2. QED
      BY <1>2, <2>1 DEF Carried, Steady
  <1>7. ASSUME o.kind = "move", NEW j \in 1..At(o), o.batch[j] \notin entry[o.from]
        PROVE  o.batch[j] \notin entry'[o.from]
    BY <1>1, <1>4, <1>7, TransferShape DEF Steady
  <1>8. Carried(o, content', entry')
    BY <1>1, <1>2, <1>6, <1>7, TransferShape DEF Carried
  <1>9. DoneWith(o, entry) => DoneWith(o, entry')
    BY <1>1, <1>3, <1>7, TransferShape DEF DoneWith
  <1>10. QED
    BY <1>2, <1>8, <1>9 DEF PrefixOK

\* The fields of a transfer, and their sequences of ids.
Shaped(o, K) ==
    /\ DOMAIN o = {"kind", "from", "to", "batch", "ids", "id", "made", "stage"}
    /\ o.batch \in Seq(K) /\ o.ids \in Seq(K) /\ o.made \in Seq(K)

\* The next id of a batch is taken up when the one before is done with.
LEMMA PrefixTurn ==
    ASSUME NEW K, NEW con, NEW ent,
           NEW o, o.kind \in {"move", "copy"}, Standing(o), Carried(o, con, ent),
           DoneWith(o, ent), Shaped(o, K)
    PROVE  PrefixOK(Turn(o, "get"), con, ent)
  <1> DEFINE p == Turn(o, "get")
  <1>0. /\ Len(o.batch) \in Nat /\ Len(o.ids) \in Nat /\ Len(o.made) \in Nat
        /\ At(o) = Len(o.batch) - Len(o.ids)
    BY DEF At, Shaped
  <1>1. CASE o.ids = << >>
    <2>1. /\ p.kind = o.kind /\ p.from = o.from /\ p.batch = o.batch /\ p.ids = o.ids
          /\ p.id = o.id /\ p.made = o.made /\ p.stage = "ok"
      BY <1>1 DEF Turn, Shaped
    <2>2. At(p) = At(o)
      BY <2>1 DEF At
    <2>3. Standing(p) /\ Carried(p, con, ent) /\ DoneWith(p, ent)
      BY <2>1, <2>2 DEF Standing, Carried, DoneWith
    <2>4. QED
      BY <1>1, <2>1, <2>3 DEF PrefixOK
  <1>2. CASE o.ids # << >>
    <2>1. /\ p.kind = o.kind /\ p.from = o.from /\ p.batch = o.batch /\ p.ids = Tail(o.ids)
          /\ p.id = Head(o.ids) /\ p.made = o.made /\ p.stage = "get"
      BY <1>2 DEF Turn, Shaped
    <2>2. Len(Tail(o.ids)) = Len(o.ids) - 1 /\ Len(o.ids) >= 1
      BY <1>2 DEF Shaped
    <2>3. At(p) = At(o) + 1 /\ At(o) \in Int
      <3>1. At(p) = Len(o.batch) - Len(Tail(o.ids))
        BY <2>1 DEF At
      <3>2. QED
        BY <1>0, <2>2, <3>1 DEF Shaped
    <2>4. Standing(p)
      <3>1. At(p) >= 1
        BY <2>3 DEF Standing
      <3>2. Head(o.ids) = o.ids[1] /\ o.ids[1] = o.batch[At(o) + 1]
        BY <1>0, <1>2, <2>2 DEF Standing, Shaped
      <3>3. ASSUME NEW j \in 1..Len(p.ids) PROVE p.ids[j] = p.batch[At(p) + j]
        <4>1. j \in Nat /\ j + 1 \in 1..Len(o.ids) /\ j \in 1..Len(Tail(o.ids))
          BY <1>0, <2>1, <2>2 DEF Shaped
        <4>2. Tail(o.ids)[j] = o.ids[j + 1]
          BY <1>2, <4>1 DEF Shaped
        <4>3. o.ids[j + 1] = o.batch[At(o) + (j + 1)]
          BY <4>1 DEF Standing
        <4>4. At(o) + (j + 1) = At(p) + j
          BY <2>3, <4>1
        <4>5. QED
          BY <2>1, <4>2, <4>3, <4>4
      <3>4. QED
        BY <2>1, <2>3, <3>1, <3>2, <3>3 DEF Standing
    <2>5. Carried(p, con, ent)
      <3>1. ASSUME p.kind = "move", NEW j \in 1..(At(p) - 1)
            PROVE  p.batch[j] \notin ent[p.from]
        <4>1. j = At(o) \/ j \in 1..(At(o) - 1)
          BY <2>3
        <4>2. QED
          BY <2>1, <3>1, <4>1 DEF Carried, DoneWith
      <3>2. QED
        BY <2>1, <3>1 DEF Carried
    <2>6. Len(p.made) = At(p) - 1
      BY <1>0, <2>1, <2>3 DEF DoneWith, Shaped
    <2>7. QED
      BY <2>1, <2>4, <2>5, <2>6 DEF PrefixOK
  <1>3. QED
    BY <1>1, <1>2

LEMMA StepSteady ==
    ASSUME IInv, [Next]_vars
    PROVE  Steady
  <1>0. Known = 1..(nextId - 1) /\ nextId \in Nat /\ entry \in [Box -> SUBSET Known]
    BY DEF Known, IInv, FilesOK
  <1>1. ASSUME NEW c \in Client, Store(c) PROVE Steady
    <2>1. op[c].stage = "store" /\ op[c] \in Op
      BY <1>1 DEF Store, IInv, CallsOK
    <2>2. op[c].to \in Box
      BY <2>1 DEF Op, Idle, Transfers, Adding, Deleting, Flagging, Listing
    <2>3. nextId' = nextId + 1 /\ content' = Append(content, Body(op[c]))
          /\ entry' = [entry EXCEPT ![op[c].to] = @ \cup {nextId}]
      BY <1>1 DEF Store
    <2>4. Known \subseteq Known' /\ nextId \notin Known
      BY <1>0, <2>3 DEF Known
    <2>5. \A i \in Known : content'[i] = content[i]
      BY <1>0, <2>3 DEF IInv, FilesOK
    <2>6. \A b \in Box, i \in Known : i \in entry'[b] => i \in entry[b]
      BY <1>0, <2>3, <2>4
    <2>7. QED
      BY <2>4, <2>5, <2>6 DEF Steady
  <1>2. ASSUME NEW c \in Client, Remove(c) PROVE Steady
    BY <1>0, <1>2 DEF Remove, Steady, Known
  <1>3. ASSUME NEW b \in Box, CreateBox(b) \/ DeleteBox(b) PROVE Steady
    BY <1>0, <1>3 DEF CreateBox, DeleteBox, Steady, Known
  <1>4. CASE UNCHANGED <<entry, content, nextId>>
    BY <1>4 DEF Steady, Known
  <1>5. ASSUME NEW c \in Client,
               \/ Calls(c) \/ Interrupt(c) \/ Return(c)
               \/ Get(c) \/ SetFlags(c) \/ Look(c) \/ Write(c) \/ Names(c) \/ Read(c)
        PROVE  Steady
    <2>1. UNCHANGED <<entry, content, nextId>>
      BY <1>5 DEF Calls, BeginMove, BeginCopy, BeginAdd, BeginDelete, BeginFlags, BeginList,
                  Begin, Get, SetFlags, Look, Write, Names, Read, Interrupt, Return, store
    <2>2. QED
      BY <1>4, <2>1
  <1>6. CASE UNCHANGED vars
    BY <1>4, <1>6 DEF vars
  <1>7. QED
    BY <1>1, <1>2, <1>3, <1>5, <1>6 DEF Next, Step

\* A transfer of one client goes on, the others stay where they are.
LEMMA PrefixOne ==
    ASSUME IInv, PrefixInv, Steady, NEW c \in Client, NEW p,
           op' = [op EXCEPT ![c] = p], PrefixOK(p, content', entry')
    PROVE  PrefixInv'
  <1> SUFFICES ASSUME NEW d \in Client PROVE PrefixOK(op'[d], content', entry')
    BY DEF PrefixInv
  <1>1. op \in [Client -> Op]
    BY DEF IInv, CallsOK
  <1>2. CASE d = c
    BY <1>1, <1>2
  <1>3. CASE d # c
    <2>1. op'[d] = op[d] /\ op[d] \in Op /\ PrefixOK(op[d], content, entry)
      BY <1>1, <1>3 DEF PrefixInv
    <2>2. QED
      BY <2>1, PrefixStays
  <1>4. QED
    BY <1>2, <1>3

\* Where a transfer begins, it stands at the first id and has done nothing.
LEMMA PrefixBegin ==
    ASSUME IInv, NEW kind \in {"move", "copy"}, NEW from, NEW to, NEW ids \in Batch,
           \A k \in DOMAIN ids : ids[k] \in Known, NEW con, NEW ent
    PROVE  PrefixOK(Transfer(kind, from, to, ids), con, ent)
  <1> DEFINE p == Transfer(kind, from, to, ids)
  <1>1. ids \in Seq(Known) /\ ids # << >>
    BY BatchIds
  <1>2. /\ p.batch = ids /\ p.ids = Tail(ids) /\ p.id = Head(ids) /\ p.made = << >>
        /\ p.stage = "get" /\ p.kind = kind
    BY DEF Transfer
  <1>3. Len(Tail(ids)) = Len(ids) - 1 /\ Len(ids) \in Nat /\ Len(ids) >= 1
        /\ Head(ids) = ids[1]
    BY <1>1
  <1>4. At(p) = 1
    <2>1. At(p) = Len(ids) - Len(Tail(ids))
      BY <1>2 DEF At
    <2>2. QED
      BY <1>3, <2>1
  <1>5. ASSUME NEW j \in 1..Len(p.ids) PROVE p.ids[j] = p.batch[At(p) + j]
    <2>1. j \in 1..Len(Tail(ids)) /\ j + 1 \in 1..Len(ids)
      BY <1>2, <1>3
    <2>2. Tail(ids)[j] = ids[j + 1]
      BY <1>1, <2>1
    <2>3. QED
      BY <1>2, <1>4, <2>1, <2>2
  <1>6. Standing(p)
    BY <1>2, <1>3, <1>4, <1>5 DEF Standing
  <1>7. Carried(p, con, ent) /\ Len(p.made) = At(p) - 1
    BY <1>2, <1>4 DEF Carried
  <1>8. QED
    BY <1>2, <1>6, <1>7 DEF PrefixOK

\* A copy is stored: the message of the current id is among those made.
LEMMA PrefixStore ==
    ASSUME IInv, PrefixInv, Steady, NEW c \in Client, Store(c)
    PROVE  PrefixOK(AfterStore(op[c]), content', entry')
  <1> DEFINE o == op[c]
  <1>1. o.stage = "store" /\ o \in Op
    BY DEF Store, IInv, CallsOK
  <1>2. CASE o \in Adding
    BY <1>2 DEF AfterStore, PrefixOK, Adding
  <1>3. CASE o \in Transfers
    <2> DEFINE q == [o EXCEPT !.made = Append(@, nextId)]
    <2>1. PrefixOK(o, content', entry') /\ o.kind \in {"move", "copy"}
      BY <1>1, <1>3, PrefixStays DEF PrefixInv, Transfers
    <2>2. /\ Standing(o) /\ Carried(o, content', entry')
          /\ Len(o.made) = At(o) - 1
      BY <1>1, <2>1 DEF PrefixOK
    <2>3. /\ q.kind = o.kind /\ q.from = o.from /\ q.batch = o.batch /\ q.ids = o.ids
          /\ q.id = o.id /\ q.stage = o.stage /\ q.made = Append(o.made, nextId)
          /\ DOMAIN q = {"kind", "from", "to", "batch", "ids", "id", "made", "stage"}
      BY <1>3 DEF Transfers
    <2>4. At(q) = At(o) /\ At(o) \in Int /\ At(o) >= 1
      BY <1>3, <2>2, <2>3, TransferShape DEF At, Standing
    <2>5. Standing(q)
      BY <2>2, <2>3, <2>4 DEF Standing
    <2>6. Len(q.made) = At(q)
      BY <1>3, <2>2, <2>3, <2>4, TransferShape
    <2>7. nextId \in Known' /\ Known \subseteq Known'
      BY DEF Known, Store, IInv, FilesOK
    <2>8. content'[nextId] = content'[o.batch[At(o)]]
      <3>1. content'[nextId] = Body(o) /\ Body(o) = content[o.id]
        BY <1>3, <2>1 DEF Store, IInv, FilesOK, Body, Transfers
      <3>2. content'[o.id] = content[o.id] /\ o.id = o.batch[At(o)]
        BY <1>3, <2>2, TransferShape DEF Steady, Standing
      <3>3. QED
        BY <3>1, <3>2
    <2>9. ASSUME NEW j \in 1..Len(q.made) PROVE content'[q.made[j]] = content'[q.batch[j]]
      <3>1. j \in 1..Len(o.made) \/ j = Len(o.made) + 1
        BY <1>3, <2>3, TransferShape
      <3>2. CASE j \in 1..Len(o.made)
        <4>1. q.made[j] = o.made[j]
          BY <1>3, <2>3, <3>2, TransferShape
        <4>2. QED
          BY <2>2, <2>3, <3>2, <4>1 DEF Carried
      <3>3. CASE j = Len(o.made) + 1
        <4>1. q.made[j] = nextId
          BY <1>3, <2>3, <3>3, TransferShape
        <4>2. j = At(o)
          BY <1>3, <2>2, <2>4, <3>3, TransferShape
        <4>3. QED
          BY <2>3, <2>8, <4>1, <4>2
      <3>4. QED
        BY <3>1, <3>2, <3>3
    <2>10. Carried(q, content', entry')
      BY <2>2, <2>3, <2>4, <2>9 DEF Carried
    <2>11. CASE o.kind = "move"
      <3> DEFINE p == [q EXCEPT !.stage = "delete"]
      <3>1. AfterStore(o) = p
        BY <1>3, <2>11 DEF AfterStore, Transfers
      <3>2. /\ p.kind = q.kind /\ p.from = q.from /\ p.batch = q.batch /\ p.ids = q.ids
            /\ p.id = q.id /\ p.made = q.made /\ p.stage = "delete"
        BY <2>3
      <3>3. At(p) = At(q)
        BY <3>2 DEF At
      <3>4. Standing(p) /\ Carried(p, content', entry')
        BY <2>5, <2>10, <3>2, <3>3 DEF Standing, Carried
      <3>5. QED
        BY <2>6, <3>1, <3>2, <3>3, <3>4 DEF PrefixOK
    <2>12. CASE o.kind = "copy"
      <3>1. AfterStore(o) = Turn(q, "get")
        BY <2>12 DEF AfterStore
      <3>2. DoneWith(q, entry')
        BY <2>3, <2>6, <2>12 DEF DoneWith
      <3>3. /\ q.batch \in Seq(Known') /\ q.ids \in Seq(Known')
            /\ q.made \in Seq(Known')
        <4>1. /\ o.batch \in Seq(Known') /\ o.ids \in Seq(Known') /\ o.made \in Seq(Known')
          BY <1>3, <2>7, TransferShape
        <4>2. Append(o.made, nextId) \in Seq(Known')
          BY <2>7, <4>1
        <4>3. QED
          BY <2>3, <4>1, <4>2
      <3>4. Shaped(q, Known')
        BY <2>3, <3>3 DEF Shaped
      <3>5. q.kind \in {"move", "copy"}
        BY <2>1, <2>3
      <3>6. PrefixOK(Turn(q, "get"), content', entry')
        <4> HIDE DEF q
        <4>1. QED
          BY ONLY <2>5, <2>10, <3>2, <3>4, <3>5, PrefixTurn
      <3>7. QED
        BY <3>1, <3>6
    <2>13. QED
      BY <2>1, <2>11, <2>12
  <1>4. QED
    BY <1>1, <1>2, <1>3 DEF Op, Idle, Deleting, Flagging, Listing

\* The source of a move is gone: its id is done with.
LEMMA PrefixRemove ==
    ASSUME IInv, PrefixInv, Steady, NEW c \in Client, Remove(c)
    PROVE  PrefixInv'
  <1> DEFINE o == op[c]
  <1>1. o.stage = "delete" /\ o \in Transfers \cup Deleting
    BY AfterRemoveOK DEF Remove
  <1>2. PICK p \in Op : op' = [op EXCEPT ![c] = p]
    BY AfterRemoveOK
  <1>3. CASE o \in Deleting
    <2>1. op'[c].kind = "delete"
      BY <1>3 DEF Remove, IInv, CallsOK, Deleting
    <2>2. p.kind = "delete"
      BY <1>2, <2>1 DEF IInv, CallsOK
    <2>3. QED
      BY <1>2, <2>2, PrefixOne DEF PrefixOK
  <1>4. CASE o \in Transfers
    <2>1. o.kind = "move"
      BY <1>1, <1>4 DEF IInv, CallsOK, OpOK, Transfers
    <2>2. PrefixOK(o, content', entry')
      BY <1>4, PrefixStays DEF PrefixInv, Op
    <2>3. Standing(o) /\ Carried(o, content', entry') /\ Len(o.made) = At(o)
      BY <1>1, <2>1, <2>2 DEF PrefixOK
    <2>4. o.id \notin entry'[o.from]
      BY <1>4, TransferShape DEF Remove, IInv, FilesOK
    <2>5. DoneWith(o, entry')
      BY <2>3, <2>4 DEF DoneWith, Standing
    <2>6. DOMAIN o = {"kind", "from", "to", "batch", "ids", "id", "made", "stage"}
      BY <1>4 DEF Transfers
    <2>7. PrefixOK(Turn(o, "get"), content', entry')
      <3>1. Shaped(o, Known)
        BY <1>4, <2>6, TransferShape DEF Shaped
      <3>2. o.kind \in {"move", "copy"}
        BY <2>1
      <3>3. QED
        BY ONLY <2>3, <2>5, <3>1, <3>2, PrefixTurn
    <2>8. CASE op' = [op EXCEPT ![c] = Turn(o, "get")]
      BY <2>7, <2>8, PrefixOne
    <2>9. CASE op' = [op EXCEPT ![c].stage = "err"]
      <3> DEFINE q == [o EXCEPT !.stage = "err"]
      <3>1. /\ q.kind = o.kind /\ q.from = o.from /\ q.batch = o.batch /\ q.ids = o.ids
            /\ q.id = o.id /\ q.made = o.made /\ q.stage = "err"
        BY <1>4 DEF Transfers
      <3>2. At(q) = At(o)
        BY <3>1 DEF At
      <3>3. Standing(q) /\ Carried(q, content', entry')
        BY <2>3, <3>1, <3>2 DEF Standing, Carried
      <3>4. PrefixOK(q, content', entry')
        BY <2>3, <3>1, <3>2, <3>3 DEF PrefixOK
      <3>5. QED
        BY <2>9, <3>4, PrefixOne
    <2>10. QED
      BY <2>1, <2>8, <2>9 DEF Remove
  <1>5. QED
    BY <1>1, <1>3, <1>4

\* A transfer at another stage, with all else as it was.
LEMMA PrefixStage ==
    ASSUME NEW con, NEW ent, NEW o \in Transfers, PrefixOK(o, con, ent),
           NEW stage, \/ stage = "store" /\ o.stage = "get"
                      \/ stage = "err" /\ o.stage \in {"get", "store", "delete"}
    PROVE  PrefixOK([o EXCEPT !.stage = stage], con, ent)
  <1> DEFINE p == [o EXCEPT !.stage = stage]
  <1>1. /\ p.kind = o.kind /\ p.from = o.from /\ p.batch = o.batch /\ p.ids = o.ids
        /\ p.id = o.id /\ p.made = o.made /\ p.stage = stage
    BY DEF Transfers
  <1>2. At(p) = At(o)
    BY <1>1 DEF At
  <1>3. Standing(o) /\ Carried(o, con, ent) /\ Len(o.made) \in {At(o) - 1, At(o)}
        /\ (o.stage = "get" => Len(o.made) = At(o) - 1)
    BY DEF PrefixOK, Transfers
  <1>4. Standing(p) /\ Carried(p, con, ent)
    BY <1>1, <1>2, <1>3 DEF Standing, Carried
  <1>5. QED
    BY <1>1, <1>2, <1>3, <1>4 DEF PrefixOK

LEMMA PrefixNext == IInv /\ PrefixInv /\ [Next]_vars => PrefixInv'
  <1> SUFFICES ASSUME IInv, PrefixInv, [Next]_vars PROVE PrefixInv'
    OBVIOUS
  <1>1. Steady
    BY StepSteady
  <1>2. op \in [Client -> Op]
    BY DEF IInv, CallsOK
  <1>3. ASSUME NEW c \in Client, NEW from \in marked, NEW to \in marked, NEW ids \in Batch,
               \A k \in DOMAIN ids : ids[k] \in Known,
               BeginMove(c, from, to, ids) \/ BeginCopy(c, from, to, ids)
        PROVE  PrefixInv'
    <2>1. PICK kind \in {"move", "copy"} : op' = [op EXCEPT ![c] = Transfer(kind, from, to, ids)]
      BY <1>3 DEF BeginMove, BeginCopy, Begin
    <2>2. PrefixOK(Transfer(kind, from, to, ids), content', entry')
      BY <1>3, PrefixBegin
    <2>3. QED
      BY <1>1, <2>1, <2>2, PrefixOne
  <1>4. ASSUME NEW c \in Client, NEW p, op' = [op EXCEPT ![c] = p],
               p.kind \notin {"move", "copy"}
        PROVE  PrefixInv'
    BY <1>1, <1>4, PrefixOne DEF PrefixOK
  <1>5. ASSUME NEW c \in Client, Calls(c) PROVE PrefixInv'
    <2>1. CASE \E to \in marked, m \in Message, fs \in SUBSET Flag : BeginAdd(c, to, m, fs)
      BY <1>4, <2>1 DEF BeginAdd, Begin
    <2>2. CASE \E from \in marked, i \in Known : BeginDelete(c, from, i)
      BY <1>4, <2>2 DEF BeginDelete, Begin
    <2>3. CASE \E from \in marked, ids \in Batch, fs \in SUBSET Flag,
                  how \in {"add", "set", "remove"} : BeginFlags(c, from, ids, fs, how)
      BY <1>4, <2>3 DEF BeginFlags, Begin
    <2>4. CASE \E from \in marked, wanted \in SUBSET Message : BeginList(c, from, wanted)
      BY <1>4, <2>4 DEF BeginList, Begin
    <2>5. QED
      BY <1>3, <1>5, <2>1, <2>2, <2>3, <2>4 DEF Calls
  <1>6. ASSUME NEW c \in Client, Get(c) PROVE PrefixInv'
    <2>1. op[c].stage = "get" /\ op[c] \in Transfers
      BY <1>2, <1>6 DEF Get, Op, Idle, Adding, Deleting, Flagging, Listing
    <2>2. PICK stage \in {"store", "err"} : op' = [op EXCEPT ![c] = [op[c] EXCEPT !.stage = stage]]
      BY <1>6 DEF Get
    <2>3. PrefixOK(op[c], content', entry')
      BY <1>1, <2>1, PrefixStays DEF PrefixInv, Op
    <2>4. PrefixOK([op[c] EXCEPT !.stage = stage], content', entry')
      BY <2>1, <2>2, <2>3, PrefixStage
    <2>5. QED
      BY <1>1, <2>2, <2>4, PrefixOne
  <1>7. ASSUME NEW c \in Client, Store(c) PROVE PrefixInv'
    <2>1. op' = [op EXCEPT ![c] = AfterStore(op[c])]
      BY <1>7 DEF Store
    <2>2. QED
      BY <1>1, <1>7, <2>1, PrefixStore, PrefixOne
  <1>8. ASSUME NEW c \in Client, Remove(c) PROVE PrefixInv'
    BY <1>1, <1>8, PrefixRemove
  <1>9. ASSUME NEW c \in Client,
               SetFlags(c) \/ Look(c) \/ Write(c) \/ Names(c) \/ Read(c)
        PROVE  PrefixInv'
    <2>1. op[c] \in Adding \cup Flagging \cup Listing
      <3>1. op[c].stage \in {"set", "look", "write", "names", "read"}
        BY <1>9 DEF SetFlags, Look, Write, Names, Read
      <3>2. op[c] \in Op
        BY <1>2
      <3>3. QED
        BY <3>1, <3>2 DEF Op, Idle, Transfers, Deleting
    <2>2. op' = [op EXCEPT ![c] = op'[c]]
      BY <1>2, <1>9 DEF SetFlags, Look, Write, Names, Read
    <2>3. op'[c].kind = op[c].kind
      <3>1. CASE Write(c)
        <4>1. op[c] \in Flagging
          BY <1>2, <3>1 DEF Write, Op, Idle, Transfers, Adding, Deleting, Listing
        <4>2. op'[c] = Turn([op[c] EXCEPT !.line = op[c].flags],
                            IF op[c].how = "set" THEN "write" ELSE "look")
          BY <1>2, <3>1 DEF Write
        <4>3. QED
          BY <4>1, <4>2 DEF Turn, Flagging
      <3>2. CASE SetFlags(c)
        BY <1>2, <2>1, <3>2 DEF SetFlags, Adding, Flagging, Listing
      <3>3. CASE Look(c)
        BY <1>2, <2>1, <3>3 DEF Look, Adding, Flagging, Listing
      <3>4. CASE Names(c)
        BY <1>2, <2>1, <3>4 DEF Names, Adding, Flagging, Listing
      <3>5. CASE Read(c)
        BY <1>2, <2>1, <3>5 DEF Read, Adding, Flagging, Listing
      <3>6. QED
        BY <1>9, <3>1, <3>2, <3>3, <3>4, <3>5
    <2>4. PICK p : p = op'[c]
      OBVIOUS
    <2>5. op' = [op EXCEPT ![c] = p] /\ p.kind \notin {"move", "copy"}
      BY <2>1, <2>2, <2>3, <2>4 DEF Adding, Flagging, Listing
    <2>6. QED
      BY <1>4, <2>5
  <1>10. ASSUME NEW c \in Client, Interrupt(c) PROVE PrefixInv'
    <2> DEFINE p == [op[c] EXCEPT !.stage = "err"]
    <2>1. op' = [op EXCEPT ![c] = p] /\ op[c] \in Op /\ op[c].kind # "none"
      BY <1>2, <1>10 DEF Interrupt
    <2>2. CASE op[c] \in Transfers
      <3>1. PrefixOK(op[c], content', entry')
        BY <1>1, <2>1, PrefixStays DEF PrefixInv
      <3>2. op[c].stage \in {"get", "store", "delete"}
        BY <1>10, <2>2 DEF Interrupt, Transfers
      <3>3. PrefixOK(p, content', entry')
        BY <2>2, <3>1, <3>2, PrefixStage
      <3>4. QED
        BY <1>1, <2>1, <3>3, PrefixOne
    <2>3. CASE op[c] \notin Transfers
      <3>1. p.kind \notin {"move", "copy"}
        BY <2>1, <2>3 DEF Op, Idle, Adding, Deleting, Flagging, Listing
      <3>2. QED
        BY <1>4, <2>1, <3>1
    <2>4. QED
      BY <2>2, <2>3
  <1>11. ASSUME NEW c \in Client, Return(c) PROVE PrefixInv'
    <2>1. op' = [op EXCEPT ![c] = Idle] /\ Idle.kind \notin {"move", "copy"}
      BY <1>11 DEF Return, Idle
    <2>2. QED
      BY <1>4, <2>1
  <1>12. CASE op' = op
    BY <1>1, <1>2, <1>12, PrefixStays DEF PrefixInv
  <1>13. ASSUME NEW b \in Box, CreateBox(b) \/ DeleteBox(b) PROVE PrefixInv'
    BY <1>12, <1>13 DEF CreateBox, DeleteBox
  <1>14. CASE UNCHANGED vars
    BY <1>12, <1>14 DEF vars
  <1>15. QED
    BY <1>5, <1>6, <1>7, <1>8, <1>9, <1>10, <1>11, <1>13, <1>14 DEF Next, Step

LEMMA PrefixFollows == IInv /\ PrefixInv => TransferIsPrefix
  <1> SUFFICES ASSUME IInv, PrefixInv, NEW c \in Client, op[c].kind \in {"move", "copy"}
               PROVE  LET o == op[c] IN
                      /\ Len(o.made) <= Len(o.batch)
                      /\ \A k \in DOMAIN o.made : content[o.made[k]] = content[o.batch[k]]
                      /\ o.stage = "ok" =>
                             /\ Len(o.made) = Len(o.batch)
                             /\ o.kind = "move" =>
                                    \A k \in DOMAIN o.batch : o.batch[k] \notin entry[o.from]
    BY DEF TransferIsPrefix
  <1> DEFINE o == op[c]
  <1>1. o \in Transfers
    BY DEF IInv, CallsOK, Op, Idle, Adding, Deleting, Flagging, Listing
  <1>2. PrefixOK(o, content, entry) /\ Standing(o) /\ Carried(o, content, entry)
    BY DEF PrefixInv, PrefixOK
  <1>3. At(o) \in Int /\ At(o) >= 1 /\ At(o) <= Len(o.batch)
    BY <1>1, <1>2, TransferShape DEF Standing
  <1>4. Len(o.made) <= At(o)
    BY <1>1, <1>2, <1>3 DEF PrefixOK, DoneWith, Transfers
  <1>5. DOMAIN o.made = 1..Len(o.made) /\ DOMAIN o.batch = 1..Len(o.batch)
    BY <1>1, TransferShape
  <1>6. ASSUME o.stage = "ok"
        PROVE  /\ Len(o.made) = Len(o.batch)
               /\ o.kind = "move" => \A k \in DOMAIN o.batch : o.batch[k] \notin entry[o.from]
    <2>1. o.ids = << >> /\ DoneWith(o, entry)
      BY <1>2, <1>6 DEF PrefixOK
    <2>2. At(o) = Len(o.batch)
      BY <1>1, <2>1, TransferShape DEF At
    <2>3. ASSUME o.kind = "move", NEW k \in 1..Len(o.batch)
          PROVE  o.batch[k] \notin entry[o.from]
      <3>1. k = At(o) \/ k \in 1..(At(o) - 1)
        BY <1>3, <2>2
      <3>2. QED
        BY <1>2, <2>1, <2>3, <3>1 DEF Carried, DoneWith
    <2>4. QED
      BY <1>5, <2>1, <2>2, <2>3 DEF DoneWith
  <1>7. QED
    BY <1>1, <1>2, <1>3, <1>4, <1>5, <1>6, TransferShape DEF Carried

\* A move or a copy of several messages (message/m2dir/move.rs, copy.rs) ends with
\* the first id that fails: what it has made are the first messages of its batch, in
\* their order, and after a success all of them, with none left at the source of a
\* move, whatever other processes store and remove meanwhile.
THEOREM TransfersInOrder == Spec => []TransferIsPrefix
  <1>1. Init => IInv /\ PrefixInv
    BY InitInv DEF Init, PrefixInv, PrefixOK, Idle
  <1>2. IInv /\ PrefixInv /\ [Next]_vars => (IInv /\ PrefixInv)'
    BY NextInv, PrefixNext
  <1>3. IInv /\ PrefixInv => TransferIsPrefix
    BY PrefixFollows
  <1>4. QED
    BY <1>1, <1>2, <1>3, PTL DEF Spec
-----------------------------------------------------------------------------
(* The store the processes see. *)

LEMMA TaskIs ==
    ASSUME NEW o
    PROVE  /\ o.stage = "err" => TaskOf(o) = [kind |-> "failed"]
           /\ o.stage = "ok" /\ o.kind \notin {"none", "list"} => TaskOf(o) = [kind |-> "done"]
           /\ o.stage = "ok" /\ o.kind = "list" => TaskOf(o) = [kind |-> "listed", ids |-> o.found]
           /\ o.stage \notin {"ok", "err"} =>
              /\ o.kind \in {"move", "copy"} =>
                    TaskOf(o) = [kind |-> o.kind, step |-> o.stage, from |-> o.from,
                                 to |-> o.to, id |-> o.id, ids |-> o.ids]
              /\ o.kind = "add" /\ o.stage = "store" =>
                    TaskOf(o) = [kind |-> "add", to |-> o.to, body |-> o.body, flags |-> o.flags]
              /\ o.kind = "add" /\ o.stage = "set" =>
                    TaskOf(o) = [kind |-> "mark", to |-> o.to, id |-> o.made[1], flags |-> o.flags]
              /\ o.kind = "delete" =>
                    TaskOf(o) = [kind |-> "delete", from |-> o.from, id |-> o.id]
              /\ o.kind = "flags" =>
                    TaskOf(o) = [kind |-> "flags", from |-> o.from, id |-> o.id, ids |-> o.ids,
                                 flags |-> o.flags, how |-> o.how]
              /\ o.kind = "list" /\ o.stage = "names" =>
                    TaskOf(o) = [kind |-> "list", from |-> o.from]
              /\ o.kind = "list" /\ o.stage = "read" =>
                    TaskOf(o) = [kind |-> "shown", ids |-> o.names]
  <1>1. /\ o.stage = "err" => TaskOf(o) = [kind |-> "failed"]
        /\ o.stage = "ok" => TaskOf(o) = Outcome(o)
        /\ o.stage \notin {"ok", "err"} => TaskOf(o) = Ahead(o)
    BY DEF TaskOf
  <1>2. /\ o.kind \notin {"none", "list"} => Outcome(o) = [kind |-> "done"]
        /\ o.kind = "list" => Outcome(o) = [kind |-> "listed", ids |-> o.found]
    BY DEF Outcome
  <1>3. /\ o.kind \in {"move", "copy"} =>
              Ahead(o) = [kind |-> o.kind, step |-> o.stage, from |-> o.from,
                          to |-> o.to, id |-> o.id, ids |-> o.ids]
        /\ o.kind = "add" /\ o.stage = "store" =>
              Ahead(o) = [kind |-> "add", to |-> o.to, body |-> o.body, flags |-> o.flags]
        /\ o.kind = "add" /\ o.stage = "set" =>
              Ahead(o) = [kind |-> "mark", to |-> o.to, id |-> o.made[1], flags |-> o.flags]
    BY DEF Ahead
  <1>4. /\ o.kind = "delete" => Ahead(o) = [kind |-> "delete", from |-> o.from, id |-> o.id]
        /\ o.kind = "flags" =>
              Ahead(o) = [kind |-> "flags", from |-> o.from, id |-> o.id, ids |-> o.ids,
                          flags |-> o.flags, how |-> o.how]
    BY DEF Ahead
  <1>5. /\ o.kind = "list" /\ o.stage = "names" => Ahead(o) = [kind |-> "list", from |-> o.from]
        /\ o.kind = "list" /\ o.stage = "read" => Ahead(o) = [kind |-> "shown", ids |-> o.names]
    BY DEF Ahead
  <1>6. QED
    BY <1>1, <1>2, <1>3, <1>4, <1>5

LEMMA TaskMoves ==
    ASSUME CallsOK, NEW c \in Client, NEW o, op' = [op EXCEPT ![c] = o]
    PROVE  /\ Tasks[c] = TaskOf(op[c])
           /\ Tasks'[c] = TaskOf(o)
           /\ Tasks' = [Tasks EXCEPT ![c] = TaskOf(o)]
  <1>1. op \in [Client -> Op] /\ \A d \in Client : op'[d] = IF d = c THEN o ELSE op[d]
    BY DEF CallsOK
  <1>2. Tasks' = [d \in Client |-> TaskOf(op'[d])] /\ Tasks = [d \in Client |-> TaskOf(op[d])]
    BY DEF Tasks
  <1>3. \A d \in Client : TaskOf(op'[d]) = IF d = c THEN TaskOf(o) ELSE TaskOf(op[d])
    BY <1>1
  <1>4. Tasks' = [Tasks EXCEPT ![c] = TaskOf(o)]
    BY <1>2, <1>3
  <1>5. QED
    BY <1>1, <1>2, <1>4

LEMMA GivenIsKnown == FilesOK => Promised!Given = Known
BY DEF FilesOK, Promised!Given, Known

\* Sidecars without a file do not matter.
LEMMA MailStays ==
    ASSUME UNCHANGED entry, \A b \in Box : \A i \in entry[b] : meta'[b][i] = meta[b][i]
    PROVE  UNCHANGED Mail
  <1>1. ASSUME NEW b \in Box
        PROVE  {[id |-> i, flags |-> meta'[b][i]] : i \in entry'[b]}
                   = {[id |-> i, flags |-> meta[b][i]] : i \in entry[b]}
    OBVIOUS
  <1>2. QED
    BY <1>1 DEF Mail

LEMMA MailFlagged ==
    ASSUME FilesOK, NEW b \in Box, NEW i \in Known, NEW fs, UNCHANGED entry,
           meta' = [meta EXCEPT ![b][i] = fs]
    PROVE  Promised!Flagged(b, i, fs)
  <1> DEFINE new(m) == IF m.id = i THEN [m EXCEPT !.flags = fs] ELSE m
  <1>1. \A d \in Box : \A j \in Id : meta'[d][j] = IF d = b /\ j = i THEN fs ELSE meta[d][j]
    BY KnownIds DEF FilesOK
  <1>2. entry[b] \subseteq Id
    BY KnownIds DEF FilesOK
  <1>3. \A j \in entry[b] : [id |-> j, flags |-> meta'[b][j]] = new([id |-> j, flags |-> meta[b][j]])
    BY <1>1, <1>2
  <1> HIDE DEF new
  <1>4. {[id |-> j, flags |-> meta'[b][j]] : j \in entry[b]} =
           {new(m) : m \in {[id |-> j, flags |-> meta[b][j]] : j \in entry[b]}}
    BY <1>3
  <1>5. \A d \in Box : d # b => Mail'[d] = Mail[d]
    <2> SUFFICES ASSUME NEW d \in Box, d # b PROVE Mail'[d] = Mail[d]
      OBVIOUS
    <2>1. entry[d] \subseteq Id
      BY KnownIds DEF FilesOK
    <2>2. \A j \in entry[d] : meta'[d][j] = meta[d][j]
      BY <1>1, <2>1
    <2>3. QED
      BY <2>2 DEF Mail
  <1>6. Mail'[b] = {new(m) : m \in Mail[b]}
    BY <1>4 DEF Mail
  <1>7. Mail' = [Mail EXCEPT ![b] = {new(m) : m \in Mail[b]}]
    <2>1. Mail = [d \in Box |-> Mail[d]] /\ Mail' = [d \in Box |-> Mail'[d]]
      BY DEF Mail
    <2>2. QED
      BY <1>5, <1>6, <2>1
  <1>8. QED
    BY <1>7 DEF new, Promised!Flagged

LEMMA MailGoes ==
    ASSUME FilesOK, NEW b \in Box, NEW i \in Known, entry' = [entry EXCEPT ![b] = @ \ {i}],
           meta' = [meta EXCEPT ![b][i] = {}]
    PROVE  Promised!Goes(b, i)
  <1>1. \A d \in Box : \A j \in Id : d # b \/ j # i => meta'[d][j] = meta[d][j]
    BY KnownIds DEF FilesOK
  <1>2. \A d \in Box : entry[d] \subseteq Id /\ entry'[d] = IF d = b THEN entry[b] \ {i} ELSE entry[d]
    BY KnownIds DEF FilesOK
  <1>3. \A d \in Box : d # b => Mail'[d] = Mail[d]
    <2> SUFFICES ASSUME NEW d \in Box, d # b PROVE Mail'[d] = Mail[d]
      OBVIOUS
    <2>1. entry'[d] = entry[d] /\ \A j \in entry[d] : meta'[d][j] = meta[d][j]
      BY <1>1, <1>2
    <2>2. QED
      BY <2>1 DEF Mail
  <1>4. Mail'[b] = {m \in Mail[b] : m.id # i}
    <2>1. \A j \in entry[b] \ {i} : meta'[b][j] = meta[b][j]
      BY <1>1, <1>2
    <2>2. {[id |-> j, flags |-> meta'[b][j]] : j \in entry[b] \ {i}}
              = {[id |-> j, flags |-> meta[b][j]] : j \in entry[b] \ {i}}
      BY <2>1
    <2>3. {[id |-> j, flags |-> meta[b][j]] : j \in entry[b] \ {i}}
              = {m \in {[id |-> j, flags |-> meta[b][j]] : j \in entry[b]} : m.id # i}
      OBVIOUS
    <2>4. QED
      BY <1>2, <2>2, <2>3 DEF Mail
  <1>5. Mail = [d \in Box |-> Mail[d]] /\ Mail' = [d \in Box |-> Mail'[d]]
    BY DEF Mail
  <1>6. Mail' = [Mail EXCEPT ![b] = {m \in Mail[b] : m.id # i}]
    BY <1>3, <1>4, <1>5
  <1>7. QED
    BY <1>6 DEF Promised!Goes

\* A call that fails, wherever it is.
LEMMA FailMaps ==
    ASSUME CallsOK, NEW c \in Client, NEW o, op' = [op EXCEPT ![c] = o],
           op[c].kind # "none", op[c].stage \notin {"ok", "err"}, o.stage = "err",
           UNCHANGED <<Mail, content, marked>>
    PROVE  Promised!Fail(c)
  <1> DEFINE t == TaskOf(op[c])
  <1>1. Tasks[c] = t /\ Tasks' = [Tasks EXCEPT ![c] = TaskOf(o)]
    BY TaskMoves
  <1>2. t.kind \notin {"none", "done", "failed", "listed"}
    <2>1. CASE op[c] \in Transfers
      <3>1. op[c].kind \in {"move", "copy"}
        BY <2>1 DEF Transfers
      <3>2. t.kind = op[c].kind
        BY <3>1, TaskIs
      <3>3. QED
        BY <3>1, <3>2
    <2>2. CASE op[c] \in Adding
      <3>1. op[c].kind = "add" /\ op[c].stage \in {"store", "set"}
        BY <2>2 DEF Adding
      <3>2. t.kind \in {"add", "mark"}
        BY <3>1, TaskIs
      <3>3. QED
        BY <3>2
    <2>3. CASE op[c] \in Deleting \cup Flagging
      <3>1. op[c].kind \in {"delete", "flags"}
        BY <2>3 DEF Deleting, Flagging
      <3>2. t.kind = op[c].kind
        BY <3>1, TaskIs
      <3>3. QED
        BY <3>1, <3>2
    <2>4. CASE op[c] \in Listing
      <3>1. op[c].kind = "list" /\ op[c].stage \in {"names", "read"}
        BY <2>4 DEF Listing
      <3>2. t.kind \in {"list", "shown"}
        BY <3>1, TaskIs
      <3>3. QED
        BY <3>2
    <2>5. QED
      BY <2>1, <2>2, <2>3, <2>4 DEF CallsOK, Op, Idle
  <1>3. TaskOf(o) = [kind |-> "failed"]
    BY TaskIs
  <1>4. QED
    BY <1>1, <1>2, <1>3 DEF Promised!Fail, Promised!Failed

\* A call that begins asks for what the store may be asked for.
LEMMA BeginMaps ==
    ASSUME IInv, NEW c \in Client, NEW o, op[c].kind = "none", Begin(c, o),
           TaskOf(o) \in Promised!Task
    PROVE  Promised!Ask(c)
  <1>1. op[c] = Idle
    BY DEF IInv, CallsOK, Op, Transfers, Adding, Deleting, Flagging, Listing
  <1>2. op' = [op EXCEPT ![c] = o] /\ UNCHANGED <<Mail, content, marked>>
    BY DEF Begin, store, Mail
  <1>3. /\ Tasks[c] = TaskOf(op[c]) /\ Tasks'[c] = TaskOf(o)
        /\ Tasks' = [Tasks EXCEPT ![c] = TaskOf(o)]
    BY <1>2, TaskMoves DEF IInv
  <1>4. TaskOf(Idle) = [kind |-> "none"]
    BY DEF TaskOf, Outcome, Idle
  <1>5. QED
    BY <1>1, <1>2, <1>3, <1>4 DEF Promised!Ask, Promised!Idle

LEMMA CallsMap ==
    ASSUME IInv, NEW c \in Client, Calls(c)
    PROVE  Promised!Ask(c)
  <1>0. Promised!Given = Known /\ op[c].kind = "none"
    BY GivenIsKnown DEF IInv, Calls
  <1>1. ASSUME NEW from \in marked, NEW to \in marked, NEW ids \in Batch,
               \A k \in DOMAIN ids : ids[k] \in Known,
               BeginMove(c, from, to, ids) \/ BeginCopy(c, from, to, ids)
        PROVE  Promised!Ask(c)
    <2>1. Head(ids) \in Known /\ Tail(ids) \in Seq(Known)
      BY <1>1, BatchIds
    <2>2. ASSUME NEW kind \in {"move", "copy"}
          PROVE  TaskOf(Transfer(kind, from, to, ids)) \in Promised!Task
      <3>1. TaskOf(Transfer(kind, from, to, ids)) =
                [kind |-> kind, step |-> "get", from |-> from, to |-> to,
                 id |-> Head(ids), ids |-> Tail(ids)]
        <4> DEFINE o == Transfer(kind, from, to, ids)
        <4>1. /\ o.kind = kind /\ o.stage = "get" /\ o.from = from /\ o.to = to
              /\ o.id = Head(ids) /\ o.ids = Tail(ids)
          BY DEF Transfer
        <4> HIDE DEF o
        <4>2. TaskOf(o) = [kind |-> o.kind, step |-> o.stage, from |-> o.from, to |-> o.to,
                           id |-> o.id, ids |-> o.ids]
          BY <4>1, TaskIs
        <4>3. QED
          BY <4>1, <4>2 DEF o
      <3>2. QED
        BY <1>0, <2>1, <3>1 DEF Promised!Task
    <2>3. QED
      BY <1>0, <1>1, <2>2, BeginMaps DEF BeginMove, BeginCopy
  <1>2. ASSUME NEW to \in marked, NEW m \in Message, NEW fs \in SUBSET Flag,
               BeginAdd(c, to, m, fs)
        PROVE  Promised!Ask(c)
    <2> DEFINE o == [kind |-> "add", to |-> to, body |-> m, flags |-> fs,
                     stage |-> "store", made |-> << >>]
    <2>1. TaskOf(o) = [kind |-> "add", to |-> to, body |-> m, flags |-> fs]
      BY TaskIs
    <2>2. TaskOf(o) \in Promised!Task
      BY <2>1 DEF Promised!Task
    <2> HIDE DEF o
    <2>3. Begin(c, o)
      BY <1>2 DEF BeginAdd, o
    <2>4. QED
      BY <1>0, <2>2, <2>3, BeginMaps
  <1>3. ASSUME NEW from \in marked, NEW i \in Known, BeginDelete(c, from, i)
        PROVE  Promised!Ask(c)
    <2> DEFINE o == [kind |-> "delete", from |-> from, id |-> i, stage |-> "delete"]
    <2>1. TaskOf(o) = [kind |-> "delete", from |-> from, id |-> i]
      BY TaskIs
    <2>2. TaskOf(o) \in Promised!Task
      BY <1>0, <2>1 DEF Promised!Task
    <2> HIDE DEF o
    <2>3. Begin(c, o)
      BY <1>3 DEF BeginDelete, o
    <2>4. QED
      BY <1>0, <2>2, <2>3, BeginMaps
  <1>4. ASSUME NEW from \in marked, NEW ids \in Batch, NEW fs \in SUBSET Flag,
               NEW how \in {"add", "set", "remove"},
               \A k \in DOMAIN ids : ids[k] \in Known, BeginFlags(c, from, ids, fs, how)
        PROVE  Promised!Ask(c)
    <2> DEFINE o == [kind |-> "flags", from |-> from, ids |-> Tail(ids), id |-> Head(ids),
                     flags |-> fs, line |-> fs, how |-> how,
                     stage |-> IF how = "set" THEN "write" ELSE "look"]
    <2>1. Head(ids) \in Known /\ Tail(ids) \in Seq(Known)
      BY <1>4, BatchIds
    <2>2. TaskOf(o) = [kind |-> "flags", from |-> from, id |-> Head(ids), ids |-> Tail(ids),
                       flags |-> fs, how |-> how]
      <3>1. /\ o.kind = "flags" /\ o.stage \in {"look", "write"} /\ o.from = from
            /\ o.id = Head(ids) /\ o.ids = Tail(ids) /\ o.flags = fs /\ o.how = how
        OBVIOUS
      <3> HIDE DEF o
      <3>2. TaskOf(o) = [kind |-> "flags", from |-> o.from, id |-> o.id, ids |-> o.ids,
                         flags |-> o.flags, how |-> o.how]
        BY <3>1, TaskIs
      <3>3. QED
        BY <3>1, <3>2
    <2> HIDE DEF o
    <2>3. TaskOf(o) \in [kind : {"flags"}, from : marked, id : Known, ids : Seq(Known),
                         flags : SUBSET Flag, how : {"add", "set", "remove"}]
      BY <2>1, <2>2
    <2>4. TaskOf(o) \in Promised!Task
      BY <1>0, <2>3 DEF Promised!Task
    <2>5. Begin(c, o)
      BY <1>4 DEF BeginFlags, o
    <2>6. QED
      BY <1>0, <2>4, <2>5, BeginMaps
  <1>5. ASSUME NEW from \in marked, NEW wanted \in SUBSET Message, BeginList(c, from, wanted)
        PROVE  Promised!Ask(c)
    <2> DEFINE o == [kind |-> "list", from |-> from, wanted |-> wanted, stage |-> "names",
                     names |-> {}, todo |-> {}, found |-> {}]
    <2>1. TaskOf(o) = [kind |-> "list", from |-> from]
      BY TaskIs
    <2>2. TaskOf(o) \in Promised!Task
      BY <2>1 DEF Promised!Task
    <2> HIDE DEF o
    <2>3. Begin(c, o)
      BY <1>5 DEF BeginList, o
    <2>4. QED
      BY <1>0, <2>2, <2>3, BeginMaps
  <1>6. QED
    BY <1>1, <1>2, <1>3, <1>4, <1>5 DEF Calls

\* A batch goes on to its next id, or is done.
LEMMA TransferRests ==
    ASSUME NEW o \in Transfers, NEW made
    PROVE  TaskOf(Turn([o EXCEPT !.made = made], "get")) =
               Promised!Rest([kind |-> o.kind, step |-> "get", from |-> o.from, to |-> o.to,
                              id |-> o.id, ids |-> o.ids])
  <1> DEFINE q == [o EXCEPT !.made = made]
             p == Turn(q, "get")
             t == [kind |-> o.kind, step |-> "get", from |-> o.from, to |-> o.to,
                   id |-> o.id, ids |-> o.ids]
  <1>1. /\ q.kind = o.kind /\ q.from = o.from /\ q.to = o.to /\ q.ids = o.ids
        /\ o.kind \in {"move", "copy"}
    BY DEF Transfers
  <1>2. CASE o.ids = << >>
    <2>1. p.stage = "ok" /\ p.kind = o.kind
      BY <1>1, <1>2 DEF Turn, Transfers
    <2>2. TaskOf(p) = [kind |-> "done"]
      BY <1>1, <2>1, TaskIs
    <2>3. QED
      BY <1>2, <2>2 DEF Promised!Rest, Promised!Done
  <1>3. CASE o.ids # << >>
    <2>1. /\ p.kind = o.kind /\ p.from = o.from /\ p.to = o.to /\ p.stage = "get"
          /\ p.id = Head(o.ids) /\ p.ids = Tail(o.ids)
      BY <1>1, <1>3 DEF Turn, Transfers
    <2> HIDE DEF p
    <2>2. TaskOf(p) = [kind |-> o.kind, step |-> "get", from |-> o.from, to |-> o.to,
                       id |-> Head(o.ids), ids |-> Tail(o.ids)]
      BY <1>1, <2>1, TaskIs
    <2>3. Promised!Rest(t) = [t EXCEPT !.id = Head(o.ids), !.ids = Tail(o.ids)]
      BY <1>3 DEF Promised!Rest
    <2>4. PICK e, u, v : e = o /\ u = t /\ v = Promised!Rest(t)
      OBVIOUS
    <2>5. v = [u EXCEPT !.id = Head(e.ids), !.ids = Tail(e.ids)]
      BY <2>3, <2>4
    <2>6. u = [kind |-> e.kind, step |-> "get", from |-> e.from, to |-> e.to,
               id |-> e.id, ids |-> e.ids]
      BY <2>4
    <2>7. v = [kind |-> e.kind, step |-> "get", from |-> e.from, to |-> e.to,
               id |-> Head(e.ids), ids |-> Tail(e.ids)]
      BY ONLY <2>5, <2>6
    <2>8. QED
      BY <2>2, <2>4, <2>7 DEF p
  <1>4. QED
    BY <1>2, <1>3

LEMMA FlagsRest ==
    ASSUME NEW o \in Flagging, NEW stage \in {"look", "write"}, NEW line
    PROVE  TaskOf(Turn([o EXCEPT !.line = line], stage)) =
               Promised!Rest([kind |-> "flags", from |-> o.from, id |-> o.id, ids |-> o.ids,
                              flags |-> o.flags, how |-> o.how])
  <1> DEFINE q == [o EXCEPT !.line = line]
             p == Turn(q, stage)
             t == [kind |-> "flags", from |-> o.from, id |-> o.id, ids |-> o.ids,
                   flags |-> o.flags, how |-> o.how]
  <1>1. /\ q.kind = "flags" /\ q.from = o.from /\ q.ids = o.ids
        /\ q.flags = o.flags /\ q.how = o.how
    BY DEF Flagging
  <1>2. CASE o.ids = << >>
    <2>1. p.stage = "ok" /\ p.kind = "flags"
      BY <1>1, <1>2 DEF Turn, Flagging
    <2>2. TaskOf(p) = [kind |-> "done"]
      BY <1>1, <2>1, TaskIs
    <2>3. QED
      BY <1>2, <2>2 DEF Promised!Rest, Promised!Done
  <1>3. CASE o.ids # << >>
    <2>1. /\ p.kind = "flags" /\ p.from = o.from /\ p.flags = o.flags /\ p.how = o.how
          /\ p.stage = stage /\ p.id = Head(o.ids) /\ p.ids = Tail(o.ids)
      BY <1>1, <1>3 DEF Turn, Flagging
    <2> HIDE DEF p
    <2>2. TaskOf(p) = [kind |-> "flags", from |-> o.from, id |-> Head(o.ids),
                       ids |-> Tail(o.ids), flags |-> o.flags, how |-> o.how]
      BY <1>1, <2>1, TaskIs
    <2>3. Promised!Rest(t) = [t EXCEPT !.id = Head(o.ids), !.ids = Tail(o.ids)]
      BY <1>3 DEF Promised!Rest
    <2>4. PICK e, u, v : e = o /\ u = t /\ v = Promised!Rest(t)
      OBVIOUS
    <2>5. v = [u EXCEPT !.id = Head(e.ids), !.ids = Tail(e.ids)]
      BY <2>3, <2>4
    <2>6. u = [kind |-> "flags", from |-> e.from, id |-> e.id, ids |-> e.ids,
               flags |-> e.flags, how |-> e.how]
      BY <2>4
    <2>7. v = [kind |-> "flags", from |-> e.from, id |-> Head(e.ids), ids |-> Tail(e.ids),
               flags |-> e.flags, how |-> e.how]
      BY ONLY <2>5, <2>6
    <2>8. QED
      BY <2>2, <2>4, <2>7 DEF p
  <1>4. QED
    BY <1>2, <1>3

\* An entry is found, or the call fails.
LEMMA GetMaps ==
    ASSUME IInv, NEW c \in Client, Get(c)
    PROVE  Promised!Step(c)
  <1> DEFINE o == op[c]
             p == [o EXCEPT !.stage = IF o.id \in entry[o.from] THEN "store" ELSE "err"]
  <1>1. o.stage = "get" /\ op' = [op EXCEPT ![c] = p] /\ UNCHANGED <<entry, meta, content, marked>>
    BY DEF Get, store
  <1>2. o \in Transfers /\ CallsOK
    BY <1>1 DEF IInv, CallsOK, Op, Idle, Adding, Deleting, Flagging, Listing
  <1>3. /\ o.from \in Box /\ o.kind \in {"move", "copy"} /\ p.kind = o.kind /\ p.from = o.from
        /\ p.to = o.to /\ p.id = o.id /\ p.ids = o.ids
        /\ p.stage = IF o.id \in entry[o.from] THEN "store" ELSE "err"
    BY <1>2 DEF Transfers
  <1>4. UNCHANGED <<Mail, content, marked>>
    BY <1>1 DEF Mail
  <1> HIDE DEF p
  <1>5. CASE o.id \notin entry[o.from]
    <2>1. p.stage = "err"
      BY <1>3, <1>5
    <2>2. Promised!Fail(c)
      BY <1>1, <1>2, <1>3, <1>4, <2>1, FailMaps
    <2>3. QED
      BY <2>2 DEF Promised!Step
  <1>6. CASE o.id \in entry[o.from]
    <2>1. Tasks[c] = TaskOf(o) /\ Tasks' = [Tasks EXCEPT ![c] = TaskOf(p)]
      BY <1>1, <1>2, TaskMoves
    <2>2. TaskOf(o) = [kind |-> o.kind, step |-> "get", from |-> o.from, to |-> o.to,
                       id |-> o.id, ids |-> o.ids]
      BY <1>1, <1>3, TaskIs
    <2>3. TaskOf(p) = [kind |-> o.kind, step |-> "store", from |-> o.from, to |-> o.to,
                       id |-> o.id, ids |-> o.ids]
      BY <1>3, <1>6, TaskIs
    <2>4. TaskOf(p) = [TaskOf(o) EXCEPT !.step = "store"]
      BY <2>2, <2>3
    <2>5. \E m \in Mail[o.from] : m.id = o.id
      <3>1. [id |-> o.id, flags |-> meta[o.from][o.id]] \in Mail[o.from]
        BY <1>3, <1>6 DEF Mail
      <3>2. QED
        BY <3>1
    <2>6. Promised!Find(c)
      BY <1>3, <1>4, <2>1, <2>2, <2>4, <2>5 DEF Promised!Find
    <2>7. QED
      BY <2>6 DEF Promised!Step
  <1>7. QED
    BY <1>5, <1>6

\* A new id appears, without flags.
LEMMA AppearsIn ==
    ASSUME IInv, NEW c \in Client, Store(c)
    PROVE  Promised!Appears(op[c].to, nextId, Body(op[c])) /\ nextId \in Id /\ UNCHANGED marked
  <1> DEFINE o == op[c]
  <1>1. /\ o.stage = "store" /\ nextId <= MaxId /\ UNCHANGED <<meta, marked>>
        /\ entry' = [entry EXCEPT ![o.to] = @ \cup {nextId}]
        /\ content' = Append(content, Body(o))
    BY DEF Store
  <1>2. o.to \in Box
    BY <1>1 DEF IInv, CallsOK, Op, Idle, Transfers, Adding, Deleting, Flagging, Listing
  <1>3. nextId \in Id /\ nextId \notin Known
    BY <1>1, KnownIds, StoreAssumption DEF IInv, FilesOK, Id
  <1>4. content' = [j \in Known \cup {nextId} |-> IF j = nextId THEN Body(o) ELSE content[j]]
    BY <1>1 DEF IInv, FilesOK, Known
  <1>5. Mail' = [Mail EXCEPT ![o.to] = @ \cup {[id |-> nextId, flags |-> {}]}]
    <2>1. meta'[o.to][nextId] = {}
      BY <1>1, <1>2, <1>3 DEF IInv, FilesOK
    <2>2. \A d \in Box : entry'[d] = IF d = o.to THEN entry[d] \cup {nextId} ELSE entry[d]
      BY <1>1 DEF IInv, FilesOK
    <2>3. Mail'[o.to] = Mail[o.to] \cup {[id |-> nextId, flags |-> {}]}
      <3>1. \A m : m \in Mail[o.to] <=> \E i \in entry[o.to] : m = [id |-> i, flags |-> meta[o.to][i]]
        BY <1>2 DEF Mail
      <3>2. \A m : m \in Mail'[o.to] <=>
                \E i \in entry[o.to] \cup {nextId} : m = [id |-> i, flags |-> meta[o.to][i]]
        BY <1>1, <1>2, <2>2 DEF Mail
      <3>3. \A m : m \in Mail'[o.to] <=>
                m \in Mail[o.to] \/ m = [id |-> nextId, flags |-> meta[o.to][nextId]]
        BY <3>1, <3>2
      <3>4. meta[o.to][nextId] = {}
        BY <1>1, <2>1
      <3>5. QED
        BY <3>3, <3>4
    <2>4. \A d \in Box : d # o.to => Mail'[d] = Mail[d]
      BY <1>1, <2>2 DEF Mail
    <2>5. Mail = [d \in Box |-> Mail[d]] /\ Mail' = [d \in Box |-> Mail'[d]]
      BY DEF Mail
    <2>6. QED
      BY <1>2, <2>3, <2>4, <2>5
  <1>6. QED
    BY <1>1, <1>3, <1>4, <1>5, GivenIsKnown DEF Promised!Appears, IInv

LEMMA StoreMaps ==
    ASSUME IInv, NEW c \in Client, Store(c)
    PROVE  Promised!Step(c)
  <1> DEFINE o == op[c]
             p == AfterStore(o)
  <1>1. o.stage = "store" /\ op' = [op EXCEPT ![c] = p] /\ CallsOK
    BY DEF Store, IInv
  <1>2. o \in Transfers \cup Adding
    BY <1>1 DEF CallsOK, Op, Idle, Deleting, Flagging, Listing
  <1>3. Tasks[c] = TaskOf(o) /\ Tasks' = [Tasks EXCEPT ![c] = TaskOf(p)]
    BY <1>1, TaskMoves
  <1>4. CASE o \in Transfers
    <2> DEFINE t == TaskOf(o)
    <2>1. o.kind \in {"move", "copy"} /\ Body(o) = content[o.id]
      BY <1>4 DEF Transfers, Body
    <2>2. t = [kind |-> o.kind, step |-> "store", from |-> o.from, to |-> o.to,
               id |-> o.id, ids |-> o.ids]
      BY <1>1, <2>1, TaskIs
    <2>3. [t EXCEPT !.step = "get"] = [kind |-> o.kind, step |-> "get", from |-> o.from,
                                       to |-> o.to, id |-> o.id, ids |-> o.ids]
      BY <2>2
    <2>4. [t EXCEPT !.step = "delete"] = [kind |-> o.kind, step |-> "delete", from |-> o.from,
                                          to |-> o.to, id |-> o.id, ids |-> o.ids]
      BY <2>2
    <2>5. TaskOf(p) = IF o.kind = "move" THEN [t EXCEPT !.step = "delete"]
                      ELSE Promised!Rest([t EXCEPT !.step = "get"])
      <3>1. CASE o.kind = "move"
        <4>1. p = [o EXCEPT !.stage = "delete", !.made = Append(@, nextId)]
          BY <3>1 DEF AfterStore
        <4>2. /\ p.kind = "move" /\ p.stage = "delete" /\ p.from = o.from /\ p.to = o.to
              /\ p.id = o.id /\ p.ids = o.ids
          BY <1>4, <3>1, <4>1 DEF Transfers
        <4> HIDE DEF p
        <4>3. TaskOf(p) = [kind |-> p.kind, step |-> p.stage, from |-> p.from, to |-> p.to,
                           id |-> p.id, ids |-> p.ids]
          BY <4>2, TaskIs
        <4>4. QED
          BY <2>4, <3>1, <4>2, <4>3
      <3>2. CASE o.kind = "copy"
        <4>1. p = Turn([o EXCEPT !.made = Append(o.made, nextId)], "get")
          BY <3>2 DEF AfterStore
        <4>2. QED
          BY <1>4, <2>3, <3>2, <4>1, TransferRests
      <3>3. QED
        BY <2>1, <3>1, <3>2
    <2>6. t.kind = o.kind /\ t.step = "store" /\ t.to = o.to /\ t.id = o.id
      BY <2>2
    <2> HIDE DEF t, p
    <2>7. Promised!Put(c)
      BY <1>3, <2>1, <2>5, <2>6, AppearsIn DEF Promised!Put, t
    <2>8. QED
      BY <2>7 DEF Promised!Step
  <1>5. CASE o \in Adding
    <2>1. o.kind = "add" /\ Body(o) = o.body
      BY <1>5 DEF Adding, Body
    <2>2. p = [o EXCEPT !.stage = IF o.flags = {} THEN "ok" ELSE "set", !.made = <<nextId>>]
      BY <2>1 DEF AfterStore
    <2>3. /\ p.kind = "add" /\ p.stage = (IF o.flags = {} THEN "ok" ELSE "set")
          /\ p.made = <<nextId>> /\ p.to = o.to /\ p.flags = o.flags
      BY <1>5, <2>1, <2>2 DEF Adding
    <2> HIDE DEF p
    <2>4. TaskOf(o) = [kind |-> "add", to |-> o.to, body |-> o.body, flags |-> o.flags]
      BY <1>1, <2>1, TaskIs
    <2>5. TaskOf(p) = IF o.flags = {} THEN [kind |-> "done"]
                      ELSE [kind |-> "mark", to |-> o.to, id |-> nextId, flags |-> o.flags]
      <3>1. CASE o.flags = {}
        BY <2>3, <3>1, TaskIs
      <3>2. CASE o.flags # {}
        <4>1. p.stage = "set" /\ p.kind = "add" /\ p.made[1] = nextId
          BY <2>3, <3>2
        <4>2. TaskOf(p) = [kind |-> "mark", to |-> p.to, id |-> p.made[1], flags |-> p.flags]
          BY <4>1, TaskIs
        <4>3. QED
          BY <2>3, <3>2, <4>1, <4>2
      <3>3. QED
        BY <3>1, <3>2
    <2>6. Promised!Add(c)
      BY <1>3, <2>1, <2>4, <2>5, AppearsIn DEF Promised!Add, Promised!Done
    <2>7. QED
      BY <2>6 DEF Promised!Step
  <1>6. QED
    BY <1>2, <1>4, <1>5

LEMMA SetFlagsMaps ==
    ASSUME IInv, NEW c \in Client, SetFlags(c)
    PROVE  Promised!Step(c)
  <1> DEFINE o == op[c]
             p == [o EXCEPT !.stage = "ok"]
  <1>1. /\ o.stage = "set" /\ op' = [op EXCEPT ![c] = p] /\ CallsOK
        /\ meta' = [meta EXCEPT ![o.to][o.made[1]] = o.flags]
        /\ UNCHANGED <<entry, content, marked>>
    BY DEF SetFlags, IInv
  <1>2. o \in Adding /\ Len(o.made) = 1
    BY <1>1 DEF CallsOK, OpOK, Op, Idle, Transfers, Deleting, Flagging, Listing
  <1>3. o.made[1] \in Known /\ o.to \in Box /\ o.kind = "add"
    BY <1>2 DEF Adding
  <1>4. p.kind = "add" /\ p.stage = "ok"
    BY <1>2, <1>3 DEF Adding
  <1> HIDE DEF p
  <1>5. /\ TaskOf(o) = [kind |-> "mark", to |-> o.to, id |-> o.made[1], flags |-> o.flags]
        /\ TaskOf(p) = [kind |-> "done"]
    BY <1>1, <1>3, <1>4, TaskIs
  <1>6. Tasks[c] = TaskOf(o) /\ Tasks' = [Tasks EXCEPT ![c] = TaskOf(p)]
    BY <1>1, TaskMoves
  <1>7. Promised!Flagged(o.to, o.made[1], o.flags)
    BY <1>1, <1>3, MailFlagged DEF IInv
  <1>8. Promised!Mark(c)
    BY <1>1, <1>5, <1>6, <1>7 DEF Promised!Mark, Promised!Done
  <1>9. QED
    BY <1>8 DEF Promised!Step

\* A removal that finds its entry gone changes nothing that shows.
LEMMA RemoveMaps ==
    ASSUME IInv, NEW c \in Client, Remove(c)
    PROVE  Promised!Step(c)
  <1> DEFINE o == op[c]
             t == TaskOf(o)
  <1>1. /\ o.stage = "delete" /\ CallsOK /\ UNCHANGED <<content, marked>>
        /\ entry' = [entry EXCEPT ![o.from] = @ \ {o.id}]
        /\ meta' = [meta EXCEPT ![o.from][o.id] = {}]
    BY DEF Remove, IInv
  <1>2. /\ o \in Transfers \cup Deleting /\ o.kind \in {"move", "delete"}
        /\ o.from \in Box /\ o.id \in Known
    BY AfterRemoveOK
  <1>3. Promised!Goes(o.from, o.id)
    BY <1>1, <1>2, MailGoes DEF IInv
  <1>4. ASSUME o.id \notin entry[o.from], op' = [op EXCEPT ![c].stage = "err"]
        PROVE  Promised!Step(c)
    <2> DEFINE p == [o EXCEPT !.stage = "err"]
    <2>1. op' = [op EXCEPT ![c] = p]
      BY <1>4
    <2>2. p.stage = "err"
      BY <1>2 DEF Transfers, Deleting
    <2>3. UNCHANGED Mail
      <3>1. UNCHANGED entry
        BY <1>1, <1>4 DEF IInv, FilesOK
      <3>2. \A b \in Box : \A i \in entry[b] : meta'[b][i] = meta[b][i]
        <4> SUFFICES ASSUME NEW b \in Box, NEW i \in entry[b] PROVE meta'[b][i] = meta[b][i]
          OBVIOUS
        <4>1. i \in Id /\ (b # o.from \/ i # o.id)
          BY <1>4, KnownIds DEF IInv, FilesOK
        <4>2. QED
          BY <1>1, <4>1 DEF IInv, FilesOK
      <3>3. QED
        BY <3>1, <3>2, MailStays
    <2> HIDE DEF p
    <2>4. Promised!Fail(c)
      BY <1>1, <1>2, <2>1, <2>2, <2>3, FailMaps
    <2>5. QED
      BY <2>4 DEF Promised!Step
  <1>5. ASSUME o.kind = "delete", op' = [op EXCEPT ![c] = [o EXCEPT !.stage = "ok"]]
        PROVE  Promised!Step(c)
    <2> DEFINE p == [o EXCEPT !.stage = "ok"]
    <2>1. p.stage = "ok" /\ p.kind = "delete"
      BY <1>2, <1>5 DEF Transfers, Deleting
    <2> HIDE DEF p
    <2>2. TaskOf(p) = [kind |-> "done"] /\ t = [kind |-> "delete", from |-> o.from, id |-> o.id]
      BY <1>1, <1>5, <2>1, TaskIs
    <2>3. Tasks[c] = t /\ Tasks' = [Tasks EXCEPT ![c] = TaskOf(p)]
      BY <1>1, <1>5, TaskMoves DEF p
    <2>4. Promised!Delete(c)
      BY <1>1, <1>3, <2>2, <2>3 DEF Promised!Delete, Promised!Done
    <2>5. QED
      BY <2>4 DEF Promised!Step
  <1>6. ASSUME o.kind = "move", op' = [op EXCEPT ![c] = Turn(o, "get")]
        PROVE  Promised!Step(c)
    <2>1. o \in Transfers
      BY <1>2, <1>6 DEF Deleting
    <2>2. t = [kind |-> "move", step |-> "delete", from |-> o.from, to |-> o.to,
               id |-> o.id, ids |-> o.ids]
      BY <1>1, <1>6, TaskIs
    <2>3. [t EXCEPT !.step = "get"] = [kind |-> o.kind, step |-> "get", from |-> o.from,
                                       to |-> o.to, id |-> o.id, ids |-> o.ids]
      BY <1>6, <2>2
    <2>4. [o EXCEPT !.made = o.made] = o
      BY <2>1 DEF Transfers
    <2>5. TaskOf(Turn(o, "get")) = Promised!Rest([t EXCEPT !.step = "get"])
      BY <2>1, <2>3, <2>4, TransferRests
    <2>6. Tasks[c] = t /\ Tasks' = [Tasks EXCEPT ![c] = TaskOf(Turn(o, "get"))]
      BY <1>1, <1>6, TaskMoves
    <2>7. t.kind = "move" /\ t.step = "delete" /\ t.from = o.from /\ t.id = o.id
      BY <2>2
    <2> HIDE DEF t
    <2>8. Promised!Drop(c)
      BY <1>1, <1>3, <2>5, <2>6, <2>7 DEF Promised!Drop
    <2>9. QED
      BY <2>8 DEF Promised!Step
  <1>7. QED
    BY <1>2, <1>4, <1>5, <1>6 DEF Remove

\* The sidecar is read, and nothing shows; it is written, and the flags are
\* as asked.
LEMMA FlaggingMaps ==
    ASSUME IInv, NEW c \in Client, Look(c) \/ Write(c)
    PROVE  Promised!Step(c) \/ UNCHANGED <<Mail, content, marked, Tasks>>
  <1> DEFINE o == op[c]
             t == TaskOf(o)
  <1>1. o.stage \in {"look", "write"} /\ CallsOK /\ OpOK(o)
    BY DEF Look, Write, IInv, CallsOK
  <1>2. o \in Flagging
    BY <1>1 DEF CallsOK, Op, Idle, Transfers, Adding, Deleting, Listing
  <1>3. /\ o.kind = "flags" /\ o.from \in Box /\ o.id \in Known /\ o.line \in SUBSET Flag
        /\ o.how \in {"add", "set", "remove"}
    BY <1>2 DEF Flagging
  <1>4. t = [kind |-> "flags", from |-> o.from, id |-> o.id, ids |-> o.ids,
             flags |-> o.flags, how |-> o.how]
    BY <1>1, <1>3, TaskIs
  <1>5. CASE Look(c)
    <2> DEFINE had == meta[o.from][o.id]
               new == IF o.how = "add" THEN had \cup o.flags ELSE had \ o.flags
               p == [o EXCEPT !.line = new, !.stage = "write"]
    <2>1. op' = [op EXCEPT ![c] = p] /\ UNCHANGED <<entry, meta, content, marked>>
      BY <1>1, <1>5 DEF Look, store, CallsOK
    <2>2. /\ p.kind = "flags" /\ p.stage = "write" /\ p.from = o.from /\ p.id = o.id
          /\ p.ids = o.ids /\ p.flags = o.flags /\ p.how = o.how
      BY <1>2, <1>3 DEF Flagging
    <2> HIDE DEF p
    <2>3. TaskOf(p) = [kind |-> "flags", from |-> p.from, id |-> p.id, ids |-> p.ids,
                       flags |-> p.flags, how |-> p.how]
      BY <2>2, TaskIs
    <2>4. TaskOf(p) = TaskOf(o)
      BY <1>4, <2>2, <2>3
    <2> HIDE DEF t, had, new
    <2>5. UNCHANGED Tasks
      <3>1. Tasks[c] = TaskOf(o) /\ Tasks' = [Tasks EXCEPT ![c] = TaskOf(p)]
        BY <1>1, <2>1, TaskMoves
      <3>2. QED
        BY <2>4, <3>1 DEF Tasks
    <2>6. QED
      BY <2>1, <2>5 DEF Mail
  <1>6. CASE Write(c)
    <2> DEFINE stage == IF o.how = "set" THEN "write" ELSE "look"
               p == Turn([o EXCEPT !.line = o.flags], stage)
    <2>1. /\ op' = [op EXCEPT ![c] = p] /\ UNCHANGED <<entry, content, marked>>
          /\ o.stage = "write" /\ meta' = [meta EXCEPT ![o.from][o.id] = o.line]
      BY <1>6 DEF Write
    <2>2. stage \in {"look", "write"}
      OBVIOUS
    <2> HIDE DEF stage
    <2>3. TaskOf(p) = Promised!Rest(t)
      BY <1>2, <1>4, <2>2, FlagsRest
    <2> HIDE DEF p
    <2>4. Tasks[c] = t /\ Tasks' = [Tasks EXCEPT ![c] = Promised!Rest(t)]
      BY <1>1, <2>1, <2>3, TaskMoves
    <2>5. Promised!AsAsked(t, o.line)
      <3>1. Promised!AsAsked(o, o.line)
        BY <1>1, <2>1 DEF OpOK
      <3>2. t.how = o.how /\ t.flags = o.flags
        BY <1>4
      <3>3. QED
        BY <3>1, <3>2 DEF Promised!AsAsked
    <2>6. Promised!Flagged(o.from, o.id, o.line)
      BY <1>3, <2>1, MailFlagged DEF IInv
    <2>7. t.kind = "flags" /\ t.from = o.from /\ t.id = o.id
      BY <1>4
    <2> HIDE DEF t
    <2>8. Promised!Reflag(c)
      BY <1>3, <2>1, <2>4, <2>5, <2>6, <2>7 DEF Promised!Reflag
    <2>9. QED
      BY <2>8 DEF Promised!Step
  <1>7. QED
    BY <1>5, <1>6

\* The names are the listing; the files read afterwards confirm it, or it fails.
LEMMA ListingMaps ==
    ASSUME IInv, NEW c \in Client, Names(c) \/ Read(c)
    PROVE  Promised!Step(c) \/ UNCHANGED <<Mail, content, marked, Tasks>>
  <1> DEFINE o == op[c]
  <1>1. /\ o.stage \in {"names", "read"} /\ CallsOK /\ OpOK(o)
        /\ UNCHANGED <<entry, meta, content, marked>>
    BY DEF Names, Read, IInv, CallsOK, store
  <1>2. o \in Listing
    BY <1>1 DEF CallsOK, Op, Idle, Transfers, Adding, Deleting, Flagging
  <1>3. o.kind = "list" /\ o.from \in Box
    BY <1>2 DEF Listing
  <1>4. UNCHANGED <<Mail, content, marked>>
    BY <1>1 DEF Mail
  <1>5. CASE Names(c)
    <2> DEFINE p == [o EXCEPT !.names = entry[o.from], !.todo = entry[o.from],
                              !.stage = IF entry[o.from] = {} THEN "ok" ELSE "read"]
    <2>1. o.stage = "names" /\ op' = [op EXCEPT ![c] = p]
      BY <1>1, <1>5 DEF Names, CallsOK
    <2>2. /\ p.kind = "list" /\ p.names = entry[o.from] /\ p.found = {}
          /\ p.stage = IF entry[o.from] = {} THEN "ok" ELSE "read"
      BY <1>1, <1>2, <1>3, <2>1 DEF Listing, OpOK
    <2> HIDE DEF p
    <2>3. \E kind \in {"shown", "listed"} : TaskOf(p) = [kind |-> kind, ids |-> entry[o.from]]
      <3>1. CASE entry[o.from] = {}
        <4>1. TaskOf(p) = [kind |-> "listed", ids |-> p.found]
          BY <2>2, <3>1, TaskIs
        <4>2. QED
          BY <2>2, <3>1, <4>1
      <3>2. CASE entry[o.from] # {}
        <4>1. TaskOf(p) = [kind |-> "shown", ids |-> p.names]
          BY <2>2, <3>2, TaskIs
        <4>2. QED
          BY <2>2, <4>1
      <3>3. QED
        BY <3>1, <3>2
    <2>4. TaskOf(o) = [kind |-> "list", from |-> o.from]
      BY <1>3, <2>1, TaskIs
    <2>5. Tasks[c] = TaskOf(o) /\ Tasks' = [Tasks EXCEPT ![c] = TaskOf(p)]
      BY <1>1, <2>1, TaskMoves
    <2>6. {m.id : m \in Mail[o.from]} = entry[o.from]
      <3>1. \A m : m \in Mail[o.from]
                 <=> \E i \in entry[o.from] : m = [id |-> i, flags |-> meta[o.from][i]]
        BY <1>3 DEF Mail
      <3>2. ASSUME NEW i \in entry[o.from]
            PROVE  i \in {m.id : m \in Mail[o.from]}
        <4>1. [id |-> i, flags |-> meta[o.from][i]] \in Mail[o.from]
          BY <3>1
        <4>2. [id |-> i, flags |-> meta[o.from][i]].id = i
          OBVIOUS
        <4>3. QED
          BY <4>1, <4>2
      <3>3. ASSUME NEW m \in Mail[o.from]
            PROVE  m.id \in entry[o.from]
        BY <3>1
      <3>4. QED
        BY <3>2, <3>3
    <2>7. Promised!List(c)
      <3>1. Tasks[c].kind = "list" /\ Tasks[c].from = o.from
        BY <2>4, <2>5
      <3>2. {m.id : m \in Mail[Tasks[c].from]} = entry[o.from]
        BY <2>6, <3>1
      <3>3. PICK kind \in {"shown", "listed"} :
               TaskOf(p) = [kind |-> kind, ids |-> entry[o.from]]
        BY <2>3
      <3>4. Tasks' = [Tasks EXCEPT ![c] =
                          [kind |-> kind, ids |-> {m.id : m \in Mail[Tasks[c].from]}]]
        BY <2>5, <3>2, <3>3
      <3>5. QED
        BY <1>4, <3>1, <3>4 DEF Promised!List
    <2>8. QED
      BY <2>7 DEF Promised!Step
  <1>6. CASE Read(c)
    <2>1. PICK i \in o.todo :
             LET found == IF i \in entry[o.from] THEN o.found \cup {i} ELSE o.found
             IN  op' = [op EXCEPT ![c].todo = @ \ {i}, ![c].found = found,
                            ![c].stage = IF o.todo = {i} THEN Parsed(o, found) ELSE "read"]
      BY <1>6 DEF Read
    <2> DEFINE found == IF i \in entry[o.from] THEN o.found \cup {i} ELSE o.found
               stage == IF o.todo = {i} THEN Parsed(o, found) ELSE "read"
               p == [o EXCEPT !.todo = @ \ {i}, !.found = found, !.stage = stage]
    <2>2. op' = [op EXCEPT ![c] = p] /\ o.stage = "read"
      BY <1>1, <1>6, <2>1 DEF CallsOK, Read
    <2>3. stage \in {"read", "ok", "err"} /\ (stage = "ok" => found = o.names)
      BY DEF Parsed
    <2>4. p.kind = "list" /\ p.stage = stage /\ p.found = found /\ p.names = o.names
      BY <1>2 DEF Listing
    <2> HIDE DEF p, stage, found
    <2>5. TaskOf(o) = [kind |-> "shown", ids |-> o.names]
      BY <1>3, <2>2, TaskIs
    <2>6. Tasks[c] = TaskOf(o) /\ Tasks' = [Tasks EXCEPT ![c] = TaskOf(p)]
      BY <1>1, <2>2, TaskMoves
    <2>7. CASE stage = "read"
      <3>1. TaskOf(p) = [kind |-> "shown", ids |-> o.names]
        BY <2>4, <2>7, TaskIs
      <3>2. UNCHANGED Tasks
        BY <2>5, <2>6, <3>1 DEF Tasks
      <3>3. QED
        BY <1>4, <3>2
    <2>8. CASE stage = "ok"
      <3>1. TaskOf(p) = [kind |-> "listed", ids |-> o.names]
        BY <2>3, <2>4, <2>8, TaskIs
      <3>2. TaskOf(p) = [TaskOf(o) EXCEPT !.kind = "listed"]
        BY <2>5, <3>1
      <3>3. Promised!Tell(c)
        BY <1>4, <2>5, <2>6, <3>2 DEF Promised!Tell
      <3>4. QED
        BY <3>3 DEF Promised!Step
    <2>9. CASE stage = "err"
      <3>1. p.stage = "err"
        BY <2>4, <2>9
      <3>2. Promised!Fail(c)
        BY <1>1, <1>3, <1>4, <2>2, <3>1, FailMaps
      <3>3. QED
        BY <3>2 DEF Promised!Step
    <2>10. QED
      BY <2>3, <2>7, <2>8, <2>9
  <1>7. QED
    BY <1>5, <1>6

LEMMA EndingMaps ==
    ASSUME IInv, NEW c \in Client, Interrupt(c) \/ Return(c)
    PROVE  Promised!Step(c)
  <1> DEFINE o == op[c]
  <1>1. /\ UNCHANGED <<Mail, content, marked>> /\ CallsOK /\ o.kind # "none"
        /\ o \in Transfers \cup Adding \cup Deleting \cup Flagging \cup Listing
    BY DEF Interrupt, Return, store, IInv, CallsOK, Op, Idle, Mail
  <1>2. CASE Interrupt(c)
    <2> DEFINE p == [o EXCEPT !.stage = "err"]
    <2>1. op' = [op EXCEPT ![c] = p] /\ o.stage \notin {"ok", "err"}
      BY <1>2 DEF Interrupt
    <2>2. p.stage = "err"
      BY <1>1 DEF Transfers, Adding, Deleting, Flagging, Listing
    <2> HIDE DEF p
    <2>3. Promised!Fail(c)
      BY <1>1, <2>1, <2>2, FailMaps
    <2>4. QED
      BY <2>3 DEF Promised!Step
  <1>3. CASE Return(c)
    <2>1. op' = [op EXCEPT ![c] = Idle] /\ o.stage \in {"ok", "err"}
      BY <1>3 DEF Return
    <2>2. TaskOf(o).kind \in {"done", "failed", "listed"}
      <3>1. CASE o.stage = "err"
        BY <3>1, TaskIs
      <3>2. CASE o.stage = "ok" /\ o.kind # "list"
        BY <1>1, <3>2, TaskIs
      <3>3. CASE o.stage = "ok" /\ o.kind = "list"
        BY <3>3, TaskIs
      <3>4. QED
        BY <2>1, <3>1, <3>2, <3>3
    <2>3. Tasks[c] = TaskOf(o) /\ Tasks' = [Tasks EXCEPT ![c] = TaskOf(Idle)]
      BY <1>1, <2>1, TaskMoves
    <2>4. TaskOf(Idle) = [kind |-> "none"]
      BY DEF TaskOf, Outcome, Idle
    <2>5. Promised!Return(c)
      BY <1>1, <2>2, <2>3, <2>4 DEF Promised!Return, Promised!Idle
    <2>6. QED
      BY <2>5 DEF Promised!Step
  <1>4. QED
    BY <1>2, <1>3

LEMMA BoxesMap ==
    ASSUME IInv, NEW b \in Box, CreateBox(b) \/ DeleteBox(b)
    PROVE  Promised!CreateBox(b) \/ Promised!DeleteBox(b)
  <1>1. UNCHANGED <<content, Tasks>>
    BY DEF CreateBox, DeleteBox, Tasks
  <1>2. CASE CreateBox(b)
    <2>1. UNCHANGED Mail /\ marked' = marked \cup {b}
      BY <1>2 DEF CreateBox, Mail
    <2>2. QED
      BY <1>1, <2>1 DEF Promised!CreateBox
  <1>3. CASE DeleteBox(b)
    <2>1. /\ entry' = [entry EXCEPT ![b] = {}] /\ marked' = marked \ {b}
          /\ meta' = [meta EXCEPT ![b] = [i \in Id |-> {}]]
      BY <1>3 DEF DeleteBox
    <2>2. Mail'[b] = {}
      BY <2>1 DEF Mail, IInv, FilesOK
    <2>3. \A d \in Box : d # b => Mail'[d] = Mail[d]
      BY <2>1 DEF Mail, IInv, FilesOK
    <2>4. Mail = [d \in Box |-> Mail[d]] /\ Mail' = [d \in Box |-> Mail'[d]]
      BY DEF Mail
    <2>5. Mail' = [Mail EXCEPT ![b] = {}]
      BY <2>2, <2>3, <2>4
    <2>6. QED
      BY <1>1, <2>1, <2>5 DEF Promised!DeleteBox
  <1>4. QED
    BY <1>2, <1>3

LEMMA PromisedInit == Init => Promised!Init
  <1> SUFFICES ASSUME Init PROVE Promised!Init
    OBVIOUS
  <1>1. Tasks = [c \in Client |-> Promised!Idle]
    <2>1. TaskOf(Idle) = Promised!Idle
      BY DEF TaskOf, Outcome, Idle, Promised!Idle
    <2>2. QED
      BY <2>1 DEF Init, Tasks
  <1>2. Mail = [b \in Box |-> IF b = Home THEN [id : DOMAIN First, flags : {{}}] ELSE {}]
    <2>1. DOMAIN First = 1..Len(First) /\ 1..Len(First) \subseteq Id
      BY StoreAssumption DEF Id
    <2>2. ASSUME NEW b \in Box
          PROVE  {[id |-> i, flags |-> meta[b][i]] : i \in entry[b]}
                     = IF b = Home THEN [id : DOMAIN First, flags : {{}}] ELSE {}
      <3>1. CASE b # Home
        BY <3>1 DEF Init
      <3>2. CASE b = Home
        <4>1. entry[b] = DOMAIN First /\ \A i \in DOMAIN First : meta[b][i] = {}
          BY <2>1, <3>2 DEF Init
        <4>2. \A m : m \in {[id |-> i, flags |-> meta[b][i]] : i \in entry[b]}
                   <=> \E i \in DOMAIN First : m = [id |-> i, flags |-> {}]
          BY <4>1
        <4>3. \A m : m \in [id : DOMAIN First, flags : {{}}]
                   <=> \E i \in DOMAIN First : m = [id |-> i, flags |-> {}]
          OBVIOUS
        <4>4. QED
          BY <3>2, <4>2, <4>3
      <3>3. QED
        BY <3>1, <3>2
    <2>3. QED
      BY <2>2 DEF Mail
  <1>3. QED
    BY <1>1, <1>2 DEF Init, Promised!Init

LEMMA PromisedStep == IInv /\ [Next]_vars => [Promised!Next]_(Promised!vars)
  <1> SUFFICES ASSUME IInv, [Next]_vars
               PROVE  Promised!Next \/ UNCHANGED <<Mail, content, marked, Tasks>>
    BY DEF Promised!vars
  <1>1. ASSUME NEW c \in Client, Calls(c) \/ Step(c) \/ Interrupt(c) \/ Return(c)
        PROVE  Promised!Step(c) \/ UNCHANGED <<Mail, content, marked, Tasks>>
    <2>1. CASE Calls(c)
      BY <2>1, CallsMap DEF Promised!Step
    <2>2. QED
      BY <1>1, <2>1, GetMaps, StoreMaps, SetFlagsMaps, RemoveMaps, FlaggingMaps, ListingMaps,
         EndingMaps DEF Step
  <1>2. ASSUME NEW b \in Box, CreateBox(b) \/ DeleteBox(b)
        PROVE  Promised!CreateBox(b) \/ Promised!DeleteBox(b)
    BY <1>2, BoxesMap
  <1>3. CASE UNCHANGED vars
    BY <1>3 DEF vars, Tasks, Mail
  <1>4. QED
    BY <1>1, <1>2, <1>3 DEF Next, Promised!Next

\* The processes cannot tell the files and sidecars of m2dir from a store of
\* whole messages that finds, puts, drops and marks them, whatever happens
\* between two file operations (CopyStore).
THEOREM StoreKeepsPromise == Spec => ImplementsStore
BY PromisedInit, PromisedStep, Invariance, PTL DEF Spec, ImplementsStore, Promised!Spec

=============================================================================
