------------------------- MODULE MaildirStoreProofs -------------------------
(***************************************************************************)
(* Proofs about MaildirStore, for any number of processes, mailboxes,      *)
(* messages, calls and interruptions.                                      *)
(***************************************************************************)
EXTENDS MaildirStore, TLAPS

-----------------------------------------------------------------------------
(* The calls, by the file operations they are made of. *)

ActOn == [kind : {"move", "copy"}, from : Box, to : Box, ids : Seq(given), id : given,
          seek : SUBSET Sub, found : File \cup {NoFile}, stage : {"find", "rename"}]
Flagging == [kind : {"flags"}, from : Box, ids : Seq(given), id : given,
             flags : SUBSET Letter, how : {"add", "set", "remove"},
             seek : SUBSET Sub, found : File \cup {NoFile}, stage : {"find", "rename"}]
Adding == [kind : {"add"}, to : Box, flags : SUBSET Letter, stage : {"store"}]
Linking == [kind : {"add"}, to : Box, flags : SUBSET Letter, id : given, stage : {"link"}]
ListOp == [kind : {"list"}, from : Box, seek : SUBSET Sub, stage : {"names", "read", "ok"},
           names : SUBSET File, shown : SUBSET File]

Op == {Idle, Done, Failed} \cup ActOn \cup Flagging \cup Adding \cup Linking \cup ListOp

\* What the fields of a call have to do with each other.
OpOK(o) ==
    /\ o.stage = "rename" => o.found \in File /\ o.found.id = o.id
    /\ o.kind = "list" =>
          /\ o.stage = "names" => o.shown = {}
          /\ o.stage # "names" => o.seek = {}
          /\ o.stage = "ok" => o.shown = o.names
          /\ o.shown \subseteq o.names

FilesOK ==
    /\ file \in [Box -> SUBSET File]
    /\ boxes \subseteq Box
    /\ given \subseteq Id
    /\ tmp \in [Box -> SUBSET given]
    /\ \A b \in Box : \A f \in file[b] : f.id \in given
    /\ original \in [Id -> Id]
    /\ \A i \in Id \ given : original[i] = i
    /\ \A b \in Box : \A i \in tmp[b] : original[i] = i
    /\ kept \subseteq Id

CallsOK ==
    /\ op \in [Client -> Op]
    /\ \A c \in Client : OpOK(op[c])

CountsOK == faults \in 0..MaxFaults /\ calls \in 0..MaxCalls

IInv == FilesOK /\ CallsOK /\ CountsOK /\ NoLoss

-----------------------------------------------------------------------------
(* Calls that go on. *)

\* What was given out stays so.
LEMMA OpGrows == given \subseteq given' => Op \subseteq Op'
  <1> SUFFICES ASSUME given \subseteq given' PROVE Op \subseteq Op'
    OBVIOUS
  <1>1. Seq(given) \subseteq Seq(given')
    OBVIOUS
  <1>2. ActOn \subseteq ActOn'
    BY <1>1 DEF ActOn, File
  <1>3. Flagging \subseteq Flagging'
    BY <1>1 DEF Flagging, File
  <1>4. Adding \subseteq Adding' /\ Linking \subseteq Linking' /\ ListOp \subseteq ListOp'
    BY DEF Adding, Linking, ListOp, File
  <1>5. QED
    BY <1>2, <1>3, <1>4 DEF Op, Idle, Done, Failed

\* One call goes on, the others stay as they are.
LEMMA OneGoesOn ==
    ASSUME CallsOK, given \subseteq given', NEW c \in Client, NEW o \in Op', OpOK(o),
           op' = [op EXCEPT ![c] = o]
    PROVE  CallsOK'
  <1>1. Op \subseteq Op'
    BY OpGrows
  <1>2. op' \in [Client -> Op']
    BY <1>1 DEF CallsOK
  <1>3. \A d \in Client : OpOK(op'[d])
    BY DEF CallsOK
  <1>4. QED
    BY <1>2, <1>3 DEF CallsOK, OpOK

\* A call that is over, or not begun.
LEMMA Over == {Idle, Done, Failed} \subseteq Op /\ OpOK(Idle) /\ OpOK(Done) /\ OpOK(Failed)
BY DEF Op, OpOK, Idle, Done, Failed

\* What the stage of a call says of its fields.
LEMMA AtStage ==
    ASSUME CallsOK, NEW c \in Client
    PROVE  LET o == op[c] IN
           /\ o.stage \in {"find", "rename"} => o \in ActOn \cup Flagging
           /\ o.stage = "store" => o \in Adding
           /\ o.stage = "link" => o \in Linking
           /\ o.stage \in {"names", "read"} \/ o.kind = "list" => o \in ListOp
  <1> DEFINE o == op[c]
  <1>1. o \in Op
    BY DEF CallsOK
  <1>2. CASE o \in {Idle, Done, Failed}
    BY <1>2 DEF Idle, Done, Failed
  <1>3. CASE o \in ActOn \cup Flagging
    BY <1>3 DEF ActOn, Flagging
  <1>4. CASE o \in Adding \cup Linking
    BY <1>4 DEF Adding, Linking
  <1>5. CASE o \in ListOp
    BY <1>5 DEF ListOp
  <1>6. QED
    BY <1>1, <1>2, <1>3, <1>4, <1>5 DEF Op

\* A batch takes up its next id or ends.
LEMMA Turns ==
    ASSUME CallsOK, NEW c \in Client, op[c].stage = "rename"
    PROVE  Turn(op[c]) \in Op /\ OpOK(Turn(op[c]))
  <1> DEFINE o == op[c]
  <1>1. o \in ActOn \cup Flagging
    BY AtStage
  <1>2. CASE o.ids = << >>
    BY <1>2, Over DEF Turn
  <1>3. CASE o.ids # << >>
    <2>1. Head(o.ids) \in given /\ Tail(o.ids) \in Seq(given)
      BY <1>1, <1>3 DEF ActOn, Flagging
    <2>2. QED
      BY <1>1, <1>3, <2>1 DEF Turn, LookUp, Op, ActOn, Flagging, OpOK
  <1>4. QED
    BY <1>2, <1>3

-----------------------------------------------------------------------------
(* The steps that leave the files alone. *)

LEMMA FilesStay ==
    ASSUME FilesOK, NoLoss, UNCHANGED store
    PROVE  FilesOK' /\ NoLoss' /\ given \subseteq given'
BY DEF FilesOK, NoLoss, Stored, Messages, store, File

LEMMA BatchIds ==
    ASSUME FilesOK, NEW ids \in Batch, \A k \in DOMAIN ids : ids[k] \in Told
    PROVE  Head(ids) \in given /\ Tail(ids) \in Seq(given)
  <1>1. PICK n \in 1..MaxBatch : ids \in [1..n -> Id]
    BY DEF Batch
  <1>2. n \in Nat \ {0} /\ DOMAIN ids = 1..n
    BY <1>1, StoreAssumption
  <1>3. ids \in [1..n -> given]
    BY <1>1, <1>2 DEF Told
  <1>4. ids \in Seq(given) /\ ids # << >>
    BY <1>2, <1>3
  <1>5. QED
    BY <1>4

LEMMA BeginInv ==
    ASSUME IInv, NEW c \in Client, NEW o \in Op, OpOK(o), calls < MaxCalls, Begin(c, o)
    PROVE  IInv'
  <1>1. FilesOK' /\ NoLoss' /\ given \subseteq given'
    BY FilesStay DEF IInv, Begin
  <1>2. CallsOK'
    BY <1>1, OpGrows, OneGoesOn DEF IInv, Begin
  <1>3. CountsOK'
    BY StoreAssumption DEF IInv, CountsOK, Begin
  <1>4. QED
    BY <1>1, <1>2, <1>3 DEF IInv

LEMMA BeginFlagsInv ==
    ASSUME IInv, NEW c \in Client, NEW from \in boxes, NEW ids, Head(ids) \in given,
           Tail(ids) \in Seq(given), NEW fs \in SUBSET Letter,
           NEW how \in {"add", "set", "remove"}, calls < MaxCalls,
           BeginFlags(c, from, ids, fs, how)
    PROVE  IInv'
  <1> DEFINE o == [kind |-> "flags", from |-> from, ids |-> Tail(ids), id |-> Head(ids),
                   flags |-> fs, how |-> how, seek |-> Sub, found |-> NoFile, stage |-> "find"]
  <1>1. o \in Op /\ OpOK(o)
    BY DEF IInv, FilesOK, Op, Flagging, OpOK
  <1>2. QED
    BY <1>1, BeginInv DEF BeginFlags

LEMMA CallsInv ==
    ASSUME IInv, NEW c \in Client, Calls(c)
    PROVE  IInv'
  <1>0. calls < MaxCalls
    BY DEF Calls
  <1>1. ASSUME NEW from \in boxes, NEW to \in boxes, NEW ids \in Batch,
               \A k \in DOMAIN ids : ids[k] \in Told,
               BeginMove(c, from, to, ids) \/ BeginCopy(c, from, to, ids)
        PROVE  IInv'
    <2>1. Head(ids) \in given /\ Tail(ids) \in Seq(given)
      BY <1>1, BatchIds DEF IInv
    <2>2. \A kind \in {"move", "copy"} :
             Transfer(kind, from, to, ids) \in Op /\ OpOK(Transfer(kind, from, to, ids))
      BY <2>1 DEF IInv, FilesOK, Op, ActOn, Transfer, OpOK
    <2>3. QED
      BY <1>0, <1>1, <2>2, BeginInv DEF BeginMove, BeginCopy
  <1>2. ASSUME NEW from \in boxes, NEW ids \in Batch, NEW fs \in SUBSET Letter,
               NEW how \in {"add", "set", "remove"},
               \A k \in DOMAIN ids : ids[k] \in Told, BeginFlags(c, from, ids, fs, how)
        PROVE  IInv'
    <2>1. Head(ids) \in given /\ Tail(ids) \in Seq(given)
      BY <1>2, BatchIds DEF IInv
    <2>2. QED
      BY <1>0, <1>2, <2>1, BeginFlagsInv
  <1>3. ASSUME NEW from \in boxes, NEW i \in Told, BeginDelete(c, from, i)
        PROVE  IInv'
    <2>1. Head(<<i>>) \in given /\ Tail(<<i>>) \in Seq(given)
      BY <1>3 DEF Told
    <2>2. {Trashed} \in SUBSET Letter
      BY StoreAssumption
    <2>3. QED
      BY <1>0, <1>3, <2>1, <2>2, BeginFlagsInv DEF BeginDelete
  <1>4. ASSUME NEW to \in boxes, NEW fs \in SUBSET Letter, BeginAdd(c, to, fs)
        PROVE  IInv'
    <2> DEFINE o == [kind |-> "add", to |-> to, flags |-> fs, stage |-> "store"]
    <2>1. o \in Op /\ OpOK(o)
      BY DEF IInv, FilesOK, Op, Adding, OpOK
    <2>2. QED
      BY <1>0, <1>4, <2>1, BeginInv DEF BeginAdd
  <1>5. ASSUME NEW from \in boxes, BeginList(c, from)
        PROVE  IInv'
    <2> DEFINE o == [kind |-> "list", from |-> from, seek |-> Sub, stage |-> "names",
                     names |-> {}, shown |-> {}]
    <2>1. o \in Op /\ OpOK(o)
      BY DEF IInv, FilesOK, Op, ListOp, OpOK
    <2>2. QED
      BY <1>0, <1>5, <2>1, BeginInv DEF BeginList
  <1>6. QED
    BY <1>1, <1>2, <1>3, <1>4, <1>5 DEF Calls

\* The steps that read.
LEMMA ReadingInv ==
    ASSUME IInv, NEW c \in Client, Find(c) \/ Names(c) \/ Read(c)
    PROVE  IInv'
  <1> DEFINE o == op[c]
  <1>1. UNCHANGED <<store, faults, calls>>
    BY DEF Find, Names, Read
  <1>2. FilesOK' /\ NoLoss' /\ CountsOK' /\ given \subseteq given'
    BY <1>1, FilesStay DEF IInv, CountsOK
  <1>3. Op \subseteq Op'
    BY <1>2, OpGrows
  <1>4. ASSUME NEW p \in Op, OpOK(p), op' = [op EXCEPT ![c] = p]
        PROVE  IInv'
    BY <1>2, <1>3, <1>4, OneGoesOn DEF IInv
  <1>5. CASE Find(c)
    <2>1. o \in ActOn \cup Flagging
      BY <1>5, AtStage DEF Find, IInv
    <2>2. PICK d \in o.seek :
             \/ \E f \in file[o.from] :
                    /\ f.id = o.id /\ f.sub = d
                    /\ op' = [op EXCEPT ![c].found = f, ![c].seek = {}, ![c].stage = "rename"]
             \/ op' = [op EXCEPT ![c] =
                    IF o.seek = {d} THEN Failed ELSE [o EXCEPT !.seek = @ \ {d}]]
      BY <1>5 DEF Find
    <2>3. CASE op' = [op EXCEPT ![c] =
                  IF o.seek = {d} THEN Failed ELSE [o EXCEPT !.seek = @ \ {d}]]
      <3>1. CASE o.seek = {d}
        BY <1>4, <2>3, <3>1, Over
      <3>2. CASE o.seek # {d}
        <4> DEFINE p == [o EXCEPT !.seek = @ \ {d}]
        <4>1. p \in Op
          BY <2>1 DEF Op, ActOn, Flagging
        <4>2. OpOK(p)
          BY <1>5, <2>1 DEF OpOK, Find, ActOn, Flagging
        <4>3. QED
          BY <1>4, <2>3, <3>2, <4>1, <4>2
      <3>3. QED
        BY <3>1, <3>2
    <2>4. ASSUME NEW f \in file[o.from], f.id = o.id,
                 op' = [op EXCEPT ![c].found = f, ![c].seek = {}, ![c].stage = "rename"]
          PROVE  IInv'
      <3> DEFINE p == [o EXCEPT !.found = f, !.seek = {}, !.stage = "rename"]
      <3>1. op' = [op EXCEPT ![c] = p]
        BY <2>4 DEF IInv, CallsOK
      <3>2. f \in File
        BY <2>1 DEF IInv, FilesOK, ActOn, Flagging
      <3>3. p \in Op /\ OpOK(p)
        BY <2>1, <2>4, <3>2 DEF Op, ActOn, Flagging, OpOK
      <3>4. QED
        BY <1>4, <3>1, <3>3
    <2>5. QED
      BY <2>2, <2>3, <2>4
  <1>6. CASE Names(c)
    <2>1. o \in ListOp /\ o.shown = {}
      BY <1>6, AtStage DEF Names, IInv, CallsOK, OpOK, ListOp
    <2>2. PICK d \in o.seek :
             LET names == o.names \cup {f \in file[o.from] : f.sub = d} IN
             op' = [op EXCEPT
                 ![c].names = names,
                 ![c].seek = @ \ {d},
                 ![c].stage = IF o.seek # {d} THEN "names"
                              ELSE IF names = {} THEN "ok" ELSE "read"]
      BY <1>6 DEF Names
    <2> DEFINE names == o.names \cup {f \in file[o.from] : f.sub = d}
               stage == IF o.seek # {d} THEN "names" ELSE IF names = {} THEN "ok" ELSE "read"
               p == [o EXCEPT !.names = names, !.seek = @ \ {d}, !.stage = stage]
    <2>3. op' = [op EXCEPT ![c] = p]
      BY <2>2 DEF IInv, CallsOK
    <2>4. names \in SUBSET File
      BY <2>1 DEF IInv, FilesOK, ListOp
    <2>5. p \in ListOp
      BY <2>1, <2>4 DEF ListOp
    <2>6. OpOK(p)
      <3>1. /\ p.kind = "list" /\ p.shown = {} /\ p.names = names
            /\ p.seek = o.seek \ {d} /\ p.stage = stage
        BY <2>1 DEF ListOp
      <3> HIDE DEF p
      <3>2. QED
        BY <2>2, <3>1 DEF OpOK
    <2>7. QED
      BY <1>4, <2>3, <2>5, <2>6 DEF Op
  <1>7. CASE Read(c)
    <2>1. o \in ListOp /\ o.stage = "read" /\ o.seek = {} /\ o.shown \subseteq o.names
      BY <1>7, AtStage DEF Read, IInv, CallsOK, OpOK, ListOp
    <2>2. PICK f \in o.names \ o.shown :
             LET shown == o.shown \cup {f} IN
             IF f \in file[o.from]
             THEN op' = [op EXCEPT ![c].shown = shown,
                                   ![c].stage = IF shown = o.names THEN "ok" ELSE "read"]
             ELSE op' = [op EXCEPT ![c] = Failed]
      BY <1>7 DEF Read
    <2>3. CASE f \notin file[o.from]
      BY <1>4, <2>2, <2>3, Over
    <2>4. CASE f \in file[o.from]
      <3> DEFINE shown == o.shown \cup {f}
                 p == [o EXCEPT !.shown = shown,
                                !.stage = IF shown = o.names THEN "ok" ELSE "read"]
      <3>1. op' = [op EXCEPT ![c] = p]
        BY <2>2, <2>4 DEF IInv, CallsOK
      <3>2. p \in ListOp /\ OpOK(p)
        BY <2>1 DEF ListOp, OpOK
      <3>3. QED
        BY <1>4, <3>1, <3>2 DEF Op
    <2>5. QED
      BY <2>3, <2>4
  <1>8. QED
    BY <1>5, <1>6, <1>7

LEMMA EndingInv ==
    ASSUME IInv, NEW c \in Client, Interrupt(c) \/ Return(c)
    PROVE  IInv'
  <1>1. UNCHANGED <<store, calls>> /\ faults' \in 0..MaxFaults
    BY StoreAssumption DEF IInv, CountsOK, Interrupt, Return
  <1>2. FilesOK' /\ NoLoss' /\ CountsOK' /\ given \subseteq given'
    BY <1>1, FilesStay DEF IInv, CountsOK
  <1>3. Op \subseteq Op'
    BY <1>2, OpGrows
  <1>4. PICK o \in Op : OpOK(o) /\ op' = [op EXCEPT ![c] = o]
    BY Over DEF Interrupt, Return
  <1>5. QED
    BY <1>2, <1>3, <1>4, OneGoesOn DEF IInv

-----------------------------------------------------------------------------
(* The steps that change files. *)

LEMMA NoLossMeans ==
    NoLoss <=> \A m \in kept : \E b \in Box : \E f \in file[b] : original[f.id] = m
BY DEF NoLoss, Stored, Messages

\* The file of a batch's id at hand, and what it is renamed to.
LEMMA AtHand ==
    ASSUME IInv, NEW c \in Client, op[c].stage = "rename"
    PROVE  LET o == op[c] IN
           /\ o \in ActOn \cup Flagging
           /\ o.from \in Box /\ o.id \in given
           /\ o.found \in File /\ o.found.id = o.id
           /\ Place(o) \in Box
           /\ \A g \in Renamings(o) : g \in File /\ g.id = o.id
  <1> DEFINE o == op[c]
  <1>1. o \in ActOn \cup Flagging
    BY AtStage DEF IInv
  <1>2. o.from \in Box /\ o.id \in given /\ Place(o) \in Box
    BY <1>1 DEF ActOn, Flagging, Place
  <1>3. o.found \in File /\ o.found.id = o.id
    BY DEF IInv, CallsOK, OpOK
  <1>4. ASSUME NEW g \in Renamings(o) PROVE g \in File /\ g.id = o.id
    <2>1. CASE o.kind = "flags"
      <3>1. Letters(o) \in SUBSET Letter
        BY <1>1, <1>3, <2>1 DEF ActOn, Flagging, Letters, File
      <3>2. PICK d \in {o.found.sub, "cur"} :
               g = [o.found EXCEPT !.flags = Letters(o), !.sub = d]
        BY <1>4, <2>1 DEF Renamings
      <3>3. d \in Sub
        BY <1>3 DEF File, Sub
      <3>4. QED
        BY <1>3, <3>1, <3>2, <3>3 DEF File
    <2>2. CASE o.kind # "flags"
      BY <1>3, <1>4, <2>2 DEF Renamings
    <2>3. QED
      BY <2>1, <2>2
  <1>5. QED
    BY <1>1, <1>2, <1>3, <1>4

\* A batch whose file operation failed ends and has changed nothing.
LEMMA FailsInv ==
    ASSUME IInv, NEW c \in Client, op[c].stage = "rename",
           op' = [op EXCEPT ![c] = Failed], UNCHANGED <<store, faults, calls>>
    PROVE  IInv'
  <1>1. FilesOK' /\ NoLoss' /\ CountsOK' /\ given \subseteq given'
    BY FilesStay DEF IInv, CountsOK
  <1>2. QED
    BY <1>1, Over, OpGrows, OneGoesOn DEF IInv

LEMMA RenameInv ==
    ASSUME IInv, NEW c \in Client, Rename(c)
    PROVE  IInv'
  <1> DEFINE o == op[c]
  <1>1. o.stage = "rename" /\ UNCHANGED <<tmp, boxes, given, original, kept, faults, calls>>
    BY DEF Rename
  <1>2. CASE ~(o.found \in file[o.from] /\ Place(o) \in boxes)
    BY <1>1, <1>2, FailsInv DEF Rename, store
  <1>3. CASE o.found \in file[o.from] /\ Place(o) \in boxes
    <2>0. op' = [op EXCEPT ![c] = Turn(o)]
      BY <1>3 DEF Rename
    <2>1. PICK g \in Renamings(o) : file' = [b \in Box |->
                 (file[b] \ IF b = o.from THEN {o.found} ELSE {})
                     \cup IF b = Place(o) THEN {g} ELSE {}]
      BY <1>3 DEF Rename
    <2>2. FilesOK'
      BY <1>1, <2>1, AtHand DEF IInv, FilesOK, File
    <2>3. NoLoss'
      <3> SUFFICES ASSUME NEW m \in kept
                   PROVE  \E b \in Box : \E f \in file'[b] : original[f.id] = m
        BY <1>1, NoLossMeans DEF NoLoss, Stored, Messages
      <3>0. PICK b \in Box : \E f \in file[b] : original[f.id] = m
        BY NoLossMeans DEF IInv
      <3>1. PICK f \in file[b] : original[f.id] = m
        BY <3>0
      <3>2. CASE b = o.from /\ f = o.found
        <4>1. g \in file'[Place(o)] /\ original[g.id] = m
          BY <1>1, <2>1, <3>1, <3>2, AtHand
        <4>2. QED
          BY <1>1, <4>1, AtHand
      <3>3. CASE ~(b = o.from /\ f = o.found)
        BY <2>1, <3>1, <3>3
      <3>4. QED
        BY <3>2, <3>3
    <2>4. CallsOK' /\ CountsOK'
      BY <1>1, <2>0, Turns, OpGrows, OneGoesOn DEF IInv, CountsOK
    <2>5. QED
      BY <2>2, <2>3, <2>4 DEF IInv
  <1>4. QED
    BY <1>2, <1>3

LEMMA CopyInv ==
    ASSUME IInv, NEW c \in Client, Copy(c)
    PROVE  IInv'
  <1> DEFINE o == op[c]
  <1>1. o.stage = "rename" /\ o.kind = "copy" /\ UNCHANGED <<tmp, boxes, faults, calls>>
    BY DEF Copy
  <1>2. CASE ~(o.found \in file[o.from] /\ o.to \in boxes)
    BY <1>1, <1>2, FailsInv DEF Copy, store
  <1>3. CASE o.found \in file[o.from] /\ o.to \in boxes
    <2> DEFINE copy(i) == [o.found EXCEPT !.id = i]
    <2>1. PICK i \in {o.id} \cup (Id \ given) :
             /\ file' = [file EXCEPT ![o.to] = @ \cup {copy(i)}]
             /\ given' = given \cup {i}
             /\ original' = [original EXCEPT ![i] = original[o.id]]
             /\ kept' = kept \cup {original[o.id]}
             /\ op' = [op EXCEPT ![c] = Turn(o)]
      BY <1>3 DEF Copy
    <2>2. /\ i \in Id /\ o.to \in Box /\ o.id \in given /\ o.found \in File
          /\ copy(i) \in File /\ copy(i).id = i
      BY <1>1, <2>1, AtHand DEF IInv, FilesOK, ActOn, Flagging, File
    <2>3. \A j \in given : original'[j] = original[j]
      BY <2>1, <2>2 DEF IInv, FilesOK
    <2>4. original'[i] = original[o.id] /\ original[o.id] \in Id
      BY <2>1, <2>2 DEF IInv, FilesOK
    <2>5. \A b \in Box : file'[b] \in SUBSET File /\ file[b] \subseteq file'[b]
                           /\ file'[b] \subseteq file[b] \cup {copy(i)}
      BY <2>1, <2>2 DEF IInv, FilesOK
    <2>6. FilesOK'
      <3>1. file' \in [Box -> SUBSET File]
        BY <2>1, <2>5 DEF IInv, FilesOK
      <3>2. original' \in [Id -> Id] /\ \A j \in Id \ given' : original'[j] = j
        BY <2>1, <2>2, <2>4 DEF IInv, FilesOK
      <3>3. \A b \in Box : \A f \in file'[b] : f.id \in given'
        BY <2>1, <2>2, <2>5 DEF IInv, FilesOK
      <3>4. /\ tmp' \in [Box -> SUBSET given']
            /\ \A b \in Box : \A j \in tmp'[b] : original'[j] = j
        BY <1>1, <2>1, <2>3 DEF IInv, FilesOK
      <3>5. QED
        BY <1>1, <2>1, <2>2, <2>4, <3>1, <3>2, <3>3, <3>4 DEF IInv, FilesOK, File
    <2>7. NoLoss'
      <3> SUFFICES ASSUME NEW m \in kept'
                   PROVE  \E b \in Box : \E f \in file'[b] : original'[f.id] = m
        BY DEF NoLoss, Stored, Messages
      <3>1. CASE m = original[o.id]
        <4>1. copy(i) \in file'[o.to]
          BY <2>1, <2>2 DEF IInv, FilesOK
        <4>2. QED
          BY <2>2, <2>4, <3>1, <4>1
      <3>2. CASE m \in kept
        <4>1. PICK b \in Box : \E f \in file[b] : original[f.id] = m
          BY <3>2, NoLossMeans DEF IInv
        <4>2. PICK f \in file[b] : original[f.id] = m
          BY <4>1
        <4>3. f \in file'[b] /\ original'[f.id] = m
          BY <2>3, <2>5, <4>2 DEF IInv, FilesOK
        <4>4. QED
          BY <4>3
      <3>3. QED
        BY <2>1, <3>1, <3>2
    <2>8. CallsOK' /\ CountsOK'
      BY <1>1, <2>1, Turns, OpGrows, OneGoesOn DEF IInv, CountsOK
    <2>9. QED
      BY <2>6, <2>7, <2>8 DEF IInv
  <1>4. QED
    BY <1>2, <1>3

\* A file of a fresh id is added, or one that was written under its id.
LEMMA FilePut ==
    ASSUME IInv, NEW b \in Box, NEW f \in File, original[f.id] = f.id,
           file' = [file EXCEPT ![b] = @ \cup {f}], kept' = kept \cup {f.id},
           given' = given \cup {f.id}, tmp' \in [Box -> SUBSET given'],
           \A d \in Box : tmp'[d] \subseteq tmp[d],
           UNCHANGED <<boxes, original>>
    PROVE  FilesOK' /\ NoLoss'
  <1>0. f.id \in Id
    BY DEF File
  <1>1. \A d \in Box : file'[d] \in SUBSET File /\ file[d] \subseteq file'[d]
                         /\ file'[d] \subseteq file[d] \cup {f}
    BY DEF IInv, FilesOK
  <1>2. FilesOK'
    <2>1. file' \in [Box -> SUBSET File]
      BY <1>1 DEF IInv, FilesOK
    <2>2. \A d \in Box : \A g \in file'[d] : g.id \in given'
      BY <1>1 DEF IInv, FilesOK
    <2>3. QED
      BY <1>0, <2>1, <2>2 DEF IInv, FilesOK, File
  <1>3. NoLoss'
    <2> SUFFICES ASSUME NEW m \in kept'
                 PROVE  \E d \in Box : \E g \in file'[d] : original[g.id] = m
      BY DEF NoLoss, Stored, Messages
    <2>1. CASE m = f.id
      <3>1. f \in file'[b]
        BY DEF IInv, FilesOK
      <3>2. QED
        BY <2>1, <3>1
    <2>2. CASE m \in kept
      BY <1>1, <2>2, NoLossMeans DEF IInv
    <2>3. QED
      BY <2>1, <2>2
  <1>4. QED
    BY <1>2, <1>3

LEMMA WriteInv ==
    ASSUME IInv, NEW c \in Client, Write(c)
    PROVE  IInv'
  <1> DEFINE o == op[c]
             new(i) == [kind |-> "add", to |-> o.to, flags |-> o.flags, id |-> i, stage |-> "link"]
  <1>1. o \in Adding
    BY AtStage DEF Write, IInv
  <1>2. PICK i \in Id \ given :
           /\ tmp' = [tmp EXCEPT ![o.to] = @ \cup {i}]
           /\ given' = given \cup {i}
           /\ op' = [op EXCEPT ![c] = new(i)]
    BY DEF Write
  <1>3. UNCHANGED <<file, boxes, original, kept, faults, calls>>
    BY DEF Write
  <1>4. tmp' \in [Box -> SUBSET given']
    BY <1>2 DEF IInv, FilesOK
  <1>5. \A b \in Box : \A j \in tmp'[b] : original[j] = j
    BY <1>1, <1>2 DEF IInv, FilesOK, Adding
  <1>6. FilesOK' /\ NoLoss'
    BY <1>2, <1>3, <1>4, <1>5 DEF IInv, FilesOK, File, NoLoss, Stored, Messages
  <1>7. new(i) \in Op' /\ OpOK(new(i))
    BY <1>1, <1>2 DEF Op, Adding, Linking, OpOK
  <1>8. CallsOK' /\ CountsOK'
    BY <1>2, <1>3, <1>7, OneGoesOn DEF IInv, CountsOK
  <1>9. QED
    BY <1>6, <1>8 DEF IInv

LEMMA LinkInv ==
    ASSUME IInv, NEW c \in Client, Link(c)
    PROVE  IInv'
  <1> DEFINE o == op[c]
             new == [id |-> o.id, flags |-> o.flags, sub |-> "cur"]
  <1>1. o \in Linking
    BY AtStage DEF Link, IInv
  <1>2. UNCHANGED <<boxes, given, original, faults, calls>>
    BY DEF Link
  <1>3. PICK p \in {Done, Failed} : op' = [op EXCEPT ![c] = p]
    BY DEF Link
  <1>4. CallsOK' /\ CountsOK'
    BY <1>2, <1>3, Over, OpGrows, OneGoesOn DEF IInv, CountsOK
  <1>5. CASE o.id \in tmp[o.to] /\ o.to \in boxes
    <2>1. /\ file' = [file EXCEPT ![o.to] = @ \cup {new}]
          /\ tmp' = [tmp EXCEPT ![o.to] = @ \ {o.id}]
          /\ kept' = kept \cup {o.id}
      BY <1>5 DEF Link
    <2>2. new \in File /\ new.id = o.id /\ o.to \in Box /\ o.id \in given
      BY <1>1 DEF IInv, FilesOK, Linking, File, Sub
    <2>3. /\ given' = given \cup {o.id} /\ tmp' \in [Box -> SUBSET given']
          /\ \A d \in Box : tmp'[d] \subseteq tmp[d]
      BY <1>2, <2>1, <2>2 DEF IInv, FilesOK
    <2>4. original[o.id] = o.id
      BY <1>5, <2>2 DEF IInv, FilesOK
    <2> HIDE DEF new
    <2>5. FilesOK' /\ NoLoss'
      BY <1>2, <2>1, <2>2, <2>3, <2>4, FilePut
    <2>6. QED
      BY <1>4, <2>5 DEF IInv
  <1>6. CASE ~(o.id \in tmp[o.to] /\ o.to \in boxes)
    <2>1. UNCHANGED store
      BY <1>2, <1>6 DEF Link, store
    <2>2. QED
      BY <1>4, <2>1, FilesStay DEF IInv
  <1>7. QED
    BY <1>5, <1>6

\* The calls stay where they are when others act.
LEMMA OthersStay ==
    ASSUME CallsOK, UNCHANGED op, given \subseteq given'
    PROVE  CallsOK'
  <1>1. Op \subseteq Op'
    BY OpGrows
  <1>2. QED
    BY <1>1 DEF CallsOK, OpOK

LEMMA CountsGrow ==
    ASSUME CountsOK, UNCHANGED faults, calls < MaxCalls, calls' = calls + 1
    PROVE  CountsOK'
BY StoreAssumption DEF CountsOK

\* Files go away, and their messages are no longer to be kept.
LEMMA TakenAwayInv ==
    ASSUME IInv, NEW b \in Box, NEW gone \in SUBSET file[b],
           file' = [file EXCEPT ![b] = @ \ gone],
           kept' = kept \ {original[f.id] : f \in gone},
           boxes' \subseteq boxes, tmp' \in [Box -> SUBSET given],
           \A d \in Box : tmp'[d] \subseteq tmp[d],
           UNCHANGED <<given, original, op, faults>>,
           calls < MaxCalls, calls' = calls + 1
    PROVE  IInv'
  <1>1. FilesOK'
    BY DEF IInv, FilesOK, File
  <1>2. NoLoss'
    <2> SUFFICES ASSUME NEW m \in kept'
                 PROVE  \E d \in Box : \E f \in file'[d] : original[f.id] = m
      BY DEF NoLoss, Stored, Messages
    <2>0. PICK d \in Box : \E f \in file[d] : original[f.id] = m
      BY NoLossMeans DEF IInv
    <2>1. PICK f \in file[d] : original[f.id] = m
      BY <2>0
    <2>2. f \in file'[d]
      BY <2>1 DEF IInv, FilesOK
    <2>3. QED
      BY <2>1, <2>2
  <1>3. CallsOK' /\ CountsOK'
    BY OthersStay, CountsGrow DEF IInv
  <1>4. QED
    BY <1>1, <1>2, <1>3 DEF IInv

LEMMA SettleInv ==
    ASSUME IInv, NEW b \in Box, NEW f \in file[b], Settle(b, f)
    PROVE  IInv'
  <1> DEFINE g == Settled(f)
  <1>1. f \in File /\ g \in File /\ g.id = f.id
    BY DEF IInv, FilesOK, File, Settled, Sub
  <1>2. /\ file' = [file EXCEPT ![b] = (@ \ {f}) \cup {g}]
        /\ UNCHANGED <<tmp, boxes, given, original, kept, op, faults>>
        /\ calls < MaxCalls /\ calls' = calls + 1
    BY DEF Settle
  <1> HIDE DEF g
  <1>3. FilesOK'
    BY <1>1, <1>2 DEF IInv, FilesOK, File
  <1>4. NoLoss'
    <2> SUFFICES ASSUME NEW m \in kept
                 PROVE  \E d \in Box : \E h \in file'[d] : original[h.id] = m
      BY <1>2 DEF NoLoss, Stored, Messages
    <2>0. PICK d \in Box : \E h \in file[d] : original[h.id] = m
      BY NoLossMeans DEF IInv
    <2>1. PICK h \in file[d] : original[h.id] = m
      BY <2>0
    <2>2. g \in file'[b] /\ (h # f \/ d # b => h \in file'[d])
      BY <1>2, <2>1 DEF IInv, FilesOK
    <2>3. QED
      BY <1>1, <2>1, <2>2
  <1>5. CallsOK' /\ CountsOK'
    BY <1>2, OthersStay, CountsGrow DEF IInv
  <1>6. QED
    BY <1>3, <1>4, <1>5 DEF IInv

LEMMA DeliverInv ==
    ASSUME IInv, NEW b \in Box, Deliver(b)
    PROVE  IInv'
  <1>1. PICK i \in Id \ given :
           /\ file' = [file EXCEPT ![b] = @ \cup {[id |-> i, flags |-> {}, sub |-> "new"]}]
           /\ given' = given \cup {i}
           /\ kept' = kept \cup {i}
    BY DEF Deliver
  <1>2. /\ UNCHANGED <<tmp, boxes, original, op, faults>>
        /\ calls < MaxCalls /\ calls' = calls + 1
    BY DEF Deliver
  <1> DEFINE f == [id |-> i, flags |-> {}, sub |-> "new"]
  <1>3. f \in File /\ f.id = i /\ original[i] = i
    BY DEF File, Sub, IInv, FilesOK
  <1>4. tmp' \in [Box -> SUBSET given'] /\ \A d \in Box : tmp'[d] \subseteq tmp[d]
    BY <1>1, <1>2 DEF IInv, FilesOK
  <1>5. file' = [file EXCEPT ![b] = @ \cup {f}]
    BY <1>1
  <1> HIDE DEF f
  <1>6. FilesOK' /\ NoLoss'
    BY <1>1, <1>2, <1>3, <1>4, <1>5, FilePut
  <1>7. CallsOK' /\ CountsOK'
    BY <1>1, <1>2, OthersStay, CountsGrow DEF IInv
  <1>8. QED
    BY <1>6, <1>7 DEF IInv

LEMMA BoxesInv ==
    ASSUME IInv, NEW b \in Box,
           CreateBox(b) \/ DeleteBox(b) \/ \E f \in file[b] : Expunge(b, f)
    PROVE  IInv'
  <1>1. CASE CreateBox(b)
    <2>1. FilesOK'
      BY <1>1 DEF CreateBox, IInv, FilesOK, File
    <2>2. CallsOK' /\ CountsOK'
      BY <1>1, OthersStay, CountsGrow DEF CreateBox, IInv
    <2>3. NoLoss'
      BY <1>1 DEF CreateBox, IInv, NoLoss, Stored, Messages
    <2>4. QED
      BY <2>1, <2>2, <2>3 DEF IInv
  <1>2. CASE DeleteBox(b)
    <2>1. file' = [file EXCEPT ![b] = @ \ file[b]]
      BY <1>2 DEF DeleteBox
    <2>2. tmp' \in [Box -> SUBSET given] /\ \A d \in Box : tmp'[d] \subseteq tmp[d]
      BY <1>2 DEF DeleteBox, IInv, FilesOK
    <2>3. /\ kept' = kept \ {original[f.id] : f \in file[b]} /\ boxes' \subseteq boxes
          /\ UNCHANGED <<given, original, op, faults>>
          /\ calls < MaxCalls /\ calls' = calls + 1
      BY <1>2 DEF DeleteBox, Messages
    <2>4. QED
      BY <2>1, <2>2, <2>3, TakenAwayInv
  <1>3. ASSUME NEW f \in file[b], Expunge(b, f) PROVE IInv'
    <2>1. kept' = kept \ {original[g.id] : g \in {f}}
      BY <1>3 DEF Expunge
    <2>2. {f} \in SUBSET file[b]
      OBVIOUS
    <2>3. /\ file' = [file EXCEPT ![b] = @ \ {f}]
          /\ UNCHANGED <<tmp, boxes, given, original, op, faults>>
          /\ calls < MaxCalls /\ calls' = calls + 1
      BY <1>3 DEF Expunge
    <2>4. tmp' \in [Box -> SUBSET given] /\ \A d \in Box : tmp'[d] \subseteq tmp[d]
      BY <2>3 DEF IInv, FilesOK
    <2>5. QED
      BY <2>1, <2>2, <2>3, <2>4, TakenAwayInv
  <1>4. QED
    BY <1>1, <1>2, <1>3

-----------------------------------------------------------------------------
(* The theorems. *)

LEMMA InitInv == Init => IInv
  <1> SUFFICES ASSUME Init PROVE IInv
    OBVIOUS
  <1>1. FilesOK
    BY StoreAssumption DEF Init, FilesOK, File, Sub
  <1>2. CallsOK
    BY Over DEF Init, CallsOK
  <1>3. CountsOK
    BY StoreAssumption DEF Init, CountsOK
  <1>4. NoLoss
    <2> SUFFICES ASSUME NEW m \in First
                 PROVE  \E b \in Box : \E f \in file[b] : original[f.id] = m
      BY NoLossMeans DEF Init
    <2>1. [id |-> m, flags |-> {}, sub |-> IF m \in Fresh THEN "new" ELSE "cur"] \in file[Home]
      BY StoreAssumption DEF Init
    <2>2. QED
      BY <2>1, StoreAssumption DEF Init
  <1>5. QED
    BY <1>1, <1>2, <1>3, <1>4 DEF IInv

LEMMA MovesInv == IInv /\ Moves => IInv'
  <1> SUFFICES ASSUME IInv, Moves PROVE IInv'
    OBVIOUS
  <1>1. ASSUME NEW c \in Client, Calls(c) \/ Step(c) \/ Interrupt(c) \/ Return(c)
        PROVE  IInv'
    BY <1>1, CallsInv, ReadingInv, RenameInv, CopyInv, WriteInv, LinkInv, EndingInv DEF Step
  <1>2. ASSUME NEW b \in Box,
               \/ CreateBox(b) \/ DeleteBox(b) \/ Deliver(b)
               \/ \E f \in file[b] : Expunge(b, f) \/ Settle(b, f)
        PROVE  IInv'
    BY <1>2, BoxesInv, DeliverInv, SettleInv
  <1>3. QED
    BY <1>1, <1>2 DEF Moves

LEMMA NextInv == IInv /\ [Next]_vars => IInv'
  <1> SUFFICES ASSUME IInv, [Next]_vars PROVE IInv'
    OBVIOUS
  <1>1. CASE UNCHANGED vars
    BY <1>1 DEF vars, IInv, FilesOK, CallsOK, CountsOK, NoLoss, Stored, Messages, File,
                Op, ActOn, Flagging, Adding, Linking, ListOp, OpOK, Idle, Done, Failed
  <1>2. QED
    BY <1>1, MovesInv DEF Next

LEMMA Invariant == Spec => []IInv
BY InitInv, NextInv, PTL DEF Spec

-----------------------------------------------------------------------------
(* What a listing shows. *)

\* What has stayed in place in a directory already read is among the names.
SteadyOK ==
    /\ steady \in [Client -> SUBSET File]
    /\ \A c \in Client : op[c].kind = "list" =>
          \A f \in steady[c] : f.sub \in op[c].seek \/ f \in op[c].names

LEMMA OneCallMoves ==
    ASSUME IInv, NEW c \in Client, Calls(c) \/ Step(c) \/ Interrupt(c) \/ Return(c)
    PROVE  \E p : op' = [op EXCEPT ![c] = p]
  <1>0. op \in [Client -> Op]
    BY DEF IInv, CallsOK
  <1>1. CASE Calls(c)
    BY <1>1 DEF Calls, Begin, BeginMove, BeginCopy, BeginFlags, BeginDelete, BeginAdd, BeginList
  <1>2. CASE Find(c)
    <2>1. op' = [op EXCEPT ![c] = op'[c]]
      BY <1>0, <1>2 DEF Find
    <2>2. QED
      BY <2>1
  <1>3. CASE Names(c)
    <2>1. op' = [op EXCEPT ![c] = op'[c]]
      BY <1>0, <1>3 DEF Names
    <2>2. QED
      BY <2>1
  <1>4. CASE Read(c)
    <2>1. op' = [op EXCEPT ![c] = op'[c]]
      BY <1>0, <1>4 DEF Read
    <2>2. QED
      BY <2>1
  <1>5. CASE Rename(c) \/ Copy(c)
    BY <1>5 DEF Rename, Copy
  <1>6. CASE Write(c) \/ Link(c)
    BY <1>6 DEF Write, Link
  <1>7. CASE Interrupt(c) \/ Return(c)
    BY <1>7 DEF Interrupt, Return
  <1>8. QED
    BY <1>1, <1>2, <1>3, <1>4, <1>5, <1>6, <1>7 DEF Step

LEMMA Turned ==
    ASSUME IInv, NEW c \in Client, op[c].stage = "rename"
    PROVE  Turn(op[c]).kind # "list"
  <1>1. op[c] \in ActOn \cup Flagging
    BY AtHand
  <1>2. QED
    BY <1>1 DEF Turn, LookUp, ActOn, Flagging, Done

\* A listing that goes on lists the same mailbox; it has a directory less to
\* read only if it has taken down the names of that directory's files.
LEMMA ListingGoesOn ==
    ASSUME IInv, Moves, NEW c \in Client, op[c].kind = "list", op'[c].kind = "list"
    PROVE  /\ op'[c].from = op[c].from
           /\ \A f \in file'[op[c].from] :
                 (f.sub \in op[c].seek \/ f \in op[c].names) =>
                     (f.sub \in op'[c].seek \/ f \in op'[c].names)
  <1> DEFINE o == op[c]
  <1>0. o \in ListOp
    BY AtStage DEF IInv
  <1>1. CASE op'[c] = op[c]
    BY <1>1
  <1>2. CASE Names(c)
    <2>1. PICK d \in o.seek :
             LET names == o.names \cup {f \in file[o.from] : f.sub = d} IN
             op' = [op EXCEPT
                 ![c].names = names,
                 ![c].seek = @ \ {d},
                 ![c].stage = IF o.seek # {d} THEN "names"
                              ELSE IF names = {} THEN "ok" ELSE "read"]
      BY <1>2 DEF Names
    <2>2. /\ op'[c].names = o.names \cup {f \in file[o.from] : f.sub = d}
          /\ op'[c].seek = o.seek \ {d}
          /\ op'[c].from = o.from
      BY <1>0, <2>1 DEF IInv, CallsOK, ListOp
    <2>3. UNCHANGED file
      BY <1>2 DEF Names, store
    <2>4. QED
      BY <2>2, <2>3
  <1>3. CASE Read(c)
    <2>1. PICK f \in o.names \ o.shown :
             LET shown == o.shown \cup {f} IN
             IF f \in file[o.from]
             THEN op' = [op EXCEPT ![c].shown = shown,
                                   ![c].stage = IF shown = o.names THEN "ok" ELSE "read"]
             ELSE op' = [op EXCEPT ![c] = Failed]
      BY <1>3 DEF Read
    <2>2. f \in file[o.from]
      BY <2>1 DEF IInv, CallsOK, Failed
    <2>3. op'[c].names = o.names /\ op'[c].seek = o.seek /\ op'[c].from = o.from
      BY <1>0, <2>1, <2>2 DEF IInv, CallsOK, ListOp
    <2>4. QED
      BY <2>3
  <1>4. ASSUME NEW d \in Client, d # c, Calls(d) \/ Step(d) \/ Interrupt(d) \/ Return(d)
        PROVE  op'[c] = op[c]
    <2>1. PICK p : op' = [op EXCEPT ![d] = p]
      BY <1>4, OneCallMoves DEF IInv
    <2>2. QED
      BY <1>4, <2>1 DEF IInv, CallsOK
  <1>5. CASE Calls(c) \/ Interrupt(c) \/ Return(c)
    BY <1>5 DEF Calls, Interrupt, Return, IInv, CallsOK, Failed, Idle
  <1>6. CASE Find(c) \/ Rename(c) \/ Copy(c) \/ Write(c) \/ Link(c)
    BY <1>0, <1>6 DEF Find, Rename, Copy, Write, Link, ListOp
  <1>7. ASSUME NEW b \in Box,
               \/ CreateBox(b) \/ DeleteBox(b) \/ Deliver(b)
               \/ \E f \in file[b] : Expunge(b, f) \/ Settle(b, f)
        PROVE  op'[c] = op[c]
    BY <1>7 DEF CreateBox, DeleteBox, Deliver, Expunge, Settle
  <1>8. QED
    BY <1>1, <1>2, <1>3, <1>4, <1>5, <1>6, <1>7 DEF Moves, Step

\* A listing begins with both directories to read.
LEMMA ListingBegins ==
    ASSUME IInv, Moves, NEW c \in Client, op[c].kind # "list", op'[c].kind = "list"
    PROVE  op'[c].seek = Sub
  <1>1. CASE Calls(c)
    BY <1>1 DEF Calls, Begin, BeginMove, BeginCopy, BeginFlags, BeginDelete, BeginAdd, BeginList,
                Transfer, IInv, CallsOK
  <1>2. ASSUME NEW d \in Client, d # c, Calls(d) \/ Step(d) \/ Interrupt(d) \/ Return(d)
        PROVE  FALSE
    <2>1. PICK p : op' = [op EXCEPT ![d] = p]
      BY <1>2, OneCallMoves DEF IInv
    <2>2. QED
      BY <1>2, <2>1 DEF IInv, CallsOK
  <1>3. CASE Interrupt(c) \/ Return(c)
    BY <1>3 DEF Interrupt, Return, IInv, CallsOK, Failed, Idle
  <1>4. CASE Step(c)
    <2>1. CASE Names(c) \/ Read(c)
      BY <2>1, AtStage DEF Names, Read, IInv, ListOp
    <2>2. CASE Rename(c) \/ Copy(c)
      <3>1. op' = [op EXCEPT ![c] = Failed] \/ op' = [op EXCEPT ![c] = Turn(op[c])]
        BY <2>2 DEF Rename, Copy
      <3>2. Turn(op[c]).kind # "list"
        BY <2>2, Turned DEF Rename, Copy, IInv
      <3>3. QED
        BY <3>1, <3>2 DEF IInv, CallsOK, Failed
    <2>3. CASE Write(c) \/ Link(c)
      BY <2>3 DEF Write, Link, IInv, CallsOK, Done, Failed
    <2>4. CASE Find(c)
      <3>1. op[c] \in ActOn \cup Flagging
        BY <2>4, AtStage DEF Find, IInv
      <3>2. op \in [Client -> Op] /\ Failed.kind # "list"
        BY DEF IInv, CallsOK, Failed
      <3>3. \/ op'[c] = Failed
            \/ \E f : op'[c] = [op[c] EXCEPT !.found = f, !.seek = {}, !.stage = "rename"]
            \/ \E ds : op'[c] = [op[c] EXCEPT !.seek = ds]
        BY <2>4, <3>2 DEF Find
      <3> DEFINE o == op[c]
      <3>4. /\ \A f : [o EXCEPT !.found = f, !.seek = {}, !.stage = "rename"].kind = o.kind
            /\ \A ds : [o EXCEPT !.seek = ds].kind = o.kind
        BY <3>1 DEF ActOn, Flagging
      <3>5. QED
        BY <3>2, <3>3, <3>4
    <2>5. QED
      BY <1>4, <2>1, <2>2, <2>3, <2>4 DEF Step
  <1>5. ASSUME NEW b \in Box,
               \/ CreateBox(b) \/ DeleteBox(b) \/ Deliver(b)
               \/ \E f \in file[b] : Expunge(b, f) \/ Settle(b, f)
        PROVE  FALSE
    BY <1>5 DEF CreateBox, DeleteBox, Deliver, Expunge, Settle
  <1>6. QED
    BY <1>1, <1>2, <1>3, <1>4, <1>5 DEF Moves

LEMMA SteadyInv == IInv /\ IInv' /\ SteadyOK /\ [Next]_vars => SteadyOK'
  <1> SUFFICES ASSUME IInv, IInv', SteadyOK, [Next]_vars PROVE SteadyOK'
    OBVIOUS
  <1>1. CASE UNCHANGED vars
    BY <1>1 DEF vars, SteadyOK, File
  <1>2. CASE Next
    <2>1. steady' = [c \in Client |-> Steady(c)] /\ Moves
      BY <1>2 DEF Next
    <2>2. ASSUME NEW c \in Client, op'[c].kind = "list"
          PROVE  /\ steady'[c] \subseteq File
                 /\ \A f \in steady'[c] : f.sub \in op'[c].seek \/ f \in op'[c].names
      <3>1. /\ steady'[c] \subseteq file'[op'[c].from]
            /\ op[c].kind = "list" => steady'[c] \subseteq steady[c]
        BY <2>1, <2>2 DEF Steady
      <3>2. file'[op'[c].from] \subseteq File
        <4>1. op'[c] \in ListOp'
          BY <2>2 DEF IInv, CallsOK, Op, Idle, Done, Failed, ActOn, Flagging, Adding, Linking
        <4>2. op'[c].from \in Box
          BY <4>1 DEF ListOp
        <4>3. QED
          BY <4>2 DEF IInv, FilesOK, File
      <3>3. CASE op[c].kind # "list"
        <4>1. op'[c].seek = Sub
          BY <2>1, <2>2, <3>3, ListingBegins
        <4>2. QED
          BY <3>1, <3>2, <4>1 DEF File
      <3>4. CASE op[c].kind = "list"
        BY <2>1, <2>2, <3>1, <3>2, <3>4, ListingGoesOn DEF SteadyOK
      <3>5. QED
        BY <3>3, <3>4
    <2>3. ASSUME NEW c \in Client
          PROVE  steady'[c] \subseteq File
      <3>1. CASE op'[c].kind = "list"
        BY <2>2, <3>1
      <3>2. CASE op'[c].kind # "list"
        BY <2>1, <3>2 DEF Steady
      <3>3. QED
        BY <3>1, <3>2
    <2>4. steady' \in [Client -> SUBSET File]
      BY <2>1, <2>3
    <2>5. QED
      BY <2>2, <2>4 DEF SteadyOK, File
  <1>3. QED
    BY <1>1, <1>2

LEMMA SteadyInvariant == Spec => []SteadyOK
  <1>1. Init => SteadyOK
    BY DEF Init, SteadyOK, Idle
  <1>2. QED
    BY <1>1, SteadyInv, Invariant, PTL DEF Spec

\* Every variable keeps its shape, and a batch that has found a file acts on a
\* file of the id it looked for.
THEOREM TypeCorrect == Spec => []TypeOK
  <1>1. IInv /\ SteadyOK => TypeOK
    <2> SUFFICES ASSUME IInv, SteadyOK PROVE TypeOK
      OBVIOUS
    <2>1. ASSUME NEW c \in Client, op[c] # Idle
          PROVE  CallOK(op[c])
      <3>1. CASE op[c] \in ActOn \cup Flagging
        BY <3>1 DEF IInv, CallsOK, OpOK, CallOK, ActOn, Flagging
      <3>2. CASE op[c] \in {Done, Failed} \cup Adding \cup Linking
        BY <3>2 DEF CallOK, Done, Failed, Adding, Linking
      <3>3. CASE op[c] \in ListOp
        BY <3>3 DEF IInv, CallsOK, OpOK, CallOK, ListOp
      <3>4. QED
        BY <2>1, <3>1, <3>2, <3>3 DEF IInv, CallsOK, Op
    <2>2. QED
      BY <2>1 DEF IInv, FilesOK, CallsOK, CountsOK, TypeOK, SteadyOK
  <1>2. QED
    BY <1>1, Invariant, SteadyInvariant, PTL

\* A message that was stored is in some mailbox until an expunge or the
\* deletion of its mailbox takes it: moves, flag changes and copies by any
\* number of processes, interrupted anywhere, lose none.
THEOREM NoMessageLost == Spec => []NoLoss
  <1>1. IInv => NoLoss
    BY DEF IInv
  <1>2. QED
    BY <1>1, Invariant, PTL

\* A listing that succeeds shows every message that stayed in place, under one
\* name, from its beginning to its end, in whichever order it read cur and new
\* and whatever others did between the two and while it read the files.
THEOREM ListingShowsWhatStays == Spec => []ListShowsSteady
  <1>1. IInv /\ SteadyOK => ListShowsSteady
    <2> SUFFICES ASSUME IInv, SteadyOK, NEW c \in Client,
                        op[c].kind = "list", op[c].stage = "ok"
                 PROVE  steady[c] \subseteq op[c].shown
      BY DEF ListShowsSteady
    <2>1. op[c].seek = {} /\ op[c].shown = op[c].names
      BY DEF IInv, CallsOK, OpOK
    <2>2. QED
      BY <2>1 DEF SteadyOK
  <1>2. QED
    BY <1>1, Invariant, SteadyInvariant, PTL

-----------------------------------------------------------------------------
(* Which steps take a file away. *)

\* The allowed ways for file f to leave mailbox b.
Allowed(b, f) ==
    \/ b \notin boxes'
    \/ Trashed \in f.flags /\ calls' # calls
    \/ f.sub = "new" /\ Settled(f) \in file'[b]
    \/ \E c \in Client :
           /\ op[c].stage = "rename" /\ op[c].found = f /\ op[c].from = b
           /\ \/ op[c].kind = "move" /\ f \in file'[op[c].to]
              \/ /\ op[c].kind = "flags"
                 /\ \E g \in file'[b] :
                        /\ g.id = f.id
                        /\ op[c].how = "add" => f.flags \subseteq g.flags
                        /\ op[c].how = "remove" => f.flags \ g.flags \subseteq op[c].flags

LEMMA RenameAllowed ==
    ASSUME IInv, NEW c \in Client, Rename(c), NEW b \in Box, NEW f \in file[b] \ file'[b]
    PROVE  Allowed(b, f)
  <1> DEFINE o == op[c]
  <1>0. o.stage = "rename" /\ o.kind # "copy" /\ o.found \in file[o.from]
    BY DEF Rename
  <1>1. PICK g \in Renamings(o) : file' = [d \in Box |->
              (file[d] \ IF d = o.from THEN {o.found} ELSE {})
                  \cup IF d = Place(o) THEN {g} ELSE {}]
    BY DEF Rename
  <1>2. b = o.from /\ f = o.found
    BY <1>1
  <1>3. Place(o) \in Box /\ g \in file'[Place(o)]
    BY <1>0, <1>1, AtHand
  <1>4. o \in ActOn \cup Flagging
    BY <1>0, AtHand
  <1>5. CASE o.kind = "move"
    BY <1>0, <1>2, <1>3, <1>5 DEF Allowed, Place, Renamings
  <1>6. CASE o.kind = "flags"
    <2>1. PICK d \in {o.found.sub, "cur"} : g = [o.found EXCEPT !.flags = Letters(o), !.sub = d]
      BY <1>6 DEF Renamings
    <2>2. g.id = f.id /\ g.flags = Letters(o)
      BY <1>0, <1>2, <2>1, AtHand DEF File
    <2>3. g \in file'[b]
      BY <1>2, <1>3, <1>6 DEF Place
    <2>4. o.how = "add" => f.flags \subseteq Letters(o)
      BY <1>2 DEF Letters
    <2>5. o.how = "remove" => f.flags \ Letters(o) \subseteq o.flags
      BY <1>2 DEF Letters
    <2>6. QED
      BY <1>0, <1>2, <1>6, <2>2, <2>3, <2>4, <2>5 DEF Allowed
  <1>7. QED
    BY <1>0, <1>4, <1>5, <1>6 DEF ActOn, Flagging

LEMMA NextAllowed ==
    ASSUME IInv, Moves, NEW b \in Box, NEW f \in file[b] \ file'[b]
    PROVE  Allowed(b, f)
  <1>1. ASSUME NEW c \in Client, Calls(c) \/ Step(c) \/ Interrupt(c) \/ Return(c)
        PROVE  Allowed(b, f)
    <2>1. CASE Rename(c)
      BY <2>1, RenameAllowed
    <2>2. CASE Copy(c)
      <3>1. \A d \in Box : file[d] \subseteq file'[d]
        BY <2>2 DEF Copy, IInv, FilesOK
      <3>2. QED
        BY <3>1
    <2>3. CASE Link(c)
      <3>1. \A d \in Box : file[d] \subseteq file'[d]
        BY <2>3 DEF Link, IInv, FilesOK
      <3>2. QED
        BY <3>1
    <2>4. CASE Find(c) \/ Names(c) \/ Read(c) \/ Write(c) \/ Interrupt(c) \/ Return(c)
      BY <2>4 DEF Find, Names, Read, Write, Interrupt, Return, store
    <2>5. CASE Calls(c)
      <3>1. PICK o : Begin(c, o)
        BY <2>5 DEF Calls, BeginMove, BeginCopy, BeginFlags, BeginDelete, BeginAdd, BeginList
      <3>2. QED
        BY <3>1 DEF Begin, store
    <2>6. QED
      BY <1>1, <2>1, <2>2, <2>3, <2>4, <2>5 DEF Step
  <1>2. ASSUME NEW d \in Box, CreateBox(d) \/ DeleteBox(d) \/ Deliver(d)
        PROVE  Allowed(b, f)
    <2>1. CASE CreateBox(d) \/ Deliver(d)
      BY <2>1 DEF CreateBox, Deliver, IInv, FilesOK
    <2>2. CASE DeleteBox(d)
      <3>1. b = d
        BY <2>2 DEF DeleteBox, IInv, FilesOK
      <3>2. QED
        BY <2>2, <3>1 DEF DeleteBox, Allowed
    <2>3. QED
      BY <1>2, <2>1, <2>2
  <1>3. ASSUME NEW d \in Box, NEW g \in file[d], Expunge(d, g)
        PROVE  Allowed(b, f)
    <2>1. b = d /\ f = g
      BY <1>3 DEF Expunge, IInv, FilesOK
    <2>2. calls' # calls
      BY <1>3, StoreAssumption DEF Expunge, IInv, CountsOK
    <2>3. QED
      BY <1>3, <2>1, <2>2 DEF Expunge, Allowed
  <1>4. ASSUME NEW d \in Box, NEW g \in file[d], Settle(d, g)
        PROVE  Allowed(b, f)
    <2>1. file' = [file EXCEPT ![d] = (@ \ {g}) \cup {Settled(g)}] /\ g.sub = "new"
      BY <1>4 DEF Settle
    <2>2. b = d /\ f = g
      BY <2>1 DEF IInv, FilesOK
    <2>3. Settled(f) \in file'[b]
      BY <2>1, <2>2 DEF IInv, FilesOK
    <2>4. QED
      BY <2>1, <2>2, <2>3 DEF Allowed
  <1>5. QED
    BY <1>1, <1>2, <1>3, <1>4 DEF Moves

\* A file leaves a mailbox only under the name a call found it by: a flag that
\* another process set between the look-up and the rename is not undone.
THEOREM NoFlagUndone == Spec => NothingUndone
  <1>1. IInv /\ [Next]_vars =>
            [\A b \in Box : \A f \in file[b] \ file'[b] : Allowed(b, f)]_vars
    BY NextAllowed DEF Next
  <1>2. QED
    BY <1>1, Invariant, PTL DEF Spec, NothingUndone, Allowed

-----------------------------------------------------------------------------
(* The store implements MailStore: an operation takes place when it renames *)
(* or copies the file it found or wrote, and a listing takes each part of   *)
(* the mailbox when it reads the names in that directory.                   *)

LEMMA TaskIs ==
    /\ TaskOf(Idle) = [kind |-> "none"]
    /\ TaskOf(Done) = [kind |-> "done"]
    /\ TaskOf(Failed) = [kind |-> "failed"]
    /\ \A o \in ActOn :
          TaskOf(o) = [kind |-> o.kind, from |-> o.from, to |-> o.to, id |-> o.id, ids |-> o.ids]
    /\ \A o \in Flagging :
          TaskOf(o) = [kind |-> o.kind, from |-> o.from, id |-> o.id, ids |-> o.ids,
                       flags |-> o.flags, how |-> o.how]
    /\ \A o \in Adding : TaskOf(o) = [kind |-> "add", to |-> o.to, flags |-> o.flags]
    /\ \A o \in Linking :
          TaskOf(o) = [kind |-> "adding", to |-> o.to, flags |-> o.flags, id |-> o.id]
    /\ \A o \in ListOp :
          /\ o.stage = "names" =>
                TaskOf(o) = [kind |-> "list", from |-> o.from, parts |-> o.seek, messages |-> o.names]
          /\ o.stage = "read" => TaskOf(o) = [kind |-> "shown", messages |-> o.names]
          /\ o.stage = "ok" => TaskOf(o) = [kind |-> "listed", messages |-> o.shown]
  <1>1. TaskOf(Idle) = [kind |-> "none"]
    BY DEF TaskOf, Outcome, Idle
  <1>2. TaskOf(Done) = [kind |-> "done"] /\ TaskOf(Failed) = [kind |-> "failed"]
    BY DEF TaskOf, Outcome, Done, Failed
  <1>3. \A o \in ActOn :
          TaskOf(o) = [kind |-> o.kind, from |-> o.from, to |-> o.to, id |-> o.id, ids |-> o.ids]
    BY DEF TaskOf, Ahead, ActOn
  <1>4. \A o \in Flagging :
          TaskOf(o) = [kind |-> o.kind, from |-> o.from, id |-> o.id, ids |-> o.ids,
                       flags |-> o.flags, how |-> o.how]
    BY DEF TaskOf, Ahead, Flagging
  <1>5. \A o \in Adding : TaskOf(o) = [kind |-> "add", to |-> o.to, flags |-> o.flags]
    BY DEF TaskOf, Ahead, Adding
  <1>6. \A o \in Linking :
          TaskOf(o) = [kind |-> "adding", to |-> o.to, flags |-> o.flags, id |-> o.id]
    BY DEF TaskOf, Linking
  <1>7. \A o \in ListOp :
          /\ o.stage = "names" =>
                TaskOf(o) = [kind |-> "list", from |-> o.from, parts |-> o.seek, messages |-> o.names]
          /\ o.stage = "read" => TaskOf(o) = [kind |-> "shown", messages |-> o.names]
          /\ o.stage = "ok" => TaskOf(o) = [kind |-> "listed", messages |-> o.shown]
    BY DEF TaskOf, Ahead, Outcome, ListOp
  <1> QED
    BY <1>1, <1>2, <1>3, <1>4, <1>5, <1>6, <1>7

LEMMA TaskMoves ==
    ASSUME CallsOK, NEW c \in Client, NEW o, op' = [op EXCEPT ![c] = o]
    PROVE  /\ Tasks[c] = TaskOf(op[c])
           /\ Tasks'[c] = TaskOf(o)
           /\ Tasks' = [Tasks EXCEPT ![c] = TaskOf(o)]
  <1>1. op \in [Client -> Op] /\ \A d \in Client : op'[d] = IF d = c THEN o ELSE op[d]
    BY DEF CallsOK
  <1>2. \A d \in Client : Tasks'[d] = TaskOf(op'[d]) /\ Tasks[d] = TaskOf(op[d])
    BY DEF Tasks
  <1>3. Tasks' = [d \in Client |-> TaskOf(op'[d])] /\ Tasks = [d \in Client |-> TaskOf(op[d])]
    BY DEF Tasks
  <1>4. \A d \in Client : TaskOf(op'[d]) = IF d = c THEN TaskOf(o) ELSE TaskOf(op[d])
    BY <1>1
  <1>5. Tasks' = [Tasks EXCEPT ![c] = TaskOf(o)]
    BY <1>2, <1>3, <1>4
  <1> QED
    BY <1>1, <1>2, <1>5

\* A call that fails, wherever it is.
LEMMA FailMaps ==
    ASSUME CallsOK, NEW c \in Client, op' = [op EXCEPT ![c] = Failed],
           op[c].stage \notin {"ok", "err"}, UNCHANGED <<file, boxes, given>>
    PROVE  Atomic!Fail(c)
  <1> DEFINE o == op[c]
  <1>1. Tasks[c] = TaskOf(o) /\ Tasks' = [Tasks EXCEPT ![c] = TaskOf(Failed)]
    BY TaskMoves
  <1>2. TaskOf(o).kind \in {"move", "copy", "flags", "add", "adding", "list", "shown"}
    <2>1. CASE o \in ActOn
      <3>1. o.kind \in {"move", "copy"}
        BY <2>1 DEF ActOn
      <3>2. QED
        BY <2>1, <3>1, TaskIs
    <2>2. CASE o \in Flagging
      <3>1. o.kind = "flags"
        BY <2>2 DEF Flagging
      <3>2. QED
        BY <2>2, <3>1, TaskIs
    <2>3. CASE o \in Adding \cup Linking
      BY <2>3, TaskIs
    <2>4. CASE o \in ListOp
      <3>1. o.stage \in {"names", "read"}
        BY <2>4 DEF ListOp
      <3>2. QED
        BY <2>4, <3>1, TaskIs
    <2>5. o \in Op /\ o \notin {Idle, Done, Failed}
      BY DEF CallsOK, Idle, Done, Failed
    <2>6. QED
      BY <2>1, <2>2, <2>3, <2>4, <2>5 DEF Op
  <1> QED
    BY <1>1, <1>2, TaskIs DEF Atomic!Fail, Atomic!Failed

\* A call that begins asks for what the store may be asked for.
LEMMA BeginMaps ==
    ASSUME IInv, NEW c \in Client, NEW o, op[c].kind = "none", Begin(c, o),
           TaskOf(o) \in Atomic!Task
    PROVE  Atomic!Ask(c)
  <1>1. op[c] = Idle
    BY DEF IInv, CallsOK, Op, Done, Failed, ActOn, Flagging, Adding, Linking, ListOp
  <1>2. op' = [op EXCEPT ![c] = o] /\ UNCHANGED <<file, boxes, given>>
    BY DEF Begin, store
  <1>3. /\ Tasks[c] = TaskOf(op[c]) /\ Tasks'[c] = TaskOf(o)
        /\ Tasks' = [Tasks EXCEPT ![c] = TaskOf(o)]
    BY <1>2, TaskMoves DEF IInv
  <1> QED
    BY <1>1, <1>2, <1>3, TaskIs DEF Atomic!Ask, Atomic!Idle

LEMMA BeginFlagsMaps ==
    ASSUME IInv, NEW c \in Client, NEW from \in boxes, NEW ids, Head(ids) \in given,
           Tail(ids) \in Seq(given), NEW fs \in SUBSET Letter,
           NEW how \in {"add", "set", "remove"}, op[c].kind = "none",
           BeginFlags(c, from, ids, fs, how)
    PROVE  Atomic!Ask(c)
  <1> DEFINE o == [kind |-> "flags", from |-> from, ids |-> Tail(ids), id |-> Head(ids),
                   flags |-> fs, how |-> how, seek |-> Sub, found |-> NoFile, stage |-> "find"]
  <1>1. TaskOf(o) = [kind |-> "flags", from |-> from, id |-> Head(ids), ids |-> Tail(ids),
                     flags |-> fs, how |-> how]
    BY DEF TaskOf, Ahead
  <1> HIDE DEF o
  <1>2. TaskOf(o) \in Atomic!Task
    <2>1. TaskOf(o) \in [kind : {"flags"}, from : boxes, id : given, ids : Seq(given),
                         flags : SUBSET Letter, how : {"add", "set", "remove"}]
      BY <1>1
    <2>2. QED
      BY <2>1 DEF Atomic!Task
  <1>3. Begin(c, o)
    BY DEF BeginFlags, o
  <1> QED
    BY <1>2, <1>3, BeginMaps

LEMMA CallsMap ==
    ASSUME IInv, NEW c \in Client, Calls(c)
    PROVE  Atomic!Ask(c)
  <1>0. op[c].kind = "none"
    BY DEF Calls
  <1>1. ASSUME NEW from \in boxes, NEW to \in boxes, NEW ids \in Batch,
               \A k \in DOMAIN ids : ids[k] \in Told,
               BeginMove(c, from, to, ids) \/ BeginCopy(c, from, to, ids)
        PROVE  Atomic!Ask(c)
    <2>1. Head(ids) \in given /\ Tail(ids) \in Seq(given)
      BY <1>1, BatchIds DEF IInv
    <2>2. ASSUME NEW kind \in {"move", "copy"}
          PROVE  TaskOf(Transfer(kind, from, to, ids)) \in Atomic!Task
      <3>1. TaskOf(Transfer(kind, from, to, ids)) =
                [kind |-> kind, from |-> from, to |-> to, id |-> Head(ids), ids |-> Tail(ids)]
        BY DEF TaskOf, Ahead, Transfer
      <3>2. QED
        BY <2>1, <3>1 DEF Atomic!Task
    <2>3. QED
      BY <1>0, <1>1, <2>2, BeginMaps DEF BeginMove, BeginCopy
  <1>2. ASSUME NEW from \in boxes, NEW ids \in Batch, NEW fs \in SUBSET Letter,
               NEW how \in {"add", "set", "remove"},
               \A k \in DOMAIN ids : ids[k] \in Told, BeginFlags(c, from, ids, fs, how)
        PROVE  Atomic!Ask(c)
    <2>1. Head(ids) \in given /\ Tail(ids) \in Seq(given)
      BY <1>2, BatchIds DEF IInv
    <2>2. QED
      BY <1>0, <1>2, <2>1, BeginFlagsMaps
  <1>3. ASSUME NEW from \in boxes, NEW i \in Told, BeginDelete(c, from, i)
        PROVE  Atomic!Ask(c)
    <2>1. Head(<<i>>) \in given /\ Tail(<<i>>) \in Seq(given)
      BY <1>3 DEF Told
    <2>2. {Trashed} \in SUBSET Letter
      BY StoreAssumption
    <2>3. QED
      BY <1>0, <1>3, <2>1, <2>2, BeginFlagsMaps DEF BeginDelete
  <1>4. ASSUME NEW to \in boxes, NEW fs \in SUBSET Letter, BeginAdd(c, to, fs)
        PROVE  Atomic!Ask(c)
    <2> DEFINE o == [kind |-> "add", to |-> to, flags |-> fs, stage |-> "store"]
    <2>1. TaskOf(o) = [kind |-> "add", to |-> to, flags |-> fs]
      BY DEF TaskOf, Ahead
    <2>2. TaskOf(o) \in Atomic!Task
      BY <2>1 DEF Atomic!Task
    <2> HIDE DEF o
    <2>3. Begin(c, o)
      BY <1>4 DEF BeginAdd, o
    <2>4. QED
      BY <1>0, <2>2, <2>3, BeginMaps
  <1>5. ASSUME NEW from \in boxes, BeginList(c, from)
        PROVE  Atomic!Ask(c)
    <2> DEFINE o == [kind |-> "list", from |-> from, seek |-> Sub, stage |-> "names",
                     names |-> {}, shown |-> {}]
    <2>1. TaskOf(o) = [kind |-> "list", from |-> from, parts |-> Sub, messages |-> {}]
      BY DEF TaskOf, Ahead
    <2> HIDE DEF o
    <2>2. TaskOf(o) \in Atomic!Task
      <3>1. Sub = Atomic!Sub
        BY DEF Sub, Atomic!Sub
      <3>2. TaskOf(o) \in [kind : {"list"}, from : boxes, parts : {Atomic!Sub}, messages : {{}}]
        BY <2>1, <3>1
      <3>3. QED
        BY <3>2 DEF Atomic!Task
    <2>3. Begin(c, o)
      BY <1>5 DEF BeginList, o
    <2>4. QED
      BY <1>0, <2>2, <2>3, BeginMaps
  <1>6. QED
    BY <1>1, <1>2, <1>3, <1>4, <1>5 DEF Calls

\* A look-up shows nothing until it fails.
LEMMA FindMaps ==
    ASSUME IInv, NEW c \in Client, Find(c)
    PROVE  Atomic!Step(c) \/ UNCHANGED <<file, boxes, given, Tasks>>
  <1> DEFINE o == op[c]
  <1>1. UNCHANGED <<file, boxes, given>> /\ CallsOK /\ o.stage = "find"
    BY DEF Find, store, IInv
  <1>2. o \in ActOn \cup Flagging
    BY <1>1, AtStage
  <1>3. CASE op' = [op EXCEPT ![c] = Failed]
    BY <1>1, <1>3, FailMaps DEF Atomic!Step
  <1>4. ASSUME NEW p, op' = [op EXCEPT ![c] = p], p \in ActOn \cup Flagging,
               p.kind = o.kind, p.from = o.from, p.id = o.id, p.ids = o.ids,
               o \in ActOn => p.to = o.to,
               o \in Flagging => p.flags = o.flags /\ p.how = o.how
        PROVE  UNCHANGED Tasks
    <2>1. TaskOf(p) = TaskOf(o)
      <3>1. CASE o \in ActOn
        <4>1. p \in ActOn
          BY <1>4, <3>1 DEF ActOn, Flagging
        <4>2. QED
          BY <1>4, <3>1, <4>1, TaskIs
      <3>2. CASE o \in Flagging
        <4>1. p \in Flagging
          BY <1>4, <3>2 DEF ActOn, Flagging
        <4>2. QED
          BY <1>4, <3>2, <4>1, TaskIs
      <3>3. QED
        BY <1>2, <3>1, <3>2
    <2>2. Tasks' = [Tasks EXCEPT ![c] = TaskOf(p)] /\ Tasks[c] = TaskOf(o)
      BY <1>1, <1>4, TaskMoves
    <2>3. QED
      BY <2>1, <2>2 DEF Tasks
  <1>5. ASSUME NEW d \in o.seek, op' = [op EXCEPT ![c] = [o EXCEPT !.seek = @ \ {d}]]
        PROVE  UNCHANGED Tasks
    <2> DEFINE p == [o EXCEPT !.seek = @ \ {d}]
    <2>1. /\ p \in ActOn \cup Flagging
          /\ p.kind = o.kind /\ p.from = o.from /\ p.id = o.id /\ p.ids = o.ids
          /\ o \in ActOn => p.to = o.to
          /\ o \in Flagging => p.flags = o.flags /\ p.how = o.how
      BY <1>2 DEF ActOn, Flagging
    <2>2. op' = [op EXCEPT ![c] = p]
      BY <1>5
    <2> HIDE DEF p
    <2>3. QED
      BY <1>4, <2>1, <2>2
  <1>6. ASSUME NEW f \in file[o.from],
               op' = [op EXCEPT ![c].found = f, ![c].seek = {}, ![c].stage = "rename"]
        PROVE  UNCHANGED Tasks
    <2> DEFINE p == [o EXCEPT !.found = f, !.seek = {}, !.stage = "rename"]
    <2>1. op' = [op EXCEPT ![c] = p]
      BY <1>1, <1>6 DEF CallsOK
    <2>2. f \in File
      BY <1>2 DEF IInv, FilesOK, ActOn, Flagging
    <2>3. /\ p \in ActOn \cup Flagging
          /\ p.kind = o.kind /\ p.from = o.from /\ p.id = o.id /\ p.ids = o.ids
          /\ o \in ActOn => p.to = o.to
          /\ o \in Flagging => p.flags = o.flags /\ p.how = o.how
      BY <1>2, <2>2 DEF ActOn, Flagging
    <2> HIDE DEF p
    <2>4. QED
      BY <1>4, <2>1, <2>3
  <1>7. PICK d \in o.seek :
           \/ \E f \in file[o.from] :
                  op' = [op EXCEPT ![c].found = f, ![c].seek = {}, ![c].stage = "rename"]
           \/ op' = [op EXCEPT ![c] =
                  IF o.seek = {d} THEN Failed ELSE [o EXCEPT !.seek = @ \ {d}]]
    BY DEF Find
  <1>8. QED
    BY <1>1, <1>3, <1>5, <1>6, <1>7

\* The names in a directory are a part of the listing, and the last is all.
LEMMA NamesMaps ==
    ASSUME IInv, NEW c \in Client, Names(c)
    PROVE  Atomic!Step(c)
  <1> DEFINE o == op[c]
             t == TaskOf(op[c])
  <1>1. UNCHANGED <<file, boxes, given>> /\ CallsOK /\ o.stage = "names"
    BY DEF Names, store, IInv
  <1>2. o \in ListOp /\ o.shown = {}
    BY <1>1, AtStage DEF CallsOK, OpOK, ListOp
  <1>3. PICK d \in o.seek :
           LET names == o.names \cup {f \in file[o.from] : f.sub = d} IN
           op' = [op EXCEPT
               ![c].names = names,
               ![c].seek = @ \ {d},
               ![c].stage = IF o.seek # {d} THEN "names"
                            ELSE IF names = {} THEN "ok" ELSE "read"]
    BY DEF Names
  <1> DEFINE names == o.names \cup {f \in file[o.from] : f.sub = d}
             stage == IF o.seek # {d} THEN "names" ELSE IF names = {} THEN "ok" ELSE "read"
             p == [o EXCEPT !.names = names, !.seek = @ \ {d}, !.stage = stage]
  <1>4. op' = [op EXCEPT ![c] = p]
    BY <1>1, <1>3 DEF CallsOK
  <1>5. names \in SUBSET File
    BY <1>2 DEF IInv, FilesOK, ListOp
  <1>6. /\ p \in ListOp /\ p.names = names /\ p.seek = o.seek \ {d} /\ p.shown = {}
        /\ p.stage = stage /\ p.from = o.from
    BY <1>2, <1>5 DEF ListOp
  <1>7. t = [kind |-> "list", from |-> o.from, parts |-> o.seek, messages |-> o.names]
    BY <1>1, <1>2, TaskIs
  <1>8. names = t.messages \cup Atomic!Part(t.from, d)
    BY <1>7 DEF Atomic!Part
  <1> HIDE DEF p
  <1>9. Tasks' = [Tasks EXCEPT ![c] = TaskOf(p)] /\ Tasks[c] = t
    BY <1>1, <1>4, TaskMoves
  <1>10. ASSUME NEW kind \in {"shown", "listed"}, o.seek = {d},
                TaskOf(p) = [kind |-> kind, messages |-> names]
         PROVE  Atomic!Step(c)
    <2> HIDE DEF names
    <2>1. t.kind = "list" /\ t.parts = {d} /\ d \in t.parts
      BY <1>7, <1>10
    <2>2. Tasks' = [Tasks EXCEPT ![c] = [kind |-> kind, messages |-> names]]
      BY <1>9, <1>10
    <2> HIDE DEF t
    <2>3. Atomic!List(c)
      BY <1>1, <1>8, <1>9, <2>1, <2>2 DEF Atomic!List
    <2>4. QED
      BY <2>3 DEF Atomic!Step
  <1>11. CASE o.seek = {d}
    <2>1. CASE names = {}
      <3>1. p.stage = "ok"
        BY <1>6, <1>11, <2>1
      <3>2. TaskOf(p) = [kind |-> "listed", messages |-> names]
        BY <1>6, <2>1, <3>1, TaskIs
      <3>3. QED
        BY <1>11, <1>10, <3>2
    <2>2. CASE names # {}
      <3>1. p.stage = "read"
        BY <1>6, <1>11, <2>2
      <3>2. TaskOf(p) = [kind |-> "shown", messages |-> names]
        BY <1>6, <3>1, TaskIs
      <3>3. QED
        BY <1>11, <1>10, <3>2
    <2>3. QED
      BY <2>1, <2>2
  <1>12. CASE o.seek # {d}
    <2>1. p.stage = "names"
      BY <1>6, <1>12
    <2> HIDE DEF names
    <2>2. TaskOf(p) = [kind |-> "list", from |-> o.from, parts |-> o.seek \ {d},
                       messages |-> names]
      BY <1>6, <2>1, TaskIs
    <2>3. t.parts # {d} /\ d \in t.parts /\ t.parts = o.seek /\ t.kind = "list" /\ t.from = o.from
      BY <1>7, <1>12
    <2> HIDE DEF t, o
    <2>4. Tasks' = [Tasks EXCEPT ![c] =
              [kind |-> "list", from |-> t.from, parts |-> t.parts \ {d}, messages |-> names]]
      BY <1>9, <2>2, <2>3
    <2>5. Atomic!List(c)
      BY <1>1, <1>8, <1>9, <2>3, <2>4 DEF Atomic!List
    <2>6. QED
      BY <2>5 DEF Atomic!Step
  <1>13. QED
    BY <1>11, <1>12

\* The files are read, one by one: the last tells the listing.
LEMMA ReadMaps ==
    ASSUME IInv, NEW c \in Client, Read(c)
    PROVE  Atomic!Step(c) \/ UNCHANGED <<file, boxes, given, Tasks>>
  <1> DEFINE o == op[c]
  <1>1. UNCHANGED <<file, boxes, given>> /\ CallsOK /\ o.stage = "read"
    BY DEF Read, store, IInv
  <1>2. o \in ListOp /\ TaskOf(o) = [kind |-> "shown", messages |-> o.names]
    BY <1>1, AtStage, TaskIs
  <1>3. PICK f \in o.names \ o.shown :
           LET shown == o.shown \cup {f} IN
           IF f \in file[o.from]
           THEN op' = [op EXCEPT ![c].shown = shown,
                                 ![c].stage = IF shown = o.names THEN "ok" ELSE "read"]
           ELSE op' = [op EXCEPT ![c] = Failed]
    BY DEF Read
  <1>4. CASE f \notin file[o.from]
    BY <1>1, <1>3, <1>4, FailMaps DEF Atomic!Step
  <1>5. CASE f \in file[o.from]
    <2> DEFINE shown == o.shown \cup {f}
               p == [o EXCEPT !.shown = shown,
                              !.stage = IF shown = o.names THEN "ok" ELSE "read"]
    <2>1. op' = [op EXCEPT ![c] = p]
      BY <1>1, <1>3, <1>5 DEF CallsOK
    <2>2. /\ p \in ListOp /\ p.names = o.names /\ p.shown = shown
          /\ p.stage = IF shown = o.names THEN "ok" ELSE "read"
      BY <1>2 DEF ListOp
    <2> HIDE DEF p, shown
    <2>3. Tasks' = [Tasks EXCEPT ![c] = TaskOf(p)] /\ Tasks[c] = TaskOf(o)
      BY <1>1, <2>1, TaskMoves
    <2>4. CASE shown = o.names
      <3>1. TaskOf(p) = [kind |-> "listed", messages |-> o.names]
        BY <2>2, <2>4, TaskIs
      <3>2. TaskOf(p) = [Tasks[c] EXCEPT !.kind = "listed"]
        BY <1>2, <2>3, <3>1
      <3>3. Tasks' = [Tasks EXCEPT ![c].kind = "listed"] /\ Tasks[c].kind = "shown"
        BY <1>2, <2>3, <3>2
      <3>4. QED
        BY <1>1, <3>3 DEF Atomic!Step, Atomic!Tell
    <2>5. CASE shown # o.names
      <3>1. TaskOf(p) = TaskOf(o)
        BY <1>2, <2>2, <2>5, TaskIs
      <3>2. QED
        BY <1>1, <2>3, <3>1 DEF Tasks
    <2>6. QED
      BY <2>4, <2>5
  <1>6. QED
    BY <1>4, <1>5

\* A batch goes on to its next id, or is done.
LEMMA RestMaps ==
    ASSUME CallsOK, NEW c \in Client, op[c].stage = "rename"
    PROVE  TaskOf(Turn(op[c])) = Atomic!Rest(TaskOf(op[c]))
  <1> DEFINE o == op[c]
  <1>1. o \in ActOn \cup Flagging
    BY AtStage
  <1>2. Turn(o) \in Op
    BY Turns
  <1>3. CASE o.ids = << >>
    <2>1. TaskOf(Turn(o)) = [kind |-> "done"]
      BY <1>3, TaskIs DEF Turn
    <2>2. TaskOf(o).ids = << >>
      BY <1>1, <1>3, TaskIs
    <2>3. QED
      BY <2>1, <2>2 DEF Atomic!Rest, Atomic!Done
  <1>4. CASE o.ids # << >>
    <2> DEFINE p == Turn(o)
    <2>1. p = [o EXCEPT !.id = Head(o.ids), !.ids = Tail(o.ids), !.seek = Sub,
                        !.found = NoFile, !.stage = "find"]
      BY <1>4 DEF Turn, LookUp
    <2>2. CASE o \in ActOn
      <3>1. TaskOf(o) = [kind |-> o.kind, from |-> o.from, to |-> o.to, id |-> o.id, ids |-> o.ids]
        BY <2>2, TaskIs
      <3>2. /\ p.kind = o.kind /\ p.from = o.from /\ p.to = o.to /\ p.stage = "find"
            /\ p.id = Head(o.ids) /\ p.ids = Tail(o.ids) /\ o.kind \in {"move", "copy"}
        BY <2>1, <2>2 DEF ActOn
      <3> HIDE DEF p
      <3>3. TaskOf(p) = [kind |-> o.kind, from |-> o.from, to |-> o.to,
                         id |-> Head(o.ids), ids |-> Tail(o.ids)]
        BY <3>2 DEF TaskOf, Ahead
      <3>4. PICK e : e = o
        OBVIOUS
      <3>5. PICK r : r = TaskOf(o)
        OBVIOUS
      <3>6. PICK q : q = Atomic!Rest(r)
        OBVIOUS
      <3>7. q = [r EXCEPT !.id = Head(e.ids), !.ids = Tail(e.ids)]
        <4>1. r.ids = e.ids
          BY <3>1, <3>4, <3>5
        <4>2. QED
          BY <1>4, <3>4, <3>6, <4>1 DEF Atomic!Rest
      <3>8. q = [kind |-> e.kind, from |-> e.from, to |-> e.to,
                  id |-> Head(e.ids), ids |-> Tail(e.ids)]
        <4>1. r = [kind |-> e.kind, from |-> e.from, to |-> e.to, id |-> e.id, ids |-> e.ids]
          BY <3>1, <3>4, <3>5
        <4>2. QED
          BY <3>7, <4>1
      <3>9. QED
        BY <3>3, <3>4, <3>5, <3>6, <3>8 DEF p
    <2>3. CASE o \in Flagging
      <3>1. TaskOf(o) = [kind |-> o.kind, from |-> o.from, id |-> o.id, ids |-> o.ids,
                         flags |-> o.flags, how |-> o.how]
        BY <2>3, TaskIs
      <3>2. /\ p.kind = o.kind /\ p.from = o.from /\ p.flags = o.flags /\ p.how = o.how
            /\ p.stage = "find" /\ p.id = Head(o.ids) /\ p.ids = Tail(o.ids) /\ o.kind = "flags"
        BY <2>1, <2>3 DEF Flagging
      <3> HIDE DEF p
      <3>3. TaskOf(p) = [kind |-> o.kind, from |-> o.from, id |-> Head(o.ids),
                         ids |-> Tail(o.ids), flags |-> o.flags, how |-> o.how]
        BY <3>2 DEF TaskOf, Ahead
      <3>4. PICK e : e = o
        OBVIOUS
      <3>5. PICK r : r = TaskOf(o)
        OBVIOUS
      <3>6. PICK q : q = Atomic!Rest(r)
        OBVIOUS
      <3>7. q = [r EXCEPT !.id = Head(e.ids), !.ids = Tail(e.ids)]
        <4>1. r.ids = e.ids
          BY <3>1, <3>4, <3>5
        <4>2. QED
          BY <1>4, <3>4, <3>6, <4>1 DEF Atomic!Rest
      <3>8. q = [kind |-> e.kind, from |-> e.from, id |-> Head(e.ids),
                  ids |-> Tail(e.ids), flags |-> e.flags, how |-> e.how]
        <4>1. r = [kind |-> e.kind, from |-> e.from, id |-> e.id, ids |-> e.ids,
                      flags |-> e.flags, how |-> e.how]
          BY <3>1, <3>4, <3>5
        <4>2. QED
          BY <3>7, <4>1
      <3>9. QED
        BY <3>3, <3>4, <3>5, <3>6, <3>8 DEF p
    <2>4. QED
      BY <1>1, <2>2, <2>3
  <1>5. QED
    BY <1>3, <1>4

\* The rename of a file found is the move or the flag change of its message.
LEMMA RenameMaps ==
    ASSUME IInv, NEW c \in Client, Rename(c)
    PROVE  Atomic!Step(c)
  <1> DEFINE o == op[c]
             t == TaskOf(op[c])
  <1>1. /\ o.stage = "rename" /\ o.kind # "copy" /\ UNCHANGED <<boxes, given>>
        /\ CallsOK /\ o \in Op
    BY DEF Rename, IInv, CallsOK
  <1>2. /\ o \in ActOn \cup Flagging /\ o.from \in Box /\ o.found \in File /\ o.found.id = o.id
    BY <1>1, AtHand
  <1>3. CASE ~(o.found \in file[o.from] /\ Place(o) \in boxes)
    BY <1>1, <1>3, FailMaps DEF Rename, Atomic!Step
  <1>4. CASE o.found \in file[o.from] /\ Place(o) \in boxes
    <2>0. op' = [op EXCEPT ![c] = Turn(o)]
      BY <1>4 DEF Rename
    <2>1. PICK g \in Renamings(o) : file' = [b \in Box |->
                 (file[b] \ IF b = o.from THEN {o.found} ELSE {})
                     \cup IF b = Place(o) THEN {g} ELSE {}]
      BY <1>4 DEF Rename
    <2>2. Tasks' = [Tasks EXCEPT ![c] = Atomic!Rest(t)] /\ Tasks[c] = t
      BY <1>1, <2>0, TaskMoves, RestMaps
    <2>3. CASE o \in ActOn
      <3>1. t.kind = "move" /\ t.from = o.from /\ t.to = o.to /\ t.id = o.id
        BY <1>1, <2>3, TaskIs DEF ActOn
      <3>2. Place(o) = o.to /\ g = o.found
        BY <2>1, <2>3 DEF ActOn, Place, Renamings
      <3>3. Atomic!Becomes(t.from, o.found, t.to, o.found)
        BY <2>1, <3>1, <3>2 DEF Atomic!Becomes
      <3>4. Atomic!Move(c)
        BY <1>1, <1>2, <1>4, <2>2, <3>1, <3>2, <3>3 DEF Atomic!Move
      <3>5. QED
        BY <3>4 DEF Atomic!Step
    <2>4. CASE o \in Flagging
      <3>1. /\ t.kind = "flags" /\ t.from = o.from /\ t.id = o.id
            /\ t.flags = o.flags /\ t.how = o.how
        BY <1>1, <2>4, TaskIs DEF Flagging
      <3>2. o.how \in {"add", "set", "remove"}
        BY <2>4 DEF Flagging
      <3>3. Letters(o) = Atomic!Changed(t, o.found.flags)
        BY <3>1, <3>2 DEF Letters, Atomic!Changed
      <3>4. PICK d \in {o.found.sub, "cur"} :
               g = [o.found EXCEPT !.flags = Letters(o), !.sub = d]
        BY <2>1, <2>4 DEF Flagging, Renamings
      <3>5. Place(o) = o.from /\ d \in Atomic!Sub
        BY <1>2, <2>4 DEF Flagging, Place, File, Sub, Atomic!Sub
      <3>6. g = [o.found EXCEPT !.flags = Atomic!Changed(t, o.found.flags), !.sub = d]
        BY <3>3, <3>4
      <3>7. Atomic!Becomes(t.from, o.found, t.from,
                [o.found EXCEPT !.flags = Atomic!Changed(t, o.found.flags), !.sub = d])
        BY <2>1, <3>1, <3>5, <3>6 DEF Atomic!Becomes
      <3> HIDE DEF t
      <3>8. Atomic!Flag(c)
        BY <1>1, <1>2, <1>4, <2>2, <3>1, <3>5, <3>7 DEF Atomic!Flag
      <3>9. QED
        BY <3>8 DEF Atomic!Step
    <2>5. QED
      BY <1>2, <2>3, <2>4
  <1>5. QED
    BY <1>3, <1>4

LEMMA CopyMaps ==
    ASSUME IInv, NEW c \in Client, Copy(c)
    PROVE  Atomic!Step(c)
  <1> DEFINE o == op[c]
             t == TaskOf(op[c])
  <1>1. o.stage = "rename" /\ o.kind = "copy" /\ UNCHANGED boxes /\ CallsOK /\ o \in Op
    BY DEF Copy, IInv, CallsOK
  <1>2. o \in ActOn /\ o.found.id = o.id
    BY <1>1, AtHand DEF Flagging
  <1>3. CASE ~(o.found \in file[o.from] /\ o.to \in boxes)
    BY <1>1, <1>3, FailMaps DEF Copy, Atomic!Step
  <1>4. CASE o.found \in file[o.from] /\ o.to \in boxes
    <2>1. PICK i \in {o.id} \cup (Id \ given) :
             /\ file' = [file EXCEPT ![o.to] = @ \cup {[o.found EXCEPT !.id = i]}]
             /\ given' = given \cup {i}
             /\ op' = [op EXCEPT ![c] = Turn(o)]
      BY <1>4 DEF Copy
    <2>2. Tasks' = [Tasks EXCEPT ![c] = Atomic!Rest(t)] /\ Tasks[c] = t
      <3>1. op' = [op EXCEPT ![c] = Turn(o)]
        BY <2>1
      <3>2. Tasks' = [Tasks EXCEPT ![c] = TaskOf(Turn(o))] /\ Tasks[c] = t
        BY <1>1, <3>1, TaskMoves
      <3>3. TaskOf(Turn(o)) = Atomic!Rest(t)
        BY <1>1, RestMaps
      <3>4. QED
        BY <3>2, <3>3
    <2>3. t.kind = "copy" /\ t.from = o.from /\ t.to = o.to /\ t.id = o.id
      BY <1>1, <1>2, TaskIs
    <2>4. Atomic!Copy(c)
      BY <1>1, <1>2, <1>4, <2>1, <2>2, <2>3 DEF Atomic!Copy
    <2>5. QED
      BY <2>4 DEF Atomic!Step
  <1>5. QED
    BY <1>3, <1>4

\* Writing to tmp draws the id, the rename into cur adds the message.
LEMMA WriteMaps ==
    ASSUME IInv, NEW c \in Client, Write(c)
    PROVE  Atomic!Step(c)
  <1> DEFINE o == op[c]
             new(i) == [kind |-> "add", to |-> o.to, flags |-> o.flags, id |-> i, stage |-> "link"]
  <1>1. o \in Adding /\ CallsOK
    BY AtStage DEF Write, IInv
  <1>2. PICK i \in Id \ given : given' = given \cup {i} /\ op' = [op EXCEPT ![c] = new(i)]
    BY DEF Write
  <1>3. TaskOf(new(i)) = [kind |-> "adding", to |-> o.to, flags |-> o.flags, id |-> i]
    BY DEF TaskOf
  <1>4. Tasks' = [Tasks EXCEPT ![c] = TaskOf(new(i))] /\ Tasks[c] = TaskOf(o)
    BY <1>1, <1>2, TaskMoves
  <1>5. TaskOf(o) = [kind |-> "add", to |-> o.to, flags |-> o.flags]
    BY <1>1, TaskIs
  <1>6. UNCHANGED <<file, boxes>>
    BY DEF Write
  <1> HIDE DEF new
  <1> DEFINE t == TaskOf(o)
  <1>7. t.kind = "add" /\ t.to = o.to /\ t.flags = o.flags
    BY <1>5
  <1>8. Tasks[c] = t
    BY <1>4
  <1> HIDE DEF t, o
  <1>9. Tasks' = [Tasks EXCEPT ![c] =
            [kind |-> "adding", to |-> t.to, flags |-> t.flags, id |-> i]]
    BY <1>3, <1>4, <1>7
  <1>10. Atomic!Draw(c)
    BY <1>2, <1>6, <1>7, <1>8, <1>9 DEF Atomic!Draw
  <1> QED
    BY <1>10 DEF Atomic!Step

LEMMA LinkMaps ==
    ASSUME IInv, NEW c \in Client, Link(c)
    PROVE  Atomic!Step(c)
  <1> DEFINE o == op[c]
  <1>1. o \in Linking /\ CallsOK /\ o.stage = "link" /\ UNCHANGED <<boxes, given>>
    BY AtStage DEF Link, IInv
  <1>2. CASE ~(o.id \in tmp[o.to] /\ o.to \in boxes)
    BY <1>1, <1>2, FailMaps DEF Link, Atomic!Step
  <1>3. CASE o.id \in tmp[o.to] /\ o.to \in boxes
    <2>1. /\ file' = [file EXCEPT ![o.to] =
                 @ \cup {[id |-> o.id, flags |-> o.flags, sub |-> "cur"]}]
          /\ op' = [op EXCEPT ![c] = Done]
      BY <1>3 DEF Link
    <2>2. TaskOf(o) = [kind |-> "adding", to |-> o.to, flags |-> o.flags, id |-> o.id]
      BY <1>1, TaskIs
    <2>3. Tasks' = [Tasks EXCEPT ![c] = [kind |-> "done"]] /\ Tasks[c] = TaskOf(o)
      BY <1>1, <2>1, TaskMoves, TaskIs
    <2>4. Atomic!Add(c)
      BY <1>1, <1>3, <2>1, <2>2, <2>3 DEF Atomic!Add, Atomic!Done
    <2>5. QED
      BY <2>4 DEF Atomic!Step
  <1>4. QED
    BY <1>2, <1>3

LEMMA EndingMaps ==
    ASSUME IInv, NEW c \in Client, Interrupt(c) \/ Return(c)
    PROVE  Atomic!Step(c)
  <1> DEFINE o == op[c]
  <1>1. UNCHANGED <<file, boxes, given>> /\ CallsOK /\ o \in Op
    BY DEF Interrupt, Return, store, IInv, CallsOK
  <1>2. CASE Interrupt(c)
    BY <1>1, <1>2, FailMaps DEF Interrupt, Atomic!Step
  <1>3. CASE Return(c)
    <2>1. op' = [op EXCEPT ![c] = Idle] /\ o # Idle /\ o.stage \in {"ok", "err"}
      BY <1>3 DEF Return
    <2>2. o \in {Done, Failed} \/ (o \in ListOp /\ o.stage = "ok")
      BY <1>1, <2>1 DEF Op, ActOn, Flagging, Adding, Linking, ListOp
    <2>3. TaskOf(o).kind \in {"done", "failed", "listed"}
      BY <2>2, TaskIs
    <2>4. Tasks' = [Tasks EXCEPT ![c] = TaskOf(Idle)] /\ Tasks[c] = TaskOf(o)
      BY <1>1, <2>1, TaskMoves
    <2>5. Atomic!Return(c)
      BY <1>1, <2>3, <2>4, TaskIs DEF Atomic!Return, Atomic!Idle
    <2>6. QED
      BY <2>5 DEF Atomic!Step
  <1>4. QED
    BY <1>2, <1>3

LEMMA AtomicInit == Init => Atomic!Init
  <1> SUFFICES ASSUME Init PROVE Atomic!Init
    OBVIOUS
  <1>1. Tasks = [c \in Client |-> Atomic!Idle]
    <2>1. TaskOf(Idle) = Atomic!Idle
      BY TaskIs DEF Atomic!Idle
    <2>2. QED
      BY <2>1 DEF Init, Tasks
  <1> QED
    BY <1>1 DEF Init, Atomic!Init

LEMMA AtomicStep == IInv /\ [Next]_vars => [Atomic!Next]_(Atomic!vars)
  <1> SUFFICES ASSUME IInv, [Next]_vars
               PROVE  Atomic!Next \/ UNCHANGED <<file, boxes, given, Tasks>>
    BY DEF Atomic!vars
  <1>1. ASSUME NEW c \in Client, Calls(c) \/ Step(c) \/ Interrupt(c) \/ Return(c)
        PROVE  Atomic!Step(c) \/ UNCHANGED <<file, boxes, given, Tasks>>
    <2>1. CASE Calls(c)
      BY <2>1, CallsMap DEF Atomic!Step
    <2>2. QED
      BY <1>1, <2>1, FindMaps, NamesMaps, ReadMaps, RenameMaps, CopyMaps, WriteMaps, LinkMaps,
         EndingMaps DEF Step
  <1>2. ASSUME NEW b \in Box, CreateBox(b) \/ DeleteBox(b) \/ Deliver(b)
        PROVE  Atomic!Create(b) \/ Atomic!Delete(b) \/ Atomic!Deliver(b)
    <2>1. UNCHANGED Tasks
      BY <1>2 DEF CreateBox, DeleteBox, Deliver, Tasks
    <2>2. QED
      BY <1>2, <2>1 DEF CreateBox, DeleteBox, Deliver, Atomic!Create, Atomic!Delete, Atomic!Deliver
  <1>3. ASSUME NEW b \in Box, NEW f \in file[b], Expunge(b, f)
        PROVE  Atomic!Expunge(b)
    <2>1. UNCHANGED Tasks
      BY <1>3 DEF Expunge, Tasks
    <2>2. QED
      BY <1>3, <2>1 DEF Expunge, Atomic!Expunge
  <1>4. ASSUME NEW b \in Box, NEW f \in file[b], Settle(b, f)
        PROVE  Atomic!Settle(b)
    <2>1. /\ file' = [file EXCEPT ![b] = (@ \ {f}) \cup {Settled(f)}] /\ f.sub = "new"
          /\ UNCHANGED <<boxes, given, Tasks>>
      BY <1>4 DEF Settle, Tasks
    <2>2. Atomic!Becomes(b, f, b, Settled(f))
      BY <2>1 DEF Atomic!Becomes, IInv, FilesOK
    <2>3. f \in Atomic!Part(b, "new") /\ Settled(f) = [f EXCEPT !.sub = "cur"]
      BY <2>1 DEF Atomic!Part, Settled
    <2>4. QED
      BY <2>1, <2>2, <2>3 DEF Atomic!Settle
  <1>5. CASE UNCHANGED vars
    BY <1>5 DEF vars, Tasks
  <1>6. QED
    BY <1>1, <1>2, <1>3, <1>4, <1>5 DEF Next, Moves, Atomic!Next

\* To the processes that share it the Maildir is a store whose operations on a
\* message are atomic: the steps of a move, a copy, a flag change or an addition
\* cannot be told from one, whatever happens between them.  A listing that
\* succeeds is what cur held at one moment and new at another.
THEOREM StoreIsAtomic == Spec => ImplementsStore
BY AtomicInit, AtomicStep, Invariant, PTL DEF Spec, ImplementsStore, Atomic!Spec

=============================================================================
