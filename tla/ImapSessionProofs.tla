------------------------- MODULE ImapSessionProofs -------------------------
(***************************************************************************)
(* Proofs about ImapSession.  The inductive invariant says which mailbox   *)
(* is selected while a call runs, and what a call that looks up the UID of *)
(* a message it appended knows about that message.                         *)
(***************************************************************************)
EXTENDS ImapSession, TLAPS

\* With auto_select on, the commands of a call run in the mailbox it names.
SelectedIsNamed ==
    /\ AutoSelect /\ step \in {"command", "expunge"} => selected = call.box
    /\ step = "search" => selected = call.box

\* Until it is looked up, the appended message is the one the call gave, or is
\* gone: no UID is given out twice.
AppendedIsNamed ==
    step \in {"lookup", "search"} =>
        /\ appended < nextUid[call.box]
        /\ \/ mail[call.box][appended] = NoMessage
           \/ mail[call.box][appended].id = call.id

IInv == TypeOK /\ SelectedIsNamed /\ AppendedIsNamed

MailType == [Mailbox -> [Uid -> Message \cup {NoMessage}]]

-----------------------------------------------------------------------------
(* The calls. *)

\* What the operations rely on in their arguments.
CallOK(c) ==
    /\ c.op \in {"get", "delete", "copy", "move", "store", "append"}
    /\ c.box \in Mailbox
    /\ c.op # "append" => c.uids \in SUBSET Uid
    /\ c.op \in {"copy", "move"} => c.to \in Mailbox
    /\ c.op \in {"store", "append"} => c.flags \in SUBSET Flag
    /\ c.op = "store" => c.how \in {"add", "set", "remove"}
    /\ c.op = "append" => c.id \in MessageId

LEMMA CallShape == \A c \in Calls : CallOK(c)
  <1>1. \A us \in One : us \in SUBSET Uid
    BY DEF One
  <1>2. QED
    BY <1>1 DEF Calls, PerMessage, Gets, Deletes, Transfers, Stores, Adds, Some, CallOK

LEMMA CurrentCall ==
    ASSUME TypeOK, step # "idle"
    PROVE  call \in Calls /\ CallOK(call)
BY CallShape DEF TypeOK

\* Changing flags changes neither which UIDs hold a message nor its id.
LEMMA ReflaggedKeeps ==
    ASSUME mail \in MailType, NEW b \in Mailbox, NEW uids, NEW fs \in SUBSET Flag,
           NEW how \in {"add", "set", "remove"}
    PROVE  LET m == Reflagged(b, uids, how, fs)
           IN  /\ m \in MailType
               /\ \A c \in Mailbox, u \in Uid :
                     /\ m[c][u] = NoMessage <=> mail[c][u] = NoMessage
                     /\ mail[c][u] # NoMessage => m[c][u].id = mail[c][u].id
                     /\ m[c][u] # mail[c][u] => c = b /\ u \in uids
  <1>1. \A old \in SUBSET Flag : Applied(how, old, fs) \in SUBSET Flag
    BY DEF Applied
  <1>2. \A u \in Uid : mail[b][u] # NoMessage =>
            /\ mail[b][u] \in Message
            /\ [mail[b][u] EXCEPT !.flags = Applied(how, @, fs)] \in Message
            /\ [mail[b][u] EXCEPT !.flags = Applied(how, @, fs)].id = mail[b][u].id
    BY <1>1 DEF MailType, Message
  <1>3. QED
    BY <1>2, SessionAssumption DEF Reflagged, MailType, Held, Message

\* The UIDs given to copies follow the last one given out.
LEMMA GivenFollow ==
    ASSUME nextUid \in [Mailbox -> 1..(MaxUid + 1)], NEW b \in Mailbox, NEW from,
           NEW f \in Placing(b, from)
    PROVE  LET g == Given(b, f)
           IN  /\ g \in [Mailbox -> 1..(MaxUid + 1)]
               /\ \A c \in Mailbox : nextUid[c] <= g[c]
               /\ DOMAIN f = nextUid[b]..(g[b] - 1)
               /\ f \in [DOMAIN f -> from]
               /\ \A c \in Mailbox : c # b => g[c] = nextUid[c]
  <1> DEFINE k == nextUid[b]
             P(n) == DOMAIN f = k..(n - 1)
             g == CHOOSE n \in k..(MaxUid + 1) : P(n)
  <1>1. PICK n \in (k - 1)..MaxUid : f \in [k..n -> from]
    BY DEF Placing
  <1>2. n + 1 \in k..(MaxUid + 1) /\ P(n + 1)
    BY <1>1, SessionAssumption
  <1>3. g \in k..(MaxUid + 1) /\ P(g)
    BY <1>2
  <1>4. Given(b, f) = [nextUid EXCEPT ![b] = g]
    BY DEF Given
  <1> HIDE DEF g
  <1>5. g \in 1..(MaxUid + 1) /\ k <= g /\ k \in 1..(MaxUid + 1)
    <2>1. k \in 1..(MaxUid + 1)
      OBVIOUS
    <2>2. QED
      BY <1>3, <2>1, SessionAssumption
  <1>6. Given(b, f)[b] = g
    BY <1>4
  <1>7. DOMAIN f = k..(Given(b, f)[b] - 1) /\ f \in [DOMAIN f -> from]
    BY <1>1, <1>3, <1>6
  <1>8. QED
    BY <1>4, <1>5, <1>7

\* The copies are messages, and nothing but fresh UIDs changes.
LEMMA PlacedShape ==
    ASSUME mail \in MailType, selected \in Mailbox, NEW m \in MailType,
           NEW b \in Mailbox, NEW from \in SUBSET Held(selected, Uid),
           nextUid \in [Mailbox -> 1..(MaxUid + 1)], NEW f \in Placing(b, from)
    PROVE  /\ Placed(m, b, f) \in MailType
           /\ \A c \in Mailbox, u \in Uid :
                 \/ Placed(m, b, f)[c][u] = m[c][u]
                 \/ c = b /\ u >= nextUid[b] /\ u < Given(b, f)[b]
  <1>1. /\ DOMAIN f = nextUid[b]..(Given(b, f)[b] - 1)
        /\ f \in [DOMAIN f -> from]
        /\ Given(b, f)[b] \in 1..(MaxUid + 1)
    BY GivenFollow
  <1>2. \A u \in DOMAIN f : mail[selected][f[u]] \in Message
    BY <1>1 DEF Held, MailType
  <1>3. QED
    BY <1>1, <1>2, SessionAssumption DEF Placed, MailType, Uid

-----------------------------------------------------------------------------
(* The inductive invariant. *)

LEMMA InitInv == Init => IInv
BY SessionAssumption
   DEF Init, IInv, TypeOK, SelectedIsNamed, AppendedIsNamed, NoMail, Uid, NoCall, Err,
       Steps

\* What the account is, and what every step does to it: UIDs are given out in
\* order, and a message keeps its id until it is gone.
AccountOK ==
    /\ mail \in MailType
    /\ nextUid \in [Mailbox -> 1..(MaxUid + 1)]
    /\ \A b \in Mailbox, u \in Uid : u >= nextUid[b] => mail[b][u] = NoMessage

Keeps ==
    /\ \A b \in Mailbox : nextUid[b] <= nextUid'[b]
    /\ \A b \in Mailbox, u \in Uid : u < nextUid[b] =>
          \/ mail'[b][u] = NoMessage
          \/ mail[b][u] # NoMessage /\ mail'[b][u].id = mail[b][u].id

LEMMA DeliverKeeps ==
    ASSUME AccountOK, NEW b \in Mailbox, NEW m \in Message, nextUid[b] <= MaxUid,
           mail' = [mail EXCEPT ![b][nextUid[b]] = m],
           nextUid' = [nextUid EXCEPT ![b] = @ + 1]
    PROVE  AccountOK' /\ Keeps
  <1> USE SessionAssumption DEF AccountOK
  <1>1. nextUid[b] \in Uid
    BY DEF Uid
  <1>2. mail' \in MailType /\ nextUid' \in [Mailbox -> 1..(MaxUid + 1)]
    BY <1>1 DEF MailType
  <1>3. \A c \in Mailbox, u \in Uid :
            mail'[c][u] = IF c = b /\ u = nextUid[b] THEN m ELSE mail[c][u]
    BY <1>1 DEF MailType
  <1>4. \A c \in Mailbox :
            nextUid'[c] = IF c = b THEN nextUid[b] + 1 ELSE nextUid[c]
    OBVIOUS
  <1>5. QED
    BY <1>2, <1>3, <1>4 DEF Keeps, Uid

\* The other sessions keep it: they give out fresh UIDs, and change neither
\* the id of a message nor anything of this session.
LEMMA OthersKeep == AccountOK /\ Others => AccountOK' /\ Keeps
  <1> SUFFICES ASSUME AccountOK, Others PROVE AccountOK' /\ Keeps
    OBVIOUS
  <1>1. ASSUME NEW b \in Mailbox, NEW m \in Message, Deliver(b, m)
        PROVE  AccountOK' /\ Keeps
    BY <1>1, DeliverKeeps DEF Deliver
  <1>2. ASSUME NEW b \in Mailbox, NEW u \in Uid, Expunge(b, u)
        PROVE  AccountOK' /\ Keeps
    BY <1>2 DEF Expunge, AccountOK, Keeps, MailType, Uid
  <1>3. ASSUME NEW b \in Mailbox, NEW u \in Uid, NEW fs \in SUBSET Flag, Reflag(b, u, fs)
        PROVE  AccountOK' /\ Keeps
    <2>1. /\ mail[b][u] \in Message
          /\ [mail[b][u] EXCEPT !.flags = fs] \in Message
          /\ [mail[b][u] EXCEPT !.flags = fs].id = mail[b][u].id
          /\ mail' = [mail EXCEPT ![b] = [@ EXCEPT ![u] = [mail[b][u] EXCEPT !.flags = fs]]]
      BY <1>3 DEF Reflag, AccountOK, MailType, Held, Message
    <2>2. QED
      BY <1>3, <2>1, SessionAssumption DEF Reflag, AccountOK, Keeps, MailType, Uid, Held
  <1>4. QED
    BY <1>1, <1>2, <1>3 DEF Others

LEMMA OthersInv == IInv /\ Others => IInv'
  <1> SUFFICES ASSUME IInv, Others
               PROVE  IInv'
    OBVIOUS
  <1>1. UNCHANGED <<selected, chosen, call, step, answer, appended>>
    BY DEF Others, Deliver, Expunge, Reflag
  <1>2. AccountOK' /\ Keeps
    BY OthersKeep DEF IInv, TypeOK, AccountOK, MailType
  <1>3. TypeOK'
    BY <1>1, <1>2 DEF IInv, TypeOK, AccountOK, MailType
  <1>4. SelectedIsNamed'
    BY <1>1 DEF IInv, SelectedIsNamed
  <1>5. AppendedIsNamed'
    <2> SUFFICES ASSUME step \in {"lookup", "search"}
                 PROVE  /\ appended < nextUid'[call.box]
                        /\ \/ mail'[call.box][appended] = NoMessage
                           \/ mail'[call.box][appended].id = call.id
      BY <1>1 DEF AppendedIsNamed
    <2>1. call.box \in Mailbox
      BY CurrentCall DEF IInv, CallOK
    <2>2. /\ appended < nextUid[call.box]
          /\ \/ mail[call.box][appended] = NoMessage
             \/ mail[call.box][appended].id = call.id
      BY DEF IInv, AppendedIsNamed
    <2>3. appended \in Uid
      BY SessionAssumption DEF IInv, TypeOK, Uid
    <2>4. nextUid[call.box] \in Nat /\ nextUid'[call.box] \in Nat
      BY <1>2, <2>1, SessionAssumption DEF IInv, TypeOK, AccountOK
    <2>5. QED
      BY <1>2, <2>1, <2>2, <2>3, <2>4, SessionAssumption DEF Keeps, Uid
  <1>6. QED
    BY <1>3, <1>4, <1>5 DEF IInv

\* A call that ends forgets everything but its answer.
LEMMA ReturnInv ==
    ASSUME IInv, AccountOK', Return(answer'), selected' \in Mailbox \cup {NoMailbox},
           UNCHANGED chosen,
           answer' \in [ok : BOOLEAN, uid : 0..MaxUid, id : MessageId \cup {NoMessage}]
    PROVE  IInv'
BY SessionAssumption
   DEF Return, IInv, TypeOK, SelectedIsNamed, AppendedIsNamed, AccountOK, MailType, Steps

\* A command that removes messages and then fills fresh UIDs keeps the account
\* in order.
LEMMA FillKeeps ==
    ASSUME AccountOK, mail' \in MailType, nextUid' \in [Mailbox -> 1..(MaxUid + 1)],
           \A c \in Mailbox : nextUid[c] <= nextUid'[c],
           \A c \in Mailbox, u \in Uid :
              \/ mail'[c][u] \in {mail[c][u], NoMessage}
              \/ u < nextUid'[c]
    PROVE  AccountOK'
  <1> SUFFICES ASSUME NEW c \in Mailbox, NEW u \in Uid, u >= nextUid'[c]
               PROVE  mail'[c][u] = NoMessage
    BY DEF AccountOK
  <1>1. nextUid[c] \in Nat /\ nextUid'[c] \in Nat /\ u \in Nat
    BY SessionAssumption DEF AccountOK, Uid
  <1>2. mail'[c][u] \in {mail[c][u], NoMessage}
    BY <1>1
  <1>3. u >= nextUid[c]
    BY <1>1
  <1>4. QED
    BY <1>2, <1>3 DEF AccountOK

LEMMA CopyKeeps ==
    ASSUME IInv, Copy
    PROVE  AccountOK'
  <1> USE SessionAssumption
  <1>1. PICK f \in Placing(call.to, Held(selected, call.uids)) :
           /\ mail' = Placed(mail, call.to, f)
           /\ nextUid' = Given(call.to, f)
    BY DEF Copy
  <1>2. call.to \in Mailbox /\ call.uids \in SUBSET Uid
    BY CurrentCall DEF Copy, IInv, CallOK
  <1>3. /\ mail \in MailType /\ selected \in Mailbox
        /\ nextUid \in [Mailbox -> 1..(MaxUid + 1)]
        /\ Held(selected, call.uids) \in SUBSET Held(selected, Uid)
    BY <1>2 DEF Copy, IInv, TypeOK, MailType, Held
  <1>4. /\ mail' \in MailType
        /\ \A c \in Mailbox, u \in Uid :
              \/ mail'[c][u] = mail[c][u]
              \/ c = call.to /\ u >= nextUid[c] /\ u < nextUid'[c]
    BY <1>1, <1>2, <1>3, PlacedShape
  <1>5. /\ nextUid' \in [Mailbox -> 1..(MaxUid + 1)]
        /\ \A c \in Mailbox : nextUid[c] <= nextUid'[c]
    BY <1>1, <1>2, <1>3, GivenFollow
  <1>6. QED
    BY <1>4, <1>5, FillKeeps DEF AccountOK, IInv, TypeOK, MailType

LEMMA MoveKeeps ==
    ASSUME IInv, Move
    PROVE  AccountOK'
  <1> USE SessionAssumption
  <1>1. PICK f \in Placing(call.to, Held(selected, call.uids)) :
           /\ mail' = Placed(Without(selected, call.uids), call.to, f)
           /\ nextUid' = Given(call.to, f)
    BY DEF Move
  <1>2. call.to \in Mailbox /\ call.uids \in SUBSET Uid
    BY CurrentCall DEF Move, IInv, CallOK
  <1>3. /\ mail \in MailType /\ selected \in Mailbox
        /\ nextUid \in [Mailbox -> 1..(MaxUid + 1)]
        /\ Held(selected, call.uids) \in SUBSET Held(selected, Uid)
    BY <1>2 DEF Move, IInv, TypeOK, MailType, Held
  <1>4. /\ Without(selected, call.uids) \in MailType
        /\ \A c \in Mailbox, u \in Uid :
              \/ Without(selected, call.uids)[c][u] = NoMessage
              \/ Without(selected, call.uids)[c][u] = mail[c][u]
    BY <1>3 DEF Without, MailType
  <1>5. /\ mail' \in MailType
        /\ \A c \in Mailbox, u \in Uid :
              \/ mail'[c][u] = Without(selected, call.uids)[c][u]
              \/ c = call.to /\ u >= nextUid[c] /\ u < nextUid'[c]
    BY <1>1, <1>2, <1>3, <1>4, PlacedShape
  <1>6. /\ nextUid' \in [Mailbox -> 1..(MaxUid + 1)]
        /\ \A c \in Mailbox : nextUid[c] <= nextUid'[c]
    BY <1>1, <1>2, <1>3, GivenFollow
  <1>7. QED
    BY <1>4, <1>5, <1>6, FillKeeps DEF AccountOK, IInv, TypeOK, MailType

LEMMA CommandInv == IInv /\ Command => IInv'
  <1> SUFFICES ASSUME IInv, Command
               PROVE  IInv'
    OBVIOUS
  <1> USE SessionAssumption
  <1>a. AccountOK
    BY DEF IInv, TypeOK, AccountOK, MailType
  <1>b. step # "idle"
    BY DEF Command, Select, Fetch, StoreFlags, MarkDeleted, ExpungeDeleted, Copy, Move,
           Append, Search, Fail
  <1>c. call \in Calls /\ CallOK(call)
    BY <1>b, CurrentCall DEF IInv
  <1>d. /\ selected \in Mailbox \cup {NoMailbox}
        /\ Err \in [ok : BOOLEAN, uid : 0..MaxUid, id : MessageId \cup {NoMessage}]
        /\ Ok \in [ok : BOOLEAN, uid : 0..MaxUid, id : MessageId \cup {NoMessage}]
    BY DEF IInv, TypeOK, Err, Ok
  <1>1. CASE Select
    <2>1. TypeOK'
      BY <1>1, <1>c DEF Select, IInv, TypeOK, Steps, CallOK
    <2>2. SelectedIsNamed'
      BY <1>1 DEF Select, SelectedIsNamed
    <2>3. AppendedIsNamed'
      BY <1>1 DEF Select, AppendedIsNamed, IInv
    <2>4. QED
      BY <2>1, <2>2, <2>3 DEF IInv
  <1>2. CASE Fetch
    <2>1. PICK u \in Held(selected, call.uids) :
             Return([ok |-> TRUE, uid |-> u, id |-> mail[selected][u].id])
      BY <1>2 DEF Fetch
    <2>2. u \in Uid /\ mail[selected][u] \in Message
      BY <1>2, <1>c, <1>a DEF Fetch, Held, AccountOK, MailType, CallOK, IInv, TypeOK
    <2>3. [ok |-> TRUE, uid |-> u, id |-> mail[selected][u].id]
              \in [ok : BOOLEAN, uid : 0..MaxUid, id : MessageId \cup {NoMessage}]
      BY <2>2 DEF Uid, Message
    <2>4. AccountOK' /\ UNCHANGED <<selected, chosen>>
      BY <1>2, <1>a DEF Fetch, AccountOK
    <2>5. QED
      BY <2>1, <2>3, <2>4, <1>d, ReturnInv DEF Return
  <1>3. CASE StoreFlags
    <2>1. AccountOK' /\ UNCHANGED <<selected, chosen>>
      BY <1>3, <1>a, <1>c, <1>d, ReflaggedKeeps DEF StoreFlags, AccountOK, CallOK
    <2>2. QED
      BY <1>3, <2>1, <1>d, ReturnInv DEF StoreFlags, Return
  <1>4. CASE MarkDeleted
    <2>1. AccountOK'
      BY <1>4, <1>a, <1>d, ReflaggedKeeps DEF MarkDeleted, AccountOK
    <2>2. QED
      BY <1>4, <2>1
         DEF MarkDeleted, IInv, TypeOK, SelectedIsNamed, AppendedIsNamed, AccountOK,
             MailType, Steps
  <1>5. CASE ExpungeDeleted
    <2>1. AccountOK' /\ UNCHANGED <<selected, chosen>>
      BY <1>5, <1>a, <1>d DEF ExpungeDeleted, AccountOK, MailType
    <2>2. QED
      BY <1>5, <2>1, <1>d, ReturnInv DEF ExpungeDeleted, Return
  <1>6. CASE Copy
    <2>1. AccountOK' /\ UNCHANGED <<selected, chosen>>
      BY <1>6, CopyKeeps DEF Copy
    <2>2. QED
      BY <1>6, <2>1, <1>d, ReturnInv DEF Copy, Return
  <1>7. CASE Move
    <2>1. AccountOK' /\ UNCHANGED <<selected, chosen>>
      BY <1>7, MoveKeeps DEF Move
    <2>2. QED
      BY <1>7, <2>1, <1>d, ReturnInv DEF Move, Return
  <1>8. CASE Append
    <2> DEFINE u == nextUid[call.box]
               m == [id |-> call.id, flags |-> call.flags]
    <2>1. call.op = "append" /\ call.box \in Mailbox /\ m \in Message
      BY <1>8, <1>c DEF Append, IInv, TypeOK, CallOK, Message
    <2>2. AccountOK' /\ UNCHANGED <<selected, chosen>>
      BY <1>8, <1>a, <2>1, DeliverKeeps DEF Append
    <2>3. u \in Uid /\ u < nextUid'[call.box] /\ mail'[call.box][u].id = call.id
      BY <1>8, <1>a, <2>1 DEF Append, AccountOK, MailType, Uid
    <2>4. CASE Return(Added(u))
      <3>1. Added(u)
                \in [ok : BOOLEAN, uid : 0..MaxUid, id : MessageId \cup {NoMessage}]
        BY <2>3 DEF Added, Uid
      <3>2. QED
        BY <2>2, <2>4, <3>1, <1>d, ReturnInv DEF Return
    <2>5. CASE step' = "lookup" /\ appended' = u /\ UNCHANGED <<call, answer>>
      BY <2>1, <2>2, <2>3, <2>5, <1>c
         DEF IInv, TypeOK, SelectedIsNamed, AppendedIsNamed, AccountOK, MailType, Steps, Uid
    <2>6. QED
      BY <1>8, <2>4, <2>5 DEF Append
  <1>9. CASE Search
    <2>1. PICK u \in Matches : Return(Added(u))
      BY <1>9 DEF Search
    <2>2. Added(u)
              \in [ok : BOOLEAN, uid : 0..MaxUid, id : MessageId \cup {NoMessage}]
      BY DEF Added, Matches, Held, Uid
    <2>3. AccountOK' /\ UNCHANGED <<selected, chosen>>
      BY <1>9, <1>a DEF Search, AccountOK
    <2>4. QED
      BY <2>1, <2>2, <2>3, <1>d, ReturnInv DEF Return
  <1>10. CASE Fail
    <2>1. AccountOK' /\ UNCHANGED chosen
      BY <1>10, <1>a DEF Fail, AccountOK
    <2>2. QED
      BY <1>10, <2>1, <1>d, ReturnInv DEF Fail, Return
  <1>11. QED
    BY <1>1, <1>2, <1>3, <1>4, <1>5, <1>6, <1>7, <1>8, <1>9, <1>10 DEF Command

LEMMA NextInv == IInv /\ [Next]_vars => IInv'
  <1> SUFFICES ASSUME IInv, [Next]_vars
               PROVE  IInv'
    OBVIOUS
  <1> USE SessionAssumption
  <1>1. CASE Others
    BY <1>1, OthersInv
  <1>2. ASSUME NEW b \in Mailbox, Preselect(b)
        PROVE  IInv'
    BY <1>2 DEF Preselect, IInv, TypeOK, SelectedIsNamed, AppendedIsNamed
  <1>3. ASSUME NEW c \in Calls, Begin(c)
        PROVE  IInv'
    <2>1. FirstStep(c) = IF c.op = "append" THEN "append"
                         ELSE IF AutoSelect THEN "select" ELSE "command"
      BY DEF FirstStep
    <2>2. TypeOK'
      BY <1>3, <2>1 DEF Begin, IInv, TypeOK, Err, Steps
    <2>3. SelectedIsNamed' /\ AppendedIsNamed'
      BY <1>3, <2>1 DEF Begin, SelectedIsNamed, AppendedIsNamed
    <2>4. QED
      BY <2>2, <2>3 DEF IInv
  <1>4. CASE Command
    BY <1>4, CommandInv
  <1>5. CASE Reconnect
    BY <1>5 DEF Reconnect, IInv, TypeOK, SelectedIsNamed, AppendedIsNamed
  <1>6. CASE UNCHANGED vars
    BY <1>6 DEF vars, IInv, TypeOK, SelectedIsNamed, AppendedIsNamed
  <1>7. QED
    BY <1>1, <1>2, <1>3, <1>4, <1>5, <1>6 DEF Next

LEMMA Invariant == Spec => []IInv
  <1>1. Init => IInv
    BY InitInv
  <1>2. IInv /\ [Next]_vars => IInv'
    BY NextInv
  <1>3. QED
    BY <1>1, <1>2, PTL DEF Spec

-----------------------------------------------------------------------------
(* The theorems. *)

\* For every number of mailboxes, messages and calls: the variables keep their
\* shape, and UIDs are given out once.
THEOREM TypeCorrect == Spec => []TypeOK
  <1>1. IInv => TypeOK
    BY DEF IInv
  <1>2. QED
    BY <1>1, Invariant, PTL

LEMMA CopyOnlyNamed == ASSUME IInv, Copy PROVE OnlyNamed
  <1> USE SessionAssumption
  <1>1. PICK f \in Placing(call.to, Held(selected, call.uids)) :
           mail' = Placed(mail, call.to, f)
    BY DEF Copy
  <1>2. call.op = "copy" /\ call.to \in Mailbox /\ call.uids \in SUBSET Uid
    BY CurrentCall DEF Copy, IInv, CallOK
  <1>h. /\ mail \in MailType /\ selected \in Mailbox
        /\ nextUid \in [Mailbox -> 1..(MaxUid + 1)]
        /\ Held(selected, call.uids) \in SUBSET Held(selected, Uid)
    BY <1>2 DEF Copy, IInv, TypeOK, MailType, Held
  <1>3. \A c \in Mailbox, u \in Uid :
              \/ mail'[c][u] = mail[c][u]
              \/ c = call.to /\ u >= nextUid[c]
    BY <1>1, <1>2, <1>h, PlacedShape
  <1>4. QED
    BY <1>2, <1>3 DEF OnlyNamed

LEMMA MoveOnlyNamed == ASSUME IInv, AutoSelect, Move PROVE OnlyNamed
  <1> USE SessionAssumption
  <1>1. PICK f \in Placing(call.to, Held(selected, call.uids)) :
           mail' = Placed(Without(selected, call.uids), call.to, f)
    BY DEF Move
  <1>2. call.op = "move" /\ call.to \in Mailbox /\ call.uids \in SUBSET Uid
    BY CurrentCall DEF Move, IInv, CallOK
  <1>h. /\ mail \in MailType /\ selected \in Mailbox
        /\ nextUid \in [Mailbox -> 1..(MaxUid + 1)]
        /\ Held(selected, call.uids) \in SUBSET Held(selected, Uid)
    BY <1>2 DEF Move, IInv, TypeOK, MailType, Held
  <1>3. selected = call.box
    BY DEF Move, IInv, SelectedIsNamed
  <1>4. /\ Without(selected, call.uids) \in MailType
        /\ \A c \in Mailbox, u \in Uid :
              \/ Without(selected, call.uids)[c][u] = mail[c][u]
              \/ c = selected /\ u \in call.uids
    BY DEF Move, IInv, TypeOK, MailType, Without
  <1>5. \A c \in Mailbox, u \in Uid :
              \/ mail'[c][u] = Without(selected, call.uids)[c][u]
              \/ c = call.to /\ u >= nextUid[c]
    BY <1>1, <1>2, <1>4, <1>h, PlacedShape
  <1>6. QED
    BY <1>2, <1>3, <1>4, <1>5 DEF OnlyNamed

\* With auto_select on, a call changes only what it names, whatever mailbox
\* earlier calls, failures and reconnections left selected.
THEOREM OnlyNamedTouched == AutoSelect => (Spec => TouchesOnlyNamed)
  <1> SUFFICES ASSUME AutoSelect PROVE Spec => TouchesOnlyNamed
    OBVIOUS
  <1>1. IInv /\ [Next]_vars => [OnlyNamed]_vars
    <2> SUFFICES ASSUME IInv, Next PROVE OnlyNamed
      OBVIOUS
    <2>1. CASE Others
      BY <2>1 DEF Others, Deliver, Expunge, Reflag, OnlyNamed, OwnStep
    <2>2. CASE UNCHANGED mail
      BY <2>2 DEF OnlyNamed
    <2>3. CASE StoreFlags
      BY <2>3, ReflaggedKeeps, CurrentCall
         DEF StoreFlags, OnlyNamed, IInv, TypeOK, MailType, SelectedIsNamed, CallOK
    <2>4. CASE MarkDeleted
      BY <2>4, ReflaggedKeeps, SessionAssumption
         DEF MarkDeleted, OnlyNamed, IInv, TypeOK, MailType, SelectedIsNamed
    <2>5. CASE ExpungeDeleted
      BY <2>5 DEF ExpungeDeleted, OnlyNamed, IInv, TypeOK, SelectedIsNamed
    <2>6. CASE Copy
      BY <2>6, CopyOnlyNamed
    <2>7. CASE Move
      BY <2>7, MoveOnlyNamed
    <2>8. CASE Append
      BY <2>8, SessionAssumption DEF Append, OnlyNamed, IInv, TypeOK, Uid
    <2>9. QED
      BY <2>1, <2>2, <2>3, <2>4, <2>5, <2>6, <2>7, <2>8
         DEF Next, Command, Select, Fetch, Search, Fail, Preselect, Begin, Reconnect
  <1>2. QED
    BY <1>1, Invariant, PTL DEF Spec, TouchesOnlyNamed

\* With auto_select on, get and add_message answer about the mailbox they were
\* given, and the UID of an appended message is not that of an older copy.
THEOREM AnswersNamed == AutoSelect => (Spec => AnswersAboutNamed)
  <1> SUFFICES ASSUME AutoSelect PROVE Spec => AnswersAboutNamed
    OBVIOUS
  <1>1. IInv /\ [Next]_vars => [AboutNamed]_vars
    <2> SUFFICES ASSUME IInv, Next, OwnStep, step' = "idle", answer'.ok
                 PROVE  AboutNamed
      BY DEF AboutNamed, vars, OwnStep
    <2>1. call \in Calls /\ CallOK(call)
      BY CurrentCall DEF IInv, OwnStep
    <2>2. CASE Fetch
      <3>1. PICK u \in Held(selected, call.uids) :
               answer' \in {[ok |-> TRUE, uid |-> u, id |-> mail[selected][u].id], Err}
        BY <2>2 DEF Fetch, Return
      <3>2. answer' = [ok |-> TRUE, uid |-> u, id |-> mail[selected][u].id]
        BY <3>1 DEF Err
      <3>3. QED
        BY <2>2, <3>1, <3>2 DEF Fetch, Held, AboutNamed, IInv, SelectedIsNamed
    <2>3. CASE Append
      <3>1. nextUid[call.box] \in Uid /\ call.op = "append" /\ call.box \in Mailbox
        BY <2>1, <2>3, SessionAssumption DEF Append, CallOK, IInv, TypeOK, Uid
      <3>2. answer' = Added(nextUid[call.box])
        BY <2>3 DEF Append, Return, Err
      <3>3. mail'[call.box][nextUid[call.box]] = [id |-> call.id, flags |-> call.flags]
        BY <2>3, <3>1 DEF Append, IInv, TypeOK
      <3>4. [id |-> call.id, flags |-> call.flags] \in Message
        BY <2>1, <3>1 DEF CallOK, Message
      <3>5. [id |-> call.id, flags |-> call.flags] # NoMessage
        BY <3>4, SessionAssumption DEF Message
      <3>6. appended = 0
        BY <2>3 DEF Append, IInv, TypeOK
      <3>7. QED
        BY <3>1, <3>2, <3>3, <3>5, <3>6, SessionAssumption DEF AboutNamed, Added, Uid
    <2>5. CASE StoreFlags \/ MarkDeleted \/ ExpungeDeleted \/ Copy \/ Move
      BY <2>5 DEF StoreFlags, MarkDeleted, ExpungeDeleted, Copy, Move, AboutNamed, IInv, TypeOK
    <2>4. CASE Search
      <3>1. PICK u \in Matches :
               /\ \A v \in Matches : v <= u
               /\ answer' \in {Added(u), Err}
        BY <2>4 DEF Search, Return
      <3>2. answer'.uid = u
        BY <3>1 DEF Err, Added
      <3>3. call.op = "append" /\ selected = call.box /\ UNCHANGED mail
        BY <2>4 DEF Search, IInv, TypeOK, SelectedIsNamed
      <3>4. appended \in Uid
        BY <2>4, SessionAssumption DEF Search, IInv, TypeOK, Uid
      <3>5. mail[call.box][appended] = NoMessage \/ appended \in Matches
        BY <2>4, <3>3, <3>4 DEF Search, IInv, AppendedIsNamed, Matches, Held
      <3>6. QED
        BY <3>1, <3>2, <3>3, <3>4, <3>5 DEF AboutNamed, Matches, Held, Uid
    <2>6. CASE Select \/ Fail
      BY <2>6 DEF Select, Fail, Return, Err
    <2>7. CASE Others \/ Reconnect \/ (\E b \in Mailbox : Preselect(b))
                \/ (\E c \in Calls : Begin(c))
      BY <2>7 DEF Others, Deliver, Expunge, Reflag, Reconnect, Preselect, Begin, FirstStep,
                  OwnStep
    <2>8. QED
      BY <2>2, <2>3, <2>4, <2>5, <2>6, <2>7 DEF Next, Command
  <1>2. QED
    BY <1>1, Invariant, PTL DEF Spec, AnswersAboutNamed

\* With auto_select on, a deletion that succeeds leaves the message only if
\* another session took \Deleted off it meanwhile.
THEOREM DeletedGone == AutoSelect => (Spec => DeletedIsGone)
  <1> SUFFICES ASSUME AutoSelect PROVE Spec => DeletedIsGone
    OBVIOUS
  <1>1. IInv /\ [Next]_vars => [GoneOrUnmarked]_vars
    <2> SUFFICES ASSUME IInv, Next, OwnStep, step = "expunge", answer'.ok
                 PROVE  GoneOrUnmarked
      BY DEF GoneOrUnmarked
    <2>1. call.op = "delete" /\ selected = call.box /\ call.uids \in SUBSET Uid
      BY CurrentCall DEF IInv, TypeOK, SelectedIsNamed, CallOK
    <2>2. CASE ExpungeDeleted
      BY <2>1, <2>2 DEF ExpungeDeleted, GoneOrUnmarked, Held, IInv, TypeOK
    <2>3. CASE Fail
      BY <2>3 DEF Fail, Return, Err
    <2>4. QED
      BY <2>2, <2>3
         DEF Next, Command, Select, Fetch, StoreFlags, MarkDeleted, Copy, Move, Append,
             Search, Others, Deliver, Expunge, Reflag, Preselect, Begin, Reconnect, OwnStep
  <1>2. QED
    BY <1>1, Invariant, PTL DEF Spec, DeletedIsGone

=============================================================================
