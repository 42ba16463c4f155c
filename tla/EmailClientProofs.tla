------------------------- MODULE EmailClientProofs -------------------------
(***************************************************************************)
(* Proofs about EmailClient, for any registrations, mailboxes, keywords,   *)
(* flags, numbers of messages and calls, and any doings of other clients.  *)
(***************************************************************************)
EXTENDS EmailClient, Integers, SequenceTheorems, TLAPS

-----------------------------------------------------------------------------
(* The invariants, by part. *)

Batch == {"store", "move", "copy", "delete"}
Kinds == {"none", "edit", "copy", "move", "delete"}
Hows == {"Add", "Remove", "Set"}
Flags == Iana \cup Keyword

Mails == UNION {[D -> Message] : D \in SUBSET (1..MaxId)}
Patches == [add : SUBSET Tags, remove : SUBSET Tags]
Calls == [op : DOMAIN Order \cup Batch \cup {"none"}, ids : Seq(1..MaxId), at : Nat \ {0},
          stage : {"none", "running", "ok", "error"}, kind : Kinds, patch : Patches,
          flags : SUBSET Flags, how : Hows \cup {"none"}, before : Mails]

AccountOK ==
    /\ slots \in Registrations /\ boxes \subseteq Mbox
    /\ nextId \in 1..(MaxId + 1)
    /\ mail \in Mails /\ DOMAIN mail \subseteq 1..(nextId - 1)
    /\ meddled \subseteq 1..MaxId /\ gone \subseteq 0..2
    /\ outbox \in Nat /\ oks \in Nat /\ calls \in 0..MaxCalls

\* What a backend makes of the flags a caller stores.
PatchFor(by, flags, how) ==
    CASE by = "gmail"   -> LabelPatch(flags, how)
      [] by = "msgraph" -> FieldPatch(flags, how)
      [] OTHER          -> KeywordPatch(flags, how)

\* The batches a backend makes: Graph alone copies and moves by making another
\* message, in one folder; a store carries the patch of its flags.
Shaped(c, by) ==
    c.op \in Batch =>
        /\ c.kind = "none" => c.stage = "error"
        /\ c.kind # "none" =>
              /\ by \in Remote
              /\ IsInjective(c.ids)
              /\ c.stage = "running" /\ by # "jmap" => c.at \in 1..Len(c.ids)
              /\ by = "jmap" => c.kind \in {"edit", "delete"}
              /\ c.op = "store" => /\ c.kind = "edit" /\ c.how \in Hows
                                   /\ c.patch = PatchFor(by, c.flags, c.how)
              /\ by = "msgraph" =>
                    /\ c.kind = "edit" => c.op = "store"
                    /\ c.kind \in {"copy", "move"} =>
                          c.patch.remove = Mbox /\ \E to \in Mbox : c.patch.add = {to}

\* An append or a sending stands at one of the steps of its backend.
Delivering ==
    Running /\ call.op \in {"add", "send"} =>
        /\ call.op = "add" => Route("add") = "jmap"
        /\ Route("send") = "none" => call.op = "add"
        /\ call.at \in 1..Len(Steps)

CallOK == call \in Calls /\ Shaped(call, Route("message")) /\ Delivering

\* Ids are given out once: those of a batch, and those there were when it began,
\* are older than the next one; one that was not there does not come back.
IdsOK ==
    call.op \in Batch /\ call.kind # "none" =>
        /\ Range(call.ids) \cup DOMAIN call.before \subseteq 1..(nextId - 1)
        /\ Range(call.ids) \cap DOMAIN mail \subseteq DOMAIN call.before

HeldOK == held.by # "none" => held.by \in Gives /\ held.of = Route(held.by)

\* Each send_message puts at most one message into the outbox.
OutboxOK == oks <= outbox /\ outbox <= calls /\ (Running => outbox < calls)

\* A Graph message is in one folder at most.
OneFolder ==
    Route("message") = "msgraph" =>
        \A i \in DOMAIN mail : \A a, b \in MailboxesOf(mail[i]) : a = b

Kept(r) == r \in gone \/ \E i \in DOMAIN mail : mail[i].raw = r

-----------------------------------------------------------------------------
(* Dispatch. *)

LEMMA MinIs ==
    ASSUME NEW S \in SUBSET Nat, NEW k \in S, \A j \in S : k <= j
    PROVE  Min(S) = k
  <1>1. \A m \in S : (\A j \in S : m =< j) => m = k
    OBVIOUS
  <1>2. \E m \in S : \A j \in S : m =< j
    OBVIOUS
  <1>3. Min(S) \in S /\ \A j \in S : Min(S) =< j
    BY <1>2 DEF Min
  <1> QED
    BY <1>1, <1>3

LEMMA RouteAt ==
    ASSUME NEW op, DOMAIN Order[op] \subseteq Nat, NEW k \in Registered(op),
           \A j \in Registered(op) : k <= j
    PROVE  Route(op) = Order[op][k]
  <1>1. Registered(op) \subseteq Nat
    BY DEF Registered
  <1> QED
    BY <1>1, MinIs DEF Route

\* Slots are registered once: what a call is routed to does not change.
LEMMA RouteStays ==
    ASSUME slots' = slots, NEW op
    PROVE  Route(op)' = Route(op)
BY DEF Route, Registered

LEMMA RouteOfSix ==
    ASSUME NEW op, NEW a, NEW b, NEW c, NEW d, NEW e, NEW f,
           Order[op] = <<a, b, c, d, e, f>>
    PROVE  Route(op) = IF a \in slots THEN a ELSE IF b \in slots THEN b
                       ELSE IF c \in slots THEN c ELSE IF d \in slots THEN d
                       ELSE IF e \in slots THEN e ELSE IF f \in slots THEN f ELSE "none"
  <1>1. DOMAIN Order[op] = 1..6
    OBVIOUS
  <1>2. /\ 1 \in Registered(op) <=> a \in slots
        /\ 2 \in Registered(op) <=> b \in slots
        /\ 3 \in Registered(op) <=> c \in slots
        /\ 4 \in Registered(op) <=> d \in slots
        /\ 5 \in Registered(op) <=> e \in slots
        /\ 6 \in Registered(op) <=> f \in slots
        /\ \A k \in Registered(op) : k \in {1, 2, 3, 4, 5, 6}
    BY <1>1 DEF Registered
  <1>3. CASE Registered(op) = {}
    BY <1>2, <1>3 DEF Route
  <1>4. CASE Registered(op) # {}
    <2>1. PICK k \in {1, 2, 3, 4, 5, 6} :
             k \in Registered(op) /\ \A j \in Registered(op) : k <= j
      BY <1>2, <1>4
    <2>2. Route(op) = Order[op][k]
      BY <1>1, <2>1, RouteAt
    <2> QED
      BY <1>2, <2>1, <2>2
  <1> QED
    BY <1>3, <1>4

LEMMA RouteOfFour ==
    ASSUME NEW op, NEW a, NEW b, NEW c, NEW d, Order[op] = <<a, b, c, d>>
    PROVE  Route(op) = IF a \in slots THEN a ELSE IF b \in slots THEN b
                       ELSE IF c \in slots THEN c ELSE IF d \in slots THEN d ELSE "none"
  <1>1. DOMAIN Order[op] = 1..4
    OBVIOUS
  <1>2. /\ 1 \in Registered(op) <=> a \in slots
        /\ 2 \in Registered(op) <=> b \in slots
        /\ 3 \in Registered(op) <=> c \in slots
        /\ 4 \in Registered(op) <=> d \in slots
        /\ \A k \in Registered(op) : k \in {1, 2, 3, 4}
    BY <1>1 DEF Registered
  <1>3. CASE Registered(op) = {}
    BY <1>2, <1>3 DEF Route
  <1>4. CASE Registered(op) # {}
    <2>1. PICK k \in {1, 2, 3, 4} :
             k \in Registered(op) /\ \A j \in Registered(op) : k <= j
      BY <1>2, <1>4
    <2>2. Route(op) = Order[op][k]
      BY <1>1, <2>1, RouteAt
    <2> QED
      BY <1>2, <2>1, <2>2
  <1> QED
    BY <1>3, <1>4

LEMMA RouteOfThree ==
    ASSUME NEW op, NEW a, NEW b, NEW c, Order[op] = <<a, b, c>>
    PROVE  Route(op) = IF a \in slots THEN a ELSE IF b \in slots THEN b
                       ELSE IF c \in slots THEN c ELSE "none"
  <1>1. DOMAIN Order[op] = 1..3
    OBVIOUS
  <1>2. /\ 1 \in Registered(op) <=> a \in slots
        /\ 2 \in Registered(op) <=> b \in slots
        /\ 3 \in Registered(op) <=> c \in slots
        /\ \A k \in Registered(op) : k \in {1, 2, 3}
    BY <1>1 DEF Registered
  <1>3. CASE Registered(op) = {}
    BY <1>2, <1>3 DEF Route
  <1>4. CASE Registered(op) # {}
    <2>1. PICK k \in {1, 2, 3} : k \in Registered(op) /\ \A j \in Registered(op) : k <= j
      BY <1>2, <1>4
    <2>2. Route(op) = Order[op][k]
      BY <1>1, <2>1, RouteAt
    <2> QED
      BY <1>2, <2>1, <2>2
  <1> QED
    BY <1>3, <1>4

LEMMA RouteOfTwo ==
    ASSUME NEW op, NEW a, NEW b, Order[op] = <<a, b>>
    PROVE  Route(op) = IF a \in slots THEN a ELSE IF b \in slots THEN b ELSE "none"
  <1>1. DOMAIN Order[op] = 1..2
    OBVIOUS
  <1>2. /\ 1 \in Registered(op) <=> a \in slots
        /\ 2 \in Registered(op) <=> b \in slots
        /\ \A k \in Registered(op) : k \in {1, 2}
    BY <1>1 DEF Registered
  <1>3. CASE Registered(op) = {}
    BY <1>2, <1>3 DEF Route
  <1>4. CASE Registered(op) # {}
    <2>1. PICK k \in {1, 2} : k \in Registered(op) /\ \A j \in Registered(op) : k <= j
      BY <1>2, <1>4
    <2>2. Route(op) = Order[op][k]
      BY <1>1, <2>1, RouteAt
    <2> QED
      BY <1>2, <2>1, <2>2
  <1> QED
    BY <1>3, <1>4

\* The calls on messages, flags and mailboxes, and a listing, agree on the backend.
LEMMA OneBackend ==
    \A op \in {"list", "store", "message", "mailbox"} :
        /\ Route(op) = Route("message")
        /\ Route(op) = IF "maildir" \in slots THEN "maildir"
                       ELSE IF "m2dir" \in slots THEN "m2dir"
                       ELSE IF "jmap" \in slots THEN "jmap"
                       ELSE IF "gmail" \in slots THEN "gmail"
                       ELSE IF "msgraph" \in slots THEN "msgraph"
                       ELSE IF "imap" \in slots THEN "imap" ELSE "none"
  <1>1. \A op \in {"list", "store", "message", "mailbox"} : Order[op] = Everywhere
    BY DEF Order, ListOrder, FlagOrder, MessageOrder, MailboxOrder
  <1> QED
    BY <1>1, RouteOfSix DEF Everywhere

\* Searching, comparing, watching, appending and sending have orders of their own.
LEMMA OtherBackends ==
    /\ \A op \in {"search", "add"} :
           Route(op) = IF "maildir" \in slots THEN "maildir"
                       ELSE IF "m2dir" \in slots THEN "m2dir"
                       ELSE IF "jmap" \in slots THEN "jmap"
                       ELSE IF "imap" \in slots THEN "imap" ELSE "none"
    /\ Route("diff") = IF "jmap" \in slots THEN "jmap"
                       ELSE IF "imap" \in slots THEN "imap" ELSE "none"
    /\ Route("watch") = IF "jmap" \in slots THEN "jmap"
                        ELSE IF "gmail" \in slots THEN "gmail"
                        ELSE IF "imap" \in slots THEN "imap" ELSE "none"
    /\ Route("send") \in {"none", "jmap", "gmail", "msgraph", "smtp"}
  <1>1. /\ Order["search"] = <<"maildir", "m2dir", "jmap", "imap">>
        /\ Order["add"] = <<"maildir", "m2dir", "jmap", "imap">>
        /\ Order["diff"] = <<"jmap", "imap">>
        /\ Order["watch"] = <<"jmap", "gmail", "imap">>
        /\ Order["send"] = <<"jmap", "gmail", "msgraph", "smtp">>
    BY DEF Order, SearchOrder, AddOrder, DiffOrder, WatchOrder, SendOrder
  <1> QED
    BY <1>1, RouteOfFour, RouteOfThree, RouteOfTwo

LEMMA HeldGoesBack == HeldOK => RoutedBack
  <1> SUFFICES ASSUME HeldOK, held.by # "none", NEW op \in Takes,
                      NEW k \in 1..Len(Order[held.by]), Order[held.by][k] = Route(op)
               PROVE  Route(op) = held.of
    BY DEF RoutedBack
  <1>1. held.by \in Gives /\ held.of = Route(held.by)
    BY DEF HeldOK
  <1>2. Route(op) = Route("message")
    BY OneBackend DEF Takes
  <1>3. CASE held.by = "list"
    BY <1>1, <1>2, <1>3, OneBackend
  <1>4. CASE held.by \in {"search", "add"}
    <2>1. Order[held.by] = <<"maildir", "m2dir", "jmap", "imap">>
      BY <1>4 DEF Order, SearchOrder, AddOrder
    <2>2. Route(op) \in {"maildir", "m2dir", "jmap", "imap"}
      BY <2>1
    <2> QED
      BY <1>1, <1>2, <1>4, <2>2, OneBackend, OtherBackends
  <1>5. CASE held.by = "diff"
    <2>1. Order[held.by] = <<"jmap", "imap">>
      BY <1>5 DEF Order, DiffOrder
    <2>2. Route(op) \in {"jmap", "imap"}
      BY <2>1
    <2> QED
      BY <1>1, <1>2, <1>5, <2>2, OneBackend, OtherBackends
  <1>6. CASE held.by = "watch"
    <2>1. Order[held.by] = <<"jmap", "gmail", "imap">>
      BY <1>6 DEF Order, WatchOrder
    <2>2. Route(op) \in {"jmap", "gmail", "imap"}
      BY <2>1
    <2> QED
      BY <1>1, <1>2, <1>6, <2>2, OneBackend, OtherBackends
  <1> QED
    BY <1>1, <1>3, <1>4, <1>5, <1>6 DEF Gives

-----------------------------------------------------------------------------
(* Messages, patches and flags. *)

LEMMA MailTyped ==
    ASSUME NEW m \in Mails
    PROVE  /\ DOMAIN m \in SUBSET (1..MaxId)
           /\ m = [i \in DOMAIN m |-> m[i]]
           /\ \A i \in DOMAIN m : m[i] \in Message
BY DEF Mails

LEMMA MailMade ==
    ASSUME NEW D \in SUBSET (1..MaxId), NEW m \in [D -> Message]
    PROVE  m \in Mails
BY DEF Mails

LEMMA Edited ==
    ASSUME NEW m \in Message, NEW p \in Patches
    PROVE  /\ Edit(m, p) \in Message
           /\ Edit(m, p).raw = m.raw
           /\ Edit(m, p).tags = (m.tags \ p.remove) \cup p.add
BY DEF Edit, Message, Patches

\* A patch of nothing changes nothing.
LEMMA EditedNot ==
    ASSUME NEW m \in Message, NEW p, p.add = {}, p.remove = {}
    PROVE  Edit(m, p) = m
BY DEF Edit, Message

LEMMA LabelsTyped ==
    ASSUME NEW flags
    PROVE  LabelsOf(flags) \subseteq Tags /\ Unread \subseteq Tags
BY DEF LabelsOf, Labelled, LabelOf, Unread, Tags

LEMMA FieldsTyped ==
    ASSUME NEW flags
    PROVE  FieldsOf(flags) \subseteq Tags /\ FieldsOf(flags) \subseteq {FieldOf[f] : f \in DOMAIN FieldOf}
BY DEF FieldsOf, FieldOf, Tags

LEMMA PatchTyped ==
    ASSUME NEW flags \in SUBSET Flags, NEW how \in Hows, NEW by
    PROVE  PatchFor(by, flags, how) \in Patches
  <1>1. Flags \subseteq Tags
    BY DEF Flags, Tags
  <1>2. LabelPatch(flags, how) \in Patches
    BY <1>1, LabelsTyped DEF LabelPatch, Patches, Hows, Flags
  <1>3. FieldPatch(flags, how) \in Patches
    BY <1>1, FieldsTyped DEF FieldPatch, Patches, Hows, Flags
  <1>4. KeywordPatch(flags, how) \in Patches
    BY <1>1 DEF KeywordPatch, Patches, Hows, Flags
  <1> QED
    BY <1>2, <1>3, <1>4 DEF PatchFor

\* Flags put a Graph message into no folder.
LEMMA FieldsAreNoFolder ==
    ASSUME slots \in Registrations, Route("message") = "msgraph",
           NEW flags \in SUBSET Flags, NEW how \in Hows
    PROVE  /\ Keyword \cap Mbox = {}
           /\ PatchFor("msgraph", flags, how).add \cap Mbox = {}
  <1>1. "msgraph" \in slots
    BY OneBackend
  <1>2. Mbox \cap (Keyword \cup {FieldOf[f] : f \in DOMAIN FieldOf}) = {}
    BY <1>1, TagsAssumption
  <1> QED
    BY <1>2, FieldsTyped DEF PatchFor, FieldPatch, Hows

LEMMA LabelsFit ==
    ASSUME NEW flags \in SUBSET Flags, NEW how \in Hows, NEW tags
    PROVE  LET p == LabelPatch(flags, how)
           IN  LabelledFlags((tags \ p.remove) \cup p.add)
                   = Asked(LabelledFlags(tags), flags, how) \cap Labelled
  <1> DEFINE p == LabelPatch(flags, how)
             new == (tags \ p.remove) \cup p.add
  <1>1. Labelled = {"Seen", "Flagged", "Important", "Draft", "Junk"}
    BY DEF Labelled, LabelOf
  <1>2. /\ LabelOf["Seen"] = "UNREAD" /\ LabelOf["Flagged"] = "STARRED"
        /\ LabelOf["Important"] = "IMPORTANT" /\ LabelOf["Draft"] = "DRAFT"
        /\ LabelOf["Junk"] = "SPAM"
    BY DEF LabelOf
  <1>3. \A f \in Labelled : LabelOf[f] \notin Keyword
    BY TagsAssumption
  <1>4. \A F : \A f \in Labelled : LabelOf[f] \in LabelsOf(F) <=> f \in F /\ f # "Seen"
    BY <1>1, <1>2 DEF LabelsOf
  <1>5. \A f \in Labelled : LabelOf[f] \in Unread <=> f = "Seen"
    BY <1>1, <1>2 DEF Unread
  <1>6. Labelled \subseteq Iana
    BY <1>1 DEF Iana
  <1>7. \A f \in Labelled \ {"Seen"} :
           LabelOf[f] \in new <=> f \in Asked({g \in Labelled : LabelOf[g] \in tags}, flags, how)
    BY <1>3, <1>4, <1>5, <1>6 DEF LabelPatch, Asked, Hows
  <1>8. LabelOf["Seen"] \in new <=>
            "Seen" \notin Asked({g \in Labelled : LabelOf[g] \notin tags}, flags, how)
    BY <1>1, <1>3, <1>4, <1>5, <1>6 DEF LabelPatch, Asked, Hows, Unread
  <1> QED
    BY <1>1, <1>7, <1>8 DEF LabelledFlags, Asked, Hows

LEMMA FieldsFit ==
    ASSUME NEW flags \in SUBSET Flags, NEW how \in Hows, NEW tags,
           NEW able, able = {"Seen", "Flagged", "Important"}
                 \cup IF how = "Set" /\ flags \cap Keyword # {} THEN Keyword ELSE {}
    PROVE  LET p == FieldPatch(flags, how)
               old == FieldFlags(tags)
           IN  FieldFlags((tags \ p.remove) \cup p.add)
                   = (Asked(old, flags, how) \cap able) \cup (old \ able)
  <1> DEFINE p == FieldPatch(flags, how)
             new == (tags \ p.remove) \cup p.add
             old == FieldFlags(tags)
             three == {"Seen", "Flagged", "Important"}
  <1>1. /\ DOMAIN FieldOf = {"Seen", "Flagged", "Important", "Draft"}
        /\ FieldOf["Seen"] = "isRead" /\ FieldOf["Flagged"] = "flag"
        /\ FieldOf["Important"] = "importance" /\ FieldOf["Draft"] = "isDraft"
    BY DEF FieldOf
  <1>2. \A f \in DOMAIN FieldOf : FieldOf[f] \notin Keyword /\ f \notin Keyword
    BY <1>1, TagsAssumption DEF Iana
  <1>3. \A F : \A f \in DOMAIN FieldOf : FieldOf[f] \in FieldsOf(F) <=> f \in F \cap three
    BY <1>1 DEF FieldsOf
  <1>4. \A F : \A k \in Keyword : k \notin FieldsOf(F)
    BY <1>1, <1>2, FieldsTyped
  <1>5. \A f \in three : FieldOf[f] \in new <=> f \in Asked({g \in three : FieldOf[g] \in tags}, flags, how)
    BY <1>1, <1>2, <1>3 DEF FieldPatch, Asked, Hows, Iana
  <1>6. FieldOf["Draft"] \in new <=> FieldOf["Draft"] \in tags
    BY <1>1, <1>2, <1>3 DEF FieldPatch, Hows
  <1>7. \A k \in Keyword : k \in new <=>
            IF how = "Set" /\ flags \cap Keyword # {} THEN k \in flags ELSE k \in tags
    BY <1>4 DEF FieldPatch, Hows
  <1>8. \A f : f \in FieldFlags(new) <=>
            \/ f \in three /\ FieldOf[f] \in new
            \/ f = "Draft" /\ FieldOf["Draft"] \in new
            \/ f \in Keyword /\ f \in new
    BY <1>1 DEF FieldFlags
  <1>9. \A f : f \in old <=>
            \/ f \in three /\ FieldOf[f] \in tags
            \/ f = "Draft" /\ FieldOf["Draft"] \in tags
            \/ f \in Keyword /\ f \in tags
    BY <1>1 DEF FieldFlags
  <1>10. \A f \in three : f \in FieldFlags(new) <=> f \in Asked(old, flags, how)
    BY <1>1, <1>2, <1>5, <1>8, <1>9 DEF Asked, Hows
  <1>11. "Draft" \in FieldFlags(new) <=> "Draft" \in old
    BY <1>1, <1>2, <1>6, <1>8, <1>9
  <1>12. \A k \in Keyword : k \in FieldFlags(new) <=>
             IF how = "Set" /\ flags \cap Keyword # {} THEN k \in flags ELSE k \in old
    BY <1>1, <1>2, <1>7, <1>8, <1>9
  <1>13. \A f \in FieldFlags(new) \cup old : f \in three \cup {"Draft"} \cup Keyword
    BY <1>8, <1>9
  <1> HIDE DEF new, old, p
  <1>14. ASSUME NEW f
         PROVE  f \in FieldFlags(new) <=> f \in (Asked(old, flags, how) \cap able) \cup (old \ able)
    <2>1. CASE f \in three
      BY <1>10, <2>1
    <2>2. CASE f = "Draft"
      BY <1>1, <1>2, <1>11, <2>2
    <2>3. CASE f \in Keyword
      BY <1>1, <1>2, <1>12, <2>3 DEF Asked, Hows
    <2>4. CASE f \notin three \cup {"Draft"} \cup Keyword
      BY <1>13, <2>4
    <2> QED
      BY <2>1, <2>2, <2>3, <2>4
  <1> QED
    BY <1>14 DEF new, old, p

LEMMA KeywordsFit ==
    ASSUME NEW flags \in SUBSET Flags, NEW how \in Hows, NEW tags
    PROVE  LET p == KeywordPatch(flags, how)
           IN  KeywordFlags((tags \ p.remove) \cup p.add) = Asked(KeywordFlags(tags), flags, how)
BY DEF KeywordPatch, KeywordFlags, Asked, Hows, Flags

-----------------------------------------------------------------------------
(* Beginning a call. *)

\* A call as it begins: on ids given out, and running, unless it is a batch with
\* nothing to do or no backend takes it.
Fresh(c) ==
    /\ c \in Calls /\ Shaped(c, Route("message")) /\ c.at = 1
    /\ c.op \in Batch /\ c.kind # "none" =>
          /\ Range(c.ids) \subseteq 1..(nextId - 1)
          /\ \/ c.stage = "running"
             \/ c.stage = "ok" /\ c.ids = <<>>
             \/ c.stage = "ok" /\ c.kind = "edit" /\ c.patch.add = {} /\ c.patch.remove = {}
    /\ c.op = "add" /\ c.stage = "running" => Route("add") = "jmap"
    /\ c.op = "send" => Route("send") # "none" \/ c.stage = "error"

LEMMA CallFields ==
    ASSUME NEW c \in Calls
    PROVE  /\ c.op \in DOMAIN Order \cup Batch \cup {"none"} /\ c.ids \in Seq(1..MaxId)
           /\ c.at \in Nat \ {0} /\ c.stage \in {"none", "running", "ok", "error"}
           /\ c.kind \in Kinds /\ c.patch \in Patches /\ c.flags \in SUBSET Flags
           /\ c.how \in Hows \cup {"none"} /\ c.before \in Mails
BY DEF Calls

LEMMA IdleTyped == Idle \in Calls
  <1>1. <<>> \in Mails
    <2>1. <<>> \in [{} -> Message]
      OBVIOUS
    <2> QED
      BY <2>1, MailMade
  <1> QED
    BY <1>1 DEF Idle, Calls, Patches, Kinds

LEMMA BeforeSet ==
    ASSUME NEW c \in Calls, NEW m \in Mails
    PROVE  LET d == [c EXCEPT !.before = m]
           IN  /\ d \in Calls /\ d.before = m
               /\ d.op = c.op /\ d.ids = c.ids /\ d.at = c.at /\ d.stage = c.stage
               /\ d.kind = c.kind /\ d.patch = c.patch /\ d.flags = c.flags /\ d.how = c.how
BY DEF Calls

LEMMA StageSet ==
    ASSUME NEW c \in Calls, NEW s \in {"ok", "error"}
    PROVE  LET d == [c EXCEPT !.stage = s]
           IN  /\ d \in Calls /\ d.stage = s
               /\ d.op = c.op /\ d.ids = c.ids /\ d.at = c.at /\ d.before = c.before
               /\ d.kind = c.kind /\ d.patch = c.patch /\ d.flags = c.flags /\ d.how = c.how
BY DEF Calls

LEMMA AtSet ==
    ASSUME NEW c \in Calls
    PROVE  LET d == [c EXCEPT !.at = @ + 1]
           IN  /\ d \in Calls /\ d.at = c.at + 1
               /\ d.op = c.op /\ d.ids = c.ids /\ d.stage = c.stage /\ d.before = c.before
               /\ d.kind = c.kind /\ d.patch = c.patch /\ d.flags = c.flags /\ d.how = c.how
BY DEF Calls

\* A batch as PerId makes it.
LEMMA PerIdMakes ==
    ASSUME NEW op \in Batch, NEW kind \in Kinds, NEW ids \in Seq(1..MaxId),
           NEW patch \in Patches
    PROVE  LET c == PerId(op, kind, ids, patch)
           IN  /\ c \in Calls /\ c.op = op /\ c.kind = kind /\ c.ids = ids
               /\ c.patch = patch /\ c.at = 1 /\ c.flags = {} /\ c.how = "none"
               /\ \/ c.stage = "running" /\ ids # <<>>
                  \/ c.stage = "ok" /\ ids = <<>>
                  \/ c.stage = "ok" /\ kind = "edit" /\ patch.add = {} /\ patch.remove = {}
BY IdleTyped DEF PerId, Idle, Calls

LEMMA OneSetMakes ==
    ASSUME NEW op \in Batch, NEW kind \in Kinds, NEW ids \in Seq(1..MaxId),
           NEW patch \in Patches
    PROVE  LET c == OneSet(op, kind, ids, patch)
           IN  /\ c \in Calls /\ c.op = op /\ c.kind = kind /\ c.ids = ids
               /\ c.patch = patch /\ c.at = 1 /\ c.flags = {} /\ c.how = "none"
               /\ c.stage = "running"
BY IdleTyped DEF OneSet, Idle, Calls

LEMMA BatchIds ==
    ASSUME AccountOK, NEW ids \in Batches
    PROVE  /\ ids \in Seq(1..MaxId) /\ IsInjective(ids)
           /\ Range(ids) \subseteq 1..(nextId - 1)
  <1>1. PICK n \in 0..2 : ids \in [1..n -> 1..(nextId - 1)]
    BY DEF Batches, BoundedSeq, SeqOf
  <1>2. 1..(nextId - 1) \subseteq 1..MaxId
    BY BoundsAssumption DEF AccountOK
  <1>3. ids \in [1..n -> 1..MaxId]
    BY <1>1, <1>2
  <1>4. ids \in Seq(1..MaxId)
    <2>0. n \in Nat
      OBVIOUS
    <2>1. [1..n -> 1..MaxId] \in {[1..m -> 1..MaxId] : m \in Nat}
      BY ONLY <2>0, Zenon
    <2> QED
      BY <1>3, <2>1, SeqDef, Zenon
  <1>5. Range(ids) \subseteq 1..(nextId - 1)
    BY <1>1 DEF Range
  <1> QED
    BY <1>4, <1>5 DEF Batches

\* Every action that begins a call begins a fresh one.
Begins == (\E op \in DOMAIN Order : NoBackend(op)) \/ StoreFlags \/ MoveMessages
              \/ CopyMessages \/ DeleteMessage \/ AddMessage \/ SendMessage

LEMMA BatchFresh ==
    ASSUME NEW c \in Calls, NEW by, by = Route("message"), by \in Remote,
           c.op \in {"move", "copy", "delete"}, c.at = 1,
           c.kind \in {"edit", "copy", "move", "delete"},
           IsInjective(c.ids), Range(c.ids) \subseteq 1..(nextId - 1),
           \/ c.stage = "running" /\ (by # "jmap" => c.ids # <<>>)
           \/ c.stage = "ok" /\ c.ids = <<>>
           \/ c.stage = "ok" /\ c.kind = "edit" /\ c.patch.add = {} /\ c.patch.remove = {},
           by = "jmap" => c.kind \in {"edit", "delete"},
           by = "msgraph" => /\ c.kind # "edit"
                             /\ c.kind # "delete" => c.patch.remove = Mbox
                                   /\ \E to \in Mbox : c.patch.add = {to}
    PROVE  Fresh(c)
  <1>1. c.ids \in Seq(1..MaxId)
    BY CallFields
  <1>2. c.ids # <<>> => 1 \in 1..Len(c.ids)
    BY <1>1
  <1> QED
    BY <1>2 DEF Fresh, Shaped, Batch

LEMMA BeginsFresh ==
    ASSUME AccountOK, Begins
    PROVE  Free /\ \E c : Fresh(c) /\ Begin(c)
  <1> DEFINE by == Route("message")
  <1>0. /\ boxes \subseteq Mbox /\ mail \in Mails
        /\ {} \in SUBSET Tags /\ Idle.patch = [add |-> {}, remove |-> {}]
        /\ \A b \in Mbox : {b} \in SUBSET Tags
        /\ Mbox \in SUBSET Tags
    BY DEF AccountOK, Tags, Idle
  <1>1. ASSUME NEW op \in DOMAIN Order, NoBackend(op)
        PROVE  Free /\ \E c : Fresh(c) /\ Begin(c)
    <2> DEFINE c == [Idle EXCEPT !.op = op, !.stage = "error"]
    <2>1. c \in Calls /\ c.op = op /\ c.stage = "error" /\ c.kind = "none" /\ c.at = 1
      BY IdleTyped DEF Idle, Calls
    <2>2. [c EXCEPT !.before = mail] = [Idle EXCEPT !.op = op, !.stage = "error", !.before = mail]
      BY DEF Idle
    <2>3. Fresh(c)
      BY <2>1 DEF Fresh, Shaped
    <2>4. Begin(c)
      BY <1>1, <2>2 DEF NoBackend, Begin
    <2> HIDE DEF c
    <2> QED
      BY <1>1, <2>3, <2>4 DEF NoBackend
  <1>2. ASSUME StoreFlags
        PROVE  Free /\ \E c : Fresh(c) /\ Begin(c)
    <2>1. PICK ids \in Batches, flags \in FlagSets, how \in Hows :
             LET b == Route("store")
                 c == CASE b = "gmail"   -> GmailStore(ids, flags, how)
                        [] b = "msgraph" -> GraphStore(ids, flags, how)
                        [] OTHER         -> JmapStore(ids, flags, how)
             IN  b \in Remote /\ Begin([c EXCEPT !.flags = flags, !.how = how])
      BY <1>2 DEF StoreFlags, Hows
    <2> DEFINE c == CASE by = "gmail"   -> GmailStore(ids, flags, how)
                      [] by = "msgraph" -> GraphStore(ids, flags, how)
                      [] OTHER          -> JmapStore(ids, flags, how)
               d == [c EXCEPT !.flags = flags, !.how = how]
               patch == PatchFor(by, flags, how)
    <2>2. by \in Remote /\ Begin(d)
      BY <2>1, OneBackend
    <2>3. flags \in SUBSET Flags
      BY FlagsAssumption DEF Flags
    <2>4. patch \in Patches
      BY <2>3, PatchTyped
    <2>5. ids \in Seq(1..MaxId) /\ IsInjective(ids) /\ Range(ids) \subseteq 1..(nextId - 1)
      BY BatchIds
    <2>6. c = IF by = "jmap" THEN OneSet("store", "edit", ids, patch)
                             ELSE PerId("store", "edit", ids, patch)
      BY <2>2 DEF GmailStore, GraphStore, JmapStore, PatchFor, Remote
    <2>7. /\ c \in Calls /\ c.op = "store" /\ c.kind = "edit" /\ c.ids = ids /\ c.patch = patch
          /\ c.at = 1
          /\ \/ c.stage = "running" /\ (by # "jmap" => ids # <<>>)
             \/ c.stage = "ok" /\ ids = <<>>
             \/ c.stage = "ok" /\ patch.add = {} /\ patch.remove = {}
      <3> HIDE DEF c, patch, by
      <3> QED
        BY <2>4, <2>5, <2>6, PerIdMakes, OneSetMakes DEF Batch, Kinds
    <2>8. /\ d \in Calls /\ d.op = "store" /\ d.kind = "edit" /\ d.ids = ids /\ d.patch = patch
          /\ d.at = 1 /\ d.stage = c.stage /\ d.flags = flags /\ d.how = how
      <3> HIDE DEF c, patch, by
      <3> QED
        BY <2>3, <2>7 DEF Calls, Hows
    <2>9. ids # <<>> => 1 \in 1..Len(ids)
      BY <2>5
    <2>10. Fresh(d)
      <3>1. patch = PatchFor(by, flags, how)
        OBVIOUS
      <3> HIDE DEF c, d, patch
      <3> QED
        BY <3>1, <2>2, <2>5, <2>7, <2>8, <2>9 DEF Fresh, Shaped, Batch
    <2> HIDE DEF c, d
    <2> QED
      BY <1>2, <2>2, <2>10 DEF StoreFlags
  <1>3. ASSUME MoveMessages
        PROVE  Free /\ \E c : Fresh(c) /\ Begin(c)
    <2>1. PICK ids \in Batches, from \in boxes, to \in boxes :
             LET b == Route("message")
             IN  /\ b \in Remote
                 /\ Begin(CASE b = "gmail"   -> GmailMove(ids, from, to)
                            [] b = "msgraph" -> GraphMove(ids, to)
                            [] OTHER         -> JmapMove(ids, from, to))
      BY <1>3 DEF MoveMessages
    <2> DEFINE c == CASE by = "gmail"   -> GmailMove(ids, from, to)
                      [] by = "msgraph" -> GraphMove(ids, to)
                      [] OTHER          -> JmapMove(ids, from, to)
               one == [add |-> {to}, remove |-> {from}]
               all == [add |-> {to}, remove |-> Mbox]
    <2>2. one \in Patches /\ all \in Patches
      BY <1>0 DEF Patches
    <2>3. ids \in Seq(1..MaxId) /\ IsInjective(ids) /\ Range(ids) \subseteq 1..(nextId - 1)
      BY BatchIds
    <2>4. /\ by = "gmail" => c = PerId("move", "edit", ids, one)
          /\ by = "msgraph" => c = PerId("move", "move", ids, all)
          /\ by = "jmap" => c = OneSet("move", "edit", ids, one)
      BY DEF GmailMove, GraphMove, JmapMove
    <2>5. all.remove = Mbox /\ all.add = {to} /\ to \in Mbox
      BY <1>0
    <2>6. Fresh(c)
      <3>1. by \in {"jmap", "gmail", "msgraph"} /\ by = Route("message")
        BY <2>1 DEF Remote
      <3> HIDE DEF c, one, all, by
      <3>2. CASE by = "gmail"
        BY <3>1, <3>2, <2>2, <2>3, <2>4, PerIdMakes, BatchFresh DEF Batch, Kinds, Remote
      <3>3. CASE by = "msgraph"
        BY <3>1, <3>3, <2>2, <2>3, <2>4, <2>5, PerIdMakes, BatchFresh DEF Batch, Kinds, Remote
      <3>4. CASE by = "jmap"
        BY <3>1, <3>4, <2>2, <2>3, <2>4, OneSetMakes, BatchFresh DEF Batch, Kinds, Remote
      <3> QED
        BY <3>1, <3>2, <3>3, <3>4
    <2>7. Begin(c)
      BY <2>1
    <2> HIDE DEF c
    <2> QED
      BY <1>3, <2>6, <2>7 DEF MoveMessages
  <1>4. ASSUME CopyMessages
        PROVE  Free /\ \E c : Fresh(c) /\ Begin(c)
    <2>1. PICK ids \in Batches, to \in boxes :
             LET b == Route("message")
             IN  /\ b \in Remote
                 /\ Begin(CASE b = "gmail"   -> GmailCopy(ids, to)
                            [] b = "msgraph" -> GraphCopy(ids, to)
                            [] OTHER         -> JmapCopy(ids, to))
      BY <1>4 DEF CopyMessages
    <2> DEFINE c == CASE by = "gmail"   -> GmailCopy(ids, to)
                      [] by = "msgraph" -> GraphCopy(ids, to)
                      [] OTHER          -> JmapCopy(ids, to)
               one == [add |-> {to}, remove |-> {}]
               all == [add |-> {to}, remove |-> Mbox]
    <2>2. one \in Patches /\ all \in Patches
      BY <1>0 DEF Patches
    <2>3. ids \in Seq(1..MaxId) /\ IsInjective(ids) /\ Range(ids) \subseteq 1..(nextId - 1)
      BY BatchIds
    <2>4. /\ by = "gmail" => c = PerId("copy", "edit", ids, one)
          /\ by = "msgraph" => c = PerId("copy", "copy", ids, all)
          /\ by = "jmap" => c = OneSet("copy", "edit", ids, one)
      BY DEF GmailCopy, GraphCopy, JmapCopy
    <2>5. all.remove = Mbox /\ all.add = {to} /\ to \in Mbox
      BY <1>0
    <2>6. Fresh(c)
      <3>1. by \in {"jmap", "gmail", "msgraph"} /\ by = Route("message")
        BY <2>1 DEF Remote
      <3> HIDE DEF c, one, all, by
      <3>2. CASE by = "gmail"
        BY <3>1, <3>2, <2>2, <2>3, <2>4, PerIdMakes, BatchFresh DEF Batch, Kinds, Remote
      <3>3. CASE by = "msgraph"
        BY <3>1, <3>3, <2>2, <2>3, <2>4, <2>5, PerIdMakes, BatchFresh DEF Batch, Kinds, Remote
      <3>4. CASE by = "jmap"
        BY <3>1, <3>4, <2>2, <2>3, <2>4, OneSetMakes, BatchFresh DEF Batch, Kinds, Remote
      <3> QED
        BY <3>1, <3>2, <3>3, <3>4
    <2>7. Begin(c)
      BY <2>1
    <2> HIDE DEF c
    <2> QED
      BY <1>4, <2>6, <2>7 DEF CopyMessages
  <1>5. ASSUME DeleteMessage
        PROVE  Free /\ \E c : Fresh(c) /\ Begin(c)
    <2>1. PICK id \in 1..(nextId - 1) :
             LET b == Route("message")
             IN  /\ b \in Remote
                 /\ Begin(CASE b = "gmail"   -> GmailDelete(id)
                            [] b = "msgraph" -> GraphDelete(id)
                            [] OTHER         -> JmapDelete(id))
      BY <1>5 DEF DeleteMessage
    <2> DEFINE c == CASE by = "gmail"   -> GmailDelete(id)
                      [] by = "msgraph" -> GraphDelete(id)
                      [] OTHER          -> JmapDelete(id)
    <2>2. Idle.patch \in Patches
      BY <1>0 DEF Patches
    <2>3. <<id>> \in Seq(1..MaxId) /\ <<id>> # <<>>
      BY BoundsAssumption DEF AccountOK
    <2>4. IsInjective(<<id>>) /\ Range(<<id>>) \subseteq 1..(nextId - 1)
      BY DEF IsInjective, Range
    <2>5. c = IF by = "jmap" THEN OneSet("delete", "delete", <<id>>, Idle.patch)
                             ELSE PerId("delete", "delete", <<id>>, Idle.patch)
      BY <2>1 DEF GmailDelete, GraphDelete, JmapDelete, Remote
    <2>6. Fresh(c)
      <3> DEFINE ids == <<id>>
                 none == Idle.patch
      <3>1. by \in Remote /\ by = Route("message")
        BY <2>1
      <3>2. /\ ids \in Seq(1..MaxId) /\ ids # <<>> /\ IsInjective(ids)
            /\ Range(ids) \subseteq 1..(nextId - 1) /\ none \in Patches
            /\ by = "jmap" => c = OneSet("delete", "delete", ids, none)
            /\ by # "jmap" => c = PerId("delete", "delete", ids, none)
        BY <2>2, <2>3, <2>4, <2>5
      <3> HIDE DEF c, by, ids, none
      <3>3. /\ c \in Calls /\ c.op = "delete" /\ c.kind = "delete" /\ c.at = 1 /\ c.ids = ids
            /\ c.stage = "running"
        BY <3>2, OneSetMakes, PerIdMakes DEF Batch, Kinds
      <3> QED
        BY <3>1, <3>2, <3>3, BatchFresh
    <2>7. Begin(c)
      BY <2>1
    <2> HIDE DEF c
    <2> QED
      BY <1>5, <2>6, <2>7 DEF DeleteMessage
  <1>6. ASSUME AddMessage
        PROVE  Free /\ \E c : Fresh(c) /\ Begin(c)
    <2>1. PICK b \in boxes, flags \in FlagSets :
             /\ Route("add") = "jmap"
             /\ Begin([Idle EXCEPT !.op = "add", !.stage = "running",
                                   !.patch = [add |-> {b} \cup flags, remove |-> {}]])
      BY <1>6 DEF AddMessage
    <2> DEFINE c == [Idle EXCEPT !.op = "add", !.stage = "running",
                                 !.patch = [add |-> {b} \cup flags, remove |-> {}]]
    <2>2. [add |-> {b} \cup flags, remove |-> {}] \in Patches
      BY <1>0, FlagsAssumption DEF Patches, Tags
    <2>3. c \in Calls /\ c.op = "add" /\ c.at = 1
      BY <2>2, IdleTyped DEF Idle, Calls, Order
    <2>4. Fresh(c)
      BY <2>1, <2>3 DEF Fresh, Shaped, Batch
    <2> HIDE DEF c
    <2> QED
      BY <1>6, <2>1, <2>4 DEF AddMessage, c
  <1>7. ASSUME SendMessage
        PROVE  Free /\ \E c : Fresh(c) /\ Begin(c)
    <2> DEFINE c == [Idle EXCEPT !.op = "send",
                                 !.patch = [add |-> {Drafts, "Draft"}, remove |-> {}],
                                 !.stage = IF Route("send") = "jmap" /\ ~ready
                                           THEN "error" ELSE "running"]
    <2>2. [add |-> {Drafts, "Draft"}, remove |-> {}] \in Patches
      BY MailboxesAssumption DEF Patches, Tags, Iana
    <2>3. c \in Calls /\ c.op = "send" /\ c.at = 1
      BY <2>2, IdleTyped DEF Idle, Calls, Order
    <2>4. Route("send") # "none" /\ Begin(c) /\ Free
      BY <1>7 DEF SendMessage
    <2>5. Fresh(c)
      BY <2>3, <2>4 DEF Fresh, Shaped, Batch
    <2> HIDE DEF c
    <2> QED
      BY <2>4, <2>5
  <1> QED
    BY <1>1, <1>2, <1>3, <1>4, <1>5, <1>6, <1>7 DEF Begins

-----------------------------------------------------------------------------
(* What the requests do. *)

StateOK == AccountOK /\ CallOK /\ IdsOK /\ HeldOK /\ OutboxOK

LEMMA StepsAre ==
    /\ call.op = "add" => Steps = <<"upload", "import">>
    /\ call.op # "add" /\ Route("send") = "jmap" => Steps = <<"upload", "import", "submit">>
    /\ call.op # "add" /\ Route("send") \in {"gmail", "msgraph", "smtp"} => Steps = <<"submit">>
BY DEF Steps, JmapAdd, JmapSend, GmailSend, GraphSend, SmtpSend

LEMMA StepsStay ==
    ASSUME slots' = slots, call'.op = call.op
    PROVE  Steps' = Steps
BY RouteStays DEF Steps

LEMMA StepsBegun ==
    ASSUME slots' = slots, call'.op = "add" \/ Route("send") # "none"
    PROVE  1 \in 1..Len(Steps')
  <1>1. Route("send")' = Route("send")
    BY RouteStays
  <1>2. Route("send") \in {"none", "jmap", "gmail", "msgraph", "smtp"}
    BY OtherBackends
  <1>3. CASE call'.op = "add"
    BY <1>3 DEF Steps, JmapAdd
  <1>4. CASE call'.op # "add"
    <2>1. Route("send") \in {"jmap", "gmail", "msgraph", "smtp"}
      BY <1>2, <1>4
    <2>2. Steps' \in {JmapSend, GmailSend, GraphSend, SmtpSend}
      BY <1>1, <1>4, <2>1 DEF Steps
    <2> QED
      BY <2>2 DEF JmapSend, GmailSend, GraphSend, SmtpSend
  <1> QED
    BY <1>3, <1>4

LEMMA Ids ==
    ASSUME AccountOK
    PROVE  /\ nextId \in Nat /\ nextId >= 1 /\ MaxId \in Nat
           /\ DOMAIN mail \subseteq 1..MaxId /\ nextId \notin DOMAIN mail
           /\ nextId <= MaxId => nextId \in 1..MaxId
           /\ \A i \in DOMAIN mail : mail[i] \in Message /\ i \in 1..MaxId /\ i # nextId
  <1>1. \A i \in DOMAIN mail : mail[i] \in Message
    BY MailTyped DEF AccountOK
  <1> QED
    BY <1>1, BoundsAssumption DEF AccountOK

LEMMA UpTo ==
    ASSUME NEW a \in Int, NEW b \in Int, a <= b
    PROVE  1..(a - 1) \subseteq 1..(b - 1)
OBVIOUS

LEMMA WithMakes ==
    ASSUME AccountOK, NEW id \in 1..MaxId, NEW m \in Message
    PROVE  /\ With(id, m) \in Mails
           /\ DOMAIN With(id, m) = DOMAIN mail \cup {id}
           /\ With(id, m)[id] = m
           /\ \A i \in DOMAIN mail \ {id} : With(id, m)[i] = mail[i]
  <1>1. DOMAIN mail \cup {id} \in SUBSET (1..MaxId)
    BY Ids
  <1>2. With(id, m) \in [DOMAIN mail \cup {id} -> Message]
    BY Ids DEF With
  <1>3. With(id, m) \in Mails
    BY <1>1, <1>2, MailMade
  <1> QED
    BY <1>3 DEF With

LEMMA WithoutMakes ==
    ASSUME AccountOK, NEW id
    PROVE  /\ Without(id) \in Mails
           /\ DOMAIN Without(id) = DOMAIN mail \ {id}
           /\ \A i \in DOMAIN mail \ {id} : Without(id)[i] = mail[i]
  <1>1. DOMAIN mail \ {id} \in SUBSET (1..MaxId)
    BY Ids
  <1>2. Without(id) \in [DOMAIN mail \ {id} -> Message]
    BY Ids DEF Without
  <1>3. Without(id) \in Mails
    BY <1>1, <1>2, MailMade
  <1> QED
    BY <1>3 DEF Without

\* A request changes or removes the message it is about, or makes another, with
\* the next id.
LEMMA EffectMakes ==
    ASSUME AccountOK, call \in Calls, NEW id \in DOMAIN mail, nextId <= MaxId,
           call.kind # "none"
    PROVE  LET taken == IF call.kind \in {"move", "delete"} THEN {id} ELSE {}
               made  == IF call.kind \in {"copy", "move"} THEN {nextId} ELSE {}
               m     == Edit(mail[id], call.patch)
           IN  /\ Effect(id) \in Mails
               /\ DOMAIN Effect(id) = (DOMAIN mail \ taken) \cup made
               /\ \A i \in DOMAIN mail \ {id} : Effect(id)[i] = mail[i]
               /\ call.kind = "edit" => Effect(id)[id] = m
               /\ call.kind = "copy" => Effect(id)[id] = mail[id]
               /\ call.kind \in {"copy", "move"} => Effect(id)[nextId] = m
               /\ m \in Message
  <1>1. call.kind \in {"edit", "copy", "move", "delete"} /\ call.patch \in Patches
    BY CallFields DEF Kinds
  <1>2. mail[id] \in Message /\ id \in 1..MaxId /\ nextId \in 1..MaxId /\ id # nextId
    BY Ids
  <1> DEFINE m == Edit(mail[id], call.patch)
  <1>3. m \in Message
    BY <1>1, <1>2, Edited
  <1> HIDE DEF m
  <1>4. CASE call.kind = "edit"
    <2>1. Effect(id) = With(id, m)
      BY <1>4 DEF Effect, m
    <2> QED
      BY <1>2, <1>3, <1>4, <2>1, WithMakes DEF m
  <1>5. CASE call.kind = "copy"
    <2>1. Effect(id) = With(nextId, m)
      BY <1>5 DEF Effect, m
    <2>2. \A i \in DOMAIN mail : i # nextId
      BY Ids
    <2> QED
      <3>1. /\ With(nextId, m) \in Mails
            /\ DOMAIN With(nextId, m) = DOMAIN mail \cup {nextId}
            /\ With(nextId, m)[nextId] = m
            /\ \A i \in DOMAIN mail \ {nextId} : With(nextId, m)[i] = mail[i]
        BY <1>2, <1>3, WithMakes
      <3>2. \A i \in DOMAIN mail : Effect(id)[i] = mail[i]
        BY <2>1, <2>2, <3>1
      <3> QED
        BY <1>3, <1>5, <2>1, <3>1, <3>2 DEF m
  <1>6. CASE call.kind = "move"
    <2> DEFINE D == (DOMAIN mail \ {id}) \cup {nextId}
    <2>1. Effect(id) = [i \in D |-> IF i = nextId THEN m ELSE mail[i]]
      BY <1>6 DEF Effect, m
    <2>2. D \in SUBSET (1..MaxId)
      BY <1>2, Ids
    <2>3. Effect(id) \in [D -> Message]
      BY <1>3, <2>1, Ids
    <2>4. Effect(id) \in Mails
      BY <2>2, <2>3, MailMade
    <2>5. \A i \in DOMAIN mail : i # nextId
      BY Ids
    <2> QED
      BY <1>3, <1>6, <2>1, <2>4, <2>5 DEF m
  <1>7. CASE call.kind = "delete"
    <2>1. Effect(id) = Without(id)
      BY <1>7 DEF Effect
    <2> QED
      BY <1>3, <1>7, <2>1, WithoutMakes DEF m
  <1> QED
    BY <1>1, <1>4, <1>5, <1>6, <1>7

\* What an Email/set makes of the messages it takes.
SetMail(took) ==
    IF call.kind = "delete"
    THEN [i \in DOMAIN mail \ took |-> mail[i]]
    ELSE [i \in DOMAIN mail |-> IF i \in took THEN Edit(mail[i], call.patch) ELSE mail[i]]

LEMMA SetMakes ==
    ASSUME AccountOK, call \in Calls, NEW took \in SUBSET (DOMAIN mail)
    PROVE  /\ SetMail(took) \in Mails
           /\ DOMAIN SetMail(took) =
                 DOMAIN mail \ (IF call.kind = "delete" THEN took ELSE {})
           /\ \A i \in DOMAIN mail \ took : SetMail(took)[i] = mail[i]
           /\ call.kind # "delete" =>
                 \A i \in took : SetMail(took)[i] = Edit(mail[i], call.patch)
  <1>1. call.patch \in Patches
    BY CallFields
  <1>2. \A i \in DOMAIN mail : Edit(mail[i], call.patch) \in Message
    BY <1>1, Ids, Edited
  <1>3. DOMAIN mail \in SUBSET (1..MaxId) /\ (DOMAIN mail \ took) \in SUBSET (1..MaxId)
    BY Ids
  <1>4. CASE call.kind = "delete"
    <2>1. SetMail(took) \in [DOMAIN mail \ took -> Message]
      BY <1>4, Ids DEF SetMail
    <2> QED
      BY <1>3, <1>4, <2>1, MailMade DEF SetMail
  <1>5. CASE call.kind # "delete"
    <2>1. SetMail(took) \in [DOMAIN mail -> Message]
      BY <1>2, <1>5, Ids DEF SetMail
    <2> QED
      BY <1>3, <1>5, <2>1, MailMade DEF SetMail
  <1> QED
    BY <1>4, <1>5

\* How a call goes on: at the next id, or ended.
LEMMA GoesOn ==
    ASSUME call \in Calls, NEW reply \in Replies
    PROVE  /\ Ended(reply) \in Calls /\ Ended(reply).at = call.at
           /\ Ended(reply).stage = IF reply = "ok" THEN "ok" ELSE "error"
           /\ \A d \in {Ended(reply), [call EXCEPT !.at = @ + 1]} :
                 /\ d.op = call.op /\ d.ids = call.ids /\ d.kind = call.kind
                 /\ d.patch = call.patch /\ d.flags = call.flags /\ d.how = call.how
                 /\ d.before = call.before
           /\ [call EXCEPT !.at = @ + 1] \in Calls
           /\ [call EXCEPT !.at = @ + 1].at = call.at + 1
           /\ [call EXCEPT !.at = @ + 1].stage = call.stage
  <1>1. Ended(reply) = [call EXCEPT !.stage = IF reply = "ok" THEN "ok" ELSE "error"]
    BY DEF Ended
  <1>3. PICK st \in {"ok", "error"} :
           /\ Ended(reply) = [call EXCEPT !.stage = st]
           /\ st = IF reply = "ok" THEN "ok" ELSE "error"
    BY <1>1
  <1> DEFINE e == [call EXCEPT !.stage = st]
             n == [call EXCEPT !.at = @ + 1]
  <1>4. /\ e \in Calls /\ e.stage = st
        /\ e.op = call.op /\ e.ids = call.ids /\ e.at = call.at /\ e.before = call.before
        /\ e.kind = call.kind /\ e.patch = call.patch /\ e.flags = call.flags
        /\ e.how = call.how
    BY StageSet
  <1>5. /\ n \in Calls /\ n.at = call.at + 1
        /\ n.op = call.op /\ n.ids = call.ids /\ n.stage = call.stage
        /\ n.before = call.before
        /\ n.kind = call.kind /\ n.patch = call.patch /\ n.flags = call.flags
        /\ n.how = call.how
    BY AtSet
  <1>6. Ended(reply) = e
    BY <1>3
  <1> HIDE DEF e, n
  <1>7. \A d \in {e, n} :
           /\ d.op = call.op /\ d.ids = call.ids /\ d.kind = call.kind
           /\ d.patch = call.patch /\ d.flags = call.flags /\ d.how = call.how
           /\ d.before = call.before
    BY <1>4, <1>5
  <1> QED
    BY <1>3, <1>4, <1>5, <1>6, <1>7 DEF n

-----------------------------------------------------------------------------
(* Type correctness. *)

LEMMA InitState == Init => StateOK
  <1> SUFFICES ASSUME Init PROVE StateOK
    OBVIOUS
  <1>1. mail \in Mails /\ DOMAIN mail \subseteq 1..2
    <2>1. CASE Route("message") \in Remote
      <3>1. PICK t \in {FreshTags(Route("message")), Keyword} :
               mail = [i \in 1..2 |-> [raw |-> i, tags |-> {Inbox} \cup t]]
        BY <2>1 DEF Init, Accounts
      <3>2. t \subseteq Tags
        BY <3>1, LabelsTyped DEF FreshTags, Tags
      <3>3. {Inbox} \cup t \subseteq Tags
        BY <3>2, MailboxesAssumption DEF Tags
      <3>4. mail \in [1..2 -> Message]
        BY <3>1, <3>3 DEF Message
      <3> QED
        BY <3>4, MailMade, BoundsAssumption
    <2>2. CASE Route("message") \notin Remote
      <3>1. mail = <<>>
        BY <2>2 DEF Init, Accounts
      <3>2. mail \in [{} -> Message]
        BY <3>1
      <3> QED
        BY <3>2, MailMade
    <2> QED
      BY <2>1, <2>2
  <1>2. AccountOK
    BY <1>1, BoundsAssumption DEF Init, AccountOK
  <1>3. call.op = "none" /\ call.stage = "none" /\ held.by = "none"
    BY DEF Init, Idle
  <1>4. CallOK
    BY <1>3, IdleTyped DEF Init, CallOK, Shaped, Delivering, Running, Batch
  <1>5. IdsOK /\ HeldOK /\ OutboxOK
    BY <1>3 DEF Init, IdsOK, HeldOK, OutboxOK, Batch, Running
  <1> QED
    BY <1>2, <1>4, <1>5 DEF StateOK

LEMMA BeginState ==
    ASSUME StateOK, Free, NEW c, Fresh(c), Begin(c)
    PROVE  StateOK'
  <1> DEFINE d == [c EXCEPT !.before = mail]
  <1>1. /\ call' = d /\ meddled' = {} /\ calls' = calls + 1
        /\ slots' = slots /\ boxes' = boxes /\ mail' = mail /\ nextId' = nextId
        /\ gone' = gone /\ outbox' = outbox /\ oks' = oks /\ held' = held
    BY DEF Begin
  <1>2. AccountOK /\ c \in Calls /\ mail \in Mails
    BY DEF StateOK, AccountOK, Fresh
  <1>3. /\ d \in Calls /\ d.before = mail
        /\ d.op = c.op /\ d.ids = c.ids /\ d.at = c.at /\ d.stage = c.stage
        /\ d.kind = c.kind /\ d.patch = c.patch /\ d.flags = c.flags /\ d.how = c.how
    BY <1>2, BeforeSet
  <1> HIDE DEF d
  <1>4. \A op : Route(op)' = Route(op)
    BY <1>1, RouteStays
  <1>5. AccountOK'
    BY <1>1, <1>2, BoundsAssumption DEF AccountOK, Free
  <1>6. Shaped(d, Route("message"))
    BY <1>3 DEF Fresh, Shaped
  <1>7. Shaped(call, Route("message"))'
    BY <1>1, <1>4, <1>6
  <1>8. Delivering'
    <2> SUFFICES ASSUME c.stage = "running", c.op \in {"add", "send"}
                 PROVE  /\ c.op = "add" => Route("add") = "jmap"
                        /\ Route("send") = "none" => c.op = "add"
                        /\ c.at \in 1..Len(Steps')
      BY <1>1, <1>3, <1>4 DEF Delivering, Running
    <2>1. c.at = 1 /\ (c.op = "add" => Route("add") = "jmap")
             /\ (Route("send") = "none" => c.op = "add")
      BY DEF Fresh
    <2>2. 1 \in 1..Len(Steps')
      BY <1>1, <1>3, <2>1, StepsBegun
    <2> QED
      BY <2>1, <2>2
  <1>9. IdsOK'
    BY <1>1, <1>2, <1>3 DEF IdsOK, Fresh, AccountOK
  <1>10. HeldOK'
    BY <1>1, <1>4 DEF StateOK, HeldOK
  <1>11. OutboxOK'
    BY <1>1, <1>2 DEF StateOK, OutboxOK, AccountOK
  <1> QED
    BY <1>1, <1>3, <1>5, <1>7, <1>8, <1>9, <1>10, <1>11 DEF StateOK, CallOK

LEMMA GiveState ==
    ASSUME StateOK, NEW op \in Gives, Give(op)
    PROVE  StateOK'
  <1>1. /\ held' = [by |-> op, of |-> Route(op)] /\ calls' = calls + 1 /\ calls < MaxCalls
        /\ slots' = slots /\ boxes' = boxes /\ mail' = mail /\ nextId' = nextId
        /\ call' = call /\ meddled' = meddled
        /\ gone' = gone /\ outbox' = outbox /\ oks' = oks /\ ~Running
    BY DEF Give, Free
  <1>2. \A o : Route(o)' = Route(o)
    BY <1>1, RouteStays
  <1>3. AccountOK'
    BY <1>1, BoundsAssumption DEF StateOK, AccountOK
  <1>4. CallOK' /\ IdsOK'
    BY <1>1, <1>2 DEF StateOK, CallOK, IdsOK, Delivering, Running
  <1>5. HeldOK'
    BY <1>1, <1>2 DEF HeldOK
  <1>6. OutboxOK'
    BY <1>1 DEF StateOK, OutboxOK, AccountOK, Running
  <1> QED
    BY <1>3, <1>4, <1>5, <1>6 DEF StateOK

\* A batch at one of its ids.
LEMMA AtAnId ==
    ASSUME StateOK, Running, call.op \in Batch, Route("message") # "jmap"
    PROVE  /\ call.kind \in {"edit", "copy", "move", "delete"}
           /\ call.ids \in Seq(1..MaxId) /\ call.at \in 1..Len(call.ids)
           /\ call.ids[call.at] \in Range(call.ids)
  <1>1. call \in Calls /\ Shaped(call, Route("message"))
    BY DEF StateOK, CallOK
  <1>2. call.kind # "none" /\ call.at \in 1..Len(call.ids)
    BY <1>1 DEF Shaped, Running
  <1>3. call.ids \in Seq(1..MaxId) /\ call.kind \in Kinds
    BY <1>1, CallFields
  <1>4. DOMAIN call.ids = 1..Len(call.ids)
    BY <1>3
  <1> QED
    BY <1>2, <1>3, <1>4 DEF Range, Kinds

LEMMA RequestState ==
    ASSUME StateOK, Request
    PROVE  StateOK'
  <1>1. PICK reply \in Replies :
           LET id == call.ids[call.at]
               takes == reply # "refused"
           IN  /\ Running /\ call.op \in Batch
               /\ Route("message") # "jmap"
               /\ takes => id \in DOMAIN mail /\ nextId <= MaxId
               /\ mail' = IF takes THEN Effect(id) ELSE mail
               /\ nextId' = IF takes /\ call.kind \in {"copy", "move"} THEN nextId + 1 ELSE nextId
               /\ gone' = IF takes THEN gone \cup Deletes({id}) ELSE gone
               /\ call' = NextId(reply)
               /\ UNCHANGED <<slots, ready, boxes, meddled, outbox, oks, held, calls, meddles>>
    BY DEF Request, Batch
  <1> DEFINE id == call.ids[call.at]
             takes == reply # "refused"
             ended == Ended(reply)
             next == [call EXCEPT !.at = @ + 1]
  <1>2. AccountOK /\ call \in Calls /\ CallOK /\ IdsOK /\ HeldOK /\ OutboxOK
    BY DEF StateOK, CallOK
  <1>3. /\ call.kind \in {"edit", "copy", "move", "delete"}
        /\ call.ids \in Seq(1..MaxId) /\ call.at \in 1..Len(call.ids)
        /\ id \in Range(call.ids)
    BY <1>1, AtAnId
  <1>4. \A op : Route(op)' = Route(op)
    BY <1>1, RouteStays
  <1>5. /\ mail' \in Mails /\ DOMAIN mail' \subseteq 1..(nextId' - 1)
        /\ nextId' \in 1..(MaxId + 1) /\ nextId <= nextId'
        /\ Range(call.ids) \cap DOMAIN mail' \subseteq DOMAIN mail
    <2>1. /\ nextId \in Nat /\ nextId >= 1 /\ MaxId \in Nat
          /\ DOMAIN mail \subseteq 1..(nextId - 1) /\ mail \in Mails /\ nextId <= MaxId + 1
      BY <1>2, Ids DEF AccountOK
    <2>2. CASE ~takes
      BY <1>1, <2>1, <2>2
    <2>3. CASE takes
      <3>1. id \in DOMAIN mail /\ nextId <= MaxId /\ mail' = Effect(id)
        BY <1>1, <2>3
      <3>2. /\ Effect(id) \in Mails
            /\ DOMAIN Effect(id) \subseteq
                   DOMAIN mail \cup (IF call.kind \in {"copy", "move"} THEN {nextId} ELSE {})
        <4> HIDE DEF id
        <4> QED
          BY <1>2, <1>3, <3>1, EffectMakes
      <3>3. nextId \notin Range(call.ids)
        BY <1>1, <1>2, <1>3, <2>1 DEF IdsOK
      <3> QED
        BY <1>1, <2>1, <2>3, <3>1, <3>2, <3>3
    <2> QED
      BY <2>2, <2>3
  <1>6. gone' \subseteq 0..2
    <2>1. id \in DOMAIN mail => mail[id].raw \in 0..2
      BY <1>2, Ids DEF Message
    <2> QED
      BY <1>1, <1>2, <2>1 DEF AccountOK, Deletes
  <1>7. AccountOK'
    BY <1>1, <1>2, <1>5, <1>6 DEF AccountOK
  <1>8. /\ call' \in {ended, next} /\ ended \in Calls /\ next \in Calls
        /\ call'.op = call.op /\ call'.ids = call.ids /\ call'.kind = call.kind
        /\ call'.patch = call.patch /\ call'.flags = call.flags /\ call'.how = call.how
        /\ call'.before = call.before
        /\ \/ call'.stage \in {"ok", "error"}
           \/ call'.stage = "running" /\ call'.at \in 1..Len(call.ids)
    <2>1. call' = IF reply = "ok" /\ call.at < Len(call.ids) THEN next ELSE ended
      BY <1>1 DEF NextId
    <2>2. /\ ended \in Calls /\ next \in Calls
          /\ ended.stage \in {"ok", "error"} /\ next.stage = call.stage
          /\ next.at = call.at + 1
          /\ \A d \in {ended, next} :
                /\ d.op = call.op /\ d.ids = call.ids /\ d.kind = call.kind
                /\ d.patch = call.patch /\ d.flags = call.flags /\ d.how = call.how
                /\ d.before = call.before
      BY <1>2, GoesOn
    <2>3. call.stage = "running" /\ Len(call.ids) \in Nat
      BY <1>1, <1>3 DEF Running
    <2> HIDE DEF next, ended
    <2> QED
      BY <1>3, <2>1, <2>2, <2>3
  <1> HIDE DEF next, ended
  <1>9. Shaped(call', Route("message"))
    <2> DEFINE by == Route("message")
               c == call
               d == call'
    <2>1. Shaped(c, by)
      BY <1>2 DEF CallOK
    <2>2. /\ d.op = c.op /\ d.ids = c.ids /\ d.kind = c.kind
          /\ d.patch = c.patch /\ d.flags = c.flags /\ d.how = c.how
          /\ c.kind # "none"
          /\ d.stage = "running" => d.at \in 1..Len(c.ids)
      BY <1>3, <1>8
    <2> HIDE DEF by, c, d
    <2>3. Shaped(d, by)
      BY <2>1, <2>2 DEF Shaped
    <2> QED
      BY <2>3 DEF by, d
  <1>10. Shaped(call, Route("message"))'
    BY <1>4, <1>9
  <1>11. CallOK'
    BY <1>1, <1>8, <1>10 DEF CallOK, Delivering, Batch
  <1>12. IdsOK'
    <2>1. Range(call.ids) \cup DOMAIN call.before \subseteq 1..(nextId - 1)
          /\ Range(call.ids) \cap DOMAIN mail \subseteq DOMAIN call.before
      BY <1>1, <1>2, <1>3 DEF IdsOK
    <2>2. nextId \in Int /\ nextId' \in Int
      BY <1>2, <1>5, Ids
    <2>3. 1..(nextId - 1) \subseteq 1..(nextId' - 1)
      <3>1. nextId <= nextId'
        BY <1>5
      <3> QED
        BY <2>2, <3>1, UpTo
    <2>4. Range(call'.ids) = Range(call.ids) /\ DOMAIN call'.before = DOMAIN call.before
      BY <1>8
    <2> QED
      BY <1>5, <2>1, <2>3, <2>4 DEF IdsOK
  <1>13. HeldOK' /\ OutboxOK'
    BY <1>1, <1>2, <1>4, <1>8 DEF HeldOK, OutboxOK, Running
  <1> QED
    BY <1>7, <1>11, <1>12, <1>13 DEF StateOK

LEMMA SetEmailsState ==
    ASSUME StateOK, SetEmails
    PROVE  StateOK'
  <1>1. PICK took \in SUBSET (Range(call.ids) \cap DOMAIN mail), told \in BOOLEAN :
           /\ Running /\ call.op \in Batch
           /\ Route("message") = "jmap"
           /\ mail' = SetMail(took)
           /\ gone' = gone \cup Deletes(took)
           /\ call' = Ended(IF told /\ took = Range(call.ids) THEN "ok" ELSE "refused")
           /\ UNCHANGED <<slots, ready, boxes, nextId, meddled, outbox, oks, held, calls, meddles>>
    BY DEF SetEmails, SetMail, Batch
  <1>2. AccountOK /\ call \in Calls /\ CallOK /\ IdsOK /\ HeldOK /\ OutboxOK
    BY DEF StateOK, CallOK
  <1>3. PICK reply \in Replies : call' = Ended(reply)
    BY <1>1 DEF Replies
  <1>4. \A op : Route(op)' = Route(op)
    BY <1>1, RouteStays
  <1>5. mail' \in Mails /\ DOMAIN mail' \subseteq DOMAIN mail
    BY <1>1, <1>2, SetMakes
  <1>6. gone' \subseteq 0..2
    <2>1. \A i \in DOMAIN mail : mail[i].raw \in 0..2
      BY <1>2, Ids DEF Message
    <2> QED
      BY <1>1, <1>2, <2>1 DEF AccountOK, Deletes
  <1>7. AccountOK'
    BY <1>1, <1>2, <1>5, <1>6 DEF AccountOK
  <1>8. /\ call' \in Calls /\ call'.stage \in {"ok", "error"}
        /\ call'.op = call.op /\ call'.ids = call.ids /\ call'.kind = call.kind
        /\ call'.patch = call.patch /\ call'.flags = call.flags /\ call'.how = call.how
        /\ call'.before = call.before
    BY <1>2, <1>3, GoesOn
  <1>9. call.kind # "none"
    BY <1>1, <1>2 DEF CallOK, Shaped, Running
  <1>10. Shaped(call', Route("message"))
    BY <1>2, <1>8, <1>9 DEF CallOK, Shaped
  <1>11. Shaped(call, Route("message"))'
    BY <1>4, <1>10
  <1>12. CallOK'
    BY <1>8, <1>11 DEF CallOK, Delivering, Running
  <1>13. IdsOK'
    BY <1>1, <1>2, <1>5, <1>8 DEF IdsOK
  <1>14. HeldOK' /\ OutboxOK'
    BY <1>1, <1>2, <1>4, <1>8 DEF HeldOK, OutboxOK, Running
  <1> QED
    BY <1>7, <1>12, <1>13, <1>14 DEF StateOK

\* What Deliver does, in the terms of the proofs.
LEMMA DeliverIs ==
    ASSUME StateOK, Deliver
    PROVE  \E reply \in Replies :
              LET takes == reply # "refused"
                  here  == Route(call.op) \in Remote /\ Route(call.op) = Route("message")
                  made  == takes /\ Step = "import" /\ here
                  sent  == takes /\ Step = "submit"
              IN  /\ Running /\ call.op \in {"add", "send"}
                  /\ call' \in Calls
                  /\ call'.op = call.op
                  /\ \/ call'.stage = "ok" /\ reply = "ok"
                     \/ call'.stage = "error"
                     \/ call'.stage = "running" /\ ~sent /\ call'.at \in 1..Len(Steps)
                  /\ made => /\ nextId <= MaxId
                             /\ mail' = With(nextId, [raw |-> 0, tags |-> call.patch.add])
                             /\ nextId' = nextId + 1
                  /\ ~made => mail' = mail /\ nextId' = nextId
                  /\ outbox' = IF sent THEN outbox + 1 ELSE outbox
                  /\ oks' = IF call'.stage = "ok" /\ call.op = "send" THEN oks + 1 ELSE oks
                  /\ call'.stage = "ok" /\ call.op = "send" => sent
                  /\ sent => call.op = "send"
                  /\ Step = "import" => call.op = "add" \/ Route("send") = "jmap"
                  /\ Step = "import" => Route(call.op) = "jmap"
                  /\ sent /\ Route("send") = "jmap" /\ Route("message") = "jmap" =>
                        \E i \in DOMAIN mail : mail[i].raw = 0
                  /\ UNCHANGED <<slots, boxes, meddled, gone, held, calls>>
  <1>1. PICK reply \in Replies :
    LET takes == reply # "refused"
        here  == Route(call.op) \in Remote /\ Route(call.op) = Route("message")
        last  == call.at = Len(Steps)
    IN  /\ Running /\ call.op \in {"add", "send"}
        /\ takes /\ Step = "import" /\ here =>
               nextId <= MaxId /\ call.patch.add \cap Mbox \subseteq boxes
        /\ takes /\ Step = "submit" /\ Len(Steps) > 1 /\ here =>
               \E i \in DOMAIN mail : mail[i].raw = 0 /\ i \notin DOMAIN call.before
        /\ IF takes /\ Step = "import" /\ here
           THEN /\ mail' = With(nextId, [raw |-> 0, tags |-> call.patch.add])
                /\ nextId' = nextId + 1
           ELSE UNCHANGED <<mail, nextId>>
        /\ outbox' = IF takes /\ Step = "submit" THEN outbox + 1 ELSE outbox
        /\ call' = IF reply = "ok" /\ ~last THEN [call EXCEPT !.at = @ + 1]
                   ELSE Ended(reply)
        /\ oks' = IF call'.stage = "ok" /\ call.op = "send" THEN oks + 1 ELSE oks
        /\ UNCHANGED <<slots, ready, boxes, meddled, gone, held, calls, meddles>>
    BY DEF Deliver
  <1> DEFINE takes == reply # "refused"
             here  == Route(call.op) \in Remote /\ Route(call.op) = Route("message")
             made  == takes /\ Step = "import" /\ here
             sent  == takes /\ Step = "submit"
             last  == call.at = Len(Steps)
             ended == Ended(reply)
             next  == [call EXCEPT !.at = @ + 1]
  <1>2. call \in Calls /\ call.stage = "running" /\ Delivering
    BY <1>1 DEF StateOK, CallOK, Running
  <1>3. /\ call.op \in {"add", "send"} /\ call.at \in 1..Len(Steps)
        /\ call.op = "add" => Route("add") = "jmap"
        /\ call.op = "send" => Route("send") \in {"jmap", "gmail", "msgraph", "smtp"}
    BY <1>1, <1>2, OtherBackends DEF Delivering
  <1>4. /\ Steps \in {<<"upload", "import">>, <<"upload", "import", "submit">>, <<"submit">>}
        /\ call.op = "add" => Steps = <<"upload", "import">>
        /\ call.op = "send" /\ Route("send") = "jmap" => Steps = <<"upload", "import", "submit">>
        /\ call.op = "send" /\ Route("send") # "jmap" => Steps = <<"submit">>
    BY <1>3, StepsAre
  <1>5. /\ Step = Steps[call.at]
        /\ Step = "submit" => last /\ call.op = "send"
        /\ last /\ call.op = "send" => Step = "submit"
        /\ Step = "import" => call.op = "add" \/ Route("send") = "jmap"
        /\ ~last => call.at + 1 \in 1..Len(Steps)
    <2>1. CASE Steps = <<"upload", "import">>
      <3>1. Len(Steps) = 2 /\ Steps[1] = "upload" /\ Steps[2] = "import" /\ call.at \in {1, 2}
        BY <1>3, <2>1
      <3>2. call.op = "add" \/ Steps # <<"upload", "import">>
        BY <1>3, <1>4
      <3> QED
        BY <2>1, <3>1, <3>2 DEF Step
    <2>2. CASE Steps = <<"upload", "import", "submit">>
      <3>1. /\ Len(Steps) = 3 /\ Steps[1] = "upload" /\ Steps[2] = "import"
            /\ Steps[3] = "submit" /\ call.at \in {1, 2, 3}
        BY <1>3, <2>2
      <3>2. call.op = "send" /\ Route("send") = "jmap"
        BY <1>3, <1>4, <2>2
      <3> QED
        BY <3>1, <3>2 DEF Step
    <2>3. CASE Steps = <<"submit">>
      <3>1. Len(Steps) = 1 /\ Steps[1] = "submit" /\ call.at = 1
        BY <1>3, <2>3
      <3>2. call.op = "send"
        BY <1>3, <1>4, <2>3
      <3> QED
        BY <3>1, <3>2 DEF Step
    <2> QED
      BY <1>4, <2>1, <2>2, <2>3
  <1>6. /\ ended \in Calls /\ next \in Calls /\ ended.op = call.op /\ next.op = call.op
        /\ ended.stage = IF reply = "ok" THEN "ok" ELSE "error"
        /\ next.stage = "running" /\ next.at = call.at + 1
    BY <1>2, GoesOn
  <1>7. call' = IF reply = "ok" /\ ~last THEN next ELSE ended
    BY <1>1
  <1> HIDE DEF ended, next
  <1>8. /\ call' \in Calls /\ call'.op = call.op
        /\ \/ call'.stage = "ok" /\ reply = "ok"
           \/ call'.stage = "error"
           \/ call'.stage = "running" /\ ~sent /\ call'.at \in 1..Len(Steps)
        /\ call'.stage = "ok" => reply = "ok" /\ last
    BY <1>5, <1>6, <1>7
  <1>9. call'.stage = "ok" /\ call.op = "send" => sent
    BY <1>5, <1>8
  <1>10. Step = "import" => Route(call.op) = "jmap"
    BY <1>3, <1>5
  <1>11. sent /\ Route("send") = "jmap" /\ Route("message") = "jmap" =>
             \E i \in DOMAIN mail : mail[i].raw = 0
    BY <1>1, <1>4, <1>5 DEF Remote
  <1> QED
    BY <1>1, <1>3, <1>5, <1>8, <1>9, <1>10, <1>11

LEMMA DeliverState ==
    ASSUME StateOK, Deliver
    PROVE  StateOK'
  <1>1. PICK reply \in Replies :
              LET takes == reply # "refused"
                  here  == Route(call.op) \in Remote /\ Route(call.op) = Route("message")
                  made  == takes /\ Step = "import" /\ here
                  sent  == takes /\ Step = "submit"
              IN  /\ Running /\ call.op \in {"add", "send"}
                  /\ call' \in Calls
                  /\ call'.op = call.op
                  /\ \/ call'.stage = "ok" /\ reply = "ok"
                     \/ call'.stage = "error"
                     \/ call'.stage = "running" /\ ~sent /\ call'.at \in 1..Len(Steps)
                  /\ made => /\ nextId <= MaxId
                             /\ mail' = With(nextId, [raw |-> 0, tags |-> call.patch.add])
                             /\ nextId' = nextId + 1
                  /\ ~made => mail' = mail /\ nextId' = nextId
                  /\ outbox' = IF sent THEN outbox + 1 ELSE outbox
                  /\ oks' = IF call'.stage = "ok" /\ call.op = "send" THEN oks + 1 ELSE oks
                  /\ call'.stage = "ok" /\ call.op = "send" => sent
                  /\ UNCHANGED <<slots, boxes, meddled, gone, held, calls>>
    BY DeliverIs
  <1>2. AccountOK /\ call \in Calls /\ CallOK /\ HeldOK /\ OutboxOK
    BY DEF StateOK, CallOK
  <1>3. \A op : Route(op)' = Route(op)
    BY <1>1, RouteStays
  <1>4. /\ mail' \in Mails /\ DOMAIN mail' \subseteq 1..(nextId' - 1)
        /\ nextId' \in 1..(MaxId + 1)
    <2>1. call.patch.add \in SUBSET Tags
      BY <1>2, CallFields DEF Patches
    <2>2. [raw |-> 0, tags |-> call.patch.add] \in Message
      BY <2>1 DEF Message
    <2>3. nextId <= MaxId =>
             /\ With(nextId, [raw |-> 0, tags |-> call.patch.add]) \in Mails
             /\ DOMAIN With(nextId, [raw |-> 0, tags |-> call.patch.add]) = DOMAIN mail \cup {nextId}
      BY <1>2, <2>2, Ids, WithMakes
    <2>4. /\ nextId \in Nat /\ nextId >= 1 /\ MaxId \in Nat /\ nextId <= MaxId + 1
          /\ DOMAIN mail \subseteq 1..(nextId - 1) /\ mail \in Mails
      BY <1>2, Ids DEF AccountOK
    <2>5. \/ mail' = mail /\ nextId' = nextId
          \/ /\ nextId <= MaxId /\ nextId' = nextId + 1
             /\ mail' \in Mails /\ DOMAIN mail' = DOMAIN mail \cup {nextId}
      BY <1>1, <2>3
    <2> QED
      BY <2>4, <2>5
  <1>5. AccountOK'
    BY <1>1, <1>2, <1>4 DEF AccountOK
  <1>6. Shaped(call, Route("message"))'
    BY <1>1 DEF Shaped, Batch
  <1>7. Delivering'
    <2>1. Steps' = Steps
      BY <1>1, StepsStay
    <2> QED
      BY <1>1, <1>2, <1>3, <2>1 DEF CallOK, Delivering, Running
  <1>8. IdsOK'
    BY <1>1 DEF IdsOK, Batch
  <1>9. HeldOK'
    BY <1>1, <1>2, <1>3 DEF HeldOK
  <1>10. OutboxOK'
    BY <1>1, <1>2 DEF OutboxOK, AccountOK, Running
  <1> QED
    BY <1>1, <1>5, <1>6, <1>7, <1>8, <1>9, <1>10 DEF StateOK, CallOK

LEMMA MailboxCall ==
    ASSUME call \in Calls, NEW reply \in Replies, NEW m \in Mails
    PROVE  LET d == [Ended(reply) EXCEPT !.op = "mailbox", !.before = m]
           IN  d \in Calls /\ d.op = "mailbox" /\ d.stage \in {"ok", "error"}
  <1> DEFINE e == Ended(reply)
  <1>1. e \in Calls /\ e.stage \in {"ok", "error"}
    BY GoesOn
  <1>2. "mailbox" \in DOMAIN Order
    BY DEF Order
  <1> HIDE DEF e
  <1>3. LET d == [e EXCEPT !.op = "mailbox", !.before = m]
        IN  d \in Calls /\ d.op = "mailbox" /\ d.stage \in {"ok", "error"}
    BY <1>1, <1>2 DEF Calls
  <1> QED
    BY <1>3 DEF e

LEMMA DeleteMailboxState ==
    ASSUME StateOK, DeleteMailbox
    PROVE  StateOK'
  <1>1. PICK b \in boxes \ {Inbox}, reply \in Replies :
    /\ Free /\ Route("mailbox") \in Remote
    /\ IF reply # "refused"
       THEN /\ boxes' = boxes \ {b}
            /\ mail' = [i \in DOMAIN mail \ Doomed(b) |-> [mail[i] EXCEPT !.tags = @ \ {b}]]
            /\ gone' = gone \cup
                   {mail[i].raw : i \in {j \in DOMAIN mail : MailboxesOf(mail[j]) = {b}}}
       ELSE UNCHANGED <<boxes, mail, gone>>
    /\ call' = [Ended(reply) EXCEPT !.op = "mailbox", !.before = mail]
    /\ meddled' = {} /\ calls' = calls + 1
    /\ UNCHANGED <<slots, ready, nextId, outbox, oks, held, meddles>>
    BY DEF DeleteMailbox
  <1>2. AccountOK /\ call \in Calls /\ CallOK /\ HeldOK /\ OutboxOK
    BY DEF StateOK, CallOK
  <1>3. \A op : Route(op)' = Route(op)
    BY <1>1, RouteStays
  <1>4. mail' \in Mails /\ DOMAIN mail' \subseteq DOMAIN mail
    <2> DEFINE D == DOMAIN mail \ Doomed(b)
               m == [i \in D |-> [mail[i] EXCEPT !.tags = @ \ {b}]]
    <2>1. D \in SUBSET (1..MaxId)
      BY <1>2, Ids
    <2>2. \A i \in D : [mail[i] EXCEPT !.tags = @ \ {b}] \in Message
      BY <1>2, Ids DEF Message
    <2>3. m \in [D -> Message]
      BY <2>2
    <2>4. m \in Mails /\ DOMAIN m = D
      <3> HIDE DEF D
      <3> QED
        BY <2>1, <2>3, MailMade
    <2>5. mail \in Mails
      BY <1>2 DEF AccountOK
    <2>6. mail' = m \/ mail' = mail
      BY <1>1
    <2> QED
      BY <2>4, <2>5, <2>6
  <1>5. gone' \subseteq 0..2
    <2>1. \A i \in DOMAIN mail : mail[i].raw \in 0..2
      BY <1>2, Ids DEF Message
    <2> QED
      BY <1>1, <1>2, <2>1 DEF AccountOK
  <1>6. AccountOK'
    BY <1>1, <1>2, <1>4, <1>5, BoundsAssumption DEF AccountOK, Free
  <1>7. call' \in Calls /\ call'.op = "mailbox" /\ call'.stage \in {"ok", "error"}
    <2>1. mail \in Mails
      BY <1>2 DEF AccountOK
    <2> QED
      BY <1>1, <1>2, <2>1, MailboxCall
  <1>8. CallOK' /\ IdsOK'
    BY <1>7 DEF CallOK, IdsOK, Shaped, Delivering, Running, Batch
  <1>9. HeldOK' /\ OutboxOK'
    BY <1>1, <1>2, <1>3, <1>7 DEF HeldOK, OutboxOK, Running, AccountOK
  <1> QED
    BY <1>6, <1>8, <1>9 DEF StateOK

LEMMA CreateMailboxState ==
    ASSUME StateOK, CreateMailbox
    PROVE  StateOK'
  <1>1. PICK b \in Mbox \ boxes, reply \in Replies :
    /\ Free /\ Route("mailbox") \in Remote
    /\ boxes' = IF reply = "refused" THEN boxes ELSE boxes \cup {b}
    /\ call' = [Ended(reply) EXCEPT !.op = "mailbox", !.before = mail]
    /\ meddled' = {} /\ calls' = calls + 1
    /\ UNCHANGED <<slots, ready, mail, nextId, gone, outbox, oks, held, meddles>>
    BY DEF CreateMailbox
  <1>2. AccountOK /\ call \in Calls /\ CallOK /\ HeldOK /\ OutboxOK
    BY DEF StateOK, CallOK
  <1>3. \A op : Route(op)' = Route(op)
    BY <1>1, RouteStays
  <1>6. AccountOK'
    BY <1>1, <1>2, BoundsAssumption DEF AccountOK, Free
  <1>7. call' \in Calls /\ call'.op = "mailbox" /\ call'.stage \in {"ok", "error"}
    <2>1. mail \in Mails
      BY <1>2 DEF AccountOK
    <2> QED
      BY <1>1, <1>2, <2>1, MailboxCall
  <1>8. CallOK' /\ IdsOK'
    BY <1>7 DEF CallOK, IdsOK, Shaped, Delivering, Running, Batch
  <1>9. HeldOK' /\ OutboxOK'
    BY <1>1, <1>2, <1>3, <1>7 DEF HeldOK, OutboxOK, Running, AccountOK
  <1> QED
    BY <1>6, <1>8, <1>9 DEF StateOK

\* Another client changes the keywords of a message, or deletes it.
LEMMA MeddleIs ==
    ASSUME AccountOK, Meddle
    PROVE  \E id \in DOMAIN mail :
              /\ Running
              /\ \/ \E k \in Keyword, m \in Message :
                       /\ m = [mail[id] EXCEPT !.tags = SymDiff(@, {k})]
                       /\ mail' = With(id, m) /\ DOMAIN mail' = DOMAIN mail /\ mail'[id] = m
                       /\ gone' = gone
                 \/ /\ mail' = Without(id) /\ DOMAIN mail' = DOMAIN mail \ {id}
                    /\ gone' = gone \cup {mail[id].raw}
              /\ mail' \in Mails
              /\ \A i \in DOMAIN mail \ {id} : mail'[i] = mail[i]
              /\ meddled' = meddled \cup {id}
              /\ UNCHANGED <<slots, boxes, nextId, call, outbox, oks, held, calls>>
  <1>1. PICK id \in DOMAIN mail :
    /\ Running /\ meddles < MaxMeddles
    /\ \/ \E k \in Keyword :
            /\ mail' = With(id, [mail[id] EXCEPT !.tags = SymDiff(@, {k})])
            /\ UNCHANGED gone
       \/ /\ mail' = Without(id)
          /\ gone' = gone \cup {mail[id].raw}
    /\ meddled' = meddled \cup {id}
    /\ meddles' = meddles + 1
    /\ UNCHANGED <<slots, ready, boxes, nextId, call, outbox, oks, held, calls>>
    BY DEF Meddle
  <1>2. mail[id] \in Message /\ id \in 1..MaxId
    BY Ids
  <1>3. ASSUME NEW k \in Keyword,
               mail' = With(id, [mail[id] EXCEPT !.tags = SymDiff(@, {k})]),
               UNCHANGED gone
        PROVE  \E m \in Message :
                  /\ m = [mail[id] EXCEPT !.tags = SymDiff(@, {k})]
                  /\ mail' = With(id, m) /\ DOMAIN mail' = DOMAIN mail /\ mail'[id] = m
                  /\ mail' \in Mails
                  /\ \A i \in DOMAIN mail \ {id} : mail'[i] = mail[i]
    <2> DEFINE m == [mail[id] EXCEPT !.tags = SymDiff(@, {k})]
    <2>1. m \in Message
      BY <1>2 DEF Message, SymDiff, Tags
    <2>2. mail' = With(id, m)
      BY <1>3
    <2> HIDE DEF m
    <2>3. /\ mail' \in Mails /\ DOMAIN mail' = DOMAIN mail /\ mail'[id] = m
          /\ \A i \in DOMAIN mail \ {id} : mail'[i] = mail[i]
      BY <1>2, <2>1, <2>2, WithMakes
    <2> QED
      BY <2>1, <2>2, <2>3 DEF m
  <1>4. ASSUME mail' = Without(id)
        PROVE  /\ mail' \in Mails /\ DOMAIN mail' = DOMAIN mail \ {id}
               /\ \A i \in DOMAIN mail \ {id} : mail'[i] = mail[i]
    BY <1>4, WithoutMakes
  <1> QED
    BY <1>1, <1>3, <1>4

LEMMA MeddleState ==
    ASSUME StateOK, Meddle
    PROVE  StateOK'
  <1>0. AccountOK /\ CallOK /\ IdsOK /\ HeldOK /\ OutboxOK
    BY DEF StateOK
  <1>1. PICK id \in DOMAIN mail :
              /\ Running
              /\ gone' = gone \/ gone' = gone \cup {mail[id].raw}
              /\ mail' \in Mails /\ DOMAIN mail' \subseteq DOMAIN mail
              /\ meddled' = meddled \cup {id}
              /\ UNCHANGED <<slots, boxes, nextId, call, outbox, oks, held, calls>>
    BY <1>0, MeddleIs
  <1>2. mail[id].raw \in 0..2 /\ id \in 1..MaxId
    BY <1>0, Ids DEF Message
  <1>3. \A op : Route(op)' = Route(op)
    BY <1>1, RouteStays
  <1>4. AccountOK'
    BY <1>0, <1>1, <1>2 DEF AccountOK
  <1>5. Steps' = Steps
    BY <1>1, StepsStay
  <1>6. CallOK'
    BY <1>0, <1>1, <1>3, <1>5 DEF CallOK, Delivering, Running
  <1>7. IdsOK'
    BY <1>0, <1>1 DEF IdsOK
  <1>8. HeldOK' /\ OutboxOK'
    BY <1>0, <1>1, <1>3 DEF HeldOK, OutboxOK, Running
  <1> QED
    BY <1>4, <1>6, <1>7, <1>8 DEF StateOK

LEMMA NextIs ==
    Next => \/ \E op \in Gives : Give(op)
            \/ Begins \/ Request \/ SetEmails \/ Deliver
            \/ DeleteMailbox \/ CreateMailbox \/ Meddle
BY DEF Next, Begins

LEMMA StepState ==
    ASSUME StateOK, [Next]_vars
    PROVE  StateOK'
  <1>1. CASE \E op \in Gives : Give(op)
    BY <1>1, GiveState
  <1>2. CASE Begins
    <2>1. AccountOK
      BY DEF StateOK
    <2> QED
      BY <1>2, <2>1, BeginsFresh, BeginState
  <1>3. CASE Request
    BY <1>3, RequestState
  <1>4. CASE SetEmails
    BY <1>4, SetEmailsState
  <1>5. CASE Deliver
    BY <1>5, DeliverState
  <1>6. CASE DeleteMailbox
    BY <1>6, DeleteMailboxState
  <1>7. CASE CreateMailbox
    BY <1>7, CreateMailboxState
  <1>8. CASE Meddle
    BY <1>8, MeddleState
  <1>9. CASE UNCHANGED vars
    <2>1. \A op : Route(op)' = Route(op)
      BY <1>9, RouteStays DEF vars
    <2>2. Steps' = Steps
      BY <1>9, StepsStay DEF vars
    <2> QED
      BY <1>9, <2>1, <2>2 DEF vars, StateOK, AccountOK, CallOK, IdsOK, HeldOK, OutboxOK,
                              Delivering, Running
  <1> QED
    BY <1>1, <1>2, <1>3, <1>4, <1>5, <1>6, <1>7, <1>8, <1>9, NextIs

LEMMA StateAlways == Spec => []StateOK
  <1>1. Init => StateOK
    BY InitState
  <1>2. StateOK /\ [Next]_vars => StateOK'
    BY StepState
  <1> QED
    BY <1>1, <1>2, PTL DEF Spec

\* Type correctness: the account holds messages whose ids were given out, and a
\* Gmail or Graph batch (the resume loops of flag/gmail/store.rs and the like) never
\* stands beyond its ids.
THEOREM TypeCorrect == Spec => []TypeOK
  <1>1. StateOK => TypeOK
    <2> SUFFICES ASSUME StateOK PROVE TypeOK
      OBVIOUS
    <2>1. AccountOK /\ call \in Calls /\ OutboxOK
      BY DEF StateOK, CallOK
    <2>2. DOMAIN mail \subseteq 1..(nextId - 1) /\ \A i \in DOMAIN mail : mail[i] \in Message
      BY <2>1, Ids DEF AccountOK
    <2>3. call.stage \in {"none", "running", "ok", "error"}
      BY <2>1, CallFields
    <2>4. Running /\ call.op \in {"store", "move", "copy", "delete"} /\
              Route("message") # "jmap" => call.at \in 1..Len(call.ids)
      BY AtAnId DEF Batch
    <2>5. outbox \in 0..MaxCalls /\ oks \in 0..MaxCalls
      BY <2>1, BoundsAssumption DEF AccountOK, OutboxOK
    <2>6. nextId <= MaxId + 1
      BY <2>1, BoundsAssumption DEF AccountOK
    <2> QED
      BY <2>1, <2>2, <2>3, <2>4, <2>5, <2>6 DEF TypeOK, AccountOK
  <1> QED
    BY <1>1, StateAlways, PTL

\* An id goes back to the backend that gave it: no registration of backends makes
\* the dispatch of client.rs take an id to another one that could have given it.
THEOREM IdsGoBack == Spec => []RoutedBack
  <1>1. StateOK => RoutedBack
    BY HeldGoesBack DEF StateOK
  <1> QED
    BY <1>1, StateAlways, PTL

-----------------------------------------------------------------------------
(* No message is lost. *)

\* A step that leaves every message with its tags leaves it in its folder.
LEMMA FolderSame ==
    ASSUME OneFolder, slots' = slots,
           \A i \in DOMAIN mail' :
              \/ Route("message") = "msgraph" =>
                    \A a, b \in MailboxesOf(mail'[i]) : a = b
              \/ \E j \in DOMAIN mail : MailboxesOf(mail'[i]) \subseteq MailboxesOf(mail[j])
    PROVE  OneFolder'
  <1>1. Route("message")' = Route("message")
    BY RouteStays
  <1> SUFFICES ASSUME Route("message") = "msgraph", NEW i \in DOMAIN mail',
                      NEW a \in MailboxesOf(mail'[i]), NEW b \in MailboxesOf(mail'[i])
               PROVE  a = b
    BY <1>1 DEF OneFolder
  <1> QED
    BY DEF OneFolder

LEMMA FolderStays ==
    ASSUME StateOK, OneFolder, [Next]_vars
    PROVE  OneFolder'
  <1>0. AccountOK /\ call \in Calls /\ Shaped(call, Route("message"))
    BY DEF StateOK, CallOK
  <1> DEFINE graph == Route("message") = "msgraph"
             Fine(i) == \/ graph => \A a, b \in MailboxesOf(mail'[i]) : a = b
                        \/ \E j \in DOMAIN mail :
                              MailboxesOf(mail'[i]) \subseteq MailboxesOf(mail[j])
  <1>1. SUFFICES ASSUME NEW i \in DOMAIN mail', slots' = slots
                 PROVE  Fine(i)
    <2>1. slots' = slots
      BY DEF Next, vars, Give, NoBackend, StoreFlags, MoveMessages, CopyMessages,
             DeleteMessage, Begin, Request, SetEmails, AddMessage, SendMessage, Deliver,
             DeleteMailbox, CreateMailbox, Meddle
    <2>2. \A i \in DOMAIN mail' : Fine(i)
      BY <1>1, <2>1
    <2> QED
      BY <2>1, <2>2, FolderSame
  <1>2. CASE i \in DOMAIN mail /\ mail'[i] = mail[i]
    BY <1>2
  <1>3. CASE ~(i \in DOMAIN mail /\ mail'[i] = mail[i])
    <2>1. CASE Request
      <3>1. PICK reply \in Replies :
               LET id == call.ids[call.at]
                   takes == reply # "refused"
               IN  /\ Running /\ call.op \in Batch
                   /\ Route("message") # "jmap"
                   /\ takes => id \in DOMAIN mail /\ nextId <= MaxId
                   /\ mail' = IF takes THEN Effect(id) ELSE mail
        BY <2>1 DEF Request, Batch
      <3> DEFINE id == call.ids[call.at]
                 m == Edit(mail[id], call.patch)
      <3>2. /\ id \in DOMAIN mail /\ nextId <= MaxId /\ mail' = Effect(id)
        BY <1>3, <3>1
      <3>3. call.kind \in {"edit", "copy", "move", "delete"}
        BY <3>1, AtAnId
      <3> HIDE DEF id
      <3>4. /\ mail'[i] = m
            /\ call.kind \in {"edit", "copy", "move"}
        BY <1>0, <1>3, <3>2, <3>3, EffectMakes
      <3>5. m.tags = (mail[id].tags \ call.patch.remove) \cup call.patch.add
        BY <1>0, <3>2, Ids, CallFields, Edited
      <3>6. graph /\ call.kind = "edit" => call.patch.add \cap Mbox = {}
        <4> SUFFICES ASSUME graph, call.kind = "edit"
                     PROVE  call.patch.add \cap Mbox = {}
          OBVIOUS
        <4>1. call.how \in Hows /\ call.patch = PatchFor("msgraph", call.flags, call.how)
          BY <1>0, <3>1 DEF Shaped
        <4>2. call.flags \in SUBSET Flags /\ slots \in Registrations
          BY <1>0, CallFields DEF AccountOK
        <4> QED
          BY <4>1, <4>2, FieldsAreNoFolder
      <3>7. graph /\ call.kind # "edit" =>
                call.patch.remove = Mbox /\ \E to \in Mbox : call.patch.add = {to}
        BY <1>0, <3>1, <3>4 DEF Shaped
      <3>8. CASE ~graph
        BY <3>8
      <3>9. CASE graph /\ call.kind = "edit"
        <4>1. MailboxesOf(mail'[i]) \subseteq MailboxesOf(mail[id])
          BY <3>4, <3>5, <3>6, <3>9 DEF MailboxesOf
        <4> QED
          BY <3>2, <4>1
      <3>10. CASE graph /\ call.kind # "edit"
        BY <3>4, <3>5, <3>7, <3>10 DEF MailboxesOf
      <3> QED
        BY <3>8, <3>9, <3>10
    <2>2. CASE SetEmails
      BY <2>2 DEF SetEmails
    <2>3. CASE Deliver
      <3>1. PICK reply \in Replies :
              LET takes == reply # "refused"
                  here  == Route(call.op) \in Remote /\ Route(call.op) = Route("message")
                  made  == takes /\ Step = "import" /\ here
              IN  /\ Step = "import" => Route(call.op) = "jmap"
                  /\ ~made => mail' = mail
        BY <2>3, DeliverIs
      <3> QED
        BY <1>3, <3>1
    <2>4. CASE DeleteMailbox
      <3>1. PICK b \in boxes \ {Inbox}, reply \in Replies :
               IF reply # "refused"
               THEN mail' = [j \in DOMAIN mail \ Doomed(b) |-> [mail[j] EXCEPT !.tags = @ \ {b}]]
               ELSE UNCHANGED <<boxes, mail, gone>>
        BY <2>4 DEF DeleteMailbox
      <3>2. i \in DOMAIN mail /\ mail'[i] = [mail[i] EXCEPT !.tags = @ \ {b}]
        BY <1>3, <3>1
      <3>3. mail[i] \in Message
        BY <1>0, <3>2, Ids
      <3>4. MailboxesOf(mail'[i]) \subseteq MailboxesOf(mail[i])
        BY <3>2, <3>3 DEF MailboxesOf, Message
      <3> QED
        BY <3>2, <3>4
    <2>5. CASE Meddle
      <3>1. PICK id \in DOMAIN mail :
              /\ \/ \E k \in Keyword, m \in Message :
                       /\ m = [mail[id] EXCEPT !.tags = SymDiff(@, {k})]
                       /\ DOMAIN mail' = DOMAIN mail /\ mail'[id] = m
                 \/ DOMAIN mail' = DOMAIN mail \ {id}
              /\ \A j \in DOMAIN mail \ {id} : mail'[j] = mail[j]
        BY <1>0, <2>5, MeddleIs
      <3>2. PICK k \in Keyword : i = id /\ mail'[i] = [mail[i] EXCEPT !.tags = SymDiff(@, {k})]
        BY <1>3, <3>1
      <3>3. mail[i] \in Message
        BY <1>0, <3>2, Ids
      <3>4. mail'[i].tags = SymDiff(mail[i].tags, {k})
        BY <3>2, <3>3 DEF Message
      <3>5. graph => k \notin Mbox
        <4>1. graph => Keyword \cap Mbox = {}
          BY <1>0, FieldsAreNoFolder DEF AccountOK, Hows, Flags
        <4> QED
          BY <4>1
      <3>6. graph => MailboxesOf(mail'[i]) \subseteq MailboxesOf(mail[i])
        BY <3>4, <3>5 DEF MailboxesOf, SymDiff
      <3> QED
        BY <3>2, <3>6
    <2>6. CASE mail' = mail
      BY <1>3, <2>6
    <2>7. Begins \/ CreateMailbox \/ UNCHANGED vars \/ (\E op \in Gives : Give(op)) => mail' = mail
      BY DEF Begins, vars, Give, NoBackend, StoreFlags, MoveMessages, CopyMessages,
             DeleteMessage, Begin, AddMessage, SendMessage, CreateMailbox
    <2> QED
      BY <2>1, <2>2, <2>3, <2>4, <2>5, <2>6, <2>7, NextIs
  <1> QED
    BY <1>2, <1>3

\* What is in the account stays there until somebody deletes it.
LEMMA KeptStays ==
    ASSUME StateOK, OneFolder, [Next]_vars, NEW r, Kept(r)
    PROVE  Kept(r)'
  <1>0. AccountOK /\ call \in Calls /\ Shaped(call, Route("message"))
    BY DEF StateOK, CallOK
  <1>1. gone \subseteq gone'
    BY DEF Next, vars, Give, NoBackend, StoreFlags, MoveMessages, CopyMessages,
           DeleteMessage, Begin, Request, SetEmails, AddMessage, SendMessage, Deliver,
           DeleteMailbox, CreateMailbox, Meddle
  <1>2. CASE r \in gone
    BY <1>1, <1>2 DEF Kept
  <1>3. CASE r \notin gone
    <2>0. PICK i \in DOMAIN mail : mail[i].raw = r
      BY <1>3 DEF Kept
    <2> SUFFICES ASSUME r \notin gone'
                 PROVE  \E j \in DOMAIN mail' : mail'[j].raw = r
      BY DEF Kept
    <2>00. mail[i] \in Message /\ i # nextId
      BY <1>0, Ids
    <2>1. CASE Request
      <3>1. PICK reply \in Replies :
               LET id == call.ids[call.at]
                   takes == reply # "refused"
               IN  /\ Running /\ call.op \in Batch
                   /\ Route("message") # "jmap"
                   /\ takes => id \in DOMAIN mail /\ nextId <= MaxId
                   /\ mail' = IF takes THEN Effect(id) ELSE mail
                   /\ gone' = IF takes THEN gone \cup Deletes({id}) ELSE gone
        BY <2>1 DEF Request, Batch
      <3> DEFINE id == call.ids[call.at]
                 m == Edit(mail[id], call.patch)
      <3>2. CASE reply = "refused"
        BY <2>0, <3>1, <3>2
      <3>3. CASE reply # "refused"
        <4>1. /\ id \in DOMAIN mail /\ nextId <= MaxId /\ mail' = Effect(id)
              /\ gone' = gone \cup Deletes({id})
          BY <3>1, <3>3
        <4>2. call.kind \in {"edit", "copy", "move", "delete"}
          BY <3>1, AtAnId
        <4> HIDE DEF id
        <4>3. m.raw = mail[id].raw
          BY <1>0, <4>1, Ids, CallFields, Edited
        <4>4. CASE i # id
          BY <1>0, <2>0, <4>1, <4>2, <4>4, EffectMakes
        <4>5. CASE i = id
          <5>1. CASE call.kind = "delete"
            BY <2>0, <4>1, <4>5, <5>1 DEF Deletes
          <5>2. CASE call.kind = "edit"
            BY <1>0, <2>0, <4>1, <4>3, <4>5, <5>2, EffectMakes
          <5>3. CASE call.kind \in {"copy", "move"}
            BY <1>0, <2>0, <4>1, <4>3, <4>5, <5>3, EffectMakes
          <5> QED
            BY <4>2, <5>1, <5>2, <5>3
        <4> QED
          BY <4>4, <4>5
      <3> QED
        BY <3>2, <3>3
    <2>2. CASE SetEmails
      <3>1. PICK took \in SUBSET (Range(call.ids) \cap DOMAIN mail) :
               mail' = SetMail(took) /\ gone' = gone \cup Deletes(took)
        BY <2>2 DEF SetEmails, SetMail
      <3>2. CASE i \notin took
        BY <1>0, <2>0, <3>1, <3>2, SetMakes
      <3>3. CASE i \in took
        <4>1. call.kind # "delete"
          BY <2>0, <3>1, <3>3 DEF Deletes
        <4>2. Edit(mail[i], call.patch).raw = r
          BY <1>0, <2>0, <2>00, CallFields, Edited
        <4> QED
          BY <1>0, <3>1, <3>3, <4>1, <4>2, SetMakes
      <3> QED
        BY <3>2, <3>3
    <2>3. CASE Deliver
      <3>1. PICK reply \in Replies :
              LET takes == reply # "refused"
                  here  == Route(call.op) \in Remote /\ Route(call.op) = Route("message")
                  made  == takes /\ Step = "import" /\ here
              IN  /\ made => /\ nextId <= MaxId
                             /\ mail' = With(nextId, [raw |-> 0, tags |-> call.patch.add])
                  /\ ~made => mail' = mail
        BY <2>3, DeliverIs
      <3>2. CASE mail' = mail
        BY <2>0, <3>2
      <3>3. CASE mail' # mail
        <4> DEFINE m == [raw |-> 0, tags |-> call.patch.add]
        <4>1. nextId \in 1..MaxId /\ mail' = With(nextId, m)
          BY <1>0, <3>1, <3>3, Ids
        <4>2. m \in Message
          BY <1>0, CallFields DEF Message, Patches
        <4> HIDE DEF m
        <4>3. /\ DOMAIN With(nextId, m) = DOMAIN mail \cup {nextId}
              /\ \A j \in DOMAIN mail \ {nextId} : With(nextId, m)[j] = mail[j]
          BY <1>0, <4>1, <4>2, WithMakes
        <4>4. i \in DOMAIN mail' /\ mail'[i] = mail[i]
          BY <2>00, <4>1, <4>3
        <4> QED
          BY <2>0, <4>4
      <3> QED
        BY <3>2, <3>3
    <2>4. CASE DeleteMailbox
      <3>1. PICK b \in boxes \ {Inbox}, reply \in Replies :
               /\ Route("mailbox") \in Remote
               /\ IF reply # "refused"
                  THEN /\ mail' = [j \in DOMAIN mail \ Doomed(b) |->
                                      [mail[j] EXCEPT !.tags = @ \ {b}]]
                       /\ gone' = gone \cup
                            {mail[j].raw : j \in {j \in DOMAIN mail : MailboxesOf(mail[j]) = {b}}}
                  ELSE UNCHANGED <<boxes, mail, gone>>
        BY <2>4 DEF DeleteMailbox
      <3>2. CASE reply = "refused"
        BY <2>0, <3>1, <3>2
      <3>3. CASE reply # "refused"
        <4>1. MailboxesOf(mail[i]) # {b}
          BY <2>0, <3>1, <3>3
        <4>2. b \in Mbox
          BY <1>0 DEF AccountOK
        <4>3. i \notin Doomed(b)
          <5>1. CASE Route("mailbox") = "gmail"
            BY <5>1 DEF Doomed, GmailDoomed
          <5>2. CASE Route("mailbox") = "jmap"
            BY <4>1, <5>2 DEF Doomed, JmapDoomed
          <5>3. CASE Route("mailbox") = "msgraph"
            <6>1. \A x, y \in MailboxesOf(mail[i]) : x = y
              BY <5>3, OneBackend DEF OneFolder
            <6>2. b \notin MailboxesOf(mail[i])
              BY <4>1, <6>1
            <6> QED
              BY <5>3, <6>2 DEF Doomed, GraphDoomed
          <5> QED
            BY <3>1, <5>1, <5>2, <5>3 DEF Remote
        <4>4. mail'[i].raw = r /\ i \in DOMAIN mail'
          BY <2>0, <2>00, <3>1, <3>3, <4>3 DEF Message
        <4> QED
          BY <4>4
      <3> QED
        BY <3>2, <3>3
    <2>5. CASE Meddle
      <3>1. PICK id \in DOMAIN mail :
              /\ \/ \E k \in Keyword, m \in Message :
                       /\ m = [mail[id] EXCEPT !.tags = SymDiff(@, {k})]
                       /\ DOMAIN mail' = DOMAIN mail /\ mail'[id] = m
                 \/ /\ DOMAIN mail' = DOMAIN mail \ {id}
                    /\ gone' = gone \cup {mail[id].raw}
              /\ \A j \in DOMAIN mail \ {id} : mail'[j] = mail[j]
        BY <1>0, <2>5, MeddleIs
      <3>2. CASE i # id
        BY <2>0, <3>1, <3>2
      <3>3. CASE i = id
        <4>1. PICK k \in Keyword : mail'[i] = [mail[i] EXCEPT !.tags = SymDiff(@, {k})]
                 /\ i \in DOMAIN mail'
          BY <2>0, <3>1, <3>3
        <4> QED
          BY <2>0, <2>00, <4>1 DEF Message
      <3> QED
        BY <3>2, <3>3
    <2>6. CASE mail' = mail
      BY <2>0, <2>6
    <2>7. Begins \/ CreateMailbox \/ UNCHANGED vars \/ (\E op \in Gives : Give(op)) => mail' = mail
      BY DEF Begins, vars, Give, NoBackend, StoreFlags, MoveMessages, CopyMessages,
             DeleteMessage, Begin, AddMessage, SendMessage, CreateMailbox
    <2> QED
      BY <2>1, <2>2, <2>3, <2>4, <2>5, <2>6, <2>7, NextIs
  <1> QED
    BY <1>2, <1>3

KeepInv == StateOK /\ OneFolder /\ NothingLost /\ SendAccounted

LEMMA InitKeeps == Init => KeepInv
  <1> SUFFICES ASSUME Init PROVE KeepInv
    OBVIOUS
  <1>1. StateOK
    BY InitState
  <1>2. ASSUME Route("message") \in Remote
        PROVE  \E t \in {FreshTags(Route("message")), Keyword} :
                  mail = [i \in 1..2 |-> [raw |-> i, tags |-> {Inbox} \cup t]]
    BY <1>2 DEF Init, Accounts
  <1>3. OneFolder
    <2> SUFFICES ASSUME Route("message") = "msgraph" PROVE OneFolder
      BY DEF OneFolder
    <2>1. PICK t \in {{}, Keyword} :
             mail = [i \in 1..2 |-> [raw |-> i, tags |-> {Inbox} \cup t]]
      BY <1>2 DEF Remote, FreshTags
    <2>2. t \cap Mbox = {}
      BY <2>1, FieldsAreNoFolder DEF Init, Flags, Hows
    <2> QED
      BY <2>1, <2>2 DEF OneFolder, MailboxesOf
  <1>4. NothingLost
    BY <1>2 DEF NothingLost
  <1>5. SendAccounted
    BY DEF Init, SendAccounted
  <1> QED
    BY <1>1, <1>3, <1>4, <1>5 DEF KeepInv

LEMMA StepKeeps ==
    ASSUME KeepInv, [Next]_vars
    PROVE  KeepInv'
  <1>1. StateOK /\ OneFolder /\ StateOK'
    BY StepState DEF KeepInv
  <1>2. OneFolder'
    BY <1>1, FolderStays
  <1>3. slots' = slots
    BY DEF Next, vars, Give, NoBackend, StoreFlags, MoveMessages, CopyMessages,
           DeleteMessage, Begin, Request, SetEmails, AddMessage, SendMessage, Deliver,
           DeleteMailbox, CreateMailbox, Meddle
  <1>4. \A op : Route(op)' = Route(op)
    BY <1>3, RouteStays
  <1>5. \A r : Kept(r) => Kept(r)'
    BY <1>1, KeptStays
  <1>6. NothingLost'
    BY <1>4, <1>5 DEF KeepInv, NothingLost, Kept
  <1>7. \/ outbox' = outbox
        \/ Route("send") = "jmap" /\ Route("message") = "jmap" => Kept(0)
    <2>1. CASE Deliver
      <3>1. PICK reply \in Replies :
              LET sent == reply # "refused" /\ Step = "submit"
              IN  /\ outbox' = IF sent THEN outbox + 1 ELSE outbox
                  /\ sent /\ Route("send") = "jmap" /\ Route("message") = "jmap" =>
                        \E i \in DOMAIN mail : mail[i].raw = 0
        BY <1>1, <2>1, DeliverIs
      <3> QED
        BY <3>1 DEF Kept
    <2>2. CASE ~Deliver
      BY <2>2 DEF Next, vars, Give, NoBackend, StoreFlags, MoveMessages, CopyMessages,
           DeleteMessage, Begin, Request, SetEmails, AddMessage, SendMessage,
           DeleteMailbox, CreateMailbox, Meddle
    <2> QED
      BY <2>1, <2>2
  <1>8. SendAccounted'
    <2>1. oks' <= outbox' /\ outbox' <= calls'
      BY <1>1 DEF StateOK, OutboxOK
    <2>2. Route("send") = "jmap" /\ Route("message") = "jmap" /\ outbox' > 0 => Kept(0)'
      BY <1>5, <1>7 DEF KeepInv, SendAccounted, Kept
    <2> QED
      BY <1>4, <2>1, <2>2 DEF SendAccounted, Kept
  <1> QED
    BY <1>1, <1>2, <1>6, <1>8 DEF KeepInv

LEMMA KeepsAlways == Spec => []KeepInv
  <1>1. Init => KeepInv
    BY InitKeeps
  <1>2. KeepInv /\ [Next]_vars => KeepInv'
    BY StepKeeps
  <1> QED
    BY <1>1, <1>2, PTL DEF Spec

\* No message is lost: whatever batches are cut short, moved to a Graph folder
\* under another id, or lose a mailbox (onDestroyRemoveEmails of
\* mailbox/jmap/delete.rs), the messages of the account are there until they are deleted.
THEOREM NoMessageLost == Spec => []NothingLost
  <1>1. KeepInv => NothingLost
    BY DEF KeepInv
  <1> QED
    BY <1>1, KeepsAlways, PTL

\* A send_message that returned Ok has delivered, no call delivers twice, and what
\* JMAP delivers it has imported (message/jmap/send.rs).
THEOREM SendingsAccounted == Spec => []SendAccounted
  <1>1. KeepInv => SendAccounted
    BY DEF KeepInv
  <1> QED
    BY <1>1, KeepsAlways, PTL

-----------------------------------------------------------------------------
(* The outcome of a batch. *)

\* What BatchOutcome says of one id: changed or as it was.
Settled(id, part) ==
    IF id \in part THEN Changed(id)
    ELSE id \in DOMAIN mail /\ mail[id] = call.before[id]

Concerned == (Range(call.ids) \cap DOMAIN call.before) \ meddled
InBatch == call.op \in Batch /\ call.kind # "none"

LEMMA OutcomeIs ==
    BatchOutcome <=> (InBatch => \E part \in Parts : \A id \in Concerned : Settled(id, part))
BY DEF BatchOutcome, InBatch, Batch, Concerned, Settled

LEMMA OutcomeNext ==
    BatchOutcome' <=> (InBatch' => \E part \in Parts' : \A id \in Concerned' : Settled(id, part)')
BY DEF BatchOutcome, InBatch, Batch, Concerned, Settled

\* A change stays while the message and those made of others are left alone.
LEMMA ChangedStays ==
    ASSUME NEW id, Changed(id),
           call'.kind = call.kind, call'.patch = call.patch, call'.before = call.before,
           meddled \subseteq meddled',
           id \in DOMAIN mail <=> id \in DOMAIN mail',
           id \in DOMAIN mail => mail'[id] = mail[id],
           \A j \in DOMAIN mail \ DOMAIN call.before :
              j \in meddled' \/ (j \in DOMAIN mail' /\ mail'[j] = mail[j]),
           call.kind \in {"edit", "copy", "move", "delete"}
    PROVE  Changed(id)'
  <1> DEFINE m == call.before[id]
  <1>1. Arrived(m) \/ MeddledNew => Arrived(m)' \/ MeddledNew'
    BY DEF Arrived, MeddledNew
  <1>2. CASE call.kind \in {"edit", "delete"}
    BY <1>2 DEF Changed
  <1>3. CASE call.kind \in {"copy", "move"}
    BY <1>1, <1>3 DEF Changed
  <1> QED
    BY <1>2, <1>3

\* The ids before a position of a batch, and the one at it.
LEMMA PrefixIs ==
    ASSUME call.ids \in Seq(1..MaxId), IsInjective(call.ids), call.at \in 1..Len(call.ids)
    PROVE  /\ Prefix(call.at) = Prefix(call.at - 1) \cup {call.ids[call.at]}
           /\ call.ids[call.at] \notin Prefix(call.at - 1)
           /\ Prefix(Len(call.ids)) = Range(call.ids)
  <1>1. DOMAIN call.ids = 1..Len(call.ids) /\ Len(call.ids) \in Nat /\ call.at \in Nat
    OBVIOUS
  <1>2. Prefix(call.at) = Prefix(call.at - 1) \cup {call.ids[call.at]}
    <2>1. 1..call.at = 1..(call.at - 1) \cup {call.at}
      BY <1>1
    <2> QED
      BY <2>1 DEF Prefix
  <1>3. call.ids[call.at] \notin Prefix(call.at - 1)
    BY <1>1 DEF Prefix, IsInjective
  <1>4. Prefix(Len(call.ids)) = Range(call.ids)
    BY <1>1 DEF Prefix, Range
  <1> QED
    BY <1>2, <1>3, <1>4

\* Where nothing has been done, every id is as it was.
LEMMA BeginOutcome ==
    ASSUME StateOK, NEW c, Fresh(c), Begin(c)
    PROVE  BatchOutcome'
  <1>1. call' = [c EXCEPT !.before = mail] /\ mail' = mail /\ slots' = slots /\ meddled' = {}
    BY DEF Begin
  <1>2. c \in Calls /\ mail \in Mails /\ AccountOK
    BY DEF StateOK, AccountOK, Fresh
  <1>3. /\ call'.before = mail
        /\ call'.op = c.op /\ call'.ids = c.ids /\ call'.at = c.at /\ call'.stage = c.stage
        /\ call'.kind = c.kind /\ call'.patch = c.patch
    BY <1>1, <1>2, BeforeSet
  <1>4. Route("message")' = Route("message")
    BY <1>1, RouteStays
  <1>5. SUFFICES ASSUME InBatch'
                 PROVE  \E part \in Parts' : \A id \in Concerned' : Settled(id, part)'
    BY OutcomeNext
  <1>6. /\ c.at = 1 /\ c.op \in Batch /\ c.kind # "none"
        /\ \/ c.stage = "running"
           \/ c.stage = "ok" /\ c.ids = <<>>
           \/ c.stage = "ok" /\ c.kind = "edit" /\ c.patch.add = {} /\ c.patch.remove = {}
    BY <1>3, <1>5 DEF Fresh, InBatch
  <1>7. CASE c.stage = "running"
    <2>1. Prefix(call.at - 1)' = {}
      BY <1>3, <1>6 DEF Prefix
    <2>2. {} \in Parts'
      BY <1>3, <1>4, <1>7, <2>1 DEF Parts
    <2>3. \A id \in Concerned' : Settled(id, {})'
      BY <1>1, <1>3 DEF Settled, Concerned
    <2> QED
      BY <2>2, <2>3
  <1>8. CASE c.stage = "ok"
    <2>1. Range(c.ids) \in Parts'
      BY <1>3, <1>8 DEF Parts
    <2>2. \A id \in Concerned' : Settled(id, Range(c.ids))'
      <3>1. CASE c.ids = <<>>
        BY <1>3, <3>1 DEF Concerned, Range
      <3>2. CASE c.kind = "edit" /\ c.patch.add = {} /\ c.patch.remove = {}
        <4> SUFFICES ASSUME NEW id \in Concerned' PROVE Changed(id)'
          BY <1>3 DEF Settled, Concerned
        <4>1. id \in DOMAIN mail /\ mail[id] \in Message
          BY <1>2, <1>3, Ids DEF Concerned
        <4>2. Edit(mail[id], c.patch) = mail[id]
          BY <3>2, <4>1, EditedNot
        <4> QED
          BY <1>1, <1>3, <3>2, <4>1, <4>2 DEF Changed
      <3> QED
        BY <1>6, <1>8, <3>1, <3>2
    <2> QED
      BY <2>1, <2>2
  <1> QED
    BY <1>6, <1>7, <1>8

LEMMA RequestOutcome ==
    ASSUME StateOK, BatchOutcome, Request
    PROVE  BatchOutcome'
  <1>1. PICK reply \in Replies :
           LET id == call.ids[call.at]
               takes == reply # "refused"
           IN  /\ Running /\ call.op \in Batch
               /\ Route("message") # "jmap"
               /\ takes => id \in DOMAIN mail /\ nextId <= MaxId
               /\ mail' = IF takes THEN Effect(id) ELSE mail
               /\ call' = NextId(reply)
               /\ UNCHANGED <<slots, meddled>>
    BY DEF Request, Batch
  <1> DEFINE cur == call.ids[call.at]
             ended == Ended(reply)
             next == [call EXCEPT !.at = @ + 1]
             before == Prefix(call.at - 1)
             upto == Prefix(call.at)
  <1>2. AccountOK /\ call \in Calls /\ IdsOK /\ Shaped(call, Route("message"))
    BY DEF StateOK, CallOK
  <1>3. /\ call.kind \in {"edit", "copy", "move", "delete"}
        /\ call.ids \in Seq(1..MaxId) /\ call.at \in 1..Len(call.ids)
        /\ cur \in Range(call.ids)
    BY <1>1, AtAnId
  <1>4. Route("message")' = Route("message")
    BY <1>1, RouteStays
  <1>5. IsInjective(call.ids)
    BY <1>1, <1>2, <1>3 DEF Shaped
  <1>6. /\ upto = before \cup {cur} /\ cur \notin before
        /\ Prefix(Len(call.ids)) = Range(call.ids)
    BY <1>3, <1>5, PrefixIs
  <1>7. call' = IF reply = "ok" /\ call.at < Len(call.ids) THEN next ELSE ended
    BY <1>1 DEF NextId
  <1>8. /\ ended.stage = (IF reply = "ok" THEN "ok" ELSE "error") /\ ended.at = call.at
        /\ next.stage = "running" /\ next.at = call.at + 1
        /\ \A d \in {ended, next} :
              /\ d.op = call.op /\ d.ids = call.ids /\ d.kind = call.kind
              /\ d.patch = call.patch /\ d.before = call.before
    BY <1>1, <1>2, GoesOn DEF Running
  <1> HIDE DEF ended, next
  <1>9. /\ call'.op = call.op /\ call'.ids = call.ids /\ call'.kind = call.kind
        /\ call'.patch = call.patch /\ call'.before = call.before
    BY <1>7, <1>8
  <1>10. Concerned' = Concerned /\ InBatch
    BY <1>1, <1>3, <1>9 DEF Concerned, InBatch
  <1>11. \A id \in Concerned : Settled(id, before)
    <2>1. Parts = {before}
      BY <1>1 DEF Parts, Running
    <2> QED
      BY <1>10, <2>1, OutcomeIs
  <1>13. CASE reply = "refused"
    <2>1. call'.stage = "error" /\ call'.at = call.at /\ mail' = mail
      BY <1>1, <1>7, <1>8, <1>13
    <2>2. before \in Parts'
      <3>1. Prefix(call.at - 1)' = before
        BY <1>9, <2>1 DEF Prefix
      <3> QED
        BY <1>1, <1>4, <2>1, <3>1 DEF Parts
    <2>3. \A id \in Concerned : Settled(id, before)'
      <3> SUFFICES ASSUME NEW id \in Concerned PROVE Settled(id, before)'
        OBVIOUS
      <3>1. before' = before
        BY <2>1, <1>9 DEF Prefix
      <3>2. Changed(id) => Changed(id)'
        BY <1>1, <1>3, <1>9, <2>1, ChangedStays
      <3> QED
        BY <1>9, <1>11, <2>1, <3>1, <3>2 DEF Settled
    <2>4. before' = before
      BY <2>1, <1>9 DEF Prefix
    <2> QED
      BY <1>10, <2>2, <2>3, <2>4, OutcomeNext
  <1>14. CASE reply # "refused"
    <2>1. /\ cur \in DOMAIN mail /\ nextId <= MaxId /\ mail' = Effect(cur)
          /\ cur \in DOMAIN call.before
      BY <1>1, <1>2, <1>3, <1>14 DEF IdsOK
    <2> DEFINE taken == IF call.kind \in {"move", "delete"} THEN {cur} ELSE {}
               made  == IF call.kind \in {"copy", "move"} THEN {nextId} ELSE {}
               m     == Edit(mail[cur], call.patch)
    <2>2. /\ DOMAIN mail' = (DOMAIN mail \ taken) \cup made
          /\ \A i \in DOMAIN mail \ {cur} : mail'[i] = mail[i]
          /\ call.kind = "edit" => mail'[cur] = m
          /\ call.kind = "copy" => mail'[cur] = mail[cur]
          /\ call.kind \in {"copy", "move"} => mail'[nextId] = m
      <3> HIDE DEF cur
      <3> QED
        BY <1>2, <1>3, <2>1, EffectMakes
    <2>3. nextId \notin DOMAIN call.before /\ nextId \notin DOMAIN mail /\ nextId # cur
      <3>1. DOMAIN call.before \subseteq 1..(nextId - 1)
        BY <1>1, <1>2, <1>3 DEF IdsOK
      <3> QED
        BY <1>2, <2>1, <3>1, Ids
    <2> PICK part : part = upto
      OBVIOUS
    <2> PICK old : old = before
      OBVIOUS
    <2> PICK c : c = cur
      OBVIOUS
    <2>4. ASSUME NEW id \in Concerned
          PROVE  Settled(id, part)'
      <3>1. Settled(id, old) /\ id \in DOMAIN call.before
        BY <1>11 DEF Concerned
      <3>2. CASE id = c
        <4>1. c \notin old /\ c \in part
          BY <1>6
        <4>2. mail[cur] = call.before[id] /\ id \in DOMAIN mail
          BY <3>1, <3>2, <4>1 DEF Settled
        <4>3. Changed(id)'
          <5>1. CASE call.kind = "edit"
            BY <1>9, <2>1, <2>2, <3>2, <4>2, <5>1 DEF Changed
          <5>2. CASE call.kind = "delete"
            BY <1>9, <2>1, <2>2, <3>2, <4>2, <5>2 DEF Changed
          <5>3. CASE call.kind \in {"copy", "move"}
            <6>1. \E j \in DOMAIN mail' \ DOMAIN call'.before :
                     mail'[j] = Edit(call'.before[id], call'.patch)
              BY <1>9, <2>2, <2>3, <4>2, <5>3
            <6>2. Arrived(call.before[id])'
              BY <6>1 DEF Arrived
            <6>3. CASE call.kind = "copy"
              BY <1>9, <2>1, <2>2, <3>2, <4>2, <6>2, <6>3 DEF Changed
            <6>4. CASE call.kind = "move"
              BY <1>9, <2>1, <2>2, <2>3, <3>2, <4>2, <6>2, <6>4 DEF Changed
            <6> QED
              BY <5>3, <6>3, <6>4
          <5> QED
            BY <1>3, <5>1, <5>2, <5>3
        <4> QED
          BY <3>2, <4>1, <4>3 DEF Settled
      <3>3. CASE id # c
        <4>1. id \in part <=> id \in old
          BY <1>6, <3>3
        <4>2. /\ id \in DOMAIN mail <=> id \in DOMAIN mail'
              /\ id \in DOMAIN mail => mail'[id] = mail[id]
          BY <2>2, <2>3, <3>1, <3>3
        <4>3. \A j \in DOMAIN mail \ DOMAIN call.before : j \in DOMAIN mail' /\ mail'[j] = mail[j]
          BY <2>1, <2>2
        <4>4. Changed(id) => Changed(id)'
          BY <1>1, <1>3, <1>9, <4>2, <4>3, ChangedStays
        <4> QED
          BY <1>9, <3>1, <4>1, <4>2, <4>4 DEF Settled
      <3> QED
        BY <3>2, <3>3
    <2>5. part \in Parts'
      <3>1. CASE reply = "ok" /\ call.at < Len(call.ids)
        <4>1. call'.stage = "running" /\ call'.at - 1 = call.at
          BY <1>3, <1>7, <1>8, <3>1
        <4>2. Prefix(call.at - 1)' = part
          BY <1>9, <4>1 DEF Prefix
        <4> QED
          BY <1>1, <1>4, <4>1, <4>2 DEF Parts
      <3>2. CASE reply = "ok" /\ ~(call.at < Len(call.ids))
        <4>1. call'.stage = "ok" /\ call.at = Len(call.ids)
          BY <1>3, <1>7, <1>8, <3>2
        <4>2. part = Range(call'.ids)
          BY <1>6, <1>9, <4>1
        <4> QED
          BY <4>1, <4>2 DEF Parts
      <3>3. CASE reply # "ok"
        <4>1. call'.stage = "error" /\ call'.at = call.at
          BY <1>7, <1>8, <3>3
        <4>2. Prefix(call.at)' = part
          BY <1>9, <4>1 DEF Prefix
        <4> QED
          BY <1>1, <1>4, <4>1, <4>2 DEF Parts
      <3> QED
        BY <3>1, <3>2, <3>3
    <2> QED
      BY <1>10, <2>4, <2>5, OutcomeNext
  <1> QED
    BY <1>13, <1>14

LEMMA SetEmailsOutcome ==
    ASSUME StateOK, BatchOutcome, SetEmails
    PROVE  BatchOutcome'
  <1>1. PICK took \in SUBSET (Range(call.ids) \cap DOMAIN mail), told \in BOOLEAN :
           /\ Running /\ call.op \in Batch
           /\ Route("message") = "jmap"
           /\ mail' = SetMail(took)
           /\ call' = Ended(IF told /\ took = Range(call.ids) THEN "ok" ELSE "refused")
           /\ UNCHANGED <<slots, meddled>>
    BY DEF SetEmails, SetMail, Batch
  <1> DEFINE reply == IF told /\ took = Range(call.ids) THEN "ok" ELSE "refused"
             ended == Ended(reply)
  <1>2. AccountOK /\ call \in Calls /\ IdsOK /\ Shaped(call, Route("message"))
    BY DEF StateOK, CallOK
  <1>3. call.kind \in {"edit", "delete"}
    BY <1>1, <1>2 DEF Shaped, Running
  <1>4. Route("message")' = Route("message")
    BY <1>1, RouteStays
  <1>5. /\ ended.stage = IF reply = "ok" THEN "ok" ELSE "error"
        /\ ended.op = call.op /\ ended.ids = call.ids /\ ended.kind = call.kind
        /\ ended.patch = call.patch /\ ended.before = call.before
    <2>1. reply \in Replies
      BY DEF Replies
    <2> HIDE DEF reply
    <2> QED
      BY <1>2, <2>1, GoesOn
  <1>6. call' = ended
    BY <1>1
  <1> HIDE DEF ended
  <1>7. Concerned' = Concerned /\ InBatch
    BY <1>1, <1>3, <1>5, <1>6 DEF Concerned, InBatch
  <1>8. \A id \in Concerned : id \in DOMAIN mail /\ mail[id] = call.before[id]
    <2>1. Parts = {{}}
      BY <1>1 DEF Parts, Running
    <2>2. \A id \in Concerned : Settled(id, {})
      BY <1>7, <2>1, OutcomeIs
    <2> QED
      BY <2>2 DEF Settled
  <1>9. took \in Parts'
    <2>1. CASE told /\ took = Range(call.ids)
      BY <1>5, <1>6, <2>1 DEF Parts
    <2>2. CASE ~(told /\ took = Range(call.ids))
      <3>1. call'.stage = "error" /\ call'.ids = call.ids /\ took \in SUBSET Range(call.ids)
        BY <1>5, <1>6, <2>2
      <3> QED
        BY <1>1, <1>4, <3>1 DEF Parts
    <2> QED
      BY <2>1, <2>2
  <1>10. ASSUME NEW id \in Concerned
         PROVE  Settled(id, took)'
    <2>1. /\ DOMAIN mail' = DOMAIN mail \ (IF call.kind = "delete" THEN took ELSE {})
          /\ \A i \in DOMAIN mail \ took : mail'[i] = mail[i]
          /\ call.kind # "delete" => \A i \in took : mail'[i] = Edit(mail[i], call.patch)
      BY <1>1, <1>2, SetMakes
    <2>2. CASE id \in took
      <3>1. Changed(id)'
        BY <1>3, <1>5, <1>6, <1>8, <2>1, <2>2 DEF Changed
      <3> QED
        BY <2>2, <3>1 DEF Settled
    <2>3. CASE id \notin took
      BY <1>5, <1>6, <1>8, <2>1, <2>3 DEF Settled
    <2> QED
      BY <2>2, <2>3
  <1> QED
    BY <1>7, <1>9, <1>10, OutcomeNext

LEMMA MeddleOutcome ==
    ASSUME StateOK, BatchOutcome, Meddle
    PROVE  BatchOutcome'
  <1>0. AccountOK /\ call \in Calls
    BY DEF StateOK, CallOK
  <1>1. PICK id \in DOMAIN mail :
              /\ DOMAIN mail' = DOMAIN mail \/ DOMAIN mail' = DOMAIN mail \ {id}
              /\ \A i \in DOMAIN mail \ {id} : mail'[i] = mail[i]
              /\ meddled' = meddled \cup {id}
              /\ UNCHANGED <<slots, call>>
    BY <1>0, MeddleIs
  <1>2. SUFFICES ASSUME InBatch'
                 PROVE  \E part \in Parts' : \A o \in Concerned' : Settled(o, part)'
    BY OutcomeNext
  <1>3. InBatch /\ Concerned' = Concerned \ {id}
    BY <1>1, <1>2 DEF InBatch, Concerned
  <1>4. Parts' = Parts
    <2>1. Route("message")' = Route("message")
      BY <1>1, RouteStays
    <2>3. Prefix(call.at - 1)' = Prefix(call.at - 1) /\ Prefix(call.at)' = Prefix(call.at)
      BY <1>1 DEF Prefix
    <2> QED
      BY <1>1, <2>1, <2>3 DEF Parts
  <1>5. PICK part \in Parts : \A o \in Concerned : Settled(o, part)
    BY <1>3, OutcomeIs
  <1>6. ASSUME NEW o \in Concerned'
        PROVE  Settled(o, part)'
    <2>1. Settled(o, part) /\ o # id
      BY <1>3, <1>5
    <2>2. call.kind \in {"edit", "copy", "move", "delete"}
      BY <1>0, <1>3, CallFields DEF InBatch, Kinds
    <2>3. /\ o \in DOMAIN mail <=> o \in DOMAIN mail'
          /\ o \in DOMAIN mail => mail'[o] = mail[o]
      BY <1>1, <2>1
    <2>4. \A j \in DOMAIN mail \ DOMAIN call.before :
             j \in meddled' \/ (j \in DOMAIN mail' /\ mail'[j] = mail[j])
      BY <1>1
    <2>5. Changed(o) => Changed(o)'
      BY <1>1, <2>2, <2>3, <2>4, ChangedStays
    <2> QED
      BY <1>1, <2>1, <2>3, <2>5 DEF Settled
  <1> QED
    BY <1>4, <1>5, <1>6

LEMMA StepOutcome ==
    ASSUME StateOK, BatchOutcome, [Next]_vars
    PROVE  BatchOutcome'
  <1>1. CASE Begins
    <2>1. AccountOK
      BY DEF StateOK
    <2> QED
      BY <1>1, <2>1, BeginsFresh, BeginOutcome
  <1>2. CASE Request
    BY <1>2, RequestOutcome
  <1>3. CASE SetEmails
    BY <1>3, SetEmailsOutcome
  <1>4. CASE Meddle
    BY <1>4, MeddleOutcome
  <1>5. CASE Deliver
    <2>1. call'.op \in {"add", "send"}
      BY <1>5, DeliverIs
    <2> QED
      BY <2>1 DEF BatchOutcome
  <1>6. CASE DeleteMailbox \/ CreateMailbox
    <2>1. call'.op = "mailbox"
      <3>1. mail \in Mails /\ call \in Calls
        BY DEF StateOK, AccountOK, CallOK
      <3>2. \E reply \in Replies : call' = [Ended(reply) EXCEPT !.op = "mailbox", !.before = mail]
        BY <1>6 DEF DeleteMailbox, CreateMailbox
      <3> QED
        BY <3>1, <3>2, MailboxCall
    <2> QED
      BY <2>1 DEF BatchOutcome
  <1>7. CASE UNCHANGED vars \/ \E op \in Gives : Give(op)
    <2>1. call' = call /\ mail' = mail /\ meddled' = meddled /\ slots' = slots
      BY <1>7 DEF vars, Give
    <2>2. Route("message")' = Route("message")
      BY <2>1, RouteStays
    <2>3. Prefix(call.at - 1)' = Prefix(call.at - 1) /\ Prefix(call.at)' = Prefix(call.at)
      BY <2>1 DEF Prefix
    <2>4. Parts' = Parts /\ Concerned' = Concerned /\ (InBatch' <=> InBatch)
      BY <2>1, <2>2, <2>3 DEF Parts, Concerned, InBatch
    <2>5. \A id \in Concerned, part \in Parts :
             Settled(id, part) => Settled(id, part)'
      BY <2>1 DEF Settled, Changed, Arrived, MeddledNew
    <2> QED
      BY <2>4, <2>5, OutcomeIs, OutcomeNext
  <1> QED
    BY <1>1, <1>2, <1>3, <1>4, <1>5, <1>6, <1>7, NextIs

LEMMA OutcomeAlways == Spec => [](StateOK /\ BatchOutcome)
  <1>1. Init => StateOK /\ BatchOutcome
    <2>1. Init => BatchOutcome
      BY DEF Init, Idle, BatchOutcome
    <2> QED
      BY <2>1, InitState
  <1>2. (StateOK /\ BatchOutcome) /\ [Next]_vars => (StateOK /\ BatchOutcome)'
    BY StepState, StepOutcome
  <1> QED
    BY <1>1, <1>2, PTL DEF Spec

\* A batch that returned Ok changed every id it was given; one that failed changed
\* those before the failure and no other, the one in doubt aside (the resume loops
\* of message/gmail/move.rs, message/msgraph/move.rs and the like), or some of them
\* (notUpdated of an Email/set): whatever other
\* clients do to other messages meanwhile.
THEOREM BatchesAccounted == Spec => []BatchOutcome
  <1>1. StateOK /\ BatchOutcome => BatchOutcome
    OBVIOUS
  <1> QED
    BY <1>1, OutcomeAlways, PTL

\* A store_flags that returned Ok leaves the flags asked for, as far as the backend
\* has them: labels, fields and keywords are translated there and back
\* (flag/gmail/store.rs, flag/msgraph/store.rs, flag/jmap/store.rs).
THEOREM FlagsStored == Spec => []FlagsAsAsked
  <1>1. ASSUME StateOK, BatchOutcome
        PROVE  FlagsAsAsked
    <2> SUFFICES ASSUME call.op = "store", call.stage = "ok",
                        NEW id \in (Range(call.ids) \cap DOMAIN call.before) \ meddled
                 PROVE  LET old  == FlagsOf(call.before[id].tags)
                            new  == FlagsOf(mail[id].tags)
                            able == Stores(call.flags, call.how)
                        IN  new = (Asked(old, call.flags, call.how) \cap able) \cup (old \ able)
      BY DEF FlagsAsAsked
    <2> DEFINE by == Route("message")
               patch == PatchFor(by, call.flags, call.how)
               tags == call.before[id].tags
    <2>1. call \in Calls /\ Shaped(call, by)
      BY <1>1 DEF StateOK, CallOK
    <2>2. /\ by \in Remote /\ call.kind = "edit" /\ call.how \in Hows /\ call.patch = patch
      BY <2>1 DEF Shaped, Batch
    <2>3. call.flags \in SUBSET Flags /\ call.patch \in Patches /\ call.before \in Mails
      BY <2>1, CallFields
    <2>4. Parts = {Range(call.ids)} /\ InBatch /\ id \in Concerned
      BY <2>2 DEF Parts, InBatch, Batch, Concerned
    <2>5. Changed(id)
      BY <1>1, <2>4, OutcomeIs DEF Settled
    <2>6. mail[id] = Edit(call.before[id], call.patch)
      BY <2>2, <2>5 DEF Changed
    <2>7. call.before[id] \in Message
      BY <2>3, MailTyped
    <2>8. mail[id].tags = (tags \ patch.remove) \cup patch.add
      BY <2>2, <2>3, <2>6, <2>7, Edited
    <2>9. Route("store") = by
      BY OneBackend
    <2>10. CASE by = "gmail"
      <3>1. patch = LabelPatch(call.flags, call.how)
        BY <2>10 DEF PatchFor
      <3>2. FlagsOf(mail[id].tags) = LabelledFlags(mail[id].tags)
               /\ FlagsOf(tags) = LabelledFlags(tags) /\ Stores(call.flags, call.how) = Labelled
        BY <2>9, <2>10 DEF FlagsOf, Stores
      <3>3. LabelledFlags(tags) \subseteq Labelled
        BY DEF LabelledFlags
      <3> HIDE DEF patch, by, tags
      <3>4. LabelledFlags(mail[id].tags) = Asked(LabelledFlags(tags), call.flags, call.how) \cap Labelled
        BY <2>2, <2>3, <2>8, <3>1, LabelsFit
      <3> QED
        BY <3>2, <3>3, <3>4 DEF tags
    <2>11. CASE by = "msgraph"
      <3> DEFINE able == {"Seen", "Flagged", "Important"}
                    \cup IF call.how = "Set" /\ call.flags \cap Keyword # {} THEN Keyword ELSE {}
      <3>1. patch = FieldPatch(call.flags, call.how)
        BY <2>11 DEF PatchFor
      <3>2. FlagsOf(mail[id].tags) = FieldFlags(mail[id].tags)
               /\ FlagsOf(tags) = FieldFlags(tags) /\ Stores(call.flags, call.how) = able
        BY <2>9, <2>11 DEF FlagsOf, Stores
      <3> HIDE DEF patch, by, tags
      <3>3. FieldFlags(mail[id].tags) = (Asked(FieldFlags(tags), call.flags, call.how) \cap able)
                                            \cup (FieldFlags(tags) \ able)
        <4> DEFINE F == call.flags
                   H == call.how
        <4>1. /\ F \in SUBSET Flags /\ H \in Hows
              /\ able = {"Seen", "Flagged", "Important"}
                    \cup IF H = "Set" /\ F \cap Keyword # {} THEN Keyword ELSE {}
          BY <2>2, <2>3
        <4>2. mail[id].tags = (tags \ FieldPatch(F, H).remove) \cup FieldPatch(F, H).add
          BY <2>8, <3>1
        <4> HIDE DEF able, F, H
        <4>3. FieldFlags((tags \ FieldPatch(F, H).remove) \cup FieldPatch(F, H).add) =
                  (Asked(FieldFlags(tags), F, H) \cap able) \cup (FieldFlags(tags) \ able)
          BY ONLY <4>1, FieldsFit
        <4> QED
          BY <4>2, <4>3 DEF F, H
      <3> QED
        BY <3>2, <3>3 DEF tags
    <2>12. CASE by = "jmap"
      <3>1. patch = KeywordPatch(call.flags, call.how)
        BY <2>12 DEF PatchFor
      <3>2. FlagsOf(mail[id].tags) = KeywordFlags(mail[id].tags)
               /\ FlagsOf(tags) = KeywordFlags(tags) /\ Stores(call.flags, call.how) = Flags
        BY <2>9, <2>12 DEF FlagsOf, Stores, Flags
      <3>3. KeywordFlags(tags) \subseteq Flags
        BY DEF KeywordFlags, Flags
      <3>4. Asked(KeywordFlags(tags), call.flags, call.how) \subseteq Flags
        BY <2>2, <2>3, <3>3 DEF Asked, Hows
      <3> HIDE DEF patch, by, tags
      <3>5. KeywordFlags(mail[id].tags) = Asked(KeywordFlags(tags), call.flags, call.how)
        BY <2>2, <2>3, <2>8, <3>1, KeywordsFit
      <3> QED
        BY <3>2, <3>3, <3>4, <3>5 DEF tags
    <2> QED
      BY <2>2, <2>10, <2>11, <2>12 DEF Remote
  <1> QED
    BY <1>1, OutcomeAlways, PTL
=============================================================================
