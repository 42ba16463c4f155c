--------------------------- MODULE ImapDiffProofs ---------------------------
(***************************************************************************)
(* What holds of the IMAP envelope diff for every mailbox size, flag set   *)
(* and number of changes: its type invariant, StaleIsReported and          *)
(* QuietSyncIsExact; and of the pages of an IMAP listing, for every        *)
(* mailbox and page.                                                       *)
(***************************************************************************)
EXTENDS ImapDiff, Paging, TLAPS

-----------------------------------------------------------------------------
(* The inductive invariant.                                                *)

\* Mod-sequences are taken in order, and a UID without one was never used.
ServerOK ==
    \A u \in Uid : stamp[u] <= modseq /\ (msg[u] = Unborn <=> stamp[u] = 0)

\* A checkpoint of this mailbox is of its past, and no message will ever
\* arrive at or below its high-water mark.
PastOK(c) ==
    /\ c.uid_validity <= validity
    /\ c.uid_validity = validity =>
           /\ c.highest_mod_seq <= modseq
           /\ c.highest_uid # 0 => msg[c.highest_uid] # Unborn

\* The mailbox a diff works on is the one on the server.
Current == cached.uid_validity = validity

\* What SELECT told is true of every message that has not changed since.
SelectOK ==
    Current =>
        /\ sel.modseq <= modseq
        /\ \A u \in sel.vanished : msg[u] = Gone
        /\ \A u \in Uid : sel.changed[u] # Out /\ sel.changed[u] # View(u)
                              => stamp[u] > sel.modseq

\* The ancestor with what SELECT told applied to it.
Halfway(u) ==
    IF u \in sel.vanished THEN Out
    ELSE IF sel.changed[u] # Out /\ ancestor[u] # Out THEN sel.changed[u]
    ELSE ancestor[u]

\* Between SELECT and FETCH: what is still wrong is above the mark, or has
\* changed since SELECT.
HalfwayOK ==
    Current =>
        \A u \in Uid :
            \/ Halfway(u) = View(u)
            \/ View(u) # Out /\ u > cached.highest_uid
            \/ stamp[u] > sel.modseq /\ (View(u) = Out \/ Halfway(u) # Out)

\* After FETCH: what is still wrong has changed since SELECT, and a message
\* the ancestor still lacks came after the FETCH.
DiffedOK ==
    Current =>
        /\ \A u \in NewUids : msg[u] # Unborn
        /\ \A u \in Uid, flagsLast \in BOOLEAN :
               \/ Applied(u, flagsLast) = View(u)
               \/ /\ stamp[u] > sel.modseq
                  /\ \/ View(u) = Out
                     \/ Applied(u, flagsLast) # Out
                     \/ u > cached.highest_uid /\ \A v \in NewUids : v < u

Inv ==
    /\ TypeOK
    /\ ServerOK
    /\ PastOK(state) /\ PastOK(cached)
    /\ StaleIsReported
    /\ pc \in {"selected", "diffed"} => cached = state /\ SelectOK
    /\ pc = "selected" => HalfwayOK
    /\ pc = "diffed" => DiffedOK

-----------------------------------------------------------------------------
(* Facts about the operators.                                              *)

\* A view is an entry; it is never Out for a message that has flags.
LEMMA ViewType ==
    ASSUME TypeOK, NEW u \in Uid
    PROVE  /\ View(u) \in Entry
           /\ View(u) = Out <=> msg[u] \in {Unborn, Gone}
           /\ View(u) # Out => View(u) = msg[u]
BY ConstantsAssumption DEF TypeOK, View, Message, Entry

\* Uids and what is known of them are numbers that compare.
LEMMA UidType == Uid \subseteq Nat /\ 0..MaxUid \subseteq Nat /\ MaxUid \in Nat
BY ConstantsAssumption DEF Uid

\* The highest of a set of uids is one of them, and none is above it.
LEMMA HighestIs ==
    ASSUME NEW S \in SUBSET Uid, NEW d \in 0..MaxUid, NEW h \in Highest(S, d)
    PROVE  /\ h \in 0..MaxUid
           /\ S = {} => h = d
           /\ S # {} => h \in S /\ \A u \in S : u <= h
<1>1. CASE S = {}
    BY <1>1 DEF Highest
<1>2. CASE S # {}
    <2>1. h \in S /\ \A u \in S : u <= h
        BY <1>2 DEF Highest
    <2> QED
        BY <1>2, <2>1, UidType DEF Uid
<1> QED
    BY <1>1, <1>2

\* What the three buckets make of an entry: the halfway entry unless the
\* message was fetched as new, and then a flag set one of the two told.
LEMMA AppliedIs ==
    ASSUME NEW u \in Uid, NEW flagsLast \in BOOLEAN
    PROVE  /\ new[u] = Out => Applied(u, flagsLast) = Halfway(u)
           /\ u \in sel.vanished => Applied(u, flagsLast) = Out
           /\ new[u] # Out /\ u \notin sel.vanished =>
                  \/ Applied(u, flagsLast) = new[u]
                  \/ sel.changed[u] # Out /\ Applied(u, flagsLast) = sel.changed[u]
BY DEF Applied, Halfway

-----------------------------------------------------------------------------
(* The other sessions.                                                     *)

\* The initial states satisfy the invariant.
LEMMA InitInv == Init => Inv
<1> SUFFICES ASSUME Init PROVE Inv
    OBVIOUS
<1>1. TypeOK
    BY ConstantsAssumption
    DEF Init, TypeOK, Uid, ImapState, NoState, NoSelect, Nothing, Entry
<1>2. ServerOK
    BY ConstantsAssumption DEF Init, ServerOK
<1>3. PastOK(state) /\ PastOK(cached)
    BY DEF Init, PastOK, NoState
<1>4. StaleIsReported
    BY DEF Init, StaleIsReported, NoState
<1> QED
    BY <1>1, <1>2, <1>3, <1>4 DEF Init, Inv

\* A change of one message keeps everything: it takes a mod-sequence above
\* every checkpoint, and a new UID is above every mark.
LEMMA TouchInv ==
    ASSUME Inv, NEW w \in Uid, NEW m \in Message \ {Unborn}, Touch(w, m),
           \/ w \in Live
           \/ m # Gone /\ \A v \in w..MaxUid : msg[v] = Unborn
    PROVE  Inv'
<1> USE UidType
<1>1. /\ TypeOK /\ ServerOK /\ PastOK(state) /\ PastOK(cached)
      /\ StaleIsReported
      /\ pc \in {"selected", "diffed"} => cached = state /\ SelectOK
      /\ pc = "selected" => HalfwayOK
      /\ pc = "diffed" => DiffedOK
    BY DEF Inv
<1>2. /\ modseq' = modseq + 1 /\ modseq \in Nat
      /\ msg' = [msg EXCEPT ![w] = m]
      /\ stamp' = [stamp EXCEPT ![w] = modseq + 1]
      /\ validity' = validity
      /\ pc' = pc /\ cached' = cached /\ sel' = sel /\ new' = new
      /\ state' = state /\ ancestor' = ancestor
    BY <1>1 DEF Touch, TypeOK, call
<1>3. TypeOK'
    <2>1. msg' \in [Uid -> Message] /\ stamp' \in [Uid -> Nat] /\ modseq' \in Nat
        BY <1>1, <1>2 DEF TypeOK
    <2> QED
        BY <1>1, <1>2, <2>1 DEF TypeOK
<1>4. /\ stamp'[w] = modseq + 1 /\ msg'[w] = m
      /\ \A u \in Uid \ {w} : stamp'[u] = stamp[u] /\ msg'[u] = msg[u]
    BY <1>1, <1>2 DEF TypeOK
<1>5. \A u \in Uid \ {w} : View(u)' = View(u)
    BY <1>4 DEF View
<1>6. /\ View(w)' = Out <=> m = Gone
      /\ View(w) = Out => View(w)' # Out
    <2>1. View(w)' = Out <=> m \in {Unborn, Gone}
        BY <1>4, ConstantsAssumption DEF View, Message
    <2>2. w \in Live => View(w) # Out
        BY DEF Live
    <2> QED
        BY <2>1, <2>2
<1>7. ServerOK'
    <2> SUFFICES ASSUME NEW u \in Uid
                 PROVE  stamp'[u] <= modseq' /\ (msg'[u] = Unborn <=> stamp'[u] = 0)
        BY DEF ServerOK
    <2>1. stamp[u] <= modseq /\ (msg[u] = Unborn <=> stamp[u] = 0) /\ stamp[u] \in Nat
        BY <1>1 DEF ServerOK, TypeOK
    <2>2. CASE u = w
        BY <1>2, <1>4, <2>2
    <2>3. CASE u # w
        BY <1>2, <1>4, <2>1, <2>3
    <2> QED
        BY <2>2, <2>3
<1>8. ASSUME NEW c \in ImapState, PastOK(c)
      PROVE  /\ PastOK(c)'
             /\ c.uid_validity = validity /\ View(w) = Out => w > c.highest_uid
    <2>1. c.highest_mod_seq \in Nat /\ c.highest_uid \in 0..MaxUid
        BY DEF ImapState
    <2>2. ASSUME c.uid_validity = validity, c.highest_uid # 0
          PROVE  msg[c.highest_uid] # Unborn /\ msg'[c.highest_uid] # Unborn
        <3>1. msg[c.highest_uid] # Unborn /\ c.highest_uid \in Uid
            BY <1>8, <2>1, <2>2 DEF PastOK, Uid
        <3> QED
            BY <1>4, <3>1
    <2>3. PastOK(c)'
        BY <1>2, <1>8, <2>1, <2>2 DEF PastOK
    <2>4. ASSUME c.uid_validity = validity, View(w) = Out
          PROVE  w > c.highest_uid
        <3>1. \A v \in w..MaxUid : msg[v] = Unborn
            BY <2>4 DEF Live
        <3>2. c.highest_uid # 0 => c.highest_uid \notin w..MaxUid
            BY <2>2, <2>4, <3>1
        <3>3. w \in Nat \ {0}
            BY DEF Uid
        <3> QED
            BY <2>1, <3>2, <3>3
    <2> QED
        BY <2>3, <2>4
<1>9. state \in ImapState /\ cached \in ImapState
    BY <1>1 DEF TypeOK
<1>10. PastOK(state)' /\ PastOK(cached)'
    <2>1. \A c \in ImapState : PastOK(c) => PastOK(c)'
        BY <1>8
    <2> QED
        BY <1>1, <1>2, <1>9, <2>1 DEF PastOK
<1>11. StaleIsReported'
    <2> SUFFICES ASSUME state.uid_validity = validity, NEW u \in Uid
                 PROVE  Mended(u, ancestor[u], state)'
        BY <1>2 DEF StaleIsReported
    <2>1. Mended(u, ancestor[u], state)
        BY <1>1 DEF StaleIsReported
    <2>2. CASE u # w
        BY <1>2, <1>4, <1>5, <2>1, <2>2 DEF Mended
    <2>3. CASE u = w
        <3>1. stamp'[w] > state.highest_mod_seq
            BY <1>1, <1>2, <1>4, <1>9 DEF PastOK, ImapState
        <3>2. View(w) = Out => w > state.highest_uid
            BY <1>1, <1>8, <1>9
        <3> QED
            BY <1>2, <1>6, <2>1, <2>3, <3>1, <3>2 DEF Mended
    <2> QED
        BY <2>2, <2>3
<1>12. ASSUME pc \in {"selected", "diffed"}
       PROVE  SelectOK'
    <2> SUFFICES ASSUME Current
                 PROVE  /\ sel.modseq <= modseq'
                        /\ \A u \in sel.vanished : msg'[u] = Gone
                        /\ \A u \in Uid : sel.changed[u] # Out /\ sel.changed[u] # View(u)'
                               => stamp'[u] > sel.modseq
        BY <1>2 DEF SelectOK, Current
    <2>1. /\ sel.modseq <= modseq /\ sel.modseq \in Nat /\ sel.vanished \subseteq Uid
          /\ \A u \in sel.vanished : msg[u] = Gone
          /\ \A u \in Uid : sel.changed[u] # Out /\ sel.changed[u] # View(u)
                 => stamp[u] > sel.modseq
        BY <1>1, <1>12 DEF SelectOK, TypeOK
    <2>2. sel.modseq <= modseq' /\ stamp'[w] > sel.modseq
        BY <1>2, <1>4, <2>1
    <2>3. msg[w] # Gone
        <3>1. w \in Live => msg[w] # Gone
            BY DEF Live, View
        <3>2. w \in w..MaxUid
            BY DEF Uid
        <3> QED
            BY <3>1, <3>2, ConstantsAssumption
    <2> QED
        BY <1>4, <1>5, <2>1, <2>2, <2>3
<1>13. ASSUME pc = "selected"
       PROVE  HalfwayOK'
    <2> SUFFICES ASSUME Current, NEW u \in Uid
                 PROVE  \/ Halfway(u) = View(u)'
                        \/ View(u)' # Out /\ u > cached.highest_uid
                        \/ stamp'[u] > sel.modseq /\ (View(u)' = Out \/ Halfway(u) # Out)
        BY <1>2 DEF HalfwayOK, Current, Halfway
    <2>1. \/ Halfway(u) = View(u)
          \/ View(u) # Out /\ u > cached.highest_uid
          \/ stamp[u] > sel.modseq /\ (View(u) = Out \/ Halfway(u) # Out)
        BY <1>1, <1>13 DEF HalfwayOK
    <2>2. CASE u # w
        BY <1>4, <1>5, <2>1, <2>2
    <2>3. CASE u = w
        <3>1. stamp'[w] > sel.modseq
            BY <1>1, <1>2, <1>4, <1>13 DEF SelectOK, TypeOK
        <3>2. View(w) = Out => w > cached.highest_uid
            BY <1>1, <1>8, <1>9 DEF Current
        <3> QED
            BY <1>6, <2>1, <2>3, <3>1, <3>2
    <2> QED
        BY <2>2, <2>3
<1>14. ASSUME pc = "diffed"
       PROVE  DiffedOK'
    <2>1. NewUids' = NewUids
        BY <1>2 DEF NewUids
    <2>2. \A u \in Uid, f \in BOOLEAN : Applied(u, f)' = Applied(u, f)
        BY <1>2 DEF Applied
    <2> SUFFICES ASSUME Current
                 PROVE  /\ \A u \in NewUids : msg'[u] # Unborn
                        /\ \A u \in Uid, f \in BOOLEAN :
                               \/ Applied(u, f) = View(u)'
                               \/ /\ stamp'[u] > sel.modseq
                                  /\ \/ View(u)' = Out
                                     \/ Applied(u, f) # Out
                                     \/ /\ u > cached.highest_uid
                                        /\ \A v \in NewUids : v < u
        BY <1>2, <2>1, <2>2 DEF DiffedOK, Current
    <2>3. \A u \in NewUids : u \in Uid /\ msg[u] # Unborn
        BY <1>1, <1>14 DEF DiffedOK, NewUids
    <2>4. \A u \in NewUids : msg'[u] # Unborn
        BY <1>4, <2>3
    <2>5. ASSUME NEW u \in Uid, NEW f \in BOOLEAN
          PROVE  \/ Applied(u, f) = View(u)'
                 \/ /\ stamp'[u] > sel.modseq
                    /\ \/ View(u)' = Out
                       \/ Applied(u, f) # Out
                       \/ u > cached.highest_uid /\ \A v \in NewUids : v < u
        <3>1. \/ Applied(u, f) = View(u)
              \/ /\ stamp[u] > sel.modseq
                 /\ \/ View(u) = Out
                    \/ Applied(u, f) # Out
                    \/ u > cached.highest_uid /\ \A v \in NewUids : v < u
            BY <1>1, <1>14 DEF DiffedOK
        <3>2. CASE u # w
            BY <1>4, <1>5, <3>1, <3>2
        <3>3. CASE u = w
            <4>1. stamp'[w] > sel.modseq
                BY <1>1, <1>2, <1>4, <1>14 DEF SelectOK, TypeOK
            <4>2. View(w) = Out => w > cached.highest_uid
                BY <1>1, <1>8, <1>9 DEF Current
            <4>3. ASSUME View(w) = Out, View(w)' # Out, NEW v \in NewUids
                  PROVE  v < w
                <5>1. \A x \in w..MaxUid : msg[x] = Unborn
                    BY <4>3 DEF Live
                <5> QED
                    BY <2>3, <5>1 DEF Uid
            <4> QED
                BY <1>6, <3>1, <3>3, <4>1, <4>2, <4>3
        <3> QED
            BY <3>2, <3>3
    <2> QED
        BY <2>4, <2>5
<1> QED
    BY <1>1, <1>2, <1>3, <1>7, <1>10, <1>11, <1>12, <1>13, <1>14 DEF Inv

\* A recreated mailbox has a UIDVALIDITY no checkpoint carries.
LEMMA RecreateInv ==
    ASSUME Inv, Recreate
    PROVE  Inv'
<1>1. /\ TypeOK /\ PastOK(state) /\ PastOK(cached)
      /\ pc \in {"selected", "diffed"} => cached = state
    BY DEF Inv
<1>2. /\ validity' = validity + 1 /\ modseq' = 1
      /\ msg' = [u \in Uid |-> Unborn] /\ stamp' = [u \in Uid |-> 0]
      /\ pc' = pc /\ cached' = cached /\ sel' = sel /\ new' = new
      /\ state' = state /\ ancestor' = ancestor
    BY DEF Recreate, call
<1>3. TypeOK'
    BY <1>1, <1>2 DEF TypeOK, Message
<1>4. ServerOK'
    BY <1>2 DEF ServerOK
<1>5. /\ state.uid_validity \in Nat /\ cached.uid_validity \in Nat
      /\ validity \in Nat
    BY <1>1 DEF TypeOK, ImapState
<1>6. /\ state.uid_validity <= validity /\ cached.uid_validity <= validity
    BY <1>1 DEF PastOK
<1>7. /\ state.uid_validity # validity' /\ cached.uid_validity # validity'
      /\ state.uid_validity <= validity' /\ cached.uid_validity <= validity'
    BY <1>2, <1>5, <1>6
<1>8. PastOK(state)' /\ PastOK(cached)'
    BY <1>2, <1>7 DEF PastOK
<1>9. StaleIsReported'
    BY <1>2, <1>7 DEF StaleIsReported
<1>10. SelectOK' /\ HalfwayOK' /\ DiffedOK'
    BY <1>2, <1>7 DEF SelectOK, HalfwayOK, DiffedOK, Current
<1> QED
    BY <1>1, <1>2, <1>3, <1>4, <1>8, <1>9, <1>10 DEF Inv

-----------------------------------------------------------------------------
(* The call in progress.                                                   *)

\* A step that stores nothing and leaves the session between two diffs, or
\* on the way to a listing, keeps the invariant if its checkpoint is of the
\* mailbox's past.
LEMMA QuietStepInv ==
    ASSUME Inv, UNCHANGED <<server, sel, new, state, ancestor>>,
           pc' \in {"idle", "baseline", "counting", "listing"},
           cached' \in ImapState, PastOK(cached')
    PROVE  Inv'
<1>1. TypeOK /\ ServerOK /\ PastOK(state) /\ StaleIsReported
    BY DEF Inv
<1>2. /\ msg' = msg /\ stamp' = stamp /\ modseq' = modseq
      /\ validity' = validity /\ sel' = sel /\ new' = new
      /\ state' = state /\ ancestor' = ancestor
    BY DEF server
<1>3. TypeOK'
    BY <1>1, <1>2 DEF TypeOK
<1>4. ServerOK'
    BY <1>1, <1>2 DEF ServerOK
<1>5. PastOK(state)' /\ PastOK(cached)'
    BY <1>1, <1>2 DEF PastOK
<1>6. StaleIsReported'
    BY <1>1, <1>2 DEF StaleIsReported, Mended, View
<1> QED
    BY <1>3, <1>4, <1>5, <1>6 DEF Inv

\* The end of a call: what is stored must be of the mailbox's past and old
\* enough for the ancestor stored with it.
LEMMA IdleInv ==
    ASSUME Inv, Idle, UNCHANGED server,
           state' \in ImapState, PastOK(state'), ancestor' \in [Uid -> Entry],
           state'.uid_validity = validity =>
               \A u \in Uid : Mended(u, ancestor'[u], state')
    PROVE  Inv'
<1>1. TypeOK /\ ServerOK
    BY DEF Inv
<1>2. /\ msg' = msg /\ stamp' = stamp /\ modseq' = modseq
      /\ validity' = validity
      /\ pc' = "idle" /\ cached' = NoState /\ sel' = NoSelect /\ new' = Nothing
    BY DEF server, Idle
<1>3. TypeOK'
    <2>1. NoState \in ImapState
        BY ConstantsAssumption DEF NoState, ImapState
    <2>2. Nothing \in [Uid -> Entry]
        BY DEF Nothing, Entry
    <2>3. NoSelect \in [changed : [Uid -> Entry], vanished : SUBSET Uid, modseq : Nat]
        BY <2>2 DEF NoSelect
    <2> QED
        BY <1>1, <1>2, <2>1, <2>2, <2>3 DEF TypeOK
<1>4. ServerOK'
    BY <1>1, <1>2 DEF ServerOK
<1>5. PastOK(state)' /\ PastOK(cached)'
    <2>1. validity \in Nat \ {0}
        BY <1>1 DEF TypeOK
    <2> QED
        BY <1>2, <2>1 DEF PastOK, NoState
<1>6. StaleIsReported'
    BY <1>2 DEF StaleIsReported, Mended, View
<1> QED
    BY <1>2, <1>3, <1>4, <1>5, <1>6 DEF Inv

\* The empty checkpoint is of no mailbox.
LEMMA NoStateIsPast == TypeOK => NoState \in ImapState /\ PastOK(NoState)
BY ConstantsAssumption DEF TypeOK, NoState, ImapState, PastOK

\* SELECT (QRESYNC ..) under the stored checkpoint: everything the ancestor
\* has wrong is told, or above the mark.
LEMMA SelectInv ==
    ASSUME Inv, SelectQresync
    PROVE  Inv'
<1> USE UidType
<1>1. TypeOK /\ ServerOK /\ PastOK(state) /\ PastOK(cached) /\ StaleIsReported
    BY DEF Inv
<1>2. CASE state.uid_validity # validity
    <2>1. /\ pc' = "baseline" /\ cached' = cached
          /\ UNCHANGED <<server, sel, new, state, ancestor>>
        BY <1>2 DEF SelectQresync
    <2>2. cached \in ImapState
        BY <1>1 DEF TypeOK
    <2> QED
        BY <1>1, <2>1, <2>2, QuietStepInv
<1>3. CASE state.uid_validity = validity
    <2>1. /\ pc' = "selected" /\ cached' = state /\ sel' \in Selected(state)
          /\ msg' = msg /\ stamp' = stamp /\ modseq' = modseq
          /\ validity' = validity /\ new' = new
          /\ state' = state /\ ancestor' = ancestor
        BY <1>3 DEF SelectQresync, server
    <2>2. state \in ImapState /\ state.highest_mod_seq \in Nat
        BY <1>1 DEF TypeOK, ImapState
    <2>3. /\ sel' \in [changed : [Uid -> Entry], vanished : SUBSET Uid, modseq : Nat]
          /\ sel'.modseq <= modseq
          /\ \A u \in Uid : sel'.changed[u] =
                 IF stamp[u] > state.highest_mod_seq THEN View(u) ELSE Out
          /\ \A u \in sel'.vanished : msg[u] = Gone
          /\ \A u \in Uid : msg[u] = Gone /\ stamp[u] > state.highest_mod_seq
                 => u \in sel'.vanished
        <3>1. [u \in Uid |-> IF stamp[u] > state.highest_mod_seq
                             THEN View(u) ELSE Out] \in [Uid -> Entry]
            <4>1. \A u \in Uid : View(u) \in Entry
                BY <1>1, ViewType
            <4> QED
                BY <4>1 DEF Entry
        <3>2. HighestModSeq(state.highest_mod_seq) \subseteq {modseq, state.highest_mod_seq}
            BY DEF HighestModSeq
        <3>3. state.highest_mod_seq <= modseq /\ modseq \in Nat
            BY <1>1, <1>3 DEF PastOK, TypeOK
        <3> QED
            BY <2>1, <2>2, <3>1, <3>2, <3>3 DEF Selected
    <2>4. TypeOK'
        BY <1>1, <2>1, <2>2, <2>3 DEF TypeOK
    <2>5. ServerOK' /\ PastOK(state)' /\ PastOK(cached)'
        BY <1>1, <2>1 DEF ServerOK, PastOK
    <2>6. \A u \in Uid : View(u)' = View(u)
        BY <2>1 DEF View
    <2>7. StaleIsReported'
        BY <1>1, <2>1, <2>6 DEF StaleIsReported, Mended
    <2>8. SelectOK'
        <3>1. \A u \in Uid : sel'.changed[u] # Out => sel'.changed[u] = View(u)
            BY <2>3
        <3> QED
            BY <2>1, <2>3, <2>6, <3>1 DEF SelectOK
    <2>9. HalfwayOK'
        <3> SUFFICES ASSUME NEW u \in Uid
                     PROVE  \/ Halfway(u)' = View(u)
                            \/ View(u) # Out /\ u > state.highest_uid
            BY <2>1, <2>6 DEF HalfwayOK
        <3>1. Mended(u, ancestor[u], state)
            BY <1>1, <1>3 DEF StaleIsReported
        <3>2. Halfway(u)' = IF u \in sel'.vanished THEN Out
                            ELSE IF sel'.changed[u] # Out /\ ancestor[u] # Out
                                 THEN sel'.changed[u]
                            ELSE ancestor[u]
            BY <2>1 DEF Halfway
        <3>3. u \in sel'.vanished => View(u) = Out
            BY <2>3 DEF View
        <3>4. CASE ancestor[u] = View(u)
            BY <2>3, <3>2, <3>3, <3>4
        <3>5. CASE View(u) = Out /\ stamp[u] > state.highest_mod_seq
            <4>1. msg[u] \in {Unborn, Gone}
                BY <1>1, <3>5, ViewType
            <4>2. msg[u] # Unborn
                BY <1>1, <2>2, <3>5 DEF ServerOK
            <4> QED
                BY <2>3, <3>2, <3>5, <4>1, <4>2
        <3>6. CASE View(u) # Out /\ ancestor[u] # Out /\ stamp[u] > state.highest_mod_seq
            BY <2>3, <3>2, <3>3, <3>6
        <3> QED
            BY <3>1, <3>4, <3>5, <3>6 DEF Mended
    <2> QED
        BY <2>1, <2>4, <2>5, <2>7, <2>8, <2>9 DEF Inv
<1> QED
    BY <1>2, <1>3

\* UID FETCH high+1:* reads every message above the mark as it is now.
LEMMA FetchInv ==
    ASSUME Inv, FetchNew
    PROVE  Inv'
<1> USE UidType
<1>1. /\ TypeOK /\ ServerOK /\ PastOK(state) /\ PastOK(cached)
      /\ StaleIsReported
      /\ cached = state /\ SelectOK /\ HalfwayOK
    BY DEF Inv, FetchNew
<1>2. /\ pc' = "diffed" /\ Current
      /\ msg' = msg /\ stamp' = stamp /\ modseq' = modseq
      /\ validity' = validity /\ cached' = cached /\ sel' = sel
      /\ state' = state /\ ancestor' = ancestor
      /\ new' = [u \in Uid |-> IF u \in Window(cached.highest_uid)
                               THEN View(u) ELSE Out]
    BY DEF FetchNew, server, Current
<1>3. \A u \in Uid : View(u) \in Entry
    BY <1>1, ViewType
<1>4. /\ new' \in [Uid -> Entry]
      /\ \A u \in Uid : new'[u] # Out => new'[u] = View(u)
    BY <1>2, <1>3 DEF Entry
<1>5. ASSUME NEW u \in Uid, View(u) # Out, u > cached.highest_uid
      PROVE  new'[u] = View(u)
    <2>1. cached.highest_uid # MaxUid
        BY <1>1, <1>5 DEF TypeOK, ImapState, Uid
    <2> QED
        BY <1>2, <1>5, <2>1 DEF Window, Live
<1>6. TypeOK'
    BY <1>1, <1>2, <1>4 DEF TypeOK
<1>7. ServerOK' /\ PastOK(state)' /\ PastOK(cached)' /\ StaleIsReported' /\ SelectOK'
    BY <1>1, <1>2 DEF ServerOK, PastOK, StaleIsReported, Mended, SelectOK, Current, View
<1>8. \A u \in NewUids' : msg'[u] # Unborn
    BY <1>2, <1>4 DEF NewUids, View
<1>9. ASSUME NEW u \in Uid, NEW f \in BOOLEAN
      PROVE  \/ Applied(u, f)' = View(u)
             \/ stamp[u] > sel.modseq /\ (View(u) = Out \/ Applied(u, f)' # Out)
    <2>1. /\ new'[u] = Out => Applied(u, f)' = Halfway(u)
          /\ u \in sel.vanished => Applied(u, f)' = Out
          /\ new'[u] # Out /\ u \notin sel.vanished =>
                 \/ Applied(u, f)' = new'[u]
                 \/ sel.changed[u] # Out /\ Applied(u, f)' = sel.changed[u]
        BY <1>2 DEF Applied, Halfway
    <2>2. CASE new'[u] = Out
        BY <1>1, <1>2, <1>5, <2>1, <2>2 DEF HalfwayOK
    <2>3. CASE new'[u] # Out
        <3>1. new'[u] = View(u) /\ u \notin sel.vanished
            BY <1>1, <1>2, <1>4, <2>3 DEF SelectOK, View
        <3> QED
            BY <1>1, <1>2, <2>1, <2>3, <3>1 DEF SelectOK
    <2> QED
        BY <2>2, <2>3
<1>10. DiffedOK'
    <2>1. \A u \in Uid : View(u)' = View(u)
        BY <1>2 DEF View
    <2> QED
        BY <1>2, <1>8, <1>9, <2>1 DEF DiffedOK
<1> QED
    BY <1>1, <1>2, <1>6, <1>7, <1>10 DEF Inv

\* Storing the new checkpoint with the new ancestor: what is still wrong
\* changed after the checkpoint or arrived above its mark.
LEMMA ApplyInv ==
    ASSUME Inv, Apply
    PROVE  Inv'
<1> USE UidType
<1>1. /\ TypeOK /\ ServerOK /\ PastOK(cached) /\ SelectOK /\ DiffedOK
    BY DEF Inv, Apply
<1>2. PICK flagsLast \in BOOLEAN : ancestor' = [u \in Uid |-> Applied(u, flagsLast)]
    BY DEF Apply
<1>3. PICK h \in Highest(NewUids, cached.highest_uid) :
          state' = [uid_validity |-> cached.uid_validity,
                    highest_mod_seq |-> sel.modseq, highest_uid |-> h]
    BY DEF Apply, NewState
<1>4. Idle /\ UNCHANGED server
    BY DEF Apply
<1>5. /\ cached.highest_uid \in 0..MaxUid /\ cached.uid_validity \in Nat
      /\ sel.modseq \in Nat /\ validity \in Nat
    BY <1>1 DEF TypeOK, ImapState
<1>6. /\ h \in 0..MaxUid
      /\ NewUids = {} => h = cached.highest_uid
      /\ NewUids # {} => h \in NewUids
    BY <1>3, <1>5, HighestIs DEF NewUids
<1>7. state' \in ImapState
    BY <1>3, <1>5, <1>6 DEF ImapState
<1>8. PastOK(state')
    <2>1. ASSUME Current, h # 0
          PROVE  msg[h] # Unborn
        BY <1>1, <1>6, <2>1 DEF DiffedOK, PastOK, Current
    <2> QED
        BY <1>1, <1>3, <2>1 DEF PastOK, SelectOK, Current
<1>9. ancestor' \in [Uid -> Entry]
    <2>1. \A u \in Uid : Applied(u, flagsLast) \in Entry
        BY <1>1 DEF TypeOK, Applied, Entry
    <2> QED
        BY <1>2, <2>1
<1>10. ASSUME state'.uid_validity = validity, NEW u \in Uid
       PROVE  Mended(u, ancestor'[u], state')
    <2>1. \/ Applied(u, flagsLast) = View(u)
          \/ /\ stamp[u] > sel.modseq
             /\ \/ View(u) = Out
                \/ Applied(u, flagsLast) # Out
                \/ u > cached.highest_uid /\ \A v \in NewUids : v < u
        BY <1>1, <1>3, <1>10 DEF DiffedOK, Current
    <2>2. u > cached.highest_uid /\ (\A v \in NewUids : v < u) => u > h
        BY <1>6
    <2> QED
        BY <1>2, <1>3, <2>1, <2>2 DEF Mended
<1> QED
    BY <1>4, <1>7, <1>8, <1>9, <1>10, IdleInv

\* SELECT of a baseline: its checkpoint is of this moment.
LEMMA SelectPlainInv ==
    ASSUME Inv, SelectPlain
    PROVE  Inv'
<1>1. TypeOK
    BY DEF Inv
<1>2. /\ UNCHANGED <<server, sel, new, state, ancestor>>
      /\ pc' \in {"listing", "counting"}
    BY DEF SelectPlain
<1>3. CASE cached' = NoState
    BY <1>1, <1>2, <1>3, QuietStepInv, NoStateIsPast
<1>4. CASE \E h \in HighestModSeq(0) :
               cached' = [uid_validity |-> validity, highest_mod_seq |-> h,
                          highest_uid |-> 0]
    <2>1. PICK h \in HighestModSeq(0) :
              cached' = [uid_validity |-> validity, highest_mod_seq |-> h,
                         highest_uid |-> 0]
        BY <1>4
    <2>2. h \in Nat /\ h <= modseq /\ validity \in Nat
        BY <1>1 DEF HighestModSeq, TypeOK
    <2>3. cached' \in ImapState /\ PastOK(cached')
        BY <2>1, <2>2, ConstantsAssumption DEF ImapState, PastOK
    <2> QED
        BY <1>2, <2>3, QuietStepInv
<1> QED
    BY <1>3, <1>4 DEF SelectPlain

\* FETCH * of a baseline: the mark is a message of the mailbox.
LEMMA FetchLastInv ==
    ASSUME Inv, FetchLast
    PROVE  Inv'
<1>1. TypeOK /\ PastOK(cached)
    BY DEF Inv
<1>2. PICK h \in Highest(Live, 0) : cached' = [cached EXCEPT !.highest_uid = h]
    BY DEF FetchLast
<1>3. /\ UNCHANGED <<server, sel, new, state, ancestor>>
      /\ pc' = "listing"
    BY DEF FetchLast
<1>4. Live \in SUBSET Uid /\ 0 \in 0..MaxUid
    BY ConstantsAssumption DEF Live
<1>5. h \in 0..MaxUid /\ (h = 0 \/ h \in Live)
    BY <1>2, <1>4, HighestIs
<1>6. h # 0 => msg[h] # Unborn
    BY <1>5 DEF Live, View
<1>7. /\ cached \in ImapState
      /\ cached' = [uid_validity |-> cached.uid_validity,
                    highest_mod_seq |-> cached.highest_mod_seq,
                    highest_uid |-> h]
    BY <1>1, <1>2 DEF TypeOK, ImapState
<1>8. cached' \in ImapState /\ PastOK(cached')
    BY <1>1, <1>5, <1>6, <1>7 DEF ImapState, PastOK
<1> QED
    BY <1>3, <1>8, QuietStepInv

\* A listing is exact, whichever checkpoint goes with it.
LEMMA ListInv ==
    ASSUME Inv, List
    PROVE  Inv'
<1>1. TypeOK /\ PastOK(cached)
    BY DEF Inv
<1>2. /\ ancestor' = [u \in Uid |-> View(u)] /\ state' = cached
      /\ Idle /\ UNCHANGED server
    BY DEF List
<1>3. cached \in ImapState
    BY <1>1 DEF TypeOK
<1>4. ancestor' \in [Uid -> Entry]
    <2>1. \A u \in Uid : View(u) \in Entry
        BY <1>1, ViewType
    <2> QED
        BY <1>2, <2>1
<1>5. \A u \in Uid : Mended(u, ancestor'[u], state')
    BY <1>2 DEF Mended
<1> QED
    BY <1>1, <1>2, <1>3, <1>4, <1>5, IdleInv

\* A call that fails leaves what the caller stored.
LEMMA FailInv ==
    ASSUME Inv, Fail
    PROVE  Inv'
<1>1. TypeOK /\ PastOK(state) /\ StaleIsReported
    BY DEF Inv
<1>2. Idle /\ UNCHANGED server /\ state' = state /\ ancestor' = ancestor
    BY DEF Fail
<1>3. state \in ImapState /\ ancestor \in [Uid -> Entry]
    BY <1>1 DEF TypeOK
<1> QED
    BY <1>1, <1>2, <1>3, IdleInv DEF StaleIsReported

\* Every step keeps the invariant.
LEMMA NextInv == Inv /\ [Next]_vars => Inv'
<1> SUFFICES ASSUME Inv, [Next]_vars PROVE Inv'
    OBVIOUS
<1>1. TypeOK /\ PastOK(cached) /\ cached \in ImapState
    BY DEF Inv, TypeOK
<1>2. ASSUME NEW u \in Uid, Deliver(u) PROVE Inv'
    <2>1. PICK K \in SUBSET Keyword : Touch(u, K)
        BY <1>2 DEF Deliver
    <2>2. K \in Message \ {Unborn} /\ K # Gone
        BY ConstantsAssumption DEF Message
    <2> QED
        BY <1>2, <2>1, <2>2, TouchInv DEF Deliver
<1>3. ASSUME NEW u \in Uid, StoreFlags(u) PROVE Inv'
    <2>1. PICK K \in SUBSET Keyword : Touch(u, K)
        BY <1>3 DEF StoreFlags
    <2>2. K \in Message \ {Unborn} /\ u \in Live
        BY <1>3, ConstantsAssumption DEF Message, StoreFlags
    <2> QED
        BY <2>1, <2>2, TouchInv
<1>4. ASSUME NEW u \in Uid, Expunge(u) PROVE Inv'
    <2>1. Gone \in Message \ {Unborn} /\ u \in Live /\ Touch(u, Gone)
        BY <1>4, ConstantsAssumption DEF Message, Expunge
    <2> QED
        BY <2>1, TouchInv
<1>5. CASE Recreate
    BY <1>5, RecreateInv
<1>6. CASE WithoutQresync
    <2>1. /\ UNCHANGED <<server, sel, new, state, ancestor>>
          /\ pc' = "listing" /\ cached' = NoState
        BY <1>6 DEF WithoutQresync
    <2> QED
        BY <1>1, <2>1, QuietStepInv, NoStateIsPast
<1>7. CASE StartBaseline
    <2>1. /\ UNCHANGED <<server, sel, new, state, ancestor>>
          /\ pc' = "baseline" /\ cached' = cached
        BY <1>7 DEF StartBaseline
    <2> QED
        BY <1>1, <2>1, QuietStepInv
<1>8. CASE SelectQresync
    BY <1>8, SelectInv
<1>9. CASE FetchNew
    BY <1>9, FetchInv
<1>10. CASE Apply
    BY <1>10, ApplyInv
<1>11. CASE SelectPlain
    BY <1>11, SelectPlainInv
<1>12. CASE FetchLast
    BY <1>12, FetchLastInv
<1>13. CASE List
    BY <1>13, ListInv
<1>14. CASE Fail
    BY <1>14, FailInv
<1>15. CASE UNCHANGED vars
    BY <1>15
    DEF vars, server, call, Inv, TypeOK, ServerOK, PastOK, StaleIsReported,
        Mended, View, SelectOK, HalfwayOK, Halfway, DiffedOK, Applied, NewUids,
        Current
<1> QED
    BY <1>2, <1>3, <1>4, <1>5, <1>6, <1>7, <1>8, <1>9, <1>10, <1>11, <1>12,
       <1>13, <1>14, <1>15 DEF Next

-----------------------------------------------------------------------------
(* The theorems.                                                           *)

\* The invariant holds of every behaviour of diff_envelopes, its caller and
\* the other sessions.
THEOREM InvCorrect == Spec => []Inv
BY InitInv, NextInv, PTL DEF Spec

\* Every variable keeps its shape: a checkpoint is always three numbers in
\* range, whatever the server answers.
THEOREM TypeCorrect == Spec => []TypeOK
<1>1. Inv => TypeOK
    BY DEF Inv
<1> QED
    BY <1>1, InvCorrect, PTL

\* The stored checkpoint is old enough for the stored ancestor
\* (diff_envelopes, and EnvelopeDiff's contract with its caller).
THEOREM StaleReported == Spec => []StaleIsReported
<1>1. Inv => StaleIsReported
    BY DEF Inv
<1> QED
    BY <1>1, InvCorrect, PTL

\* A diff nobody interferes with leaves the ancestor equal to the mailbox.
THEOREM QuietSyncExact == Spec => []QuietSyncIsExact
<1>1. Inv => QuietSyncIsExact
    <2> SUFFICES ASSUME Inv, pc = "diffed", cached.uid_validity = validity,
                        \A u \in Uid : stamp[u] <= sel.modseq,
                        NEW u \in Uid, NEW flagsLast \in BOOLEAN
                 PROVE  Applied(u, flagsLast) = View(u)
        BY DEF QuietSyncIsExact
    <2>1. Applied(u, flagsLast) = View(u) \/ stamp[u] > sel.modseq
        BY DEF Inv, DiffedOK, Current
    <2>2. stamp[u] \in Nat /\ sel.modseq \in Nat
        BY DEF Inv, TypeOK
    <2> QED
        BY <2>1, <2>2
<1> QED
    BY <1>1, InvCorrect, PTL

-----------------------------------------------------------------------------
(* The pages of an IMAP listing, beside those of the other backends.       *)

Ordinal == 1..MaxU32

InWindow(n, w) == w # <<>> /\ n \in w[1]..w[2]

Lesser(a, b) == IF a <= b THEN a ELSE b
Greater(a, b) == IF a <= b THEN b ELSE a

LEMMA Least ==
    ASSUME NEW a \in Int, NEW b \in Int
    PROVE  Min({a, b}) = Lesser(a, b) /\ Max({a, b}) = Greater(a, b)
BY DEF Min, Max, Lesser, Greater

\* The quotient by the size of a page, without a quotient.
LEMMA Quotient ==
    ASSUME NEW k \in Nat, NEW size \in Nat \ {0}, NEW page \in Nat \ {0}
    PROVE  page = k \div size + 1 <=>
               (page - 1) * size <= k /\ k < (page - 1) * size + size
OBVIOUS

\* The window without u32: a product that passes it is past any mailbox.
LEMMA WindowBounds ==
    ASSUME MaxU32 \in Nat,
           NEW exists \in 0..MaxU32, NEW page \in Ordinal, NEW size \in Ordinal
    PROVE  LET w == ComputeWindow(exists, page, size)
               skip == (page - 1) * size
           IN  IF exists <= skip THEN w = <<>>
               ELSE w = <<Greater(exists - skip - (size - 1), 1), exists - skip>>
  <1> DEFINE skip == (page - 1) * size
  <1>1. skip \in Nat /\ size \in Nat \ {0} /\ exists \in Nat /\ exists <= MaxU32
    BY DEF Ordinal
  <1>2. PICK sat : sat = Saturate(skip)
    OBVIOUS
  <1>3. PICK max : max = Max({exists - sat - (size - 1), 1})
    OBVIOUS
  <1>4. ComputeWindow(exists, page, size) =
          IF exists = 0 \/ sat >= exists THEN <<>> ELSE <<max, exists - sat>>
    BY <1>2, <1>3 DEF ComputeWindow
  <1> HIDE DEF skip
  <1>5. sat = Lesser(skip, MaxU32)
    BY <1>1, <1>2, Least DEF Saturate
  <1>6. sat \in Nat
    BY <1>1, <1>5 DEF Lesser
  <1>7. max = Greater(exists - sat - (size - 1), 1)
    <2>1. PICK a \in Int : a = exists - sat - (size - 1)
      BY <1>1, <1>6
    <2>2. Max({a, 1}) = Greater(a, 1)
      BY Least
    <2>3. QED
      BY <1>3, <2>1, <2>2
  <1>8. CASE exists <= skip
    BY <1>1, <1>4, <1>5, <1>8 DEF skip, Lesser
  <1>9. CASE ~(exists <= skip)
    <2>1. sat = skip /\ exists # 0 /\ ~(sat >= exists)
      BY <1>1, <1>5, <1>9 DEF Lesser
    <2>2. QED
      BY <1>4, <1>7, <1>9, <2>1 DEF skip
  <1>10. QED
    BY <1>8, <1>9

\* Every message is in the window of one page and of no other, and a window
\* holds sequence numbers of the mailbox only, at most a page of them, for
\* every page and size in u32 although their product may not be
\* (compute_window, envelope/imap/list.rs).
THEOREM WindowIsPage ==
    ASSUME MaxU32 \in Nat,
           NEW exists \in 0..MaxU32, NEW page \in Ordinal, NEW size \in Ordinal
    PROVE  LET w == ComputeWindow(exists, page, size)
           IN  /\ w # <<>> => /\ w[1] \in 1..exists /\ w[2] \in w[1]..exists
                              /\ w[2] - w[1] < size
               /\ \A n \in 1..exists : InWindow(n, w) <=> page = (exists - n) \div size + 1
  <1> DEFINE skip == (page - 1) * size
             w == ComputeWindow(exists, page, size)
  <1>1. /\ skip \in Nat /\ exists \in Nat /\ size \in Nat \ {0} /\ page \in Nat \ {0}
    BY DEF Ordinal
  <1>2. IF exists <= skip THEN w = <<>>
        ELSE w = <<Greater(exists - skip - (size - 1), 1), exists - skip>>
    BY WindowBounds
  <1>3. \A n \in 1..exists : page = (exists - n) \div size + 1 <=>
                                 skip <= exists - n /\ exists - n < skip + size
    BY <1>1, Quotient
  <1> HIDE DEF skip, w
  <1>4. /\ w # <<>> => /\ w[1] \in 1..exists /\ w[2] \in w[1]..exists
                       /\ w[2] - w[1] < size
        /\ \A n \in 1..exists : InWindow(n, w) <=> skip <= exists - n /\ exists - n < skip + size
    BY <1>1, <1>2 DEF InWindow, Greater
  <1>5. QED
    BY <1>3, <1>4 DEF w

LEMMA ReverseOf ==
    ASSUME NEW S, NEW s \in Seq(S)
    PROVE  /\ Reverse(s) \in Seq(S) /\ Len(Reverse(s)) = Len(s)
           /\ \A i \in 1..Len(s) : Reverse(s)[i] = s[Len(s) - i + 1]
BY DEF Reverse

LEMMA CutOf ==
    ASSUME NEW S, NEW s \in Seq(S), NEW m \in 1..(Len(s) + 1), NEW n \in 0..Len(s)
    PROVE  LET c == SubSeq(s, m, n)
           IN  IF n < m THEN c = <<>>
               ELSE /\ c \in Seq(S) /\ Len(c) = n - m + 1
                    /\ \A i \in 1..(n - m + 1) : c[i] = s[m + i - 1]
OBVIOUS

\* A page of IMAP, whose FETCH is read backwards, is the page the local stores
\* cut of the same messages, latest first, and the one JMAP is asked for by
\* position and limit (compute_window, paginate, compute_position_limit).
THEOREM PagesAgree ==
    ASSUME MaxU32 \in Nat, NoSize \notin Ordinal,
           NEW S, NEW box \in Seq(S), Len(box) <= MaxU32,
           NEW page \in Ordinal, NEW size \in Ordinal
    PROVE  LET w == ComputeWindow(Len(box), page, size)
               imap == IF w = <<>> THEN <<>> ELSE Reverse(SubSeq(box, w[1], w[2]))
               at == PositionLimit(page, size)
           IN  /\ imap = Paginate(Reverse(box), page, size)
               /\ Slice(Reverse(box), at[1], at[2]) = Paginate(Reverse(box), page, size)
  <1> DEFINE skip == (page - 1) * size
             w == ComputeWindow(Len(box), page, size)
             last == Lesser(skip + size, Len(box))
             first == Greater(Len(box) - skip - (size - 1), 1)
             local == SubSeq(Reverse(box), skip + 1, last)
             imap == SubSeq(box, first, Len(box) - skip)
  <1>1. skip \in Nat /\ size \in Nat \ {0} /\ Len(box) \in 0..MaxU32
    BY DEF Ordinal
  <1>2. Paginate(Reverse(box), page, size) = local
    <2>1. Len(Reverse(box)) = Len(box)
      BY ReverseOf
    <2>2. Min({skip + size, Len(box)}) = last
      <3>1. PICK a \in Int : a = skip + size
        BY <1>1
      <3>2. Min({a, Len(box)}) = Lesser(a, Len(box))
        BY Least
      <3>3. QED
        BY <3>1, <3>2
    <2>3. QED
      BY <2>1, <2>2 DEF Paginate, Ordinal, Slice
  <1>3. /\ PositionLimit(page, size)[1] = skip /\ PositionLimit(page, size)[2] = size
        /\ Slice(Reverse(box), skip, size) = Paginate(Reverse(box), page, size)
    BY DEF PositionLimit, Paginate, Ordinal
  <1>4. IF Len(box) <= skip THEN w = <<>> ELSE w = <<first, Len(box) - skip>>
    BY <1>1, WindowBounds
  <1> HIDE DEF skip, w, local
  <1>5. CASE Len(box) <= skip
    <2>1. local = <<>>
      <3>1. last = Len(box)
        BY <1>1, <1>5 DEF Lesser
      <3>2. Reverse(box) \in Seq(S) /\ Len(Reverse(box)) = Len(box)
        BY ReverseOf
      <3>3. QED
        BY <1>1, <1>5, <3>1, <3>2 DEF local
    <2>2. QED
      BY <1>2, <1>3, <1>4, <1>5, <2>1 DEF w
  <1>6. CASE skip < Len(box)
    <2>1. /\ first \in 1..(Len(box) - skip) /\ first = Len(box) - last + 1
          /\ last \in (skip + 1)..Len(box) /\ Len(box) - skip \in 1..Len(box)
      <3>1. Len(box) \in Nat /\ skip < Len(box) /\ size >= 1 /\ skip \in Nat /\ size \in Nat
        BY <1>1, <1>6
      <3>2. CASE skip + size <= Len(box)
        <4>1. last = skip + size
          BY <3>2 DEF Lesser
        <4>2. first = Len(box) - skip - (size - 1)
          BY <3>1, <3>2 DEF Greater
        <4> HIDE DEF last, first
        <4>3. QED
          BY <3>1, <3>2, <4>1, <4>2
      <3>3. CASE ~(skip + size <= Len(box))
        <4>1. last = Len(box)
          BY <3>3 DEF Lesser
        <4>2. first = 1
          BY <3>1, <3>3 DEF Greater
        <4> HIDE DEF last, first
        <4>3. QED
          BY <3>1, <4>1, <4>2
      <3>4. QED
        BY <3>2, <3>3
    <2>2. w[1] = first /\ w[2] = Len(box) - skip /\ w # <<>>
      BY <1>4, <1>1, <1>6
    <2> HIDE DEF last, first, imap
    <2>3. /\ imap \in Seq(S) /\ Len(imap) = last - skip
          /\ \A i \in 1..(last - skip) : imap[i] = box[first + i - 1]
      BY <1>1, <2>1, CutOf DEF imap
    <2>4. /\ Reverse(imap) \in Seq(S) /\ Len(Reverse(imap)) = last - skip
          /\ \A i \in 1..(last - skip) : Reverse(imap)[i] = imap[last - skip - i + 1]
      BY <2>3, ReverseOf
    <2>5. /\ Reverse(box) \in Seq(S) /\ Len(Reverse(box)) = Len(box)
          /\ \A i \in 1..Len(box) : Reverse(box)[i] = box[Len(box) - i + 1]
      BY ReverseOf
    <2>6. /\ local \in Seq(S) /\ Len(local) = last - skip
          /\ \A i \in 1..(last - skip) : local[i] = Reverse(box)[skip + i]
      BY <1>1, <2>1, <2>5, CutOf DEF local
    <2>7. \A i \in 1..(last - skip) : Reverse(imap)[i] = local[i]
      <3> SUFFICES ASSUME NEW i \in 1..(last - skip)
                   PROVE  Reverse(imap)[i] = local[i]
        OBVIOUS
      <3>1. last \in Nat /\ first \in Nat
        BY <2>1
      <3>2. Reverse(imap)[i] = box[first + (last - skip - i + 1) - 1]
        BY <1>1, <2>3, <2>4, <3>1
      <3>3. local[i] = box[Len(box) - (skip + i) + 1]
        <4>1. skip + i \in 1..Len(box)
          BY <1>1, <2>1, <3>1
        <4>2. QED
          BY <2>5, <2>6, <4>1
      <3>4. QED
        BY <1>1, <2>1, <3>1, <3>2, <3>3
    <2>8. Reverse(imap) = local
      BY <2>4, <2>6, <2>7
    <2>9. QED
      BY <1>2, <1>3, <2>2, <2>8 DEF w, imap
  <1>7. QED
    BY <1>1, <1>5, <1>6
=============================================================================
