------------------------------ MODULE ImapDiff ------------------------------
(***************************************************************************)
(* Incremental envelope sync over IMAP: ImapClientStd::diff_envelopes and  *)
(* diff_baseline (src/imap/client.rs) with the checkpoint of               *)
(* src/envelope/imap/diff.rs, against a QRESYNC server that other sessions *)
(* keep changing, and the caller that stores the checkpoint next to its    *)
(* ancestor, the mailbox as of the last sync (src/envelope/types.rs).      *)
(*                                                                         *)
(* One diff is several commands, and the mailbox may change between any    *)
(* two of them: SELECT (QRESYNC ..) says which messages changed and which  *)
(* vanished since the checkpoint, UID FETCH high+1:* reads the new ones    *)
(* afterwards, and the full listing that answers FullListRequired is a     *)
(* call of its own.                                                        *)
(***************************************************************************)
EXTENDS Integers, FiniteSets

CONSTANTS
    MaxUid,       \* u32::MAX, the last UID there is
    Keyword,      \* IMAP flags
    Out,          \* "no such message"
    Unborn,       \* a UID not assigned in this UIDVALIDITY
    Gone,         \* an expunged message
    Start,        \* HIGHESTMODSEQ when the first sync begins
    MaxModSeq,    \* bound: last mod-sequence of a mailbox
    MaxValidity,  \* bound: last UIDVALIDITY
    OmitsModSeq   \* may SELECT leave HIGHESTMODSEQ out?

ASSUME ConstantsAssumption ==
    /\ MaxUid \in Nat \ {0}
    /\ Start \in Nat \ {0} /\ MaxModSeq \in Nat /\ MaxValidity \in Nat
    /\ OmitsModSeq \in BOOLEAN
    /\ Unborn # Gone
    /\ \A K \in SUBSET Keyword : K \notin {Out, Unborn, Gone}

VARIABLES
    \* the server's mailbox
    msg,        \* uid -> flags, or Unborn, Gone
    stamp,      \* uid -> mod-sequence of its last change (0: never)
    modseq,     \* HIGHESTMODSEQ
    validity,   \* UIDVALIDITY
    \* the call in progress
    pc,
    cached,     \* the ImapState it works on
    sel,        \* SELECT (QRESYNC ..): changed, vanished, HIGHESTMODSEQ
    new,        \* UID FETCH high+1:*
    \* the caller
    state,      \* the stored ImapState, decoded
    ancestor    \* uid -> flags, or Out: the mailbox of the last sync

server == <<msg, stamp, modseq, validity>>
call == <<pc, cached, sel, new>>
vars == <<server, call, state, ancestor>>

-----------------------------------------------------------------------------
Uid == 1..MaxUid
Entry == {Out} \union SUBSET Keyword
Message == {Unborn, Gone} \union SUBSET Keyword
Nothing == [u \in Uid |-> Out]

View(u) == IF msg[u] \in {Unborn, Gone} THEN Out ELSE msg[u]
Live == {u \in Uid : View(u) # Out}

\* The largest element of S, as a one-element set: max().unwrap_or(default).
Highest(S, default) ==
    IF S = {} THEN {default} ELSE {u \in S : \A v \in S : v <= u}

\* ImapState; a UIDVALIDITY of 0 is as unusable as a blob of another length.
ImapState == [uid_validity : Nat, highest_mod_seq : Nat, highest_uid : 0..MaxUid]
NoState == [uid_validity |-> 0, highest_mod_seq |-> 0, highest_uid |-> 0]

\* HIGHESTMODSEQ of a SELECT, with what unwrap_or puts in its place.
HighestModSeq(default) == {modseq} \union {d \in {default} : OmitsModSeq}

NoSelect == [changed |-> Nothing, vanished |-> {}, modseq |-> 0]

Idle == pc' = "idle" /\ cached' = NoState /\ sel' = NoSelect /\ new' = Nothing

Init ==
    /\ modseq = Start /\ validity = 1
    /\ msg \in [Uid -> Message]
    /\ stamp \in [Uid -> 0..Start]
    /\ \A u \in Uid : msg[u] = Unborn <=> stamp[u] = 0
    /\ pc = "idle" /\ cached = NoState /\ sel = NoSelect /\ new = Nothing
    /\ state = NoState
    /\ ancestor = Nothing

-----------------------------------------------------------------------------
(* Other sessions, at any moment.                                          *)

\* One message becomes m under the next mod-sequence.
Touch(u, m) ==
    /\ modseq < MaxModSeq
    /\ modseq' = modseq + 1
    /\ msg' = [msg EXCEPT ![u] = m]
    /\ stamp' = [stamp EXCEPT ![u] = modseq + 1]
    /\ UNCHANGED <<validity, call, state, ancestor>>

\* A UID is larger than every UID assigned before it, not always by one.
Deliver(u) ==
    /\ \A v \in u..MaxUid : msg[v] = Unborn
    /\ \E K \in SUBSET Keyword : Touch(u, K)

StoreFlags(u) ==
    /\ u \in Live
    /\ \E K \in SUBSET Keyword : K # msg[u] /\ Touch(u, K)

Expunge(u) == u \in Live /\ Touch(u, Gone)

\* The mailbox is deleted and created again: UIDs and mod-sequences restart.
Recreate ==
    /\ validity < MaxValidity
    /\ validity' = validity + 1
    /\ modseq' = 1
    /\ msg' = [u \in Uid |-> Unborn]
    /\ stamp' = [u \in Uid |-> 0]
    /\ UNCHANGED <<call, state, ancestor>>

-----------------------------------------------------------------------------
(* diff_envelopes.                                                         *)

\* QRESYNC is not in the client's capability list: FullListRequired without
\* a checkpoint.
WithoutQresync ==
    /\ pc = "idle"
    /\ pc' = "listing" /\ cached' = NoState
    /\ UNCHANGED <<server, sel, new, state, ancestor>>

\* No usable checkpoint, or the server rejects SELECT (QRESYNC ..).
StartBaseline ==
    /\ pc = "idle"
    /\ pc' = "baseline"
    /\ UNCHANGED <<server, cached, sel, new, state, ancestor>>

\* What SELECT (QRESYNC ..) answers to a checkpoint of this UIDVALIDITY:
\* the messages changed since, at least the messages expunged since, and
\* HIGHESTMODSEQ.
Selected(c) ==
    {s \in [changed : {[u \in Uid |-> IF stamp[u] > c.highest_mod_seq
                                      THEN View(u) ELSE Out]},
            vanished : SUBSET {u \in Uid : msg[u] = Gone},
            modseq : HighestModSeq(c.highest_mod_seq)] :
        \A u \in Uid : msg[u] = Gone /\ stamp[u] > c.highest_mod_seq
                           => u \in s.vanished}

SelectQresync ==
    /\ pc = "idle" /\ state.uid_validity # 0
    /\ IF state.uid_validity = validity
       THEN pc' = "selected" /\ cached' = state /\ sel' \in Selected(state)
       ELSE pc' = "baseline" /\ UNCHANGED <<cached, sel>>
    /\ UNCHANGED <<server, new, state, ancestor>>

\* Mutant: the window starts one UID too high.
WindowSkipsOne(high) == {u \in Live : u > high + 1}

\* The messages of UID FETCH high+1:*, if high+1 does not overflow. A set
\* that ends in * holds the last message even when high+1 is beyond it.
Window(high) ==
    IF high = MaxUid THEN {}
    ELSE {u \in Live : u > high \/ \A v \in Live : v <= u}

\* The command fails when the selected mailbox is not there any more.
FetchNew ==
    /\ pc = "selected" /\ cached.uid_validity = validity
    /\ new' = [u \in Uid |-> IF u \in Window(cached.highest_uid)
                             THEN View(u) ELSE Out]
    /\ pc' = "diffed"
    /\ UNCHANGED <<server, cached, sel, state, ancestor>>

NewUids == {u \in Uid : new[u] # Out}

\* Mutant: the checkpoint stores the next UID instead of the last one.
NewStateUidNext ==
    {[uid_validity |-> cached.uid_validity,
      highest_mod_seq |-> sel.modseq,
      highest_uid |-> h + 1] : h \in Highest(NewUids, cached.highest_uid)}

\* Mutant: HIGHESTMODSEQ is read when the diff ends, not when it begins.
NewStateLateModSeq ==
    {[uid_validity |-> cached.uid_validity,
      highest_mod_seq |-> modseq,
      highest_uid |-> h] : h \in Highest(NewUids, cached.highest_uid)}

NewState ==
    {[uid_validity |-> cached.uid_validity,
      highest_mod_seq |-> sel.modseq,
      highest_uid |-> h] : h \in Highest(NewUids, cached.highest_uid)}

\* The three buckets applied to the ancestor's entry for u. Nothing says
\* whether flag updates go before or after the new envelopes.
Applied(u, flagsLast) ==
    IF u \in sel.vanished THEN Out
    ELSE IF new[u] # Out
         THEN IF flagsLast /\ sel.changed[u] # Out THEN sel.changed[u]
              ELSE new[u]
    ELSE IF sel.changed[u] # Out /\ ancestor[u] # Out THEN sel.changed[u]
    ELSE ancestor[u]

\* Incremental: the caller stores the new checkpoint with the new ancestor.
Apply ==
    /\ pc = "diffed"
    /\ \E flagsLast \in BOOLEAN :
           ancestor' = [u \in Uid |-> Applied(u, flagsLast)]
    /\ state' \in NewState
    /\ Idle
    /\ UNCHANGED server

-----------------------------------------------------------------------------
(* diff_baseline, and the full listing it asks for.                        *)

\* SELECT: UIDVALIDITY, EXISTS and HIGHESTMODSEQ; there is no checkpoint
\* without a UIDVALIDITY.
SelectPlain ==
    /\ pc = "baseline"
    /\ \/ \E h \in HighestModSeq(0) :
              cached' = [uid_validity |-> validity, highest_mod_seq |-> h,
                         highest_uid |-> 0]
          /\ pc' = IF Live = {} THEN "listing" ELSE "counting"
       \/ cached' = NoState /\ pc' = "listing"
    /\ UNCHANGED <<server, sel, new, state, ancestor>>

\* FETCH * (UID): the UID of the last message.
FetchLast ==
    /\ pc = "counting" /\ cached.uid_validity = validity
    /\ \E h \in Highest(Live, 0) :
           cached' = [cached EXCEPT !.highest_uid = h]
    /\ pc' = "listing"
    /\ UNCHANGED <<server, sel, new, state, ancestor>>

\* FullListRequired: the caller lists the mailbox, as it is by then, and
\* stores the listing with the checkpoint.
List ==
    /\ pc = "listing"
    /\ ancestor' = [u \in Uid |-> View(u)]
    /\ state' = cached
    /\ Idle
    /\ UNCHANGED server

\* A command fails, or the caller is gone before it stored anything.
Fail ==
    /\ pc # "idle"
    /\ Idle
    /\ UNCHANGED <<server, state, ancestor>>

-----------------------------------------------------------------------------
Next ==
    \/ \E u \in Uid : Deliver(u) \/ StoreFlags(u) \/ Expunge(u)
    \/ Recreate
    \/ WithoutQresync \/ StartBaseline \/ SelectQresync \/ FetchNew \/ Apply
    \/ SelectPlain \/ FetchLast \/ List \/ Fail

Spec == Init /\ [][Next]_vars

-----------------------------------------------------------------------------
(* Properties.                                                             *)

\* Every variable keeps its shape; a stored high-water mark is a UID.
TypeOK ==
    /\ msg \in [Uid -> Message] /\ stamp \in [Uid -> Nat]
    /\ modseq \in Nat /\ validity \in Nat \ {0}
    /\ pc \in {"idle", "baseline", "counting", "listing", "selected", "diffed"}
    /\ cached \in ImapState /\ state \in ImapState
    /\ sel \in [changed : [Uid -> Entry], vanished : SUBSET Uid, modseq : Nat]
    /\ new \in [Uid -> Entry] /\ ancestor \in [Uid -> Entry]

\* The next SELECT or the next window mends entry e of uid u under
\* checkpoint c: a message e knows is reported as changed, vanished or
\* above the mark, and one e does not know is above the mark.
Mended(u, e, c) ==
    \/ e = View(u)
    \/ View(u) = Out /\ stamp[u] > c.highest_mod_seq
    \/ View(u) # Out /\ u > c.highest_uid
    \/ View(u) # Out /\ e # Out /\ stamp[u] > c.highest_mod_seq

\* Whatever other sessions did between the commands of any earlier diff
\* and whichever of those failed, the stored checkpoint is old enough for
\* the stored ancestor: every message it has wrong, the next diff reports.
StaleIsReported ==
    state.uid_validity = validity =>
        \A u \in Uid : Mended(u, ancestor[u], state)

\* A diff during which nobody touched the mailbox leaves the ancestor equal
\* to it, however far behind it was and in whichever order the buckets are
\* applied.
QuietSyncIsExact ==
    pc = "diffed" /\ cached.uid_validity = validity
        /\ (\A u \in Uid : stamp[u] <= sel.modseq)
    => \A u \in Uid, flagsLast \in BOOLEAN : Applied(u, flagsLast) = View(u)
=============================================================================
