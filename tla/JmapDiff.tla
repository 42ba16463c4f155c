------------------------------ MODULE JmapDiff ------------------------------
(***************************************************************************)
(* Incremental envelope sync over JMAP: JmapClientStd::diff_envelopes and  *)
(* diff_baseline (src/jmap/client.rs), with the caller that stores the     *)
(* checkpoint next to its ancestor (src/envelope/types.rs).                *)
(*                                                                         *)
(* One diff is a walk of Email/changes rounds, then one Email/get for the  *)
(* created ids and one for the updated ids; the account may change between *)
(* any two of these requests. Email/changes is global to the account, and  *)
(* so is the ancestor here: the account has one mailbox.                   *)
(***************************************************************************)
EXTENDS Integers, FiniteSets

CONSTANTS
    Id,        \* Email ids (a JMAP id is never reused)
    Keyword,   \* JMAP keywords
    Out,       \* "no such email"
    Unborn,    \* an id the server has not assigned yet
    Gone,      \* a destroyed email
    Start,     \* server Email state when the first sync begins
    MaxState,  \* bound: last Email state the server reaches
    Omitted    \* the ids Email/changes may leave out when they were created
               \* and destroyed since the old state (RFC 8620, 5.2)

ASSUME ConstantsAssumption ==
    /\ Start \in Nat /\ MaxState \in Nat
    /\ Omitted \subseteq Id
    /\ Unborn # Gone
    /\ \A K \in SUBSET Keyword : K \notin {Out, Unborn, Gone}

VARIABLES
    \* the server
    mail,       \* Id -> keywords, or Unborn, Gone
    birth,      \* Id -> Email state of its creation (0: never)
    stamp,      \* Id -> Email state of its last change (0: never)
    srv,        \* current Email state
    \* the call in progress
    pc,
    cursor,     \* the state reached by the Email/changes rounds
    ids,        \* created_ids, updated_ids, destroyed_ids so far
    new,        \* Email/get of the created ids: Id -> keywords, or Out
    upd,        \* Email/get of the updated ids
    \* the caller
    state,      \* the stored Email state, or NoState
    ancestor    \* Id -> keywords, or Out: the account at the last sync

server == <<mail, birth, stamp, srv>>
call == <<pc, cursor, ids, new, upd>>
vars == <<server, call, state, ancestor>>

-----------------------------------------------------------------------------
NoState == -1
Entry == {Out} \union SUBSET Keyword
Mail == {Unborn, Gone} \union SUBSET Keyword
Nothing == [i \in Id |-> Out]
NoIds == [created |-> {}, updated |-> {}, destroyed |-> {}]

View(i) == IF mail[i] \in {Unborn, Gone} THEN Out ELSE mail[i]

Idle ==
    /\ pc' = "idle" /\ cursor' = NoState /\ ids' = NoIds
    /\ new' = Nothing /\ upd' = Nothing

Init ==
    /\ srv = Start
    /\ mail \in [Id -> Mail]
    /\ birth \in [Id -> 0..Start] /\ stamp \in [Id -> 0..Start]
    /\ \A i \in Id : /\ mail[i] = Unborn <=> birth[i] = 0
                     /\ birth[i] = 0 <=> stamp[i] = 0
                     /\ birth[i] <= stamp[i]
                     /\ mail[i] = Gone => birth[i] < stamp[i]
    /\ pc = "idle" /\ cursor = NoState /\ ids = NoIds
    /\ new = Nothing /\ upd = Nothing
    /\ state = NoState
    /\ ancestor = Nothing

-----------------------------------------------------------------------------
(* The other clients of the account.                                       *)

\* One email is created, changed or destroyed under the next state.
ServerChange(i) ==
    /\ srv < MaxState
    /\ mail[i] # Gone
    /\ \E m \in Mail \ {Unborn, mail[i]} :
           /\ mail[i] = Unborn => m # Gone
           /\ mail' = [mail EXCEPT ![i] = m]
    /\ srv' = srv + 1
    /\ stamp' = [stamp EXCEPT ![i] = srv + 1]
    /\ birth' = IF mail[i] = Unborn THEN [birth EXCEPT ![i] = srv + 1]
                ELSE birth
    /\ UNCHANGED <<call, state, ancestor>>

\* The Email/changes responses allowed from state s. Every change up to the
\* answered state is in, each id in one list; an id that changed again
\* later may be in. What was created and destroyed in between may be told
\* as destroyed, or left out by a server that does so.
ChangesFrom(s) ==
    {c \in [created : SUBSET Id, updated : SUBSET Id, destroyed : SUBSET Id,
            upto : s..srv] :
        /\ c.upto < srv => s < c.upto
        /\ \A i \in Id :
               /\ i \in c.created =>
                      /\ s < birth[i] /\ birth[i] <= c.upto
                      /\ mail[i] = Gone => c.upto < stamp[i]
               /\ i \in c.updated =>
                      /\ birth[i] <= s /\ s < stamp[i]
                      /\ mail[i] = Gone => c.upto < stamp[i]
               /\ i \in c.destroyed =>
                      mail[i] = Gone /\ s < stamp[i] /\ stamp[i] <= c.upto
               /\ s < birth[i] /\ birth[i] <= c.upto /\ mail[i] # Gone
                      => i \in c.created
               /\ birth[i] <= s /\ s < stamp[i] /\ stamp[i] <= c.upto
                      /\ mail[i] # Gone
                      => i \in c.updated
               /\ s < stamp[i] /\ stamp[i] <= c.upto /\ mail[i] = Gone
                      => i \in c.destroyed \/ (i \in Omitted /\ s < birth[i])}

-----------------------------------------------------------------------------
(* diff_envelopes.                                                         *)

\* No checkpoint, or one that does not decode: diff_baseline.
StartBaseline ==
    /\ pc = "idle"
    /\ pc' = "baseline"
    /\ UNCHANGED <<server, cursor, ids, new, upd, state, ancestor>>

StartChanges ==
    /\ pc = "idle" /\ state # NoState
    /\ pc' = "changes" /\ cursor' = state
    /\ UNCHANGED <<server, ids, new, upd, state, ancestor>>

\* Mutant of Changes: each round replaces what the earlier ones collected.
ChangesForgetsRounds ==
    /\ pc = "changes"
    /\ \E c \in ChangesFrom(cursor) :
           /\ ids' = [created |-> c.created, updated |-> c.updated,
                      destroyed |-> c.destroyed]
           /\ cursor' = c.upto
           /\ pc' = IF c.upto < srv THEN "changes" ELSE "created"
    /\ UNCHANGED <<server, new, upd, state, ancestor>>

\* One round; the loop ends when hasMoreChanges clears.
Changes ==
    /\ pc = "changes"
    /\ \E c \in ChangesFrom(cursor) :
           /\ ids' = [created |-> ids.created \union c.created,
                      updated |-> ids.updated \union c.updated,
                      destroyed |-> ids.destroyed \union c.destroyed]
           /\ cursor' = c.upto
           /\ pc' = IF c.upto < srv THEN "changes" ELSE "created"
    /\ UNCHANGED <<server, new, upd, state, ancestor>>

\* Mutant of CannotCalculate: the rounds' ids are left behind.
CannotCalculateKeepsIds ==
    /\ pc = "changes"
    /\ pc' = "baseline" /\ cursor' = NoState
    /\ UNCHANGED <<server, ids, new, upd, state, ancestor>>

\* cannotCalculateChanges, in any round: what the rounds collected is
\* dropped.
CannotCalculate ==
    /\ pc = "changes"
    /\ pc' = "baseline" /\ cursor' = NoState /\ ids' = NoIds
    /\ UNCHANGED <<server, new, upd, state, ancestor>>

\* Email/get of the created ids, unless there are none.
GetCreated ==
    /\ pc = "created"
    /\ new' = [i \in Id |-> IF i \in ids.created THEN View(i) ELSE Out]
    /\ pc' = "updated"
    /\ UNCHANGED <<server, cursor, ids, upd, state, ancestor>>

\* Email/get of the updated ids, unless there are none.
GetUpdated ==
    /\ pc = "updated"
    /\ upd' = [i \in Id |-> IF i \in ids.updated THEN View(i) ELSE Out]
    /\ pc' = "diffed"
    /\ UNCHANGED <<server, cursor, ids, new, state, ancestor>>

\* The three buckets applied to the ancestor's entry for i. Nothing says
\* whether flag updates go before or after the new envelopes.
Applied(i, flagsLast) ==
    IF i \in ids.destroyed THEN Out
    ELSE IF new[i] # Out
         THEN IF flagsLast /\ upd[i] # Out THEN upd[i] ELSE new[i]
    ELSE IF upd[i] # Out /\ ancestor[i] # Out THEN upd[i]
    ELSE ancestor[i]

\* Mutant of Apply: the checkpoint is the state at the last Email/get.
ApplyTakesGetState ==
    /\ pc = "diffed"
    /\ \E flagsLast \in BOOLEAN :
           ancestor' = [i \in Id |-> Applied(i, flagsLast)]
    /\ state' = srv
    /\ Idle
    /\ UNCHANGED server

\* Incremental: the caller stores the last round's state with the result.
Apply ==
    /\ pc = "diffed"
    /\ \E flagsLast \in BOOLEAN :
           ancestor' = [i \in Id |-> Applied(i, flagsLast)]
    /\ state' = cursor
    /\ Idle
    /\ UNCHANGED server

\* diff_baseline: an empty Email/get, for its state.
Baseline ==
    /\ pc = "baseline"
    /\ cursor' = srv
    /\ pc' = "listing"
    /\ UNCHANGED <<server, ids, new, upd, state, ancestor>>

\* FullListRequired: the caller lists, and stores the listing with the
\* state the baseline took before it.
List ==
    /\ pc = "listing"
    /\ ancestor' = [i \in Id |-> View(i)]
    /\ state' = cursor
    /\ Idle
    /\ UNCHANGED server

\* A request fails, or the caller is gone before it stored anything.
Fail ==
    /\ pc # "idle"
    /\ Idle
    /\ UNCHANGED <<server, state, ancestor>>

-----------------------------------------------------------------------------
Next ==
    \/ \E i \in Id : ServerChange(i)
    \/ StartBaseline \/ StartChanges \/ Changes \/ CannotCalculate
    \/ GetCreated \/ GetUpdated \/ Apply
    \/ Baseline \/ List \/ Fail

Spec == Init /\ [][Next]_vars

-----------------------------------------------------------------------------
(* Properties.                                                             *)

\* Every variable keeps its shape, and a call that gave up on Email/changes
\* keeps nothing of its rounds.
TypeOK ==
    /\ mail \in [Id -> Mail] /\ birth \in [Id -> Nat] /\ stamp \in [Id -> Nat]
    /\ srv \in Nat
    /\ pc \in {"idle", "baseline", "listing", "changes", "created", "updated",
              "diffed"}
    /\ cursor \in Nat \union {NoState} /\ state \in Nat \union {NoState}
    /\ ids \in [created : SUBSET Id, updated : SUBSET Id, destroyed : SUBSET Id]
    /\ new \in [Id -> Entry] /\ upd \in [Id -> Entry]
    /\ ancestor \in [Id -> Entry]
    /\ pc \in {"idle", "baseline", "listing"} => ids = NoIds
    /\ pc \in {"changes", "created", "updated", "diffed", "listing"} =>
           cursor # NoState

\* The server is free to say nothing of i's destruction.
Unsaid(i) == i \in Omitted /\ View(i) = Out

\* The next Email/changes from state s mends entry e of email i: it names
\* the email, and as created if e does not know it.
Mended(i, e, s) ==
    \/ e = View(i)
    \/ s < stamp[i] /\ (View(i) = Out \/ e # Out \/ s < birth[i])

\* Whatever happened between the requests of any earlier diff, and
\* whichever of them failed, the stored state is old enough for the stored
\* ancestor: every email it has wrong, the next diff reports. Of an email
\* created and destroyed between two syncs the server may say nothing.
StaleIsReported ==
    state # NoState => \A i \in Id : Unsaid(i) \/ Mended(i, ancestor[i], state)

\* A diff that ends with no change after its last Email/changes leaves the
\* ancestor equal to the account, however many rounds it took and in
\* whichever order the buckets are applied; but for an email the server says
\* nothing of, that came after the diff's start or was gone before it.
QuietSyncIsExact ==
    pc = "diffed" /\ (\A i \in Id : stamp[i] <= cursor) =>
        \A i \in Id, flagsLast \in BOOLEAN :
            \/ Applied(i, flagsLast) = View(i)
            \/ Unsaid(i) /\ ~(birth[i] <= state /\ state < stamp[i])
=============================================================================
