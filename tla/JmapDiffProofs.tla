--------------------------- MODULE JmapDiffProofs ---------------------------
(***************************************************************************)
(* What holds of the JMAP envelope diff for every account, number of       *)
(* changes and number of Email/changes rounds, whichever short-lived       *)
(* emails Email/changes omits.                                             *)
(***************************************************************************)
EXTENDS JmapDiff, TLAPS

-----------------------------------------------------------------------------
(* The inductive invariant.                                                *)

\* States are taken in order; an id without one was never used.
ServerOK ==
    \A i \in Id : /\ mail[i] = Unborn <=> birth[i] = 0
                  /\ birth[i] = 0 <=> stamp[i] = 0
                  /\ birth[i] <= stamp[i] /\ stamp[i] <= srv

\* The checkpoint and the cursor are of the past.
PastOK == state <= srv /\ cursor <= srv

Diffing == pc \in {"changes", "created", "updated", "diffed"}

\* What the rounds collected is about emails that exist or existed.
IdsOK ==
    \A i \in Id : /\ i \in ids.created \union ids.updated => mail[i] # Unborn
                  /\ i \in ids.destroyed => mail[i] = Gone

\* The rounds of this diff need not have told of i.
Excused(i) == Unsaid(i) /\ ~(birth[i] <= state /\ state < stamp[i])

\* Up to the cursor, the rounds have named every email the ancestor has
\* wrong; a later change of it is for a round to come, or for the next diff.
Told(i) ==
    \/ Excused(i)
    \/ ancestor[i] = View(i)
    \/ View(i) # Out /\ i \in ids.created
    \/ View(i) # Out /\ i \in ids.updated /\ ancestor[i] # Out
    \/ mail[i] = Gone /\ i \in ids.destroyed
    \/ /\ cursor < stamp[i]
       /\ \/ View(i) = Out
          \/ ancestor[i] # Out
          \/ cursor < birth[i]
          \/ i \in ids.created

\* Email/get answered S with entries e: right, or changed since, and an id
\* it did not find is destroyed for good.
Fetched(S, e) ==
    \A i \in Id :
        /\ e[i] # Out => i \in S
        /\ i \in S => e[i] = View(i) \/ cursor < stamp[i]
        /\ i \in S /\ e[i] = Out => mail[i] = Gone

Inv ==
    /\ TypeOK /\ ServerOK /\ PastOK /\ StaleIsReported
    /\ Diffing => IdsOK /\ (\A i \in Id : Told(i)) /\ state <= cursor
    /\ pc \in {"updated", "diffed"} => Fetched(ids.created, new)
    /\ pc = "diffed" => Fetched(ids.updated, upd)

-----------------------------------------------------------------------------
(* Facts about the operators.                                              *)

\* A view is an entry; it is Out exactly for an email that does not exist.
LEMMA ViewType ==
    ASSUME TypeOK, NEW i \in Id
    PROVE  /\ View(i) \in Entry
           /\ View(i) = Out <=> mail[i] \in {Unborn, Gone}
BY ConstantsAssumption DEF TypeOK, View, Mail, Entry

\* The initial states satisfy the invariant.
LEMMA InitInv == Init => Inv
<1> SUFFICES ASSUME Init PROVE Inv
    OBVIOUS
<1>1. TypeOK
    BY ConstantsAssumption DEF Init, TypeOK, NoState, Nothing, Entry, NoIds
<1>2. ServerOK
    BY ConstantsAssumption DEF Init, ServerOK
<1>3. PastOK /\ StaleIsReported
    BY ConstantsAssumption DEF Init, PastOK, NoState, StaleIsReported
<1> QED
    BY <1>1, <1>2, <1>3 DEF Init, Inv, Diffing

-----------------------------------------------------------------------------
(* The other clients.                                                      *)

\* A change takes a state above every checkpoint and cursor, so whatever it
\* makes wrong is still to be reported.
LEMMA ServerChangeInv ==
    ASSUME Inv, NEW w \in Id, ServerChange(w)
    PROVE  Inv'
<1>1. /\ TypeOK /\ ServerOK /\ PastOK /\ StaleIsReported
      /\ UNCHANGED <<call, state, ancestor>>
    BY DEF Inv, ServerChange
<1>2. PICK m \in Mail \ {Unborn, mail[w]} :
          /\ mail[w] = Unborn => m # Gone
          /\ mail' = [mail EXCEPT ![w] = m]
    BY DEF ServerChange
<1>3. /\ mail[w] # Gone
      /\ srv' = srv + 1
      /\ stamp' = [stamp EXCEPT ![w] = srv + 1]
      /\ birth' = IF mail[w] = Unborn THEN [birth EXCEPT ![w] = srv + 1]
                  ELSE birth
    BY DEF ServerChange
<1>4. TypeOK'
    BY <1>1, <1>2, <1>3 DEF TypeOK, call
<1>5. ServerOK'
    BY <1>1, <1>2, <1>3 DEF ServerOK, TypeOK
<1>6. PastOK'
    BY <1>1, <1>3 DEF PastOK, TypeOK, call, NoState
<1>7. ASSUME NEW i \in Id, i # w
      PROVE  mail'[i] = mail[i] /\ birth'[i] = birth[i] /\ stamp'[i] = stamp[i]
             /\ View(i)' = View(i) /\ Unsaid(i)' = Unsaid(i)
    BY <1>1, <1>2, <1>3, <1>7 DEF TypeOK, View, Unsaid
<1>8. /\ stamp'[w] = srv + 1
      /\ mail'[w] # Unborn
      /\ \/ View(w)' = Out
         \/ View(w) # Out
         \/ birth'[w] = srv + 1
      /\ birth'[w] \in {birth[w], srv + 1}
    <2>1. stamp'[w] = srv + 1 /\ mail'[w] = m
        BY <1>1, <1>2, <1>3 DEF TypeOK
    <2>2. /\ mail[w] = Unborn => birth'[w] = srv + 1
          /\ birth'[w] \in {birth[w], srv + 1}
        BY <1>1, <1>3 DEF TypeOK
    <2>3. mail[w] # Unborn => View(w) # Out
        BY <1>1, <1>3, ViewType
    <2> QED
        BY <2>1, <2>2, <2>3, <1>2
<1>9. StaleIsReported'
    <2>1. ASSUME state # NoState, NEW i \in Id
          PROVE  (Unsaid(i) \/ Mended(i, ancestor[i], state))'
        <3>0. (Unsaid(i) \/ Mended(i, ancestor[i], state)) /\ state < srv + 1
              /\ state' = state /\ ancestor' = ancestor
            BY <1>1, <2>1 DEF StaleIsReported, PastOK, TypeOK
        <3>1. CASE i # w
            BY <1>7, <3>0, <3>1 DEF Mended
        <3>2. CASE i = w
            BY <1>8, <3>0, <3>2 DEF Mended, Unsaid
        <3> QED
            BY <3>1, <3>2
    <2> QED
        BY <1>1, <2>1 DEF StaleIsReported
<1>10. ASSUME Diffing
       PROVE  IdsOK' /\ (\A i \in Id : Told(i)') /\ state' <= cursor'
    <2>1. IdsOK /\ (\A i \in Id : Told(i)) /\ cursor < srv + 1
          /\ state <= cursor /\ state' = state
          /\ ids' = ids /\ cursor' = cursor /\ ancestor' = ancestor
        BY <1>1, <1>10 DEF Inv, PastOK, TypeOK, call, NoState
    <2>2. IdsOK'
        BY <2>1, <1>3, <1>7, <1>8 DEF IdsOK
    <2>3. ASSUME NEW i \in Id PROVE Told(i)'
        <3>1. CASE i # w
            BY <1>7, <2>1, <3>1 DEF Told, Excused
        <3>2. CASE i = w
            BY <1>3, <1>8, <2>1, <3>2 DEF Told, Excused, Unsaid
        <3> QED
            BY <3>1, <3>2
    <2> QED
        BY <2>1, <2>2, <2>3
<1>11. ASSUME Diffing, NEW S \in SUBSET Id, NEW e, Fetched(S, e),
              \A i \in S : mail[i] # Unborn
       PROVE  \A i \in Id : /\ e[i] # Out => i \in S
                            /\ i \in S => e[i] = View(i)' \/ cursor < stamp'[i]
                            /\ i \in S /\ e[i] = Out => mail'[i] = Gone
    <2>1. cursor < srv + 1
        BY <1>1 DEF PastOK, TypeOK, NoState
    <2> QED
        BY <1>3, <1>7, <1>8, <1>11, <2>1 DEF Fetched
<1>12. ASSUME pc \in {"updated", "diffed"} PROVE Fetched(ids.created, new)'
    <2>1. /\ Fetched(ids.created, new) /\ Diffing
          /\ ids.created \in SUBSET Id
          /\ \A i \in ids.created : mail[i] # Unborn
        BY <1>1, <1>12 DEF Inv, Diffing, IdsOK, TypeOK
    <2> QED
        BY <1>1, <1>11, <2>1 DEF Fetched, call
<1>13. ASSUME pc = "diffed" PROVE Fetched(ids.updated, upd)'
    <2>1. /\ Fetched(ids.updated, upd) /\ Diffing
          /\ ids.updated \in SUBSET Id
          /\ \A i \in ids.updated : mail[i] # Unborn
        BY <1>1, <1>13 DEF Inv, Diffing, IdsOK, TypeOK
    <2> QED
        BY <1>1, <1>11, <2>1 DEF Fetched, call
<1> QED
    BY <1>1, <1>4, <1>5, <1>6, <1>9, <1>10, <1>12, <1>13 DEF Inv, Diffing, call

-----------------------------------------------------------------------------
(* The diff.                                                               *)

\* A step that ends the call leaves no obligation but the caller's.
LEMMA IdleInv ==
    ASSUME Inv, Idle, UNCHANGED server, state' \in Nat \union {NoState},
           state' <= srv, ancestor' \in [Id -> Entry], StaleIsReported'
    PROVE  Inv'
<1>1. TypeOK'
    BY DEF Inv, TypeOK, Idle, server, NoIds, Nothing, Entry
<1>2. ServerOK' /\ PastOK'
    BY DEF Inv, TypeOK, ServerOK, PastOK, Idle, server, NoState
<1> QED
    BY <1>1, <1>2 DEF Inv, Idle, Diffing

\* A call begins with what the caller has, and is told nothing yet.
LEMMA StartInv ==
    ASSUME Inv, StartBaseline \/ StartChanges
    PROVE  Inv'
<1>1. CASE StartBaseline
    BY <1>1
    DEF Inv, TypeOK, ServerOK, PastOK, StaleIsReported, Mended, Unsaid, View,
        Diffing, StartBaseline, server
<1>2. CASE StartChanges
    <2>1. TypeOK'
        BY <1>2 DEF Inv, TypeOK, StartChanges, server, NoState
    <2>2. ServerOK' /\ PastOK' /\ StaleIsReported'
        BY <1>2 DEF Inv, ServerOK, PastOK, StaleIsReported, Mended, Unsaid,
                    View, StartChanges, server
    <2>3. IdsOK'
        BY <1>2 DEF Inv, TypeOK, IdsOK, StartChanges, server, NoIds
    <2>4. ASSUME NEW i \in Id PROVE Told(i)'
        <3>1. Unsaid(i) \/ Mended(i, ancestor[i], state)
            BY <1>2 DEF Inv, StaleIsReported, StartChanges
        <3> QED
            BY <1>2, <3>1
            DEF Told, Excused, Unsaid, Mended, View, StartChanges, server
    <2>5. state' <= cursor'
        BY <1>2 DEF Inv, TypeOK, StartChanges
    <2> QED
        BY <1>2, <2>5, <2>1, <2>2, <2>3, <2>4 DEF Inv, Diffing, StartChanges
<1> QED
    BY <1>1, <1>2

\* A round names every change it covers, whatever the earlier rounds told.
LEMMA ChangesInv ==
    ASSUME Inv, Changes
    PROVE  Inv'
<1>1. PICK c \in ChangesFrom(cursor) :
          /\ ids' = [created |-> ids.created \union c.created,
                     updated |-> ids.updated \union c.updated,
                     destroyed |-> ids.destroyed \union c.destroyed]
          /\ cursor' = c.upto
          /\ pc' = IF c.upto < srv THEN "changes" ELSE "created"
    BY DEF Changes
<1>2. /\ TypeOK /\ ServerOK /\ PastOK /\ StaleIsReported /\ IdsOK
      /\ (\A i \in Id : Told(i)) /\ state <= cursor
      /\ pc = "changes" /\ UNCHANGED <<server, new, upd, state, ancestor>>
    BY DEF Inv, Changes, Diffing
<1>3. cursor \in Nat /\ cursor <= srv /\ srv \in Nat
      /\ state \in Int /\ state <= cursor
    BY <1>2 DEF TypeOK, PastOK, NoState
<1>4. /\ c.created \in SUBSET Id /\ c.updated \in SUBSET Id
      /\ c.destroyed \in SUBSET Id
      /\ c.upto \in Nat /\ cursor <= c.upto /\ c.upto <= srv
    BY <1>3 DEF ChangesFrom
<1>5. ASSUME NEW i \in Id
      PROVE  /\ i \in c.created => cursor < birth[i]
             /\ i \in c.updated => cursor < stamp[i]
             /\ i \in c.destroyed => mail[i] = Gone
             /\ cursor < birth[i] /\ birth[i] <= c.upto /\ mail[i] # Gone
                    => i \in c.created
             /\ birth[i] <= cursor /\ cursor < stamp[i] /\ stamp[i] <= c.upto
                    /\ mail[i] # Gone
                    => i \in c.updated
             /\ cursor < stamp[i] /\ stamp[i] <= c.upto /\ mail[i] = Gone
                    => i \in c.destroyed \/ (i \in Omitted /\ cursor < birth[i])
    BY DEF ChangesFrom
<1>6. TypeOK'
    BY <1>1, <1>2, <1>4 DEF TypeOK, server, NoState
<1>7. ServerOK' /\ PastOK' /\ StaleIsReported'
    BY <1>1, <1>2, <1>4
    DEF ServerOK, PastOK, StaleIsReported, Mended, Unsaid, View, server
<1>8. IdsOK'
    <2>1. \A i \in Id : /\ i \in c.created \union c.updated => mail[i] # Unborn
                        /\ i \in c.destroyed => mail[i] = Gone
        BY <1>2, <1>3, <1>5 DEF ServerOK, TypeOK
    <2> QED
        BY <1>1, <1>2, <2>1 DEF IdsOK, server
<1>9. ASSUME NEW i \in Id PROVE Told(i)'
    <2>1. Told(i) /\ birth[i] \in Nat /\ stamp[i] \in Nat
        BY <1>2 DEF TypeOK
    <2>2. /\ View(i)' = View(i) /\ ancestor' = ancestor /\ mail' = mail
          /\ stamp' = stamp /\ birth' = birth /\ Excused(i)' = Excused(i)
        BY <1>2 DEF View, Excused, Unsaid, server
    <2>3. /\ View(i) = Out <=> mail[i] \in {Unborn, Gone}
          /\ mail[i] = Unborn => stamp[i] = 0
          /\ birth[i] <= stamp[i]
        BY <1>2, ViewType DEF ServerOK
    <2>4. CASE cursor < stamp[i] /\ stamp[i] <= c.upto
        <3>1. CASE mail[i] = Gone
            <4>1. i \in c.destroyed \/ (i \in Omitted /\ cursor < birth[i])
                BY <1>5, <2>4, <3>1
            <4>2. CASE i \in c.destroyed
                BY <1>1, <2>2, <3>1, <4>2 DEF Told
            <4>3. CASE i \in Omitted /\ cursor < birth[i]
                <5>1. Excused(i)
                    BY <1>3, <2>1, <2>3, <3>1, <4>3 DEF Excused, Unsaid
                <5> QED
                    BY <2>2, <5>1 DEF Told
            <4> QED
                BY <4>1, <4>2, <4>3
        <3>2. CASE mail[i] # Gone
            <4>1. View(i) # Out
                BY <1>3, <2>1, <2>3, <2>4, <3>2
            <4>2. cursor < birth[i] => i \in c.created
                BY <1>3, <1>4, <1>5, <2>1, <2>3, <2>4, <3>2
            <4>3. birth[i] <= cursor => i \in c.updated
                BY <1>5, <2>4, <3>2
            <4> QED
                BY <1>1, <1>3, <2>1, <2>2, <4>1, <4>2, <4>3 DEF Told
        <3> QED
            BY <3>1, <3>2
    <2>5. CASE c.upto < stamp[i]
        <3>1. \/ Excused(i)
              \/ View(i) = Out
              \/ ancestor[i] # Out
              \/ cursor < birth[i]
              \/ i \in ids.created
            BY <2>1, <2>3 DEF Told
        <3>2. cursor < birth[i] =>
                  View(i) = Out \/ c.upto < birth[i] \/ i \in c.created
            BY <1>4, <1>5, <2>1, <2>3
        <3> QED
            BY <1>1, <2>2, <2>5, <3>1, <3>2 DEF Told
    <2>6. CASE ~(cursor < stamp[i])
        BY <1>1, <2>1, <2>2, <2>6 DEF Told
    <2> QED
        BY <1>3, <1>4, <2>1, <2>4, <2>5, <2>6
<1>10. state' <= cursor'
    BY <1>1, <1>2, <1>3, <1>4
<1> QED
    BY <1>1, <1>6, <1>7, <1>8, <1>9, <1>10 DEF Inv, Diffing

\* The two Email/get tell what is there when they are answered.
LEMMA GetInv ==
    ASSUME Inv, GetCreated \/ GetUpdated
    PROVE  Inv'
<1>1. /\ TypeOK /\ ServerOK /\ PastOK /\ StaleIsReported /\ IdsOK
      /\ (\A i \in Id : Told(i)) /\ state <= cursor
      /\ UNCHANGED <<server, cursor, ids, state, ancestor>>
    BY DEF Inv, Diffing, GetCreated, GetUpdated
<1>2. ServerOK' /\ PastOK' /\ StaleIsReported' /\ IdsOK'
      /\ (\A i \in Id : Told(i)') /\ state' <= cursor'
    BY <1>1
    DEF ServerOK, PastOK, StaleIsReported, IdsOK, Told, Excused, Unsaid,
        Mended, View, server
<1>3. \A i \in Id : View(i) \in Entry /\ View(i)' = View(i)
    BY <1>1, ViewType DEF View, server
<1>4. \A i \in ids.created \union ids.updated : View(i) = Out => mail[i] = Gone
    BY <1>1, ViewType DEF IdsOK, TypeOK
<1>5. CASE GetCreated
    <2>1. TypeOK'
        BY <1>1, <1>3, <1>5 DEF TypeOK, GetCreated, server, Entry
    <2>2. Fetched(ids.created, new)'
        BY <1>1, <1>3, <1>4, <1>5 DEF Fetched, GetCreated, server
    <2> QED
        BY <1>2, <1>5, <2>1, <2>2 DEF Inv, GetCreated
<1>6. CASE GetUpdated
    <2>1. TypeOK'
        BY <1>1, <1>3, <1>6 DEF TypeOK, GetUpdated, server, Entry
    <2>2. Fetched(ids.updated, upd)'
        BY <1>1, <1>3, <1>4, <1>6 DEF Fetched, GetUpdated, server
    <2>3. Fetched(ids.created, new)'
        BY <1>1, <1>3, <1>6 DEF Inv, Fetched, GetUpdated, server
    <2> QED
        BY <1>2, <1>6, <2>1, <2>2, <2>3 DEF Inv, GetUpdated
<1> QED
    BY <1>5, <1>6

\* The buckets mend the ancestor up to the cursor, in either order.
LEMMA BucketsMend ==
    ASSUME Inv, pc = "diffed", NEW i \in Id, NEW flagsLast \in BOOLEAN
    PROVE  /\ Applied(i, flagsLast) \in Entry
           /\ Excused(i) \/ Mended(i, Applied(i, flagsLast), cursor)
<1>1. /\ TypeOK /\ IdsOK /\ Told(i)
      /\ Fetched(ids.created, new) /\ Fetched(ids.updated, upd)
    BY DEF Inv, Diffing
<1>2. View(i) = Out <=> mail[i] \in {Unborn, Gone}
    BY <1>1, ViewType
<1>3. Applied(i, flagsLast) \in Entry
    BY <1>1 DEF Applied, TypeOK, Entry
<1>4. CASE i \in ids.destroyed
    BY <1>1, <1>2, <1>3, <1>4 DEF IdsOK, Applied, Mended
<1>5. CASE i \notin ids.destroyed /\ new[i] # Out
    BY <1>1, <1>3, <1>5 DEF Fetched, Applied, Mended
<1>6. CASE i \notin ids.destroyed /\ new[i] = Out
    <2>1. CASE upd[i] # Out /\ ancestor[i] # Out
        BY <1>1, <1>3, <1>6, <2>1 DEF Fetched, Applied, Mended
    <2>2. CASE ~(upd[i] # Out /\ ancestor[i] # Out)
        <3>1. Applied(i, flagsLast) = ancestor[i]
            BY <1>6, <2>2 DEF Applied
        <3>2. i \in ids.created => View(i) = Out
            BY <1>1, <1>2, <1>6 DEF Fetched
        <3>3. i \in ids.updated /\ ancestor[i] # Out => View(i) = Out
            BY <1>1, <1>2, <2>2 DEF Fetched
        <3> QED
            BY <1>1, <1>3, <1>6, <3>1, <3>2, <3>3 DEF Told, Mended
    <2> QED
        BY <2>1, <2>2
<1> QED
    BY <1>3, <1>4, <1>5, <1>6

\* The caller stores the result with the state of the last round.
LEMMA ApplyInv ==
    ASSUME Inv, Apply
    PROVE  Inv'
<1>1. PICK flagsLast \in BOOLEAN :
          ancestor' = [i \in Id |-> Applied(i, flagsLast)]
    BY DEF Apply
<1>2. /\ pc = "diffed" /\ state' = cursor /\ Idle /\ UNCHANGED server
    BY DEF Apply
<1>3. cursor \in Nat /\ cursor <= srv
    BY <1>2 DEF Inv, TypeOK, PastOK
<1>4. ancestor' \in [Id -> Entry]
    BY <1>1, <1>2, BucketsMend
<1>5. ASSUME NEW i \in Id
      PROVE  (Unsaid(i) \/ Mended(i, ancestor[i], state))'
    <2>1. Excused(i) \/ Mended(i, Applied(i, flagsLast), cursor)
        BY <1>2, BucketsMend
    <2> QED
        BY <1>1, <1>2, <2>1 DEF Mended, Excused, Unsaid, View, server
<1>6. StaleIsReported'
    BY <1>5 DEF StaleIsReported
<1> QED
    BY <1>2, <1>3, <1>4, <1>6, IdleInv

\* Falling back to the baseline, listing, and giving up.
LEMMA BaselineInv ==
    ASSUME Inv, CannotCalculate \/ Baseline \/ List \/ Fail
    PROVE  Inv'
<1>1. CASE CannotCalculate \/ Baseline
    <2>1. TypeOK'
        BY <1>1 DEF Inv, TypeOK, CannotCalculate, Baseline, server, NoIds,
                    NoState
    <2>2. ServerOK' /\ PastOK' /\ StaleIsReported'
        BY <1>1 DEF Inv, TypeOK, ServerOK, PastOK, StaleIsReported, Mended,
                    Unsaid, View, CannotCalculate, Baseline, server, NoState
    <2> QED
        BY <1>1, <2>1, <2>2 DEF Inv, Diffing, CannotCalculate, Baseline
<1>2. CASE List
    <2>1. /\ ancestor' = [i \in Id |-> View(i)] /\ state' = cursor
          /\ Idle /\ UNCHANGED server /\ pc = "listing"
        BY <1>2 DEF List
    <2>2. cursor \in Nat /\ cursor <= srv
        BY <2>1 DEF Inv, TypeOK, PastOK
    <2>3. ancestor' \in [Id -> Entry]
        BY <2>1, ViewType DEF Inv
    <2>4. StaleIsReported'
        BY <2>1 DEF StaleIsReported, Mended, View, server
    <2> QED
        BY <2>1, <2>2, <2>3, <2>4, IdleInv
<1>3. CASE Fail
    <2>1. Idle /\ UNCHANGED <<server, state, ancestor>>
        BY <1>3 DEF Fail
    <2>2. StaleIsReported' /\ state \in Nat \union {NoState} /\ state <= srv
          /\ ancestor \in [Id -> Entry]
        BY <2>1 DEF Inv, TypeOK, PastOK, StaleIsReported, Mended, Unsaid,
                    View, server
    <2> QED
        BY <2>1, <2>2, IdleInv
<1> QED
    BY <1>1, <1>2, <1>3

-----------------------------------------------------------------------------
(* The theorems.                                                           *)

\* Every step keeps the invariant.
LEMMA NextInv == Inv /\ [Next]_vars => Inv'
<1> SUFFICES ASSUME Inv, [Next]_vars PROVE Inv'
    OBVIOUS
<1>1. CASE \E i \in Id : ServerChange(i)
    BY <1>1, ServerChangeInv
<1>2. CASE StartBaseline \/ StartChanges
    BY <1>2, StartInv
<1>3. CASE Changes
    BY <1>3, ChangesInv
<1>4. CASE GetCreated \/ GetUpdated
    BY <1>4, GetInv
<1>5. CASE Apply
    BY <1>5, ApplyInv
<1>6. CASE CannotCalculate \/ Baseline \/ List \/ Fail
    BY <1>6, BaselineInv
<1>7. CASE UNCHANGED vars
    BY <1>7
    DEF Inv, TypeOK, ServerOK, PastOK, StaleIsReported, Diffing, IdsOK, Told,
        Excused, Unsaid, Fetched, Mended, View, vars, server, call
<1> QED
    BY <1>1, <1>2, <1>3, <1>4, <1>5, <1>6, <1>7 DEF Next

\* The rounds name everything the ancestor has wrong, whatever changes,
\* fails or gives up between two requests.
THEOREM InvCorrect == Spec => []Inv
<1> QED
    BY InitInv, NextInv, PTL DEF Spec

\* The variables of a diff keep their shape, and a call that gave up keeps
\* nothing of its rounds.
THEOREM TypeCorrect == Spec => []TypeOK
<1>1. Inv => TypeOK
    BY DEF Inv
<1> QED
    BY <1>1, InvCorrect, PTL

\* Every email the stored ancestor has wrong is reported by the next diff
\* from the stored state; of an email that is gone a server may keep silent.
THEOREM StaleReported == Spec => []StaleIsReported
<1>1. Inv => StaleIsReported
    BY DEF Inv
<1> QED
    BY <1>1, InvCorrect, PTL

\* A diff with no change after its last round leaves the ancestor equal to
\* the account, but for a destroyed email the server need not tell of.
THEOREM QuietSyncExact == Spec => []QuietSyncIsExact
<1>1. Inv => QuietSyncIsExact
    <2> SUFFICES ASSUME Inv, pc = "diffed", \A i \in Id : stamp[i] <= cursor,
                        NEW i \in Id, NEW flagsLast \in BOOLEAN
                 PROVE  Applied(i, flagsLast) = View(i) \/ Excused(i)
        BY DEF QuietSyncIsExact, Excused
    <2>1. Excused(i) \/ Mended(i, Applied(i, flagsLast), cursor)
        BY BucketsMend
    <2>2. stamp[i] \in Nat /\ cursor \in Nat
        BY DEF Inv, TypeOK
    <2> QED
        BY <2>1, <2>2 DEF Mended
<1> QED
    BY <1>1, InvCorrect, PTL
=============================================================================
