-------------------------- MODULE JmapWatchProofs --------------------------
(***************************************************************************)
(* What holds of the JMAP watcher for every set of messages and keywords,  *)
(* every number of server changes and every server the assumptions allow:  *)
(* its type invariant, StaleIsCovered, PendingExplains, and that it        *)
(* implements MailboxFeed.                                                 *)
(***************************************************************************)
EXTENDS JmapWatch, FiniteSetTheorems, SequenceTheorems, TLAPS

-----------------------------------------------------------------------------
(* The operators the watcher is built from.                                *)

\* An entry of the mailbox view is a set of keywords or Out, and it is Out
\* for a message that is not in the mailbox.
LEMMA ViewType ==
    ASSUME mail \in [Id -> Mail], NEW i \in Id
    PROVE  View(i) \in Entry
BY DEF View, Mail, Entry

\* A delta concerns the message it is computed for.
LEMMA DeltasOfType ==
    ASSUME NEW i \in Id, NEW old \in Entry, NEW new \in Entry
    PROVE  /\ DeltasOf(i, old, new) \subseteq Events
           /\ \A e \in DeltasOf(i, old, new) : e.id = i
BY DEF DeltasOf, Event, Events, EventTypes, Entry

\* There is no delta exactly when nothing differs.
LEMMA NoDelta ==
    ASSUME NEW i \in Id, NEW old \in Entry, NEW new \in Entry
    PROVE  DeltasOf(i, old, new) = {} <=> old = new
<1>1. CASE old = new
    BY <1>1 DEF DeltasOf
<1>2. CASE old # new /\ (old = Out \/ new = Out)
    BY <1>2 DEF DeltasOf
<1>3. CASE old # new /\ old # Out /\ new # Out
    <2> DEFINE A == Event("FlagsAdded", i, new \ old)
               R == Event("FlagsRemoved", i, old \ new)
    <2>1. new \ old # {} \/ old \ new # {}
        BY <1>3 DEF Entry
    <2>2. A.flags = new \ old /\ R.flags = old \ new
        BY DEF Event
    <2>3. DeltasOf(i, old, new) = {e \in {A, R} : e.flags # {}}
        BY <1>3 DEF DeltasOf
    <2> HIDE DEF A, R
    <2> QED
        BY <1>3, <2>1, <2>2, <2>3
<1> QED
    BY <1>1, <1>2, <1>3

\* The deltas of a message carry at most one event of each type.
LEMMA OneDeltaPerType ==
    ASSUME NEW i \in Id, NEW old \in Entry, NEW new \in Entry,
           NEW d \in DeltasOf(i, old, new), NEW e \in DeltasOf(i, old, new),
           d.type = e.type
    PROVE  d = e
BY DEF DeltasOf, Event

\* The deltas between two shadows are events, finitely many, and those of a
\* message are found by its id.
LEMMA DeltasFacts ==
    ASSUME NEW old \in [Id -> Entry], NEW new \in [Id -> Entry]
    PROVE  /\ Deltas(old, new) \subseteq Events
           /\ \A i \in Id : {e \in Deltas(old, new) : e.id = i}
                                = DeltasOf(i, old[i], new[i])
           /\ Cardinality(Deltas(old, new)) \in Nat
<1> DEFINE E == Deltas(old, new)
           T == EventTypes \X Id
           f == [e \in E |-> <<e.type, e.id>>]
<1>1. \A i \in Id : /\ DeltasOf(i, old[i], new[i]) \subseteq Events
                    /\ \A e \in DeltasOf(i, old[i], new[i]) : e.id = i
    BY DeltasOfType
<1>2. E \subseteq Events
    BY <1>1 DEF Deltas
<1>3. \A i \in Id : {e \in E : e.id = i} = DeltasOf(i, old[i], new[i])
    BY <1>1 DEF Deltas
<1>4. f \in [E -> T]
    BY <1>2 DEF Events
<1>5. ASSUME NEW d \in E, NEW e \in E, f[d] = f[e]
      PROVE  d = e
    <2>1. d.type = e.type /\ d.id = e.id /\ d.id \in Id
        BY <1>2, <1>5 DEF Events
    <2>2. /\ d \in DeltasOf(d.id, old[d.id], new[d.id])
          /\ e \in DeltasOf(d.id, old[d.id], new[d.id])
        BY <1>3, <2>1
    <2>3. old[d.id] \in Entry /\ new[d.id] \in Entry
        BY <2>1
    <2> QED
        BY <2>1, <2>2, <2>3, OneDeltaPerType
<1>6. f \in Injection(E, T)
    BY <1>4, <1>5 DEF Injection, IsInjective
<1>7. IsFiniteSet(EventTypes)
    <2>1. IsFiniteSet({"EnvelopeAdded"})
        BY FS_Singleton
    <2>2. IsFiniteSet({"EnvelopeAdded"} \union {"EnvelopeRemoved"})
        BY <2>1, FS_AddElement
    <2>3. IsFiniteSet({"EnvelopeAdded"} \union {"EnvelopeRemoved"}
                         \union {"FlagsAdded"})
        BY <2>2, FS_AddElement
    <2>4. IsFiniteSet({"EnvelopeAdded"} \union {"EnvelopeRemoved"}
                         \union {"FlagsAdded"} \union {"FlagsRemoved"})
        BY <2>3, FS_AddElement
    <2>5. EventTypes = {"EnvelopeAdded"} \union {"EnvelopeRemoved"}
                         \union {"FlagsAdded"} \union {"FlagsRemoved"}
        BY DEF EventTypes
    <2> QED
        BY <2>4, <2>5
<1>8. IsFiniteSet(T)
    BY <1>7, FS_Product, ConstantsAssumption
<1>9. IsFiniteSet(E)
    BY <1>6, <1>8, FS_Injection
<1> QED
    BY <1>2, <1>3, <1>9, FS_CardinalityType

\* A queue of deltas is a sequence of events, each of them once.
LEMMA QueuesFacts ==
    ASSUME NEW old \in [Id -> Entry], NEW new \in [Id -> Entry],
           NEW q \in Queues(Deltas(old, new))
    PROVE  /\ q \in Seq(Events)
           /\ \A e \in Deltas(old, new) : \E k \in DOMAIN q : q[k] = e
           /\ \A k \in DOMAIN q : q[k] \in Deltas(old, new)
           /\ \A j, k \in DOMAIN q : q[j] = q[k] => j = k
<1> DEFINE E == Deltas(old, new)
           n == Cardinality(E)
<1>1. E \subseteq Events /\ n \in Nat
    BY DeltasFacts
<1>2. /\ q \in [1..n -> E]
      /\ \A e \in E : \E k \in DOMAIN q : q[k] = e
      /\ \A j, k \in DOMAIN q :
             q[j].id = q[k].id /\ j < k =>
                 q[j].type = "FlagsAdded" /\ q[k].type = "FlagsRemoved"
    BY DEF Queues
<1>3. q \in Seq(Events)
    BY <1>1, <1>2
<1>4. \A j, k \in DOMAIN q : q[j] = q[k] => j = k
    BY <1>1, <1>2
<1> QED
    BY <1>2, <1>3, <1>4

-----------------------------------------------------------------------------
(* Type correctness.                                                       *)

LEMMA InitType == Init => TypeOK
<1> SUFFICES ASSUME Init PROVE TypeOK
    OBVIOUS
<1>1. /\ mail \in [Id -> Mail] /\ stamp \in [Id -> Nat] /\ srv \in Nat
    BY ConstantsAssumption DEF Init
<1>2. [i \in Id |-> Out] \in [Id -> Entry]
    BY DEF Entry
<1>3. /\ chg \in [live : SUBSET Id, gone : SUBSET Id, upto : Nat]
      /\ seen \in [found : SUBSET Id, view : [Id -> Entry]]
    BY <1>2 DEF Init
<1>4. /\ shadow \in [Id -> Entry] /\ replica \in [Id -> Entry]
      /\ pending \in Seq(Events \union {KeepAlive})
    BY <1>2 DEF Init
<1> QED
    BY <1>1, <1>3, <1>4 DEF Init, TypeOK, NoState, NoChange

\* The server only moves its own state and what it has put on the wire.
LEMMA ServerType ==
    ASSUME TypeOK,
           \/ \E i \in Id : ServerChange(i)
           \/ PushState \/ CloseStream \/ AnswerChanges \/ AnswerGet
    PROVE  TypeOK'
<1> USE DEF TypeOK, server, memory
<1>1. CASE \E i \in Id : ServerChange(i)
    BY <1>1 DEF ServerChange
<1>2. CASE PushState
    BY <1>2 DEF PushState
<1>3. CASE CloseStream
    BY <1>3 DEF CloseStream
<1>4. CASE AnswerChanges
    <2>1. Since \in Nat
        BY DEF Since, NoState
    <2>2. ChangesFrom(Since) \subseteq
              [live : SUBSET Id, gone : SUBSET Id, upto : Nat]
        BY <2>1 DEF ChangesFrom
    <2> QED
        BY <1>4, <2>2 DEF AnswerChanges
<1>5. CASE AnswerGet
    <2>1. \A i \in Id : View(i) \in Entry
        BY ViewType
    <2> QED
        BY <1>5, <2>1 DEF AnswerGet
<1> QED
    BY <1>1, <1>2, <1>3, <1>4, <1>5

\* The shadow an answered Email/get leads to.
LEMMA NewShadowType == ASSUME TypeOK PROVE NewShadow \in [Id -> Entry]
BY DEF NewShadow, TypeOK, Entry

\* Folding an event keeps the consumer's picture a picture. Flag events
\* only come for messages the consumer knows.
LEMMA ApplyEventType ==
    ASSUME NEW r \in [Id -> Entry], NEW e \in Events \union {KeepAlive},
           e \in Events /\ e.type \in {"FlagsAdded", "FlagsRemoved"}
               => r[e.id] # Out
    PROVE  ApplyEvent(r, e) \in [Id -> Entry]
<1>1. CASE e = KeepAlive
    BY <1>1 DEF ApplyEvent, KeepAlive
<1>2. CASE e \in Events /\ e.type = "EnvelopeAdded"
    BY <1>2 DEF ApplyEvent, Events, Entry
<1>3. CASE e \in Events /\ e.type = "EnvelopeRemoved"
    BY <1>3 DEF ApplyEvent, Events, Entry
<1>4. CASE e \in Events /\ e.type = "FlagsAdded"
    BY <1>4 DEF ApplyEvent, Events, Entry
<1>5. CASE e \in Events /\ e.type = "FlagsRemoved"
    BY <1>5 DEF ApplyEvent, Events, Entry
<1> QED
    BY <1>1, <1>2, <1>3, <1>4, <1>5 DEF Events, EventTypes

-----------------------------------------------------------------------------
(* The queue always explains the shadow.                                   *)

\* PendingExplains is inductive once it is known where events are queued:
\* only between a diff and the next subscription, and never before the
\* bootstrap is over, when the consumer's picture starts as the shadow's.
Told ==
    /\ pc \notin {"Emitting", "Done"} => pending = <<>>
    /\ suppress => pending = <<>> /\ replica = shadow
    /\ PendingExplains

\* An empty queue means the consumer knows the whole shadow.
LEMMA Drained ==
    ASSUME TypeOK, Told, pending = <<>>, pc # "Done"
    PROVE  replica = shadow
<1>1. CASE suppress
    BY <1>1 DEF Told
<1>2. CASE ~suppress
    <2>1. \A i \in Id : DeltasOf(i, replica[i], shadow[i]) = {}
        BY <1>2 DEF Told, PendingExplains, EventsOn
    <2>2. \A i \in Id : replica[i] \in Entry /\ shadow[i] \in Entry
        BY DEF TypeOK
    <2>3. \A i \in Id : replica[i] = shadow[i]
        BY <2>1, <2>2, NoDelta
    <2> QED
        BY <2>3 DEF TypeOK
<1> QED
    BY <1>1, <1>2

\* Nothing queued and nothing to tell.
LEMMA NothingToTell ==
    ASSUME TypeOK, pending = <<>>, replica = shadow
    PROVE  PendingExplains
<1>1. \A i \in Id : EventsOn(i) = {}
    BY DEF EventsOn
<1>2. \A i \in Id : DeltasOf(i, replica[i], shadow[i]) = {}
    BY DEF DeltasOf
<1>3. DOMAIN pending = {}
    OBVIOUS
<1> QED
    BY <1>1, <1>2, <1>3 DEF PendingExplains

\* The event at the head of the queue is one of the deltas between the
\* consumer's picture and the shadow, and it is queued nowhere else.
LEMMA HeadFacts ==
    ASSUME TypeOK, Told, pc = "Emitting", pending # <<>>
    PROVE  /\ ~suppress
           /\ Head(pending) \in Events \union {KeepAlive}
           /\ Tail(pending) \in Seq(Events \union {KeepAlive})
           /\ Head(pending) # KeepAlive =>
                  /\ Head(pending).id \in Id
                  /\ Head(pending) \in DeltasOf(Head(pending).id,
                         replica[Head(pending).id], shadow[Head(pending).id])
<1> DEFINE h == Head(pending)
<1>1. ~suppress
    BY DEF Told
<1>2. /\ h = pending[1] /\ 1 \in DOMAIN pending
      /\ h \in Events \union {KeepAlive}
      /\ Tail(pending) \in Seq(Events \union {KeepAlive})
    BY DEF TypeOK
<1>3. ASSUME h # KeepAlive
      PROVE  h.id \in Id /\ h \in DeltasOf(h.id, replica[h.id], shadow[h.id])
    <2>1. h.id \in Id
        BY <1>2, <1>3 DEF Events
    <2>2. h \in EventsOn(h.id)
        BY <1>2, <1>3 DEF EventsOn
    <2> QED
        BY <1>1, <2>1, <2>2 DEF Told, PendingExplains
<1> QED
    BY <1>1, <1>2, <1>3

\* A delta is worth telling, applies to what the consumer knows, and
\* leaves exactly the other deltas of its message to tell.
LEMMA DeltaApplies ==
    ASSUME NEW r \in [Id -> Entry], NEW i \in Id, NEW s \in Entry,
           NEW e \in DeltasOf(i, r[i], s)
    PROVE  /\ ApplyEvent(r, e) \in [Id -> Entry]
           /\ r[i] # s
           /\ \E x \in Feed!Towards(r[i], s) :
                  ApplyEvent(r, e) = [r EXCEPT ![i] = x]
           /\ DeltasOf(i, ApplyEvent(r, e)[i], s) = DeltasOf(i, r[i], s) \ {e}
<1>1. r[i] # s /\ r[i] \in Entry
    BY DEF DeltasOf
<1>2. CASE r[i] = Out
    <2>1. e = Event("EnvelopeAdded", i, s)
        BY <1>1, <1>2 DEF DeltasOf
    <2>2. ApplyEvent(r, e) = [r EXCEPT ![i] = s]
        BY <2>1 DEF ApplyEvent, Event
    <2> QED
        BY <1>1, <1>2, <2>1, <2>2 DEF DeltasOf, Feed!Towards
<1>3. CASE r[i] # Out /\ s = Out
    <2>1. e = Event("EnvelopeRemoved", i, {})
        BY <1>1, <1>3 DEF DeltasOf
    <2>2. ApplyEvent(r, e) = [r EXCEPT ![i] = Out]
        BY <2>1 DEF ApplyEvent, Event
    <2> QED
        BY <1>1, <1>3, <2>1, <2>2 DEF DeltasOf, Feed!Towards
<1>4. CASE r[i] # Out /\ s # Out
    <2> DEFINE A == Event("FlagsAdded", i, s \ r[i])
               R == Event("FlagsRemoved", i, r[i] \ s)
    <2>1. DeltasOf(i, r[i], s) = {x \in {A, R} : x.flags # {}}
        BY <1>1, <1>4 DEF DeltasOf
    <2>2. /\ A.type = "FlagsAdded" /\ A.id = i /\ A.flags = s \ r[i]
          /\ R.type = "FlagsRemoved" /\ R.id = i /\ R.flags = r[i] \ s
          /\ A # R
        BY DEF Event
    <2>3. r[i] \in SUBSET Keyword /\ s \in SUBSET Keyword
        BY <1>1, <1>4 DEF Entry
    <2>4. CASE e = A
        <3>1. ApplyEvent(r, e) = [r EXCEPT ![i] = r[i] \union s]
            BY <2>2, <2>3, <2>4 DEF ApplyEvent
        <3>2. r[i] \union s \in Entry /\ r[i] \union s # Out
            BY <2>3, ConstantsAssumption DEF Entry
        <3>3. (r[i] \union s) \ s = r[i] \ s /\ s \ (r[i] \union s) = {}
            OBVIOUS
        <3>4. CASE r[i] \ s = {}
            <4>1. r[i] \union s = s
                BY <3>4
            <4>2. DeltasOf(i, r[i] \union s, s) = {}
                BY <4>1 DEF DeltasOf
            <4>3. DeltasOf(i, r[i], s) \ {e} = {}
                BY <2>1, <2>2, <2>4, <3>4
            <4> QED
                BY <1>1, <3>1, <3>2, <4>2, <4>3, <1>4 DEF Feed!Towards
        <3>5. CASE r[i] \ s # {}
            <4>1. DeltasOf(i, r[i] \union s, s)
                      = {x \in {Event("FlagsAdded", i, {}), R} : x.flags # {}}
                BY <1>4, <3>2, <3>3, <3>5 DEF DeltasOf
            <4>2. DeltasOf(i, r[i] \union s, s) = {R}
                BY <2>2, <3>5, <4>1 DEF Event
            <4>3. DeltasOf(i, r[i], s) \ {e} = {R}
                BY <2>1, <2>2, <2>4, <3>5
            <4> QED
                BY <1>1, <3>1, <3>2, <4>2, <4>3, <1>4 DEF Feed!Towards
        <3> QED
            BY <3>4, <3>5
    <2>5. CASE e = R
        <3>1. ApplyEvent(r, e) = [r EXCEPT ![i] = r[i] \cap s]
            <4>1. r[i] \ (r[i] \ s) = r[i] \cap s
                OBVIOUS
            <4> QED
                BY <2>2, <2>5, <4>1 DEF ApplyEvent
        <3>2. r[i] \cap s \in Entry /\ r[i] \cap s # Out
            BY <2>3, ConstantsAssumption DEF Entry
        <3>3. s \ (r[i] \cap s) = s \ r[i] /\ (r[i] \cap s) \ s = {}
            OBVIOUS
        <3>4. CASE s \ r[i] = {}
            <4>1. r[i] \cap s = s
                BY <3>4
            <4>2. DeltasOf(i, r[i] \cap s, s) = {}
                BY <4>1 DEF DeltasOf
            <4>3. DeltasOf(i, r[i], s) \ {e} = {}
                BY <2>1, <2>2, <2>5, <3>4
            <4> QED
                BY <1>1, <3>1, <3>2, <4>2, <4>3, <1>4 DEF Feed!Towards
        <3>5. CASE s \ r[i] # {}
            <4>1. DeltasOf(i, r[i] \cap s, s)
                      = {x \in {A, Event("FlagsRemoved", i, {})} : x.flags # {}}
                BY <1>4, <3>2, <3>3, <3>5 DEF DeltasOf
            <4>2. DeltasOf(i, r[i] \cap s, s) = {A}
                <5>1. Event("FlagsRemoved", i, {}).flags = {} /\ A.flags # {}
                    BY <2>2, <3>5 DEF Event
                <5> HIDE DEF A
                <5> QED
                    BY <4>1, <5>1
            <4>3. DeltasOf(i, r[i], s) \ {e} = {A}
                BY <2>1, <2>2, <2>5, <3>5
            <4> QED
                BY <1>1, <3>1, <3>2, <4>2, <4>3, <1>4 DEF Feed!Towards
        <3> QED
            BY <3>4, <3>5
    <2> QED
        BY <2>1, <2>4, <2>5
<1> QED
    BY <1>2, <1>3, <1>4

\* Delivering the head of the queue: the consumer's picture takes it, and
\* what is left explains the rest.
LEMMA DeliverStep ==
    ASSUME TypeOK, Told, running, pc = "Emitting", pending # <<>>,
           pending' = Tail(pending),
           replica' = ApplyEvent(replica, Head(pending)),
           UNCHANGED <<pc, shadow, suppress>>
    PROVE  replica' \in [Id -> Entry] /\ Told'
<1> DEFINE h == Head(pending)
<1>1. /\ ~suppress /\ h \in Events \union {KeepAlive}
      /\ h # KeepAlive =>
             h.id \in Id /\ h \in DeltasOf(h.id, replica[h.id], shadow[h.id])
    BY HeadFacts
<1>2. /\ replica \in [Id -> Entry] /\ shadow \in [Id -> Entry]
      /\ pending \in Seq(Events \union {KeepAlive})
    BY DEF TypeOK
<1>3. /\ \A i \in Id : EventsOn(i) = DeltasOf(i, replica[i], shadow[i])
      /\ \A j, k \in DOMAIN pending : pending[j] = pending[k] => j = k
    BY <1>1 DEF Told, PendingExplains
<1>4. /\ DOMAIN pending = 1..Len(pending) /\ Len(pending) \in Nat \ {0}
      /\ DOMAIN pending' = 1..(Len(pending) - 1)
      /\ \A k \in DOMAIN pending' : pending'[k] = pending[k + 1]
      /\ h = pending[1]
    BY <1>2
<1>5. \A j, k \in DOMAIN pending' : pending'[j] = pending'[k] => j = k
    BY <1>3, <1>4
<1>6. \A i \in Id : EventsOn(i)' = EventsOn(i) \ {h}
    <2> SUFFICES ASSUME NEW i \in Id PROVE EventsOn(i)' = EventsOn(i) \ {h}
        OBVIOUS
    <2>1. ASSUME NEW e \in EventsOn(i)' PROVE e \in EventsOn(i) \ {h}
        <3>1. PICK k \in DOMAIN pending' :
                  pending'[k] # KeepAlive /\ pending'[k].id = i /\ e = pending'[k]
            BY <2>1 DEF EventsOn
        <3>2. k + 1 \in DOMAIN pending /\ pending[k + 1] = e /\ k + 1 # 1
              /\ 1 \in DOMAIN pending
            BY <1>4, <3>1
        <3>3. e # h
            BY <1>3, <1>4, <3>2
        <3> QED
            BY <3>1, <3>2, <3>3 DEF EventsOn
    <2>2. ASSUME NEW e \in EventsOn(i) \ {h} PROVE e \in EventsOn(i)'
        <3>1. PICK k \in DOMAIN pending :
                  pending[k] # KeepAlive /\ pending[k].id = i /\ e = pending[k]
            BY <2>2 DEF EventsOn
        <3>2. k - 1 \in DOMAIN pending' /\ pending'[k - 1] = e
            BY <1>4, <2>2, <3>1
        <3> QED
            BY <3>1, <3>2 DEF EventsOn
    <2> QED
        BY <2>1, <2>2
<1>7. CASE h = KeepAlive
    <2>1. replica' = replica
        BY <1>7 DEF ApplyEvent, KeepAlive
    <2>2. \A i \in Id : h \notin EventsOn(i)
        BY <1>7 DEF EventsOn
    <2> HIDE DEF h
    <2>3. \A i \in Id : EventsOn(i)' = DeltasOf(i, replica'[i], shadow'[i])
        BY <1>3, <1>6, <2>1, <2>2
    <2> QED
        BY <1>1, <1>2, <1>5, <2>1, <2>3 DEF Told, PendingExplains
<1>8. CASE h # KeepAlive
    <2> DEFINE t == h.id
    <2>1. t \in Id /\ h \in DeltasOf(t, replica[t], shadow[t])
          /\ shadow[t] \in Entry
        BY <1>1, <1>2, <1>8
    <2>2. /\ replica' \in [Id -> Entry]
          /\ DeltasOf(t, replica'[t], shadow[t])
                 = DeltasOf(t, replica[t], shadow[t]) \ {h}
          /\ \E x \in Feed!Towards(replica[t], shadow[t]) :
                 replica' = [replica EXCEPT ![t] = x]
        <3>1. replica \in [Id -> Entry] /\ replica' = ApplyEvent(replica, h)
            BY <1>2
        <3> DEFINE s == shadow[t]
        <3>2. t \in Id /\ s \in Entry /\ h \in DeltasOf(t, replica[t], s)
            BY <2>1
        <3> HIDE DEF h, t, s
        <3>3. ApplyEvent(replica, h) \in [Id -> Entry]
            BY <3>1, <3>2, DeltaApplies
        <3>4. DeltasOf(t, ApplyEvent(replica, h)[t], s)
                  = DeltasOf(t, replica[t], s) \ {h}
            BY <3>1, <3>2, DeltaApplies
        <3>5. \E x \in Feed!Towards(replica[t], s) :
                  ApplyEvent(replica, h) = [replica EXCEPT ![t] = x]
            BY <3>1, <3>2, DeltaApplies
        <3> QED
            BY <3>1, <3>3, <3>4, <3>5 DEF s
    <2>3. ASSUME NEW i \in Id
          PROVE  EventsOn(i)' = DeltasOf(i, replica'[i], shadow'[i])
        <3>1. CASE i = t
            BY <1>3, <1>6, <2>1, <2>2, <3>1
        <3>2. CASE i # t
            <4>1. replica'[i] = replica[i]
                <5>1. PICK x : replica' = [replica EXCEPT ![t] = x]
                    BY <2>2
                <5> QED
                    BY <1>2, <3>2, <5>1
            <4>2. h \notin EventsOn(i)
                BY <3>2 DEF EventsOn
            <4>3. EventsOn(i) = DeltasOf(i, replica[i], shadow[i])
                BY <1>3
            <4>4. EventsOn(i)' = EventsOn(i)
                BY <1>6, <4>2
            <4> QED
                BY <4>1, <4>3, <4>4
        <3> QED
            BY <3>1, <3>2
    <2> QED
        BY <1>1, <1>5, <2>2, <2>3 DEF Told, PendingExplains
<1> QED
    BY <1>7, <1>8

\* A diff is queued on an empty queue, against what the consumer knows.
LEMMA DiffStep ==
    ASSUME TypeOK, Told, ApplyDiff
    PROVE  TypeOK' /\ Told'
<1>1. /\ pending = <<>> /\ replica = shadow /\ pc = "FetchingEmails"
      /\ shadow \in [Id -> Entry] /\ NewShadow \in [Id -> Entry]
    BY Drained, NewShadowType DEF ApplyDiff, Told, TypeOK
<1>2. CASE suppress
    <2>1. /\ shadow' = NewShadow /\ replica' = NewShadow
          /\ pending' = <<>> /\ pc' = "Emitting" /\ ~suppress'
        BY <1>1, <1>2 DEF ApplyDiff
    <2>2. TypeOK'
        BY <1>1, <1>2, <2>1 DEF TypeOK, ApplyDiff, server
    <2>3. PendingExplains'
        <3>1. \A i \in Id : EventsOn(i)' = {}
            BY <2>1 DEF EventsOn
        <3>2. \A i \in Id : DeltasOf(i, replica'[i], shadow'[i]) = {}
            BY <2>1 DEF DeltasOf
        <3>3. DOMAIN pending' = {}
            BY <2>1
        <3> QED
            BY <3>1, <3>2, <3>3 DEF PendingExplains
    <2> QED
        BY <2>1, <2>2, <2>3 DEF Told
<1>3. CASE ~suppress
    <2>1. PICK q \in Queues(Deltas(shadow, NewShadow)) : pending' = pending \o q
        BY <1>3 DEF ApplyDiff
    <2>2. /\ q \in Seq(Events)
          /\ \A e \in Deltas(shadow, NewShadow) : \E k \in DOMAIN q : q[k] = e
          /\ \A k \in DOMAIN q : q[k] \in Deltas(shadow, NewShadow)
          /\ \A j, k \in DOMAIN q : q[j] = q[k] => j = k
        BY <1>1, QueuesFacts
    <2>3. pending' = q
        BY <1>1, <2>1, <2>2
    <2>4. /\ shadow' = NewShadow /\ replica' = shadow
          /\ pc' = "Emitting" /\ ~suppress'
        BY <1>1, <1>3 DEF ApplyDiff
    <2>5. pending' \in Seq(Events \union {KeepAlive})
        BY <2>2, <2>3
    <2>6. TypeOK'
        BY <1>1, <1>3, <2>4, <2>5 DEF TypeOK, ApplyDiff, server
    <2>7. \A e \in Deltas(shadow, NewShadow) : e # KeepAlive
        <3>1. Deltas(shadow, NewShadow) \subseteq Events
            BY <1>1, DeltasFacts
        <3>2. \A e \in Events : e.type # KeepAlive.type
            BY DEF Events, EventTypes, KeepAlive
        <3> QED
            BY <3>1, <3>2
    <2>8. ASSUME NEW i \in Id
          PROVE  EventsOn(i)' = DeltasOf(i, replica'[i], shadow'[i])
        <3>1. EventsOn(i)' = {e \in Deltas(shadow, NewShadow) : e.id = i}
            BY <2>2, <2>3, <2>7 DEF EventsOn
        <3> QED
            BY <1>1, <2>4, <3>1, DeltasFacts
    <2> QED
        BY <2>2, <2>3, <2>4, <2>6, <2>8 DEF Told, PendingExplains
<1> QED
    BY <1>2, <1>3

\* Every other step of the watcher leaves what is queued as it is, except
\* the KeepAlive a quiet cycle may queue on an empty queue.
LEMMA OtherType ==
    ASSUME TypeOK,
           \/ Resume \/ OpenStream \/ AwaitFrame \/ TakeFrame \/ EndCycle
           \/ AwaitReply \/ DispatchGet \/ Resubscribe \/ Fail
           \/ FlipShutdown \/ UNCHANGED vars
    PROVE  TypeOK'
<1> USE DEF TypeOK, server, wire, memory
<1>1. CASE Resume
    <2>1. \/ pc' = "Done" /\ running' = running
          \/ pc' = pc /\ running' = TRUE
        BY <1>1 DEF Resume
    <2>2. running' \in BOOLEAN
        BY <2>1, Zenon
    <2>3. pc' \in {"Subscribing", "FetchingChanges", "FetchingEmails",
                   "Emitting", "Done", "Failed"}
        BY <2>1
    <2> QED
        BY <1>1, <2>2, <2>3 DEF Resume
<1>2. CASE OpenStream
    BY <1>2, ConstantsAssumption DEF OpenStream
<1>3. CASE AwaitFrame
    BY <1>3 DEF AwaitFrame
<1>4. CASE TakeFrame
    BY <1>4 DEF TakeFrame
<1>5. CASE EndCycle
    <2>1. \/ pending' = Append(pending, KeepAlive) \/ pending' = pending
        BY <1>5 DEF EndCycle
    <2> DEFINE S == Events \union {KeepAlive}
    <2>2. pending' \in Seq(S)
        <3>1. pending \in Seq(S) /\ KeepAlive \in S
            OBVIOUS
        <3> HIDE DEF S, TypeOK
        <3>2. Append(pending, KeepAlive) \in Seq(S)
            BY <3>1, AppendProperties
        <3> QED
            BY <2>1, <3>1, <3>2
    <2>3. /\ pc' \in {"FetchingChanges", "Emitting"}
          /\ net' \in {"idle", "sent", "answered"}
        BY <1>5 DEF EndCycle
    <2> QED
        BY <1>5, <2>2, <2>3 DEF EndCycle
<1>6. CASE AwaitReply
    BY <1>6 DEF AwaitReply
<1>7. CASE DispatchGet
    BY <1>7 DEF DispatchGet
<1>8. CASE Resubscribe
    BY <1>8 DEF Resubscribe
<1>9. CASE Fail
    BY <1>9 DEF Fail
<1>10. CASE FlipShutdown
    BY <1>10 DEF FlipShutdown
<1>11. CASE UNCHANGED vars
    BY <1>11 DEF vars
<1> QED
    BY <1>1, <1>2, <1>3, <1>4, <1>5, <1>6, <1>7, <1>8, <1>9, <1>10, <1>11

\* A step that changes none of the queue, the pictures and the bootstrap
\* flag keeps Told, unless it makes the coroutine forget to drain.
LEMMA QuietStep ==
    ASSUME Told, UNCHANGED <<pending, replica, shadow, suppress>>,
           \/ pc' = pc
           \/ pc' = "Done"
           \/ pc' = "Emitting" /\ pc # "Done"
           \/ pending = <<>> /\ pc # "Done"
           \/ pc \notin {"Emitting", "Done"}
    PROVE  Told'
<1>1. \A i \in Id : EventsOn(i)' = EventsOn(i)
    BY DEF EventsOn
<1>2. PendingExplains'
    BY <1>1 DEF Told, PendingExplains
<1> QED
    BY <1>2 DEF Told

\* The type invariant needs Told: a flag event must find its message in the
\* consumer's picture.
LEMMA ToldStep == TypeOK /\ Told /\ [Next]_vars => TypeOK' /\ Told'
<1> SUFFICES ASSUME TypeOK, Told, [Next]_vars
             PROVE  TypeOK' /\ Told'
    OBVIOUS
<1> USE DEF server, wire, memory
<1>1. ASSUME NEW i \in Id, ServerChange(i) PROVE TypeOK' /\ Told'
    BY <1>1, ServerType, QuietStep DEF ServerChange
<1>2. CASE PushState
    BY <1>2, ServerType, QuietStep DEF PushState
<1>3. CASE CloseStream
    BY <1>3, ServerType, QuietStep DEF CloseStream
<1>4. CASE AnswerChanges
    BY <1>4, ServerType, QuietStep DEF AnswerChanges
<1>5. CASE AnswerGet
    BY <1>5, ServerType, QuietStep DEF AnswerGet
<1>6. CASE Resume
    BY <1>6, OtherType, QuietStep DEF Resume
<1>7. CASE OpenStream
    BY <1>7, OtherType, QuietStep DEF OpenStream
<1>8. CASE AwaitFrame
    BY <1>8, OtherType, QuietStep DEF AwaitFrame
<1>9. CASE TakeFrame
    BY <1>9, OtherType, QuietStep DEF TakeFrame
<1>10. CASE EndCycle
    <2>1. TypeOK'
        BY <1>10, OtherType
    <2>2. pc = "Subscribing" /\ pending = <<>> /\ replica = shadow
        BY <1>10, Drained DEF EndCycle, Told
    <2>3. CASE pending' = pending
        BY <1>10, <2>1, <2>2, <2>3, QuietStep DEF EndCycle
    <2>4. CASE pending' # pending
        <3>1. /\ pending' = <<KeepAlive>> /\ pc' = "Emitting" /\ ~suppress
              /\ UNCHANGED <<replica, shadow, suppress>>
            BY <1>10, <2>2, <2>4 DEF EndCycle
        <3>2. /\ DOMAIN pending' = {1} /\ pending'[1] = KeepAlive
            BY <3>1
        <3>3. \A i \in Id : EventsOn(i)' = {}
            BY <3>2 DEF EventsOn
        <3>4. \A i \in Id : DeltasOf(i, replica'[i], shadow'[i]) = {}
            BY <2>2, <3>1 DEF DeltasOf
        <3> QED
            BY <2>1, <3>1, <3>2, <3>3, <3>4 DEF Told, PendingExplains
    <2> QED
        BY <2>3, <2>4
<1>11. CASE AwaitReply
    BY <1>11, OtherType, QuietStep DEF AwaitReply
<1>12. CASE DispatchGet
    BY <1>12, OtherType, QuietStep DEF DispatchGet
<1>13. CASE ApplyDiff
    BY <1>13, DiffStep
<1>14. CASE Emit
    <2>1. pending' \in Seq(Events \union {KeepAlive}) /\ pc = "Emitting"
        BY <1>14, HeadFacts DEF Emit
    <2>2. CASE replica' = ApplyEvent(replica, Head(pending)) /\ pc' = pc
        <3>1. replica' \in [Id -> Entry] /\ Told'
            BY <1>14, <2>2, DeliverStep DEF Emit
        <3>2. TypeOK'
            BY <1>14, <2>1, <2>2, <3>1 DEF TypeOK, Emit
        <3> QED
            BY <3>1, <3>2
    <2>3. CASE pc' = "Done" /\ replica' = replica
        <3>1. ~suppress /\ suppress' = suppress
            BY <1>14, HeadFacts DEF Emit
        <3>2. Told'
            BY <2>3, <3>1 DEF Told, PendingExplains
        <3>3. TypeOK'
            BY <1>14, <2>1, <2>3 DEF TypeOK, Emit
        <3> QED
            BY <3>2, <3>3
    <2> QED
        BY <1>14, <2>2, <2>3 DEF Emit
<1>15. CASE Resubscribe
    BY <1>15, OtherType, QuietStep DEF Resubscribe
<1>16. CASE Fail
    BY <1>16, OtherType, QuietStep DEF Fail
<1>17. CASE FlipShutdown
    BY <1>17, OtherType, QuietStep DEF FlipShutdown
<1>18. CASE UNCHANGED vars
    BY <1>18, OtherType, QuietStep DEF vars
<1> QED
    BY <1>1, <1>2, <1>3, <1>4, <1>5, <1>6, <1>7, <1>8, <1>9, <1>10, <1>11,
       <1>12, <1>13, <1>14, <1>15, <1>16, <1>17, <1>18 DEF Next, Progress

LEMMA ToldInit == Init => Told
<1> SUFFICES ASSUME Init PROVE Told
    OBVIOUS
<1> QED
    BY DEF Init, Told, PendingExplains

\* Types and the queue's invariant hold together in every reachable state.
THEOREM ToldCorrect == Spec => [](TypeOK /\ Told)
<1>1. Init => TypeOK /\ Told
    BY InitType, ToldInit
<1> QED
    BY <1>1, ToldStep, PTL DEF Spec

\* Every variable of the watcher keeps its shape.
THEOREM TypeCorrect == Spec => []TypeOK
BY ToldCorrect, PTL

\* PendingExplains: no delta of the watched mailbox is lost, doubled or
\* told out of place by the queue between apply_diff and the consumer.
THEOREM QueueExplains == Spec => []PendingExplains
<1>1. Told => PendingExplains
    BY DEF Told
<1> QED
    BY <1>1, ToldCorrect, PTL

-----------------------------------------------------------------------------
(* Whatever the shadow has wrong will be in the next diff.                 *)

\* The server numbers its changes, and a message is unborn until its first.
ServerInv ==
    /\ \A i \in Id : stamp[i] <= srv
    /\ \A i \in Id : mail[i] = Unborn <=> stamp[i] = 0
    /\ emailState <= srv
    /\ emailState = NoState => \A i \in Id : shadow[i] = Out

\* From the moment Email/changes answered until its diff is applied.
ChangesKnown ==
    pc = "FetchingEmails" \/ (pc = "FetchingChanges" /\ net = "answered")

\* The Email/changes answer accounts for every message whose last change is
\* up to the state it was cut at, and only such a message may have become
\* what the answer does not say.
ChangesInv ==
    /\ Since <= chg.upto /\ chg.upto <= srv
    /\ \A i \in Id : Since < stamp[i] /\ stamp[i] <= chg.upto =>
           i \in chg.live \union chg.gone
    /\ \A i \in chg.gone : mail[i] = Gone
    /\ \A i \in chg.live : stamp[i] <= chg.upto => Exists(mail[i])

\* The Email/get answer is right about every message it names, but for
\* those that changed after the state Email/changes was cut at.
GetInv ==
    /\ seen.found \subseteq chg.live
    /\ \A i \in seen.found : stamp[i] <= chg.upto => seen.view[i] = View(i)
    /\ \A i \in chg.live \ seen.found : chg.upto < stamp[i]

CoverInv ==
    /\ ServerInv
    /\ StaleIsCovered
    /\ ChangesKnown => ChangesInv
    /\ pc = "FetchingEmails" /\ net = "answered" => GetInv

LEMMA CoverInit == Init => CoverInv
<1> SUFFICES ASSUME Init PROVE CoverInv
    OBVIOUS
<1>1. Start \in Nat /\ \A i \in Id : stamp[i] \in 0..Start
    BY ConstantsAssumption DEF Init
<1>2. ServerInv
    BY <1>1 DEF Init, ServerInv, NoState
<1>3. StaleIsCovered
    BY <1>1 DEF Init, StaleIsCovered, NoState
<1> QED
    BY <1>2, <1>3 DEF Init, CoverInv, ChangesKnown

\* A server change takes a state nobody has seen, so what it disturbs is
\* still ahead of every state the watcher holds.
LEMMA CoverChange ==
    ASSUME TypeOK, CoverInv, NEW c \in Id, ServerChange(c)
    PROVE  CoverInv'
<1>1. /\ stamp' = [stamp EXCEPT ![c] = srv + 1] /\ srv' = srv + 1
      /\ \E m \in Mail \ {Unborn, mail[c]} : mail' = [mail EXCEPT ![c] = m]
      /\ mail[c] # Gone
      /\ UNCHANGED <<net, chg, seen, pc, shadow, emailState>>
    BY DEF ServerChange, memory
<1>2. /\ srv \in Nat /\ stamp \in [Id -> Nat] /\ mail \in [Id -> Mail]
      /\ emailState \in Nat \union {NoState} /\ chg.upto \in Nat
      /\ chg.gone \subseteq Id /\ chg.live \subseteq Id
      /\ seen.found \subseteq Id
    BY DEF TypeOK
<1>3. /\ stamp'[c] = srv + 1 /\ mail'[c] # Unborn
      /\ \A i \in Id \ {c} : stamp'[i] = stamp[i] /\ mail'[i] = mail[i]
                              /\ View(i)' = View(i)
    BY <1>1, <1>2 DEF View
<1>4. ServerInv'
    BY <1>1, <1>2, <1>3 DEF CoverInv, ServerInv
<1>5. StaleIsCovered'
    <2> SUFFICES ASSUME NEW i \in Id, shadow'[i] # View(i)'
                 PROVE  stamp'[i] > emailState'
        BY DEF StaleIsCovered
    <2>1. CASE i = c
        BY <1>1, <1>2, <1>3, <2>1 DEF CoverInv, ServerInv, NoState
    <2>2. CASE i # c
        BY <1>1, <1>3, <2>2 DEF CoverInv, StaleIsCovered
    <2> QED
        BY <2>1, <2>2
<1>6. ASSUME ChangesKnown' PROVE ChangesInv'
    <2>1. ChangesInv /\ Since' = Since
        BY <1>1, <1>6 DEF CoverInv, ChangesKnown, Since
    <2> QED
        BY <1>1, <1>2, <1>3, <2>1 DEF ChangesInv, Exists
<1>7. ASSUME pc' = "FetchingEmails", net' = "answered" PROVE GetInv'
    <2>1. GetInv /\ ChangesInv
        BY <1>1, <1>7 DEF CoverInv, ChangesKnown
    <2> QED
        BY <1>1, <1>2, <1>3, <2>1 DEF GetInv, ChangesInv
<1> QED
    BY <1>4, <1>5, <1>6, <1>7 DEF CoverInv

\* The Email/changes answer accounts for what it must.
LEMMA CoverChanges ==
    ASSUME TypeOK, CoverInv, AnswerChanges
    PROVE  CoverInv'
<1>1. /\ pc = "FetchingChanges" /\ net' = "answered"
      /\ UNCHANGED <<mail, stamp, srv, pc, shadow, emailState>>
      /\ chg' \in ChangesFrom(Since)
    BY DEF AnswerChanges, server, memory
<1>2. /\ srv \in Nat /\ stamp \in [Id -> Nat] /\ Since \in Nat
    BY DEF TypeOK, Since, NoState
<1>3. ServerInv' /\ StaleIsCovered'
    BY <1>1 DEF CoverInv, ServerInv, StaleIsCovered, View
<1>4. ChangesInv'
    <2>1. /\ chg'.live \subseteq Id /\ chg'.gone \subseteq Id
          /\ chg'.upto \in Since..srv
          /\ chg'.live \cap chg'.gone = {}
          /\ \A i \in Id : Since < stamp[i] /\ stamp[i] <= chg'.upto =>
                 IF mail[i] = Gone THEN i \in chg'.gone ELSE i \in chg'.live
          /\ \A i \in chg'.live \union chg'.gone : Since < stamp[i]
          /\ \A i \in chg'.gone : mail[i] = Gone
        BY <1>1 DEF ChangesFrom
    <2>2. ASSUME NEW i \in chg'.live, stamp[i] <= chg'.upto
          PROVE  Exists(mail[i])
        <3>1. i \in Id /\ Since < stamp[i] /\ mail[i] # Gone
            BY <2>1, <2>2
        <3>2. mail[i] # Unborn
            BY <1>2, <3>1 DEF CoverInv, ServerInv
        <3> QED
            BY <3>1, <3>2 DEF Exists
    <2>3. Since' = Since
        BY <1>1 DEF Since
    <2> QED
        BY <1>1, <1>2, <2>1, <2>2, <2>3 DEF ChangesInv
<1> QED
    BY <1>1, <1>3, <1>4 DEF CoverInv

\* The Email/get answer shows the mailbox as it is when it is computed.
LEMMA CoverGet ==
    ASSUME TypeOK, CoverInv, AnswerGet
    PROVE  CoverInv'
<1>1. /\ pc = "FetchingEmails" /\ net' = "answered"
      /\ UNCHANGED <<mail, stamp, srv, chg, pc, shadow, emailState>>
      /\ seen' = [found |-> {i \in chg.live : Exists(mail[i])},
                  view |-> [i \in Id |-> View(i)]]
    BY DEF AnswerGet, server, memory
<1>2. /\ chg.live \subseteq Id /\ stamp \in [Id -> Nat] /\ chg.upto \in Nat
    BY DEF TypeOK
<1>3. ServerInv' /\ StaleIsCovered'
    BY <1>1 DEF CoverInv, ServerInv, StaleIsCovered, View
<1>4. ChangesInv /\ ChangesInv'
    BY <1>1 DEF CoverInv, ChangesKnown, ChangesInv, Since
<1>5. GetInv'
    <2>1. seen'.found = {i \in chg.live : Exists(mail[i])}
          /\ \A i \in Id : seen'.view[i] = View(i)
        BY <1>1
    <2>2. \A i \in Id : View(i)' = View(i)
        BY <1>1 DEF View
    <2> QED
        BY <1>1, <1>2, <1>4, <2>1, <2>2 DEF GetInv, ChangesInv
<1> QED
    BY <1>1, <1>3, <1>4, <1>5 DEF CoverInv

\* Applying the diff: what stays wrong has changed after the new state.
LEMMA CoverDiff ==
    ASSUME TypeOK, CoverInv, ApplyDiff
    PROVE  CoverInv'
<1>1. /\ pc = "FetchingEmails" /\ net = "answered" /\ pc' = "Emitting"
      /\ shadow' = NewShadow /\ emailState' = chg.upto
      /\ UNCHANGED <<mail, stamp, srv>>
    BY DEF ApplyDiff, server
<1>2. ChangesInv /\ GetInv /\ ServerInv /\ StaleIsCovered
    BY <1>1 DEF CoverInv, ChangesKnown
<1>3. /\ srv \in Nat /\ stamp \in [Id -> Nat] /\ chg.upto \in Nat
      /\ emailState \in Nat \union {NoState}
    BY DEF TypeOK
<1>4. ServerInv'
    BY <1>1, <1>2, <1>3 DEF ServerInv, ChangesInv, NoState
<1>5. StaleIsCovered'
    <2> SUFFICES ASSUME NEW i \in Id, stamp[i] <= chg.upto
                 PROVE  NewShadow[i] = View(i)
        BY <1>1, <1>3 DEF StaleIsCovered, View
    <2>1. CASE i \in chg.gone
        BY <1>2, <2>1 DEF NewShadow, ChangesInv, View
    <2>2. CASE i \in seen.found /\ i \notin chg.gone
        BY <1>2, <2>2 DEF NewShadow, GetInv
    <2>3. CASE i \notin seen.found /\ i \notin chg.gone
        <3>1. NewShadow[i] = shadow[i]
            BY <2>3 DEF NewShadow
        <3>2. i \notin chg.live
            BY <1>2, <1>3, <2>3 DEF GetInv
        <3>3. stamp[i] <= Since
            BY <1>2, <1>3, <2>3, <3>2 DEF ChangesInv, Since, NoState
        <3>4. CASE emailState = NoState
            <4>1. mail[i] = Unborn /\ shadow[i] = Out
                BY <1>2, <1>3, <3>3, <3>4 DEF ServerInv, Since
            <4> QED
                BY <3>1, <4>1 DEF View
        <3>5. CASE emailState # NoState
            BY <1>2, <1>3, <3>1, <3>3, <3>5 DEF StaleIsCovered, Since
        <3> QED
            BY <3>4, <3>5
    <2> QED
        BY <2>1, <2>2, <2>3
<1> QED
    BY <1>1, <1>4, <1>5 DEF CoverInv, ChangesKnown

\* The other steps touch neither the server nor what was read from it; they
\* may only move on in a way that keeps or forgets an answer.
LEMMA CoverQuiet ==
    ASSUME CoverInv, UNCHANGED <<mail, stamp, srv, chg, seen, shadow, emailState>>,
           ChangesKnown' => ChangesKnown,
           pc' = "FetchingEmails" /\ net' = "answered" =>
               pc = "FetchingEmails" /\ net = "answered"
    PROVE  CoverInv'
<1>1. \A i \in Id : View(i)' = View(i)
    BY DEF View
<1>2. ServerInv' /\ StaleIsCovered'
    BY <1>1 DEF CoverInv, ServerInv, StaleIsCovered
<1>3. ChangesInv => ChangesInv'
    BY DEF ChangesInv, Since
<1>4. GetInv => GetInv'
    BY <1>1 DEF GetInv, View
<1> QED
    BY <1>2, <1>3, <1>4 DEF CoverInv

LEMMA CoverStep == TypeOK /\ CoverInv /\ [Next]_vars => CoverInv'
<1> SUFFICES ASSUME TypeOK, CoverInv, [Next]_vars PROVE CoverInv'
    OBVIOUS
<1> USE DEF server, wire, memory
<1>1. ASSUME NEW i \in Id, ServerChange(i) PROVE CoverInv'
    BY <1>1, CoverChange
<1>2. CASE PushState
    BY <1>2, CoverQuiet DEF PushState, ChangesKnown
<1>3. CASE CloseStream
    BY <1>3, CoverQuiet DEF CloseStream, ChangesKnown
<1>4. CASE AnswerChanges
    BY <1>4, CoverChanges
<1>5. CASE AnswerGet
    BY <1>5, CoverGet
<1>6. CASE Resume
    BY <1>6, CoverQuiet DEF Resume, ChangesKnown
<1>7. CASE OpenStream
    BY <1>7, CoverQuiet DEF OpenStream, ChangesKnown
<1>8. CASE AwaitFrame
    BY <1>8, CoverQuiet DEF AwaitFrame, ChangesKnown
<1>9. CASE TakeFrame
    BY <1>9, CoverQuiet DEF TakeFrame, ChangesKnown
<1>10. CASE EndCycle
    <2>1. ~ChangesKnown'
        BY <1>10 DEF EndCycle, ChangesKnown
    <2> QED
        BY <1>10, <2>1, CoverQuiet DEF EndCycle, ChangesKnown
<1>11. CASE AwaitReply
    BY <1>11, CoverQuiet DEF AwaitReply, ChangesKnown
<1>12. CASE DispatchGet
    BY <1>12, CoverQuiet DEF DispatchGet, ChangesKnown
<1>13. CASE ApplyDiff
    BY <1>13, CoverDiff
<1>14. CASE Emit
    BY <1>14, CoverQuiet DEF Emit, ChangesKnown
<1>15. CASE Resubscribe
    BY <1>15, CoverQuiet DEF Resubscribe, ChangesKnown
<1>16. CASE Fail
    BY <1>16, CoverQuiet DEF Fail, ChangesKnown
<1>17. CASE FlipShutdown
    BY <1>17, CoverQuiet DEF FlipShutdown, ChangesKnown
<1>18. CASE UNCHANGED vars
    BY <1>18, CoverQuiet DEF vars, ChangesKnown
<1> QED
    BY <1>1, <1>2, <1>3, <1>4, <1>5, <1>6, <1>7, <1>8, <1>9, <1>10, <1>11,
       <1>12, <1>13, <1>14, <1>15, <1>16, <1>17, <1>18 DEF Next, Progress

\* StaleIsCovered: no difference between the shadow and the mailbox is ever
\* out of reach of the next Email/changes.
THEOREM StaleCovered == Spec => []StaleIsCovered
<1>1. CoverInv => StaleIsCovered
    BY DEF CoverInv
<1>2. Spec => []CoverInv
    BY CoverInit, CoverStep, TypeCorrect, PTL DEF Spec
<1> QED
    BY <1>1, <1>2, PTL

-----------------------------------------------------------------------------
(* The watcher implements MailboxFeed.                                     *)

LEMMA FeedInit == Init => Feed!Init
BY DEF Init, Feed!Init

LEMMA FeedStep == TypeOK /\ Told /\ [Next]_vars => [Feed!Next]_(Feed!vars)
<1> SUFFICES ASSUME TypeOK, Told, [Next]_vars
             PROVE  Feed!Next \/ UNCHANGED <<shadow, replica, suppress>>
    BY DEF Feed!vars
<1>1. CASE ApplyDiff
    <2>1. /\ replica = shadow /\ NewShadow \in [Id -> Entry]
        BY <1>1, Drained, NewShadowType DEF ApplyDiff, Told
    <2>2. NewShadow \in [Id -> Feed!Entry]
        BY <2>1 DEF Entry, Feed!Entry
    <2>3. CASE suppress
        BY <1>1, <2>2, <2>3 DEF ApplyDiff, Feed!Next, Feed!Bootstrap
    <2>4. CASE ~suppress
        <3>1. shadow' = NewShadow /\ replica' = replica /\ suppress' = FALSE
            BY <1>1, <2>4 DEF ApplyDiff
        <3>2. suppress = FALSE
            BY <2>4 DEF TypeOK
        <3>3. Feed!Learn
            BY <2>1, <2>2, <3>1, <3>2 DEF Feed!Learn
        <3> QED
            BY <3>3 DEF Feed!Next
    <2> QED
        BY <2>3, <2>4
<1>2. CASE Emit
    <2> DEFINE h == Head(pending)
    <2>1. /\ ~suppress /\ h \in Events \union {KeepAlive}
          /\ h # KeepAlive =>
                 h.id \in Id /\ h \in DeltasOf(h.id, replica[h.id], shadow[h.id])
          /\ replica \in [Id -> Entry] /\ shadow \in [Id -> Entry]
        BY <1>2, HeadFacts DEF Emit, TypeOK
    <2>2. shadow' = shadow /\ suppress' = suppress
        BY <1>2 DEF Emit
    <2>3. CASE replica' = replica
        BY <2>2, <2>3
    <2>4. CASE replica' = ApplyEvent(replica, h) /\ h = KeepAlive
        BY <2>2, <2>4 DEF ApplyEvent, KeepAlive
    <2>5. CASE replica' = ApplyEvent(replica, h) /\ h # KeepAlive
        <3> DEFINE t == h.id
                   s == shadow[t]
        <3>1. t \in Id /\ s \in Entry /\ h \in DeltasOf(t, replica[t], s)
            BY <2>1, <2>5
        <3> HIDE DEF h, t, s
        <3>2. replica[t] # s
            BY <2>1, <3>1, DeltaApplies
        <3>3. \E x \in Feed!Towards(replica[t], s) :
                  ApplyEvent(replica, h) = [replica EXCEPT ![t] = x]
            BY <2>1, <3>1, DeltaApplies
        <3>4. Feed!Tell(t)
            BY <2>1, <2>2, <2>5, <3>2, <3>3 DEF s, Feed!Tell
        <3> QED
            BY <3>1, <3>4 DEF Feed!Next
    <2> QED
        BY <1>2, <2>3, <2>4, <2>5 DEF Emit
<1>3. CASE ~ApplyDiff /\ ~Emit
    BY <1>3 DEF Next, Progress, vars, memory, ServerChange, PushState,
        CloseStream, AnswerChanges, AnswerGet, Resume, OpenStream, AwaitFrame,
        TakeFrame, EndCycle, AwaitReply, DispatchGet, Resubscribe, Fail,
        FlipShutdown
<1> QED
    BY <1>1, <1>2, <1>3

\* Every behaviour of the watcher, seen through shadow, replica and
\* suppress, is a behaviour of the feed its consumers rely on.
THEOREM WatchImplementsFeed == Spec => ImplementsFeed
<1> QED
    BY FeedInit, FeedStep, ToldCorrect, PTL DEF Spec, ImplementsFeed, Feed!Spec
=============================================================================
