---------------------------- MODULE MailboxFeed ----------------------------
(***************************************************************************)
(* What a mailbox watcher promises to whoever folds its WatchEvents: after *)
(* one silent bootstrap, the consumer's picture of the mailbox moves one   *)
(* message at a time towards the watcher's own picture, every event it is  *)
(* told applies to what it already knows, and a new round of deltas starts *)
(* only when the previous one has been told in full.                       *)
(*                                                                         *)
(* There is no queue, no server and no protocol here: the detailed         *)
(* watchers are shown to implement this module.                            *)
(***************************************************************************)
CONSTANTS
    Id,        \* message ids
    Keyword,   \* flags a message may carry
    Out        \* "not in the watched mailbox"

VARIABLES
    shadow,    \* the watcher's picture: Id -> flags, or Out
    replica,   \* the picture a consumer builds from the events
    suppress   \* TRUE until the silent bootstrap is over

vars == <<shadow, replica, suppress>>

Entry == {Out} \union SUBSET Keyword

Init ==
    /\ shadow = [i \in Id |-> Out]
    /\ replica = shadow
    /\ suppress = TRUE

\* The first picture is taken without telling any event.
Bootstrap ==
    /\ suppress
    /\ suppress' = FALSE
    /\ shadow' \in [Id -> Entry]
    /\ replica' = shadow'

\* The watcher learns a newer picture once the last one is fully told.
Learn ==
    /\ ~suppress
    /\ replica = shadow
    /\ shadow' \in [Id -> Entry]
    /\ UNCHANGED <<replica, suppress>>

\* The entries one event may leave for a message the consumer knows as r
\* while the watcher knows it as s: for a message both know, an event
\* brings the missing flags or drops the extra ones, never a mix.
Towards(r, s) ==
    IF r = Out \/ s = Out THEN {s}
    ELSE {r \union s, r \cap s}

\* One event: it concerns one message that is out of date and it brings
\* that message closer to the watcher's picture.
Tell(i) ==
    /\ ~suppress
    /\ replica[i] # shadow[i]
    /\ \E e \in Towards(replica[i], shadow[i]) :
           replica' = [replica EXCEPT ![i] = e]
    /\ UNCHANGED <<shadow, suppress>>

Next == Bootstrap \/ Learn \/ \E i \in Id : Tell(i)

Spec == Init /\ [][Next]_vars
=============================================================================
