----------------------------- MODULE SessionStore -----------------------------
(***************************************************************************)
(* What stateful HTTP mode promises (docs/operations.md): a store of at    *)
(* most MaxSessions sessions in which a session lives until it is ended,   *)
(* has been idle for Ttl, or is the least recently used one when a new     *)
(* session needs its place.  Nothing is said of when the memory of a dead  *)
(* session is released.                                                    *)
(***************************************************************************)
EXTENDS Integers, FiniteSets

CONSTANTS Ids, MaxSessions, Ttl

VARIABLE idle       \* id -> ticks since its last use, on the live sessions

Live == DOMAIN idle

LeastRecentlyUsed == {i \in Live : \A j \in Live : idle[j] <= idle[i]}

Keep(ids) == [i \in ids |-> idle[i]]

Open(i) ==
    /\ i \notin Live
    /\ \E gone \in SUBSET LeastRecentlyUsed :
        /\ Cardinality(gone) = IF Cardinality(Live) = MaxSessions THEN 1 ELSE 0
        /\ idle' = [j \in (Live \ gone) \cup {i} |-> IF j = i THEN 0 ELSE idle[j]]

Use(i) == i \in Live /\ idle' = [idle EXCEPT ![i] = 0]

End(i) == i \in Live /\ idle' = Keep(Live \ {i})

EndAll == idle' = Keep({})

Tick == idle' = [i \in {j \in Live : idle[j] + 1 < Ttl} |-> idle[i] + 1]

Init == idle = [i \in {} |-> i]

Next == Tick \/ EndAll \/ \E i \in Ids : Open(i) \/ Use(i) \/ End(i)

Spec == Init /\ [][Next]_idle
===============================================================================
