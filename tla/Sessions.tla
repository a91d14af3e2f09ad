------------------------------- MODULE Sessions -------------------------------
(***************************************************************************)
(* HttpSessionRegistry and the handler of stateful MCP requests            *)
(* (src/src/server-http.ts).  Expired sessions stay in the table until a   *)
(* request or a registration prunes it.  Times are kept relative to now:   *)
(* left is expiresAt - now, cut off at 0, so time is unbounded.            *)
(***************************************************************************)
EXTENDS Integers, FiniteSets

CONSTANTS
    Ids,            \* session objects; each is created at most once (randomUUID)
    MaxSessions,    \* maxSessions
    Ttl             \* ttlMs, in ticks

ASSUME CapAssumption == MaxSessions \in Nat \ {0} /\ Ttl \in Nat \ {0}

VARIABLES
    sessions,       \* the Map: id -> [left, rank]; rank is its insertion order
    object,         \* id -> "none", "connecting", or its server and transport
                    \* "open" or "closed"
    answering,      \* registered sessions whose initialize is still in progress
    deleting,       \* sessions whose DELETE has reached their transport
    refused,        \* history: sessions whose initialize the SDK refused
    registrations,  \* number of sessions registered so far
    up,             \* the HTTP server has not closed
    answer          \* status code of the last request with a session id

handlers == <<answering, deleting, refused>>
vars == <<sessions, object, handlers, registrations, up, answer>>

Registered == DOMAIN sessions

-------------------------------------------------------------------------------
(* pruneExpired, close, register, get *)

Unexpired(ids) == {i \in ids : sessions[i].left > 0}

Earlier_Insertion(i, j) == sessions[i].rank < sessions[j].rank

\* Array.prototype.sort by expiresAt is stable: ties go to the older entry.
Earlier(i, j) ==
    \/ sessions[i].left < sessions[j].left
    \/ sessions[i].left = sessions[j].left /\ sessions[i].rank < sessions[j].rank

Victims_OneTooFew(ids) ==
    {i \in ids : Cardinality({j \in ids : Earlier(j, i)}) < Cardinality(ids) - MaxSessions}

\* Closed by the loop that runs while the size is at least maxSessions.
Victims(ids) ==
    {i \in ids : Cardinality({j \in ids : Earlier(j, i)})
                     < Cardinality(ids) - MaxSessions + 1}

Closed_OnlyForgotten(ids) == object

\* close(sessionId) of each: out of the Map and its two ends closed
Closed(ids) == [i \in Ids |-> IF i \in ids THEN "closed" ELSE object[i]]

KeptOf(ids) == [i \in ids |-> sessions[i]]

Renewed(i) == [sessions[i] EXCEPT !.left = Ttl]

-------------------------------------------------------------------------------
(* handleStatefulMcpRequest *)

\* An initialize request without session id: create, then await connect.
Create(i) ==
    /\ up
    /\ object[i] = "none"
    /\ object' = [object EXCEPT ![i] = "connecting"]
    /\ UNCHANGED <<sessions, handlers, registrations, up, answer>>

\* onsessioninitialized: register
Initialized(i) ==
    /\ object[i] = "connecting"
    /\ LET kept == Unexpired(Registered)
           left == kept \ Victims(kept)
       IN  /\ sessions' = [j \in left \cup {i} |->
                              IF j = i THEN [left |-> Ttl, rank |-> registrations]
                                       ELSE sessions[j]]
           /\ object' = [Closed(Registered \ left) EXCEPT ![i] = "open"]
    /\ answering' = answering \cup {i}
    /\ registrations' = registrations + 1
    /\ UNCHANGED <<deleting, refused, up, answer>>

\* The SDK answers an initialize it refuses without throwing: the server and
\* the transport stay connected, are in no table, and nobody closes them.
InitializeRefused(i) ==
    /\ object[i] = "connecting"
    /\ object' = [object EXCEPT ![i] = "open"]
    /\ refused' = refused \cup {i}
    /\ UNCHANGED <<sessions, answering, deleting, registrations, up, answer>>

InitializeAnswered(i) ==
    /\ i \in answering
    /\ answering' = answering \ {i}
    /\ UNCHANGED <<sessions, object, deleting, refused, registrations, up, answer>>

\* connect or handleRequest throws, before or after the registration: both ends
\* are closed, and closing the transport takes the session out of the Map.
InitializeFails(i) ==
    /\ object[i] = "connecting" \/ i \in answering
    /\ sessions' = KeptOf(Registered \ {i})
    /\ object' = Closed({i})
    /\ answering' = answering \ {i}
    /\ UNCHANGED <<deleting, refused, registrations, up, answer>>

Get_NoPrune(i) ==
    /\ sessions' = [j \in Registered |-> IF j = i THEN Renewed(i) ELSE sessions[j]]
    /\ answer' = IF i \in Registered THEN 200 ELSE 404
    /\ UNCHANGED object

\* get: prunes first; a session that is still there is renewed, and its
\* transport serves the request.
Get(i) ==
    LET kept == Unexpired(Registered)
    IN  /\ sessions' = [j \in kept |-> IF j = i THEN Renewed(i) ELSE sessions[j]]
        /\ object' = Closed(Registered \ kept)
        /\ answer' = IF i \in kept THEN 200 ELSE 404

\* A POST or GET with a session id, be it one the Map has never had.
Request(i) ==
    /\ up
    /\ Get(i)
    /\ UNCHANGED <<handlers, registrations, up>>

Delete(i) ==
    /\ up
    /\ Get(i)
    /\ deleting' = deleting \cup ({i} \cap Unexpired(Registered))
    /\ UNCHANGED <<answering, refused, registrations, up>>

\* The transport of a deleted session reports its end: onsessionclosed closes
\* the session, unless it has left the Map since.
SessionEnds(i) ==
    /\ i \in deleting
    /\ sessions' = KeptOf(Registered \ {i})
    /\ object' = Closed(Registered \cap {i})
    /\ deleting' = deleting \ {i}
    /\ UNCHANGED <<answering, refused, registrations, up, answer>>

\* The HTTP server's "close" event, once its last connection has ended:
\* closeAll.  (From create to register there are only steps of the SDK that
\* wait for no connection, so none is between them.)
ServerCloses ==
    /\ up
    /\ \A i \in Ids : object[i] # "connecting"
    /\ sessions' = KeptOf({})
    /\ object' = Closed(Registered)
    /\ up' = FALSE
    /\ UNCHANGED <<handlers, registrations, answer>>

Tick ==
    /\ sessions' = [i \in Registered |->
                       [sessions[i] EXCEPT !.left = IF @ = 0 THEN 0 ELSE @ - 1]]
    /\ UNCHANGED <<object, handlers, registrations, up, answer>>

Init ==
    /\ sessions = [i \in {} |-> i]
    /\ object = [i \in Ids |-> "none"]
    /\ answering = {} /\ deleting = {} /\ refused = {}
    /\ registrations = 0
    /\ up = TRUE
    /\ answer = 0

Next ==
    \/ Tick
    \/ ServerCloses
    \/ \E i \in Ids :
        \/ Create(i)
        \/ Initialized(i)
        \/ InitializeRefused(i)
        \/ InitializeAnswered(i)
        \/ InitializeFails(i)
        \/ Request(i)
        \/ Delete(i)
        \/ SessionEnds(i)

Spec == Init /\ [][Next]_vars

-------------------------------------------------------------------------------
(* Properties *)

\* The table and the objects have their types.
TypeOK ==
    /\ Registered \subseteq Ids
    /\ sessions \in [Registered -> [left: 0 .. Ttl, rank: Nat]]
    /\ object \in [Ids -> {"none", "connecting", "open", "closed"}]
    /\ answering \subseteq Ids /\ deleting \subseteq Ids /\ refused \subseteq Ids
    /\ registrations \in Nat /\ up \in BOOLEAN /\ answer \in {0, 200, 404}

\* No more than maxSessions sessions, whatever order they are created,
\* initialized, used and ended in.
CapRespected == IsFiniteSet(Registered) /\ Cardinality(Registered) <= MaxSessions

\* The two ends of a session are open exactly while the Map knows it, whichever
\* of pruning, eviction, DELETE, a failing initialize and shutdown come together
\* on it.  The one exception is a session whose initialize the SDK refused: it is
\* never closed, and is all that is left open once the server has closed.
OpenIffKnown ==
    /\ \A i \in Ids : object[i] = "open" <=> i \in Registered \/ i \in refused
    /\ ~ up => Registered = {} /\ \A i \in Ids : object[i] # "connecting"

Store == INSTANCE SessionStore WITH
    idle <- [i \in Unexpired(Registered) |-> Ttl - sessions[i].left]

\* The lazily pruned table implements the store of live sessions: sliding
\* expiry and eviction of the least recently used, never of more than the new
\* session needs.
ImplementsStore == Store!Spec

\* docs/operations.md: "Expired or evicted sessions return a deterministic
\* 404".  The answer depends only on whether the store holds the session, not
\* on whether some other request has pruned it yet.
AnswersTellLive ==
    [][\A i \in Ids : Request(i) \/ Delete(i) =>
          answer' = IF i \in Store!Live THEN 200 ELSE 404]_vars
===============================================================================
