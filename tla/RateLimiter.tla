------------------------------ MODULE RateLimiter ------------------------------
(***************************************************************************)
(* InMemoryRateLimiter (src/src/server-http.ts): a counter per client and  *)
(* fixed window, asked once by every authenticated request of the HTTP     *)
(* endpoint (module HttpEndpoint).  Ages count from the start of a window  *)
(* and stop at its length, so time is unbounded.                           *)
(***************************************************************************)
EXTENDS Integers

CONSTANTS
    Keys,       \* client addresses
    Limit,      \* limit
    Window,     \* windowMs, in ticks
    MaxCount    \* bound of the model on requests counted in one window

ASSUME LimitAssumption == Limit \in Nat \ {0} /\ Window \in Nat \ {0}
ASSUME CountAssumption == MaxCount \in Nat /\ MaxCount > Limit

VARIABLES
    buckets,    \* key -> [count, age]; age is now - windowStartedAt
    allowed,    \* history: key -> i -> requests allowed in the last i ticks
    denied      \* the key whose request was denied in the last step, or NoKey

limiterVars == <<buckets, allowed, denied>>

NoKey == "none"

\* !bucket || now - windowStartedAt >= windowMs
Expired_Late(k) == k \in DOMAIN buckets => buckets[k].age > Window

Expired(k) == k \in DOMAIN buckets => buckets[k].age >= Window

\* check(key): the bucket after the call.  A count at MaxCount stands for every
\* larger one.
Counted_Renews(k) ==
    IF Expired(k) THEN [count |-> 1, age |-> 0]
    ELSE [count |-> IF buckets[k].count < MaxCount THEN buckets[k].count + 1 ELSE MaxCount,
          age   |-> 0]

Counted_FromZero(k) ==
    IF Expired(k) THEN [count |-> 0, age |-> 0]
    ELSE [buckets[k] EXCEPT !.count = IF @ < MaxCount THEN @ + 1 ELSE @]

Counted(k) ==
    IF Expired(k) THEN [count |-> 1, age |-> 0]
    ELSE [buckets[k] EXCEPT !.count = IF @ < MaxCount THEN @ + 1 ELSE @]

IsAllowed_OneMore(bucket) == bucket.count <= Limit + 1

IsAllowed(bucket) == bucket.count <= Limit

Check(k) ==
    /\ buckets' = [j \in DOMAIN buckets \cup {k} |->
                       IF j = k THEN Counted(k) ELSE buckets[j]]
    /\ IF IsAllowed(Counted(k))
       THEN /\ allowed' = [allowed EXCEPT ![k] = [i \in 1 .. Window |-> @[i] + 1]]
            /\ denied' = NoKey
       ELSE /\ denied' = k
            /\ UNCHANGED allowed

LimiterTick ==
    /\ buckets' = [k \in DOMAIN buckets |->
                      [buckets[k] EXCEPT !.age = IF @ < Window THEN @ + 1 ELSE @]]
    /\ allowed' = [k \in Keys |-> [i \in 1 .. Window |->
                      IF i = 1 THEN 0 ELSE allowed[k][i - 1]]]
    /\ denied' = NoKey

LimiterInit ==
    /\ buckets = [k \in {} |-> k]
    /\ allowed = [k \in Keys |-> [i \in 1 .. Window |-> 0]]
    /\ denied = NoKey

LimiterNext == LimiterTick \/ \E k \in Keys : Check(k)

LimiterSpec == LimiterInit /\ [][LimiterNext]_limiterVars /\ WF_limiterVars(LimiterTick)

-------------------------------------------------------------------------------
(* Properties *)

\* Buckets and history have their types.
LimiterTypeOK ==
    /\ DOMAIN buckets \subseteq Keys
    /\ buckets \in [DOMAIN buckets -> [count: 1 .. MaxCount, age: 0 .. Window]]
    /\ allowed \in [Keys -> [1 .. Window -> Nat]]
    /\ denied \in Keys \cup {NoKey}

AllowedInLastWindow(k) == allowed[k][Window]

\* The fixed windows bound every sliding window: fewer than twice the limit
\* are allowed within any windowMs (the request that opens a window is no
\* longer in it when the next one opens).
SlidingBound == \A k \in Keys : AllowedInLastWindow(k) <= 2 * Limit - 1

\* A request is denied only if limit requests of the same client were allowed
\* within the current window: clients do not share a budget, and being denied
\* does not make the wait longer.
DeniedOnlyOverLimit ==
    denied # NoKey =>
        AllowedInLastWindow(denied) >= Limit /\ buckets[denied].age < Window

\* The time between two windows is no longer than one window: a client that is
\* denied is allowed again after waiting (its bucket expires), without it
\* having to be quiet.
WaitEnds == \A k \in Keys : denied = k ~> Expired(k)
===============================================================================
