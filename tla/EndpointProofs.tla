---------------------------- MODULE EndpointProofs ----------------------------
(***************************************************************************)
(* Proofs about module HttpEndpoint, for any number of connections and     *)
(* clients, any limit and any configuration.                               *)
(***************************************************************************)
EXTENDS HttpEndpoint, TLAPS

\* What the gates establish for a request holds as long as it is served: the
\* configuration does not change, and a request only moves on.
Vetted(e) == config.token /\ e.bearer /\ (e.origin = "other" => ~config.origins)

GatesHold ==
    \A r \in Slots : InHandler(r) =>
        /\ Vetted(requests[r])
        /\ phase \notin {"starting", "refused", "binding", "ended"}

\* What startHttpServer established before it listened.
StartHolds ==
    /\ phase \notin {"starting", "refused"} => StartupValid
    /\ phase \in {"starting", "refused"} => scheduler = "off"
    /\ phase = "ended" => scheduler \in {"off", "unset"}
    /\ scheduler = "unset" => phase = "ended"
    /\ scheduler = "stdio" => AllowStdio

\* The safety part of a MonitorServer's life.
ServersHold ==
    /\ \A r \in servers : requests[r].stage \in {"handling", "answered", "open"}
    /\ \A r \in Slots : requests[r].stage \in {"handling", "open"} => r \in servers
    /\ phase \in {"starting", "refused", "binding", "ended"} =>
           \A r \in Slots : requests[r].stage = "free"

\* What the limiter let through, against the bucket of the client.  The
\* request that opened the window came age ticks ago: what was allowed since
\* then is less than what the bucket counts, what was allowed in any longer
\* time is that much or more, and exceeds it by less than the limit, since
\* the first request of the window before is further back than a window.
InBudget(x, count, age, i) ==
    IF i <= age
    THEN x < count /\ x < Limit
    ELSE /\ x >= count \/ x >= Limit
         /\ x < count + Limit
         /\ x < 2 * Limit

BudgetHolds ==
    \A k \in Keys : \A i \in 1 .. Window :
        IF k \in DOMAIN buckets
        THEN InBudget(allowed[k][i], buckets[k].count, buckets[k].age, i)
        ELSE allowed[k][i] = 0

DeniedHolds ==
    denied # NoKey =>
        /\ denied \in DOMAIN buckets
        /\ buckets[denied].age < Window
        /\ buckets[denied].count > Limit

LimiterHolds == BudgetHolds /\ DeniedHolds

IInv == EndpointTypeOK /\ LimiterHolds /\ GatesHold /\ StartHolds /\ ServersHold

-------------------------------------------------------------------------------
(* Types *)

LEMMA LimiterInitTypes == LimiterInit => LimiterTypeOK
<1> SUFFICES ASSUME LimiterInit PROVE LimiterTypeOK
    OBVIOUS
<1>1. DOMAIN buckets = {} /\ buckets \in [DOMAIN buckets -> [count: 1 .. MaxCount, age: 0 .. Window]]
    BY DEF LimiterInit
<1>2. allowed \in [Keys -> [1 .. Window -> Nat]]
    BY DEF LimiterInit
<1> QED BY <1>1, <1>2 DEF LimiterInit, LimiterTypeOK

LEMMA CheckKeepsTypes ==
    ASSUME LimiterTypeOK, NEW k \in Keys, Check(k) PROVE LimiterTypeOK'
<1> USE LimitAssumption, CountAssumption DEF LimiterTypeOK
<1>1. Counted(k) \in [count: 1 .. MaxCount, age: 0 .. Window]
    <2>1. CASE Expired(k)
        BY <2>1 DEF Counted
    <2>2. CASE ~Expired(k)
        <3>1. buckets[k] \in [count: 1 .. MaxCount, age: 0 .. Window]
            BY <2>2 DEF Expired
        <3> QED BY <2>2, <3>1 DEF Counted
    <2> QED BY <2>1, <2>2
<1>2. /\ DOMAIN buckets' = DOMAIN buckets \cup {k}
      /\ buckets' \in [DOMAIN buckets' -> [count: 1 .. MaxCount, age: 0 .. Window]]
    BY <1>1 DEF Check
<1>3. allowed' \in [Keys -> [1 .. Window -> Nat]]
    <2>1. [i \in 1 .. Window |-> allowed[k][i] + 1] \in [1 .. Window -> Nat]
        OBVIOUS
    <2>2. [allowed EXCEPT ![k] = [i \in 1 .. Window |-> @[i] + 1]] \in [Keys -> [1 .. Window -> Nat]]
        BY <2>1
    <2> QED BY <2>2 DEF Check
<1>4. denied' \in Keys \cup {NoKey}
    BY DEF Check
<1> QED BY <1>2, <1>3, <1>4

LEMMA LimiterTickKeepsTypes ==
    ASSUME LimiterTypeOK, LimiterTick PROVE LimiterTypeOK'
<1> USE LimitAssumption, CountAssumption DEF LimiterTypeOK
<1>1. /\ DOMAIN buckets' = DOMAIN buckets
      /\ buckets' \in [DOMAIN buckets' -> [count: 1 .. MaxCount, age: 0 .. Window]]
    <2>1. ASSUME NEW k \in DOMAIN buckets
          PROVE  [buckets[k] EXCEPT !.age = IF buckets[k].age < Window
                                            THEN buckets[k].age + 1
                                            ELSE buckets[k].age]
                     \in [count: 1 .. MaxCount, age: 0 .. Window]
        <3>1. buckets[k] \in [count: 1 .. MaxCount, age: 0 .. Window]
            OBVIOUS
        <3>2. (IF buckets[k].age < Window THEN buckets[k].age + 1 ELSE buckets[k].age)
                  \in 0 .. Window
            BY <3>1
        <3> QED BY <3>1, <3>2
    <2> QED BY <2>1 DEF LimiterTick
<1>2. allowed' \in [Keys -> [1 .. Window -> Nat]]
    <2>1. ASSUME NEW k \in Keys, NEW i \in 1 .. Window
          PROVE  (IF i = 1 THEN 0 ELSE allowed[k][i - 1]) \in Nat
        <3>1. i # 1 => i - 1 \in 1 .. Window
            OBVIOUS
        <3>2. allowed[k] \in [1 .. Window -> Nat]
            OBVIOUS
        <3> QED BY <3>1, <3>2
    <2>2. ASSUME NEW k \in Keys
          PROVE  [i \in 1 .. Window |-> IF i = 1 THEN 0 ELSE allowed[k][i - 1]]
                     \in [1 .. Window -> Nat]
        BY <2>1
    <2> QED BY <2>2 DEF LimiterTick
<1>3. denied' \in Keys \cup {NoKey}
    BY DEF LimiterTick
<1> QED BY <1>1, <1>2, <1>3

-------------------------------------------------------------------------------
(* The budget of a client *)

\* A window that opens: nothing of what is still counted exceeds the limit.
LEMMA OpenedBudget ==
    ASSUME NEW x \in Nat, x < Limit, NEW i \in 1 .. Window
    PROVE  InBudget(x + 1, 1, 0, i)
BY LimitAssumption DEF InBudget

\* A request that is counted and allowed.
LEMMA AllowedBudget ==
    ASSUME NEW x \in Nat, NEW count \in Nat, NEW age \in Nat, NEW i \in 1 .. Window,
           InBudget(x, count, age, i), count + 1 <= Limit
    PROVE  InBudget(x + 1, count + 1, age, i)
BY LimitAssumption DEF InBudget

\* A request that is counted, if the bound permits, and denied.
LEMMA DeniedBudget ==
    ASSUME NEW x \in Nat, NEW count \in Nat, NEW age \in Nat, NEW i \in 1 .. Window,
           InBudget(x, count, age, i),
           NEW next \in {count, count + 1}, next > Limit
    PROVE  InBudget(x, next, age, i)
BY LimitAssumption DEF InBudget

\* A tick moves the window and what was allowed in it back alike.
LEMMA TickedBudget ==
    ASSUME NEW x \in Nat, NEW count \in Nat, NEW age \in 0 .. Window,
           NEW i \in 2 .. Window, InBudget(x, count, age, i - 1)
    PROVE  InBudget(x, count, IF age < Window THEN age + 1 ELSE age, i)
BY LimitAssumption DEF InBudget

LEMMA EmptyBudget ==
    ASSUME NEW count \in Nat, count >= 1, NEW age \in 0 .. Window
    PROVE  InBudget(0, count, IF age < Window THEN age + 1 ELSE age, 1)
BY LimitAssumption DEF InBudget

LEMMA LimiterInitHolds == LimiterInit => LimiterHolds
<1> SUFFICES ASSUME LimiterInit PROVE LimiterHolds
    OBVIOUS
<1>1. BudgetHolds
    BY DEF LimiterInit, BudgetHolds
<1>2. DeniedHolds
    BY DEF LimiterInit, DeniedHolds
<1> QED BY <1>1, <1>2 DEF LimiterHolds

LEMMA UnchangedLimiterHolds ==
    ASSUME LimiterHolds, UNCHANGED limiterVars PROVE LimiterHolds'
BY DEF LimiterHolds, BudgetHolds, DeniedHolds, InBudget, limiterVars

\* What the types say of one client's history and bucket.
LEMMA ClientTypes ==
    ASSUME LimiterTypeOK, NEW k \in Keys
    PROVE  /\ allowed[k] \in [1 .. Window -> Nat]
           /\ k \in DOMAIN buckets =>
                 /\ buckets[k] \in [count: 1 .. MaxCount, age: 0 .. Window]
                 /\ buckets[k].count \in Nat \ {0}
                 /\ buckets[k].age \in 0 .. Window
BY CountAssumption, LimitAssumption DEF LimiterTypeOK

LEMMA CheckKeepsLimiter ==
    ASSUME LimiterTypeOK, LimiterHolds, NEW k \in Keys, Check(k)
    PROVE  LimiterHolds'
<1> USE LimitAssumption, CountAssumption
<1> DEFINE next == Counted(k)
<1>1. /\ DOMAIN buckets' = DOMAIN buckets \cup {k}
      /\ buckets'[k] = next
      /\ \A j \in DOMAIN buckets \ {k} : buckets'[j] = buckets[j]
    BY DEF Check
<1>2. \A j \in Keys \ {k} : allowed'[j] = allowed[j]
    BY DEF Check, LimiterTypeOK
<1>3. \A i \in 1 .. Window : allowed'[k][i] =
          IF IsAllowed(next) THEN allowed[k][i] + 1 ELSE allowed[k][i]
    BY DEF Check, LimiterTypeOK
<1>4. denied' = IF IsAllowed(next) THEN NoKey ELSE k
    BY DEF Check
<1>5. CASE Expired(k)
    <2>1. next.count = 1 /\ next.age = 0 /\ IsAllowed(next)
        BY <1>5 DEF Counted, IsAllowed
    <2>2. ASSUME NEW i \in 1 .. Window
          PROVE  InBudget(allowed'[k][i], 1, 0, i)
        <3>1. allowed[k][i] \in Nat
            BY ClientTypes
        <3>2. allowed[k][i] < Limit
            <4>1. CASE k \in DOMAIN buckets
                <5>1. buckets[k].age = Window
                    BY <1>5, <4>1, ClientTypes DEF Expired
                <5>2. InBudget(allowed[k][i], buckets[k].count, buckets[k].age, i)
                    BY <4>1 DEF LimiterHolds, BudgetHolds
                <5> QED BY <5>1, <5>2 DEF InBudget
            <4>2. CASE k \notin DOMAIN buckets
                BY <4>2 DEF LimiterHolds, BudgetHolds
            <4> QED BY <4>1, <4>2
        <3>3. allowed'[k][i] = allowed[k][i] + 1
            BY <1>3, <2>1
        <3> QED BY <3>1, <3>2, <3>3, OpenedBudget
    <2>3. BudgetHolds'
        <3>1. ASSUME NEW j \in Keys, NEW i \in 1 .. Window, j # k
              PROVE  IF j \in DOMAIN buckets'
                     THEN InBudget(allowed'[j][i], buckets'[j].count, buckets'[j].age, i)
                     ELSE allowed'[j][i] = 0
            BY <1>1, <1>2, <3>1 DEF LimiterHolds, BudgetHolds
        <3> HIDE DEF next
        <3> QED BY <1>1, <2>1, <2>2, <3>1 DEF BudgetHolds
    <2>4. DeniedHolds'
        BY <1>4, <2>1 DEF DeniedHolds
    <2> QED BY <2>3, <2>4 DEF LimiterHolds
<1>6. CASE ~Expired(k)
    <2>1. k \in DOMAIN buckets /\ buckets[k].age < Window
        BY <1>6, ClientTypes DEF Expired
    <2> DEFINE c == buckets[k].count
               a == buckets[k].age
    <2>2. c \in Nat \ {0} /\ a \in 0 .. Window
        BY <2>1, ClientTypes
    <2>3. /\ next.age = a
          /\ next.count = IF c < MaxCount THEN c + 1 ELSE c
        BY <1>6, <2>1, ClientTypes DEF Counted
    <2>4. IsAllowed(next) => next.count = c + 1 /\ c + 1 <= Limit
        BY <2>1, <2>2, <2>3, ClientTypes DEF IsAllowed
    <2>5. ~IsAllowed(next) => next.count \in {c, c + 1} /\ next.count > Limit
        BY <2>2, <2>3 DEF IsAllowed
    <2>6. ASSUME NEW i \in 1 .. Window
          PROVE  InBudget(allowed'[k][i], next.count, next.age, i)
        <3>1. allowed[k][i] \in Nat
            BY ClientTypes
        <3>2. InBudget(allowed[k][i], c, a, i)
            BY <2>1 DEF LimiterHolds, BudgetHolds
        <3> HIDE DEF c, a, next
        <3>3. CASE IsAllowed(next)
            BY <1>3, <2>2, <2>3, <2>4, <3>1, <3>2, <3>3, AllowedBudget
        <3>4. CASE ~IsAllowed(next)
            BY <1>3, <2>2, <2>3, <2>5, <3>1, <3>2, <3>4, DeniedBudget
        <3> QED BY <3>3, <3>4
    <2>7. BudgetHolds'
        <3>1. ASSUME NEW j \in Keys, NEW i \in 1 .. Window, j # k
              PROVE  IF j \in DOMAIN buckets'
                     THEN InBudget(allowed'[j][i], buckets'[j].count, buckets'[j].age, i)
                     ELSE allowed'[j][i] = 0
            BY <1>1, <1>2, <3>1 DEF LimiterHolds, BudgetHolds
        <3> HIDE DEF next
        <3> QED BY <1>1, <2>6, <3>1 DEF BudgetHolds
    <2>8. DeniedHolds'
        <3> HIDE DEF next
        <3> QED BY <1>1, <1>4, <2>1, <2>3, <2>5 DEF DeniedHolds
    <2> QED BY <2>7, <2>8 DEF LimiterHolds
<1> QED BY <1>5, <1>6

LEMMA LimiterTickKeepsLimiter ==
    ASSUME LimiterTypeOK, LimiterHolds, LimiterTick PROVE LimiterHolds'
<1> USE LimitAssumption
<1>1. ASSUME NEW k \in Keys, NEW i \in 1 .. Window
      PROVE  IF k \in DOMAIN buckets'
             THEN InBudget(allowed'[k][i], buckets'[k].count, buckets'[k].age, i)
             ELSE allowed'[k][i] = 0
    <2>1. DOMAIN buckets' = DOMAIN buckets
        BY DEF LimiterTick
    <2>2. allowed'[k][i] = IF i = 1 THEN 0 ELSE allowed[k][i - 1]
        BY DEF LimiterTick
    <2>3. i # 1 => i \in 2 .. Window /\ i - 1 \in 1 .. Window /\ allowed[k][i - 1] \in Nat
        BY ClientTypes
    <2>4. CASE k \in DOMAIN buckets
        <3> DEFINE c == buckets[k].count
                   a == buckets[k].age
        <3>1. /\ c \in Nat \ {0} /\ a \in 0 .. Window
              /\ buckets[k] \in [count: 1 .. MaxCount, age: 0 .. Window]
            BY <2>4, ClientTypes
        <3>2. buckets'[k].count = c /\ buckets'[k].age = IF a < Window THEN a + 1 ELSE a
            BY <2>4, <3>1 DEF LimiterTick
        <3>3. i # 1 => InBudget(allowed[k][i - 1], c, a, i - 1)
            BY <2>3, <2>4 DEF LimiterHolds, BudgetHolds
        <3> HIDE DEF c, a
        <3>4. CASE i = 1
            <4>1. InBudget(0, c, IF a < Window THEN a + 1 ELSE a, 1)
                BY <3>1, EmptyBudget
            <4> QED BY <2>1, <2>2, <2>4, <3>2, <3>4, <4>1
        <3>5. CASE i # 1
            <4>1. InBudget(allowed[k][i - 1], c, IF a < Window THEN a + 1 ELSE a, i)
                BY <2>3, <3>1, <3>3, <3>5, TickedBudget
            <4> QED BY <2>1, <2>2, <2>4, <3>2, <3>5, <4>1
        <3> QED BY <3>4, <3>5
    <2>5. CASE k \notin DOMAIN buckets
        BY <2>1, <2>2, <2>3, <2>5 DEF LimiterHolds, BudgetHolds
    <2> QED BY <2>4, <2>5
<1>2. BudgetHolds'
    BY <1>1 DEF BudgetHolds
<1>3. DeniedHolds'
    BY DEF LimiterTick, DeniedHolds
<1> QED BY <1>2, <1>3 DEF LimiterHolds

\* The status of the first gate that fails
LEMMA RefusalIsStatus ==
    ASSUME NEW h \in Headers, Failing(h) # {}
    PROVE  Gates(h)[Min(Failing(h))].status \in 200 .. 599
<1>1. DOMAIN Gates(h) = 1 .. 6
    BY DEF Gates
<1>2. Failing(h) \subseteq 1 .. 6
    BY <1>1 DEF Failing
<1>3. \E x \in Failing(h) : \A y \in Failing(h) : x =< y
    BY <1>2
<1>4. Min(Failing(h)) \in 1 .. 6
    BY <1>2, <1>3 DEF Min
<1>5. \A g \in 1 .. 6 : Gates(h)[g].status \in 200 .. 599
    BY DEF Gates
<1> QED BY <1>4, <1>5

-------------------------------------------------------------------------------
(* The invariant *)

LEMMA InitIInv == Init => IInv
<1> SUFFICES ASSUME Init PROVE IInv
    OBVIOUS
<1>1. EndpointTypeOK
    BY LimiterInitTypes DEF Init, EndpointTypeOK, Phases, Exchange, Free
<1>2. GatesHold /\ StartHolds /\ ServersHold
    BY DEF Init, GatesHold, StartHolds, ServersHold, InHandler, Free
<1>3. LimiterHolds
    BY LimiterInitHolds DEF Init
<1> QED BY <1>1, <1>2, <1>3 DEF IInv

\* The steps of the process itself touch no request.
LEMMA ProcessKeepsIInv ==
    ASSUME IInv, StartHttpServer \/ Listens \/ BindFails \/ Close \/ Closed \/ CycleEnds
    PROVE  IInv'
<1>1. UNCHANGED <<config, requests, servers, limiterVars>>
    BY DEF StartHttpServer, Listens, BindFails, Close, Closed, CycleEnds
<1>2. EndpointTypeOK'
    BY <1>1 DEF IInv, EndpointTypeOK, LimiterTypeOK, limiterVars, Phases,
                StartHttpServer, Listens, BindFails, Close, Closed, CycleEnds
<1>3. GatesHold' /\ ServersHold'
    BY <1>1 DEF IInv, GatesHold, ServersHold, InHandler, Vetted,
                StartHttpServer, Listens, BindFails, Close, Closed, CycleEnds
<1>4. StartHolds'
    BY <1>1 DEF IInv, StartHolds, StartupValid, AllowStdio,
                StartHttpServer, Listens, BindFails, Close, Closed, CycleEnds
<1>5. LimiterHolds'
    BY <1>1, UnchangedLimiterHolds DEF IInv
<1> QED BY <1>2, <1>3, <1>4, <1>5 DEF IInv

\* A request arrives: nothing but its slot and the limiter changes.
LEMMA ArrivalKeepsIInv ==
    ASSUME IInv, NEW r \in Slots, NEW e \in Exchange, Arrives(r),
           e.stage = "answered" \/ (e.stage = "reading" /\ Vetted(e)),
           LimiterTypeOK', LimiterHolds',
           requests' = [requests EXCEPT ![r] = e],
           UNCHANGED <<config, phase, scheduler, servers>>
    PROVE  IInv'
<1>1. requests' \in [Slots -> Exchange] /\ requests'[r] = e
      /\ \A q \in Slots \ {r} : requests'[q] = requests[q]
    BY DEF IInv, EndpointTypeOK
<1>2. EndpointTypeOK'
    BY <1>1 DEF IInv, EndpointTypeOK
<1>3. GatesHold'
    BY <1>1 DEF IInv, GatesHold, InHandler, Arrives, Vetted
<1>4. ServersHold'
    BY <1>1 DEF IInv, ServersHold, Arrives, EndpointTypeOK
<1>5. StartHolds'
    BY DEF IInv, StartHolds, StartupValid, AllowStdio
<1> QED BY <1>2, <1>3, <1>4, <1>5 DEF IInv

LEMMA ReceiveKeepsIInv ==
    ASSUME IInv, NEW r \in Slots, Receive(r) PROVE IInv'
<1>1. CASE Health(r)
    <2>1. Answered(200) \in Exchange /\ Answered(200).stage = "answered"
        BY DEF Answered, Exchange
    <2>2. LimiterTypeOK'
        BY <1>1 DEF IInv, EndpointTypeOK, LimiterTypeOK, limiterVars, Health
    <2>h. LimiterHolds'
        BY <1>1, UnchangedLimiterHolds DEF IInv, Health
    <2> QED BY <1>1, <2>1, <2>2, <2>h, ArrivalKeepsIInv DEF Health
<1>2. ASSUME NEW h \in Headers, Refuse(r, h) PROVE IInv'
    <2> DEFINE s == Gates(h)[Min(Failing(h))].status
    <2>1. s \in 200 .. 599
        BY <1>2, RefusalIsStatus DEF Refuse
    <2>2. Answered(s) \in Exchange /\ Answered(s).stage = "answered"
        BY <2>1 DEF Answered, Exchange
    <2>3. LimiterTypeOK'
        BY <1>2 DEF IInv, EndpointTypeOK, LimiterTypeOK, limiterVars, Refuse
    <2>h. LimiterHolds'
        BY <1>2, UnchangedLimiterHolds DEF IInv, Refuse
    <2>4. Arrives(r) /\ requests' = [requests EXCEPT ![r] = Answered(s)]
          /\ UNCHANGED <<config, phase, scheduler, servers>>
        BY <1>2 DEF Refuse
    <2> HIDE DEF s
    <2> QED BY <2>2, <2>3, <2>h, <2>4, ArrivalKeepsIInv
<1>3. ASSUME NEW h \in Headers, NEW k \in Keys, Admit(r, h, k) PROVE IInv'
    <2> DEFINE e == IF IsAllowed(Counted(k)) THEN InService("reading", h) ELSE Answered(429)
    <2>1. e \in Exchange
        <3>1. InService("reading", h) \in Headed({"reading"})
            BY DEF InService, Headed, Headers
        <3>2. Answered(429) \in [stage: {"answered"}, status: 200 .. 599]
            BY DEF Answered
        <3> QED BY <3>1, <3>2 DEF Exchange, Headed
    <2>2. config.token /\ h.bearer /\ (h.origin = "other" => ~config.origins)
        <3>1. DOMAIN Gates(h) = 1 .. 6
            BY DEF Gates
        <3>2. \A g \in 1 .. 6 : Gates(h)[g].passes
            BY <1>3, <3>1 DEF Admit, Failing
        <3>3. Gates(h)[5].passes = config.token /\ Gates(h)[6].passes = h.bearer
              /\ Gates(h)[3].passes = OriginAllowed(h.origin)
            BY DEF Gates
        <3>4. Gates(h)[3].passes /\ Gates(h)[5].passes /\ Gates(h)[6].passes
            BY <3>2
        <3> QED BY <3>3, <3>4 DEF OriginAllowed
    <2>3. e.stage = "answered" \/ (e.stage = "reading" /\ Vetted(e))
        BY <2>2 DEF InService, Answered, Vetted
    <2>4. LimiterTypeOK' /\ LimiterHolds'
        BY <1>3, CheckKeepsTypes, CheckKeepsLimiter DEF IInv, EndpointTypeOK, Admit
    <2>5. Arrives(r) /\ requests' = [requests EXCEPT ![r] = e]
          /\ UNCHANGED <<config, phase, scheduler, servers>>
        BY <1>3 DEF Admit
    <2> HIDE DEF e
    <2> QED BY <2>1, <2>3, <2>4, <2>5, ArrivalKeepsIInv
<1> QED BY <1>1, <1>2, <1>3 DEF Receive

\* A request in progress moves on to e, and its server opens, closes or stays.
LEMMA MoveKeepsIInv ==
    ASSUME IInv, NEW r \in Slots, NEW e \in Exchange,
           requests[r].stage # "free",
           e.stage \in {"reading", "handling", "session", "open", "left"} => Vetted(e),
           requests' = [requests EXCEPT ![r] = e],
           servers' \in {servers, servers \cup {r}, servers \ {r}},
           r \in servers' => e.stage \in {"handling", "answered", "open"},
           e.stage \in {"handling", "open"} => r \in servers',
           UNCHANGED <<config, phase, scheduler, limiterVars>>
    PROVE  IInv'
<1>1. requests' \in [Slots -> Exchange] /\ requests'[r] = e
      /\ \A q \in Slots \ {r} : requests'[q] = requests[q]
    BY DEF IInv, EndpointTypeOK
<1>2. EndpointTypeOK' /\ LimiterHolds'
    BY <1>1, UnchangedLimiterHolds DEF IInv, EndpointTypeOK, LimiterTypeOK, limiterVars
<1>3. phase \notin {"starting", "refused", "binding", "ended"}
    BY DEF IInv, ServersHold
<1>4. GatesHold'
    BY <1>1, <1>3 DEF IInv, GatesHold, InHandler, Vetted
<1>5. ServersHold'
    <2>1. servers \subseteq Slots
        BY DEF IInv, EndpointTypeOK
    <2>2. ASSUME NEW q \in servers'
          PROVE  requests'[q].stage \in {"handling", "answered", "open"}
        <3>1. CASE q = r
            BY <1>1, <3>1
        <3>2. CASE q # r
            <4>1. q \in servers
                BY <3>2
            <4> QED BY <1>1, <2>1, <3>2, <4>1 DEF IInv, ServersHold
        <3> QED BY <3>1, <3>2
    <2>3. ASSUME NEW q \in Slots, requests'[q].stage \in {"handling", "open"}
          PROVE  q \in servers'
        <3>1. CASE q = r
            BY <1>1, <2>3, <3>1
        <3>2. CASE q # r
            <4>1. q \in servers
                BY <1>1, <2>3, <3>2 DEF IInv, ServersHold
            <4> QED BY <3>2, <4>1
        <3> QED BY <3>1, <3>2
    <2> QED BY <1>3, <2>2, <2>3 DEF ServersHold
<1>6. StartHolds'
    BY DEF IInv, StartHolds, StartupValid, AllowStdio
<1> QED BY <1>2, <1>4, <1>5, <1>6 DEF IInv

\* What a request in a handler looks like, and its next stages.
LEMMA InHandlerForm ==
    ASSUME IInv, NEW r \in Slots, InHandler(r)
    PROVE  /\ Vetted(requests[r])
           /\ requests[r] \in Headed({"reading", "handling", "session", "open", "left"})
           /\ \A s \in {"handling", "session", "open", "left"} :
                 /\ [requests[r] EXCEPT !.stage = s] \in Exchange
                 /\ [requests[r] EXCEPT !.stage = s].stage = s
                 /\ Vetted([requests[r] EXCEPT !.stage = s])
<1>1. Vetted(requests[r])
    BY DEF IInv, GatesHold
<1>2. requests[r] \in Headed({"reading", "handling", "session", "open", "left"})
    <2>1. requests[r] \in Exchange
        BY DEF IInv, EndpointTypeOK
    <2>2. requests[r].stage \notin {"free", "answered"}
        BY DEF InHandler
    <2> QED BY <2>1, <2>2 DEF Exchange, Free
<1>3. ASSUME NEW s \in {"handling", "session", "open", "left"}
      PROVE  /\ [requests[r] EXCEPT !.stage = s] \in Exchange
             /\ [requests[r] EXCEPT !.stage = s].stage = s
             /\ Vetted([requests[r] EXCEPT !.stage = s])
    <2>1. [requests[r] EXCEPT !.stage = s] \in Headed({"reading", "handling", "session", "open", "left"})
        BY <1>2 DEF Headed
    <2> QED BY <1>1, <1>2, <2>1 DEF Exchange, Headed, Vetted
<1> QED BY <1>1, <1>2, <1>3

LEMMA AnswerForm ==
    ASSUME NEW s \in 200 .. 599
    PROVE  Answered(s) \in Exchange /\ Answered(s).stage = "answered"
BY DEF Answered, Exchange

\* An answer changes the stage of its request alone.
LEMMA AnswerKeepsIInv ==
    ASSUME IInv, NEW r \in Slots, requests[r].stage # "free",
           NEW e \in Exchange, e.stage = "answered",
           requests' = [requests EXCEPT ![r] = e],
           UNCHANGED <<config, phase, scheduler, servers, limiterVars>>
    PROVE  IInv'
<1>1. e.stage \notin {"reading", "handling", "session", "open", "left"}
    OBVIOUS
<1>2. servers' \in {servers, servers \cup {r}, servers \ {r}}
    OBVIOUS
<1> QED BY <1>1, <1>2, MoveKeepsIInv

LEMMA RejectKeepsIInv ==
    ASSUME IInv, NEW r \in Slots, NEW code, code \in {200, 400, 404, 413, 500},
           ReadFails(r, code) \/ SessionAnswers(r, code)
    PROVE  IInv'
<1>1. Answered(code) \in Exchange /\ Answered(code).stage = "answered"
    <2>1. code \in 200 .. 599
        OBVIOUS
    <2> QED BY <2>1, AnswerForm
<1> DEFINE e == Answered(code)
<1>2. requests[r].stage # "free" /\ requests' = [requests EXCEPT ![r] = e]
    BY DEF ReadFails, SessionAnswers
<1>3. UNCHANGED <<config, phase, scheduler, servers, limiterVars>>
    BY DEF ReadFails, SessionAnswers
<1>4. e \in Exchange /\ e.stage = "answered"
    BY <1>1
<1> HIDE DEF e
<1> QED BY ONLY IInv, r \in Slots, <1>2, <1>3, <1>4, AnswerKeepsIInv

LEMMA ServeKeepsIInv ==
    ASSUME IInv, NEW r \in Slots,
           \/ Serve(r)
           \/ \E status \in {200, 400, 404, 500} : SessionAnswers(r, status)
           \/ ClientLeaves(r)
    PROVE  IInv'
<1> DEFINE Unserved == r \in servers => requests[r].stage \in {"handling", "answered", "open"}
<1>0. Unserved
    BY DEF IInv, ServersHold
<1>f. Free \in Exchange /\ Free.stage = "free"
    BY DEF Exchange, Free
<1>1. CASE ReadEnds(r)
    <2>1. InHandler(r) /\ requests' = [requests EXCEPT ![r] = [requests[r] EXCEPT !.stage = "handling"]]
        BY <1>1 DEF ReadEnds, InHandler
    <2>2. r \in servers' /\ servers' = servers \cup {r}
        BY <1>1 DEF ReadEnds
    <2> QED BY <1>1, <2>1, <2>2, InHandlerForm, MoveKeepsIInv DEF ReadEnds
<1>2. ASSUME NEW code \in {400, 413}, ReadFails(r, code) PROVE IInv'
    BY <1>2, RejectKeepsIInv
<1>3. ASSUME NEW response \in {Answered(200), Answered(500), [requests[r] EXCEPT !.stage = "open"]},
             Handled(r, response)
      PROVE  IInv'
    <2>1. InHandler(r) /\ r \in servers /\ requests[r].stage # "free"
        BY <1>3 DEF Handled, InHandler, IInv, ServersHold
    <2>2. response \in Exchange /\ response.stage \in {"answered", "open"}
          /\ (response.stage = "open" => Vetted(response))
        <3>1. CASE response \in {Answered(200), Answered(500)}
            <4>1. 200 \in 200 .. 599 /\ 500 \in 200 .. 599
                OBVIOUS
            <4> QED BY <3>1, <4>1, AnswerForm
        <3>2. CASE response = [requests[r] EXCEPT !.stage = "open"]
            BY <2>1, <3>2, InHandlerForm
        <3> QED BY <3>1, <3>2
    <2>3. requests' = [requests EXCEPT ![r] = response] /\ servers' = servers
          /\ UNCHANGED <<config, phase, scheduler, limiterVars>>
        BY <1>3 DEF Handled
    <2>4. response.stage \in {"reading", "handling", "session", "open", "left"} => Vetted(response)
        BY <2>2
    <2> HIDE DEF Unserved
    <2> QED BY <2>1, <2>2, <2>3, <2>4, MoveKeepsIInv
<1>4. CASE GoesToSession(r)
    <2>1. InHandler(r) /\ requests' = [requests EXCEPT ![r] = [requests[r] EXCEPT !.stage = "session"]]
        BY <1>4 DEF GoesToSession, InHandler
    <2>2. r \notin servers /\ servers' = servers
        BY <1>0, <1>4 DEF GoesToSession
    <2> QED BY <1>4, <2>1, <2>2, InHandlerForm, MoveKeepsIInv DEF GoesToSession
<1>5. CASE ResponseCloses(r)
    BY <1>f, <1>5, MoveKeepsIInv DEF ResponseCloses
<1>6. CASE HandledForNobody(r)
    BY <1>0, <1>f, <1>6, MoveKeepsIInv DEF HandledForNobody
<1>7. ASSUME NEW code \in {200, 400, 404, 500}, SessionAnswers(r, code) PROVE IInv'
    BY <1>7, RejectKeepsIInv
<1>8. CASE ClientLeaves(r)
    <2>1. InHandler(r) /\ requests[r].stage # "free" /\ servers' = servers \ {r}
          /\ UNCHANGED <<config, phase, scheduler, limiterVars>>
        BY <1>8 DEF ClientLeaves, InHandler
    <2>2. CASE requests[r].stage = "handling"
        <3>1. requests' = [requests EXCEPT ![r] = [requests[r] EXCEPT !.stage = "left"]]
            BY <1>8, <2>2 DEF ClientLeaves
        <3> QED BY <2>1, <3>1, InHandlerForm, MoveKeepsIInv
    <2>3. CASE requests[r].stage # "handling"
        <3>1. requests' = [requests EXCEPT ![r] = Free]
            BY <1>8, <2>3 DEF ClientLeaves
        <3> QED BY <1>f, <2>1, <3>1, MoveKeepsIInv
    <2> QED BY <2>2, <2>3
<1> QED BY <1>1, <1>2, <1>3, <1>4, <1>5, <1>6, <1>7, <1>8 DEF Serve

LEMMA NextIInv == IInv /\ [Next]_vars => IInv'
<1> SUFFICES ASSUME IInv, [Next]_vars PROVE IInv'
    OBVIOUS
<1>1. CASE StartHttpServer \/ Listens \/ BindFails \/ Close \/ Closed \/ CycleEnds
    BY <1>1, ProcessKeepsIInv
<1>2. CASE Tick
    <2>1. EndpointTypeOK' /\ LimiterHolds'
        BY <1>2, LimiterTickKeepsTypes, LimiterTickKeepsLimiter DEF IInv, EndpointTypeOK, Tick
    <2>2. GatesHold' /\ StartHolds' /\ ServersHold'
        BY <1>2 DEF IInv, GatesHold, StartHolds, ServersHold, InHandler, Vetted,
                    StartupValid, AllowStdio, Tick
    <2> QED BY <2>1, <2>2 DEF IInv
<1>3. ASSUME NEW r \in Slots, Receive(r) PROVE IInv'
    BY <1>3, ReceiveKeepsIInv
<1>4. ASSUME NEW r \in Slots,
             \/ Serve(r)
             \/ \E status \in {200, 400, 404, 500} : SessionAnswers(r, status)
             \/ ClientLeaves(r)
      PROVE  IInv'
    BY <1>4, ServeKeepsIInv
<1>5. CASE UNCHANGED vars
    <2>1. EndpointTypeOK' /\ LimiterHolds'
        BY <1>5, UnchangedLimiterHolds DEF IInv, EndpointTypeOK, LimiterTypeOK, limiterVars, vars
    <2>2. GatesHold' /\ StartHolds' /\ ServersHold'
        BY <1>5 DEF IInv, GatesHold, StartHolds, ServersHold, InHandler, Vetted,
                    StartupValid, AllowStdio, vars
    <2> QED BY <2>1, <2>2 DEF IInv
<1> QED BY <1>1, <1>2, <1>3, <1>4, <1>5 DEF Next

-------------------------------------------------------------------------------
(* Theorems *)

\* The inductive invariant holds in every reachable state.
THEOREM Invariance == Spec => []IInv
BY InitIInv, NextIInv, PTL DEF Spec

\* Variables of the endpoint and its limiter keep their types.
THEOREM TypeCorrect == Spec => []EndpointTypeOK
<1>1. IInv => EndpointTypeOK
    BY DEF IInv
<1> QED BY <1>1, Invariance, PTL

\* validateHttpStartupConfig, the gates and the policy together: what reaches a
\* handler carried the token and no foreign origin, and an endpoint that other
\* machines reach starts no stdio command while it is there.
THEOREM ServedSound == Spec => []ServedAsConfigured
<1>1. IInv => ServedAsConfigured
    <2> SUFFICES ASSUME IInv PROVE ServedAsConfigured
        OBVIOUS
    <2>1. \A r \in Slots : InHandler(r) =>
              /\ config.token /\ requests[r].bearer
              /\ (requests[r].origin = "other" => ~config.origins)
        BY DEF IInv, GatesHold, Vetted
    <2>2. ASSUME ~config.loopback, scheduler # "off" \/ \E r \in Slots : InHandler(r)
          PROVE  ~AllowStdio /\ scheduler # "stdio" /\ config.origins
        <3>1. phase \notin {"starting", "refused"}
            BY <2>2 DEF IInv, GatesHold, StartHolds
        <3>2. config.safe /\ config.origins
            BY <2>2, <3>1 DEF IInv, StartHolds, StartupValid
        <3> QED BY <3>2 DEF IInv, StartHolds, AllowStdio
    <2>3. (scheduler = "stdio" => AllowStdio) /\ (scheduler = "unset" => phase = "ended")
        BY DEF IInv, StartHolds
    <2> QED BY <2>1, <2>2, <2>3 DEF ServedAsConfigured
<1> QED BY <1>1, Invariance, PTL

\* Every MonitorServer of a stateless request is closed with its response,
\* whatever became of the request.  None outlives the endpoint; of the scheduler
\* only the cycle does that was running.
THEOREM ServersClosed == Spec => []NothingLeftOpen
<1>1. IInv => NothingLeftOpen
    <2> SUFFICES ASSUME IInv PROVE NothingLeftOpen
        OBVIOUS
    <2>1. phase \in {"starting", "refused", "ended"} => servers = {}
        BY DEF IInv, ServersHold, EndpointTypeOK
    <2> QED BY <2>1 DEF IInv, ServersHold, StartHolds, NothingLeftOpen
<1> QED BY <1>1, Invariance, PTL

\* The handlers use the limiter as its specification says: one check for a
\* request that passed the gates, and nothing else but time changes a bucket.
THEOREM ImplementsLimiter == Spec => LimiterInit /\ [][LimiterNext]_limiterVars
<1>1. Init => LimiterInit
    BY DEF Init
<1>2. [Next]_vars => [LimiterNext]_limiterVars
    <2> SUFFICES ASSUME [Next]_vars PROVE [LimiterNext]_limiterVars
        OBVIOUS
    <2>1. CASE StartHttpServer \/ Listens \/ BindFails \/ Close \/ Closed \/ CycleEnds \/ UNCHANGED vars
        BY <2>1 DEF StartHttpServer, Listens, BindFails, Close, Closed, CycleEnds, vars, limiterVars
    <2>2. CASE Tick
        BY <2>2 DEF Tick, LimiterNext
    <2>3. ASSUME NEW r \in Slots, Receive(r) PROVE [LimiterNext]_limiterVars
        <3>1. CASE Health(r)
            BY <3>1 DEF Health, limiterVars
        <3>2. ASSUME NEW h \in Headers, Refuse(r, h) PROVE UNCHANGED limiterVars
            BY <3>2 DEF Refuse, limiterVars
        <3>3. ASSUME NEW h \in Headers, NEW k \in Keys, Admit(r, h, k) PROVE LimiterNext
            BY <3>3 DEF Admit, LimiterNext
        <3> QED BY <2>3, <3>1, <3>2, <3>3 DEF Receive
    <2>4. ASSUME NEW r \in Slots,
                 \/ Serve(r)
                 \/ \E status \in {200, 400, 404, 500} : SessionAnswers(r, status)
                 \/ ClientLeaves(r)
          PROVE  UNCHANGED limiterVars
        BY <2>4 DEF Serve, ReadEnds, ReadFails, Handled, GoesToSession, ResponseCloses,
                    HandledForNobody, SessionAnswers, ClientLeaves, limiterVars
    <2> QED BY <2>1, <2>2, <2>3, <2>4 DEF Next
<1> QED BY <1>1, <1>2, PTL DEF Spec

\* InMemoryRateLimiter.check: fewer than twice the limit of one client's
\* requests are allowed within any windowMs, for any limit and any window.
THEOREM SlidingBounded == Spec => []SlidingBound
<1>1. IInv => SlidingBound
    <2> SUFFICES ASSUME IInv, NEW k \in Keys
                 PROVE  AllowedInLastWindow(k) <= 2 * Limit - 1
        BY DEF SlidingBound
    <2>1. Window \in 1 .. Window
        BY LimitAssumption
    <2>2. allowed[k][Window] \in Nat
        BY <2>1, ClientTypes DEF IInv, EndpointTypeOK
    <2>3. CASE k \in DOMAIN buckets
        <3>1. InBudget(allowed[k][Window], buckets[k].count, buckets[k].age, Window)
            BY <2>1, <2>3 DEF IInv, LimiterHolds, BudgetHolds
        <3>2. allowed[k][Window] < 2 * Limit
            BY <2>2, <3>1, LimitAssumption DEF InBudget
        <3> QED BY <2>2, <3>2, LimitAssumption DEF AllowedInLastWindow
    <2>4. CASE k \notin DOMAIN buckets
        BY <2>1, <2>4, LimitAssumption DEF IInv, LimiterHolds, BudgetHolds, AllowedInLastWindow
    <2> QED BY <2>3, <2>4
<1> QED BY <1>1, Invariance, PTL

\* A denied request is one of a client that was allowed limit requests in the
\* window it is denied in: no other client and no denial spends its budget.
THEOREM DenialsSound == Spec => []DeniedOnlyOverLimit
<1>1. IInv => DeniedOnlyOverLimit
    <2> SUFFICES ASSUME IInv, denied # NoKey
                 PROVE  AllowedInLastWindow(denied) >= Limit /\ buckets[denied].age < Window
        BY DEF DeniedOnlyOverLimit
    <2>1. denied \in Keys /\ denied \in DOMAIN buckets
          /\ buckets[denied].age < Window /\ buckets[denied].count > Limit
        BY DEF IInv, LimiterHolds, DeniedHolds, EndpointTypeOK, LimiterTypeOK
    <2>2. Window \in 1 .. Window
        BY LimitAssumption
    <2>3. /\ allowed[denied][Window] \in Nat
          /\ buckets[denied].count \in Nat /\ buckets[denied].age \in Nat
        <3>1. LimiterTypeOK
            BY DEF IInv, EndpointTypeOK
        <3>2. /\ allowed[denied] \in [1 .. Window -> Nat]
              /\ buckets[denied].count \in Nat \ {0} /\ buckets[denied].age \in 0 .. Window
            BY <2>1, <3>1, ClientTypes
        <3> QED BY <2>2, <3>2
    <2>4. InBudget(allowed[denied][Window], buckets[denied].count, buckets[denied].age, Window)
        BY <2>1, <2>2 DEF IInv, LimiterHolds, BudgetHolds
    <2>5. allowed[denied][Window] >= Limit
        BY <2>1, <2>3, <2>4, LimitAssumption DEF InBudget
    <2> QED BY <2>1, <2>5 DEF AllowedInLastWindow
<1> QED BY <1>1, Invariance, PTL
===============================================================================
