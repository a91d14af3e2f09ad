---------------------------- MODULE SchedulerProofs ----------------------------
(***************************************************************************)
(* Proofs about module Scheduler, for any set of names, any interval and   *)
(* period and any number of workers.                                       *)
(***************************************************************************)
EXTENDS Scheduler, FiniteSetTheorems, WellFoundedInduction, TLAPS

\* The inductive invariant.  Rows and workers are finitely many, without which
\* counting them would mean nothing.
AllFinite ==
    IsFiniteSet(DOMAIN servers) /\ IsFiniteSet(waiting) /\ IsFiniteSet(DOMAIN checking)

IInv == TypeOK /\ AllFinite /\ EachDueOnce /\ WorkersBusy /\ CyclePolicy

-------------------------------------------------------------------------------
(* The first k names of a finite set.  Induction is out of the prover's    *)
(* reach; strict inclusion of finite sets is well founded, which suffices. *)

LEMMA SomeMinimal ==
    ASSUME NEW S, IsFiniteSet(S), NEW T, T \subseteq SUBSET S, T # {}
    PROVE  \E A \in T : \A B \in T : ~(B \subseteq A /\ B # A)
<1>1. SUBSET S = FiniteSubsetsOf(S)
    BY FS_FiniteSubsetsOfFinite
<1>2. \E A \in T : \A B \in T : <<B, A>> \notin StrictSubsetOrdering(S)
    BY <1>1, FS_StrictSubsetOrderingWellFounded, WFMin
<1> QED BY <1>2 DEF StrictSubsetOrdering

LEMMA MinimalImage ==
    ASSUME NEW S, IsFiniteSet(S), S # {}, NEW f \in [S -> SUBSET S]
    PROVE  \E n \in S : \A m \in S : ~(f[m] \subseteq f[n] /\ f[m] # f[n])
<1> DEFINE T == {f[n] : n \in S}
<1>1. T \subseteq SUBSET S /\ T # {}
    OBVIOUS
<1>2. \A A \in T : \E n \in S : A = f[n]
    OBVIOUS
<1>3. \A n \in S : f[n] \in T
    OBVIOUS
<1> HIDE DEF T
<1>4. PICK A \in T : \A B \in T : ~(B \subseteq A /\ B # A)
    BY <1>1, SomeMinimal
<1> QED BY <1>2, <1>3, <1>4

LEMMA HasLeast ==
    ASSUME NEW S, S \subseteq Int, IsFiniteSet(S), S # {}
    PROVE  \E n \in S : \A m \in S : n <= m
<1> DEFINE UpTo(n) == {m \in S : m <= n}
           f == [n \in S |-> UpTo(n)]
<1>0. f \in [S -> SUBSET S]
    OBVIOUS
<1>1. \A n \in S : f[n] = UpTo(n)
    OBVIOUS
<1>2. \E n \in S : \A m \in S : ~(f[m] \subseteq f[n] /\ f[m] # f[n])
    <2> HIDE DEF f
    <2> QED BY ONLY IsFiniteSet(S), S # {}, <1>0, MinimalImage
<1>3. PICK n \in S : \A m \in S : ~(UpTo(m) \subseteq UpTo(n) /\ UpTo(m) # UpTo(n))
    BY <1>1, <1>2
<1>4. ASSUME NEW m \in S, m < n PROVE FALSE
    <2>1. m \in Int /\ n \in Int /\ \A x \in S : x \in Int
        OBVIOUS
    <2>2. n \in UpTo(n) /\ n \notin UpTo(m)
        BY <1>4, <2>1
    <2>3. ASSUME NEW x \in UpTo(m) PROVE x \in UpTo(n)
        <3>1. x \in Int
            BY <2>1
        <3> QED BY <1>4, <2>1, <3>1
    <2>4. UpTo(m) \subseteq UpTo(n)
        BY <2>3
    <2> HIDE DEF UpTo
    <2> QED BY <1>3, <2>2, <2>4
<1>5. \A m \in S : m \in Int /\ n \in Int
    OBVIOUS
<1> QED BY <1>4, <1>5

LEMMA HasGreatest ==
    ASSUME NEW S, S \subseteq Int, IsFiniteSet(S), S # {}
    PROVE  \E n \in S : \A m \in S : m <= n
<1> DEFINE From(n) == {m \in S : n <= m}
           f == [n \in S |-> From(n)]
<1>0. f \in [S -> SUBSET S]
    OBVIOUS
<1>1. \A n \in S : f[n] = From(n)
    OBVIOUS
<1>2. \E n \in S : \A m \in S : ~(f[m] \subseteq f[n] /\ f[m] # f[n])
    <2> HIDE DEF f
    <2> QED BY ONLY IsFiniteSet(S), S # {}, <1>0, MinimalImage
<1>3. PICK n \in S : \A m \in S : ~(From(m) \subseteq From(n) /\ From(m) # From(n))
    BY <1>1, <1>2
<1>4. ASSUME NEW m \in S, n < m PROVE FALSE
    <2>1. m \in Int /\ n \in Int /\ \A x \in S : x \in Int
        OBVIOUS
    <2>2. n \in From(n) /\ n \notin From(m)
        BY <1>4, <2>1
    <2>3. ASSUME NEW x \in From(m) PROVE x \in From(n)
        <3>1. x \in Int
            BY <2>1
        <3> QED BY <1>4, <2>1, <3>1
    <2>4. From(m) \subseteq From(n)
        BY <2>3
    <2> HIDE DEF From
    <2> QED BY <1>3, <2>2, <2>4
<1>5. \A m \in S : m \in Int /\ n \in Int
    OBVIOUS
<1> QED BY <1>4, <1>5

LEMMA FirstsForm ==
    ASSUME NEW ns, ns \subseteq Int, IsFiniteSet(ns), NEW k \in Nat \ {0}
    PROVE  /\ Firsts(ns, k) \subseteq ns
           /\ IsFiniteSet(Firsts(ns, k))
           /\ Cardinality(Firsts(ns, k)) \in Nat
           /\ Cardinality(Firsts(ns, k)) <= k
           /\ ns \ Firsts(ns, k) # {} => Cardinality(Firsts(ns, k)) = k
           /\ ns # {} => Firsts(ns, k) # {}
<1> DEFINE F == Firsts(ns, k)
           Before(n) == {m \in ns : m < n}
<1>1. F = {n \in ns : Cardinality(Before(n)) < k}
    BY DEF Firsts
<1> HIDE DEF F
<1>2. F \subseteq ns /\ IsFiniteSet(F) /\ Cardinality(F) \in Nat
    BY <1>1, FS_Subset, FS_CardinalityType
<1>3. ASSUME NEW n \in ns
      PROVE  IsFiniteSet(Before(n)) /\ Cardinality(Before(n)) \in Nat
    BY FS_Subset, FS_CardinalityType
<1>4. Cardinality(F) <= k
    <2>1. CASE F = {}
        BY <2>1, FS_EmptySet
    <2>2. CASE F # {}
        <3>1. PICK x \in F : \A y \in F : y <= x
            BY <1>2, <2>2, HasGreatest
        <3>2. F \ {x} \subseteq Before(x)
            BY <1>2, <3>1
        <3>3. Cardinality(F \ {x}) <= Cardinality(Before(x))
            BY <1>2, <1>3, <3>2, FS_Subset
        <3>4. Cardinality(F \ {x}) = Cardinality(F) - 1
            BY <1>2, FS_RemoveElement
        <3>5. Cardinality(Before(x)) < k /\ Cardinality(Before(x)) \in Nat
            BY <1>1, <1>2, <1>3
        <3> HIDE DEF Before
        <3> QED BY <1>2, <3>3, <3>4, <3>5
    <2> QED BY <2>1, <2>2
<1>5. ASSUME ns \ F # {} PROVE Cardinality(F) = k
    <2>1. IsFiniteSet(ns \ F)
        BY FS_Subset
    <2>2. PICK w \in ns \ F : \A y \in ns \ F : w <= y
        BY <1>5, <2>1, HasLeast
    <2>3. Before(w) \subseteq F
        <3>1. ASSUME NEW m \in ns, m < w PROVE m \in F
            <4>1. m \in Int /\ w \in Int
                OBVIOUS
            <4> QED BY <2>2, <3>1, <4>1
        <3> QED BY <3>1
    <2>4. Cardinality(Before(w)) <= Cardinality(F)
        BY <1>2, <2>3, FS_Subset
    <2>5. ~(Cardinality(Before(w)) < k) /\ Cardinality(Before(w)) \in Nat
        BY <1>1, <1>3
    <2> HIDE DEF Before
    <2> QED BY <1>2, <1>4, <2>4, <2>5
<1>6. ASSUME ns # {} PROVE F # {}
    <2>1. PICK w \in ns : \A y \in ns : w <= y
        BY <1>6, HasLeast
    <2>2. Before(w) = {}
        <3>1. \A m \in ns : m \in Int /\ w \in Int /\ w <= m
            BY <2>1
        <3>2. \A m \in ns : ~(m < w)
            BY <3>1
        <3> QED BY <3>2
    <2>3. Cardinality(Before(w)) < k
        BY <2>2, FS_EmptySet
    <2> QED BY <1>1, <2>3
<1> QED BY <1>2, <1>4, <1>5, <1>6 DEF F

-------------------------------------------------------------------------------
(* The invariant *)

LEMMA InitIInv == Init => IInv
<1> SUFFICES ASSUME Init PROVE IInv
    OBVIOUS
<1>1. DOMAIN servers = {} /\ DOMAIN checking = {} /\ waiting = {}
    BY DEF Init
<1>2. TypeOK
    <2>1. servers \in [DOMAIN servers -> [interval: 1 .. MaxInterval, age: 0 .. MaxInterval]]
        BY DEF Init
    <2>2. checking \in [DOMAIN checking -> Policies \cup {"undefined"}]
        BY DEF Init
    <2>3. sinceFired \in 0 .. Period
        BY NumbersAssumption DEF Init
    <2> QED BY <1>1, <2>1, <2>2, <2>3 DEF Init, TypeOK
<1>3. AllFinite
    BY <1>1, FS_EmptySet DEF AllFinite
<1>4. EachDueOnce /\ CyclePolicy
    BY <1>1 DEF Init, EachDueOnce, CyclePolicy
<1>5. WorkersBusy
    BY <1>1, FS_EmptySet, NumbersAssumption DEF WorkersBusy
<1> QED BY <1>2, <1>3, <1>4, <1>5 DEF IInv

\* What is said of a cycle is untouched by steps that leave it alone and do
\* not turn the timer.
LEMMA CycleUntouched ==
    ASSUME IInv, UNCHANGED <<cycleVars, timerOn, allowStdio>>
    PROVE  EachDueOnce' /\ WorkersBusy' /\ CyclePolicy'
BY DEF IInv, EachDueOnce, WorkersBusy, CyclePolicy, cycleVars

\* The start of a cycle, under the policy in force once the step is over.
LEMMA RunCycleStarts ==
    ASSUME IInv, RunCycle, allowStdio' \in Policies \cup {"undefined"},
           UNCHANGED servers, timerOn' = TRUE,
           running /\ ~stopped => allowStdio' = allowStdio
    PROVE  /\ waiting' \subseteq Names /\ due' \subseteq Names /\ checked' \subseteq Names
           /\ running' \in BOOLEAN /\ stopped' \in BOOLEAN
           /\ checking' \in [DOMAIN checking' -> Policies \cup {"undefined"}]
           /\ IsFiniteSet(waiting') /\ IsFiniteSet(DOMAIN checking')
           /\ EachDueOnce' /\ WorkersBusy' /\ CyclePolicy'
<1>1. CASE UNCHANGED cycleVars
    <2>1. EachDueOnce' /\ WorkersBusy'
        BY <1>1 DEF IInv, EachDueOnce, WorkersBusy, cycleVars
    <2>2. CyclePolicy'
        BY <1>1 DEF IInv, CyclePolicy, cycleVars
    <2>3. /\ waiting' = waiting /\ due' = due /\ checked' = checked
          /\ running' = running /\ stopped' = stopped /\ checking' = checking
        BY <1>1 DEF cycleVars
    <2>4. /\ waiting \subseteq Names /\ due \subseteq Names /\ checked \subseteq Names
          /\ running \in BOOLEAN /\ stopped \in BOOLEAN
          /\ checking \in [DOMAIN checking -> Policies \cup {"undefined"}]
          /\ IsFiniteSet(waiting) /\ IsFiniteSet(DOMAIN checking)
        BY DEF IInv, TypeOK, AllFinite
    <2> QED BY <2>1, <2>2, <2>3, <2>4
<1>2. CASE ~(running \/ DueServers = {})
    <2> DEFINE first == Firsts(DueServers, MaxConcurrency)
    <2>1. DueServers \subseteq Names /\ DueServers \subseteq Int /\ IsFiniteSet(DueServers)
        BY NamesAssumption, FS_Subset DEF IInv, TypeOK, AllFinite, DueServers
    <2>2. /\ first \subseteq DueServers
          /\ IsFiniteSet(first)
          /\ Cardinality(first) <= MaxConcurrency
          /\ DueServers \ first # {} => Cardinality(first) = MaxConcurrency
          /\ first # {}
        BY <1>2, <2>1, FirstsForm, NumbersAssumption
    <2>3. /\ waiting' = DueServers \ first
          /\ checking' = [n \in first |-> allowStdio']
          /\ running' = TRUE /\ due' = DueServers /\ checked' = {} /\ stopped' = FALSE
        BY <1>2 DEF RunCycle
    <2> HIDE DEF first
    <2>4. DOMAIN checking' = first
        BY <2>3
    <2>5. checking' \in [DOMAIN checking' -> Policies \cup {"undefined"}]
        BY <2>3, <2>4
    <2>6. IsFiniteSet(waiting')
        BY <2>1, <2>3, FS_Subset
    <2>7. EachDueOnce'
        BY <2>2, <2>3, <2>4 DEF EachDueOnce
    <2>8. WorkersBusy'
        BY <2>2, <2>3, <2>4 DEF WorkersBusy
    <2>9. CyclePolicy'
        BY <2>3, <2>4 DEF CyclePolicy
    <2> QED BY <2>1, <2>2, <2>3, <2>4, <2>5, <2>6, <2>7, <2>8, <2>9
<1> QED BY <1>1, <1>2 DEF RunCycle

LEMMA StartKeepsIInv ==
    ASSUME IInv, NEW policy \in Policies, StartScheduler(policy) PROVE IInv'
<1>1. running /\ ~stopped => allowStdio' = allowStdio
    BY DEF IInv, CyclePolicy, StartScheduler
<1>2. UNCHANGED servers /\ timerOn' = TRUE /\ sinceFired' = 0 /\ RunCycle
      /\ allowStdio' \in Policies \cup {"undefined"}
    BY DEF StartScheduler
<1>3. /\ waiting' \subseteq Names /\ due' \subseteq Names /\ checked' \subseteq Names
      /\ running' \in BOOLEAN /\ stopped' \in BOOLEAN
      /\ checking' \in [DOMAIN checking' -> Policies \cup {"undefined"}]
      /\ IsFiniteSet(waiting') /\ IsFiniteSet(DOMAIN checking')
      /\ EachDueOnce' /\ WorkersBusy' /\ CyclePolicy'
    BY <1>1, <1>2, RunCycleStarts
<1>4. TypeOK'
    BY <1>2, <1>3, NumbersAssumption DEF IInv, TypeOK
<1> QED BY <1>2, <1>3, <1>4 DEF IInv, AllFinite

LEMMA FireKeepsIInv ==
    ASSUME IInv, TimerFires PROVE IInv'
<1>1. UNCHANGED <<servers, allowStdio>> /\ timerOn' = TRUE /\ sinceFired' = 0 /\ RunCycle
      /\ allowStdio' \in Policies \cup {"undefined"}
    BY DEF IInv, TypeOK, TimerFires
<1>2. /\ waiting' \subseteq Names /\ due' \subseteq Names /\ checked' \subseteq Names
      /\ running' \in BOOLEAN /\ stopped' \in BOOLEAN
      /\ checking' \in [DOMAIN checking' -> Policies \cup {"undefined"}]
      /\ IsFiniteSet(waiting') /\ IsFiniteSet(DOMAIN checking')
      /\ EachDueOnce' /\ WorkersBusy' /\ CyclePolicy'
    BY <1>1, RunCycleStarts
<1>3. TypeOK'
    BY <1>1, <1>2, NumbersAssumption DEF IInv, TypeOK
<1> QED BY <1>1, <1>2, <1>3 DEF IInv, AllFinite

\* A check of n ends, and its worker takes the next name, if any.
LEMMA CheckEndsKeepsIInv ==
    ASSUME IInv, NEW n \in Names, CheckEnds(n) PROVE IInv'
<1> DEFINE next == Firsts(waiting, 1)
           Left == DOMAIN checking \ {n}
<1>0. /\ DOMAIN servers \subseteq Names
      /\ servers \in [DOMAIN servers -> [interval: 1 .. MaxInterval, age: 0 .. MaxInterval]]
      /\ timerOn \in BOOLEAN /\ stopped \in BOOLEAN /\ sinceFired \in 0 .. Period
      /\ allowStdio \in Policies \cup {"undefined"}
      /\ checking \in [DOMAIN checking -> Policies \cup {"undefined"}]
      /\ waiting \subseteq Names /\ due \subseteq Names /\ checked \subseteq Names
      /\ IsFiniteSet(DOMAIN servers) /\ IsFiniteSet(waiting) /\ IsFiniteSet(DOMAIN checking)
    BY DEF IInv, TypeOK, AllFinite
<1>1. /\ next \subseteq waiting
      /\ IsFiniteSet(next)
      /\ Cardinality(next) \in Nat
      /\ Cardinality(next) <= 1
      /\ waiting \ next # {} => Cardinality(next) = 1
      /\ waiting # {} => next # {}
    <2>1. waiting \subseteq Int /\ 1 \in Nat \ {0}
        BY <1>0, NamesAssumption
    <2> QED BY <1>0, <2>1, FirstsForm
<1>2. /\ n \in DOMAIN checking
      /\ waiting' = waiting \ next
      /\ checking' = [m \in Left \cup next |->
                          IF m \in next THEN allowStdio ELSE checking[m]]
      /\ checked' = checked \cup {n}
      /\ running' = (DOMAIN checking' # {})
      /\ timerOn' = timerOn /\ sinceFired' = sinceFired /\ allowStdio' = allowStdio
      /\ due' = due /\ stopped' = stopped
    BY DEF CheckEnds, TakeNext, timerVars
<1>3. \/ servers' = servers
      \/ servers' = [m \in DOMAIN servers |->
                         IF m = n THEN [servers[m] EXCEPT !.age = 0] ELSE servers[m]]
    BY DEF CheckEnds, RecordedOrNot
<1> HIDE DEF next
<1>4. DOMAIN checking' = Left \cup next
    BY <1>2
<1>5. /\ running
      /\ due = waiting \cup DOMAIN checking \cup checked
      /\ waiting \cap DOMAIN checking = {}
      /\ (waiting \cup DOMAIN checking) \cap checked = {}
    BY <1>2 DEF IInv, EachDueOnce
<1>6. DOMAIN servers' = DOMAIN servers
      /\ servers' \in [DOMAIN servers' -> [interval: 1 .. MaxInterval, age: 0 .. MaxInterval]]
    <2>1. 0 \in 0 .. MaxInterval
        BY NumbersAssumption
    <2> QED BY <1>0, <1>3, <2>1
<1>7. checking' \in [DOMAIN checking' -> Policies \cup {"undefined"}]
    BY <1>0, <1>2, <1>4
<1>8. TypeOK'
    <2>1. running' \in BOOLEAN
        BY <1>2
    <2>2. waiting' \subseteq Names /\ checked' \subseteq Names
        BY <1>0, <1>2
    <2> QED BY <1>0, <1>2, <1>6, <1>7, <2>1, <2>2 DEF TypeOK
<1>9. /\ IsFiniteSet(Left) /\ Cardinality(Left) = Cardinality(DOMAIN checking) - 1
      /\ Cardinality(DOMAIN checking) \in Nat
    BY <1>0, <1>2, FS_RemoveElement, FS_CardinalityType
<1>10. Left \cap next = {}
    BY <1>1, <1>5
<1>11. IsFiniteSet(Left \cup next)
       /\ Cardinality(Left \cup next) = Cardinality(Left) + Cardinality(next)
    <2>1. Cardinality({}) = 0
        BY FS_EmptySet
    <2>2. Cardinality(Left) \in Nat
        BY <1>9, FS_CardinalityType
    <2>3. /\ IsFiniteSet(Left \cup next)
          /\ Cardinality(Left \cup next)
                 = Cardinality(Left) + Cardinality(next) - Cardinality(Left \cap next)
        BY <1>1, <1>9, FS_Union
    <2>4. Cardinality(Left \cap next) = 0
        BY <1>10, <2>1
    <2> HIDE DEF Left
    <2> QED BY <1>1, <2>2, <2>3, <2>4
<1>12. AllFinite'
    <2>1. IsFiniteSet(waiting')
        BY <1>0, <1>2, FS_Subset
    <2> QED BY <1>0, <1>4, <1>6, <1>11, <2>1 DEF AllFinite
<1>13. EachDueOnce'
    <2>1. waiting' \cup DOMAIN checking' \cup checked' = due'
        BY <1>1, <1>2, <1>4, <1>5
    <2>2. waiting' \cap DOMAIN checking' = {}
        BY <1>2, <1>4, <1>5
    <2>3. (waiting' \cup DOMAIN checking') \cap checked' = {}
        BY <1>1, <1>2, <1>4, <1>5
    <2>4. ~running' => waiting' = {}
        BY <1>1, <1>2, <1>4
    <2> QED BY <1>2, <2>1, <2>2, <2>3, <2>4 DEF EachDueOnce
<1>14. WorkersBusy'
    <2>1. Cardinality(DOMAIN checking) <= MaxConcurrency
          /\ (waiting # {} => Cardinality(DOMAIN checking) = MaxConcurrency)
        BY DEF IInv, WorkersBusy
    <2>2. PICK c : c = Cardinality(DOMAIN checking')
        OBVIOUS
    <2>3. c = Cardinality(DOMAIN checking) - 1 + Cardinality(next)
        BY <1>4, <1>9, <1>11, <2>2
    <2>4. c <= MaxConcurrency
        BY <1>1, <1>9, <2>1, <2>3, NumbersAssumption
    <2>5. waiting' # {} => c = MaxConcurrency
        <3>1. waiting' # {} => waiting # {} /\ waiting \ next # {}
            BY <1>2
        <3> QED BY <1>1, <1>9, <2>1, <2>3, <3>1, NumbersAssumption
    <2> QED BY <2>2, <2>4, <2>5 DEF WorkersBusy
<1>15. CyclePolicy'
    BY <1>2, <1>4, <1>5 DEF IInv, CyclePolicy
<1> QED BY <1>8, <1>12, <1>13, <1>14, <1>15 DEF IInv

\* What other parts of the process do to the table is no concern of a cycle.
LEMMA TableKeepsIInv ==
    ASSUME IInv, UNCHANGED <<timerVars, cycleVars>>, NEW n \in Names,
           \/ \E i \in 1 .. MaxInterval : Register(n, i)
           \/ Unregister(n)
           \/ ToolCheck(n)
    PROVE  IInv'
<1> DEFINE Row == [interval: 1 .. MaxInterval, age: 0 .. MaxInterval]
<1>0. /\ DOMAIN servers \subseteq Names /\ servers \in [DOMAIN servers -> Row]
      /\ IsFiniteSet(DOMAIN servers)
      /\ 0 \in 0 .. MaxInterval /\ MaxInterval \in 0 .. MaxInterval
    BY NumbersAssumption DEF IInv, TypeOK, AllFinite
<1>1. /\ DOMAIN servers' \subseteq DOMAIN servers \cup {n}
      /\ servers' \in [DOMAIN servers' -> Row]
    <2>1. CASE \E i \in 1 .. MaxInterval : Register(n, i)
        BY <1>0, <2>1 DEF Register
    <2>2. CASE Unregister(n)
        BY <1>0, <2>2 DEF Unregister
    <2>3. CASE ToolCheck(n)
        BY <1>0, <2>3 DEF ToolCheck
    <2> QED BY <2>1, <2>2, <2>3
<1>2. IsFiniteSet(DOMAIN servers')
    <2>1. IsFiniteSet(DOMAIN servers \cup {n})
        BY <1>0, FS_AddElement
    <2> QED BY <1>1, <2>1, FS_Subset
<1>3. TypeOK'
    BY <1>0, <1>1 DEF IInv, TypeOK, timerVars, cycleVars
<1>4. EachDueOnce' /\ WorkersBusy' /\ CyclePolicy'
    BY CycleUntouched DEF timerVars
<1> QED BY <1>2, <1>3, <1>4 DEF IInv, AllFinite, cycleVars

LEMMA TickKeepsIInv ==
    ASSUME IInv, Tick PROVE IInv'
<1>0. /\ DOMAIN servers \subseteq Names
      /\ servers \in [DOMAIN servers -> [interval: 1 .. MaxInterval, age: 0 .. MaxInterval]]
      /\ sinceFired \in 0 .. Period
    BY DEF IInv, TypeOK
<1>1. DOMAIN servers' = DOMAIN servers
      /\ servers' \in [DOMAIN servers' -> [interval: 1 .. MaxInterval, age: 0 .. MaxInterval]]
    <2>1. ASSUME NEW m \in DOMAIN servers
          PROVE  [servers[m] EXCEPT !.age = Least(servers[m].age + 1, MaxInterval)]
                     \in [interval: 1 .. MaxInterval, age: 0 .. MaxInterval]
        <3>1. servers[m] \in [interval: 1 .. MaxInterval, age: 0 .. MaxInterval]
            BY <1>0
        <3>2. Least(servers[m].age + 1, MaxInterval) \in 0 .. MaxInterval
            BY <3>1, NumbersAssumption DEF Least
        <3> QED BY <3>1, <3>2
    <2> QED BY <2>1 DEF Tick
<1>2. sinceFired' \in 0 .. Period
    BY <1>0, NumbersAssumption DEF Tick, Least
<1>3. TypeOK'
    BY <1>0, <1>1, <1>2 DEF IInv, TypeOK, Tick, cycleVars
<1>4. EachDueOnce' /\ WorkersBusy' /\ CyclePolicy'
    BY CycleUntouched DEF Tick
<1> QED BY <1>1, <1>3, <1>4 DEF IInv, AllFinite, Tick, cycleVars

LEMMA StopKeepsIInv ==
    ASSUME IInv, StopScheduler PROVE IInv'
<1>1. TypeOK'
    <2>1. stopped' \in BOOLEAN
        BY DEF IInv, TypeOK, StopScheduler
    <2>2. timerOn' \in BOOLEAN /\ allowStdio' \in Policies \cup {"undefined"}
        BY DEF StopScheduler
    <2>3. sinceFired' \in 0 .. Period
        <3>1. 0 \in 0 .. Period
            BY NumbersAssumption
        <3> QED BY <3>1 DEF StopScheduler
    <2> QED BY <2>1, <2>2, <2>3 DEF IInv, TypeOK, StopScheduler
<1>2. EachDueOnce' /\ WorkersBusy' /\ AllFinite'
    BY DEF IInv, EachDueOnce, WorkersBusy, AllFinite, StopScheduler
<1>3. CyclePolicy'
    BY DEF IInv, TypeOK, CyclePolicy, StopScheduler
<1> QED BY <1>1, <1>2, <1>3 DEF IInv

LEMMA NextIInv == IInv /\ [Next]_vars => IInv'
<1> SUFFICES ASSUME IInv, [Next]_vars PROVE IInv'
    OBVIOUS
<1>1. ASSUME NEW p \in Policies, StartScheduler(p) PROVE IInv'
    BY <1>1, StartKeepsIInv
<1>2. CASE StopScheduler
    BY <1>2, StopKeepsIInv
<1>3. CASE TimerFires
    BY <1>3, FireKeepsIInv
<1>4. CASE Tick
    BY <1>4, TickKeepsIInv
<1>5. ASSUME NEW n \in Names, CheckEnds(n) PROVE IInv'
    BY <1>5, CheckEndsKeepsIInv
<1>6. ASSUME NEW n \in Names,
             \/ \E i \in 1 .. MaxInterval : Register(n, i)
             \/ Unregister(n)
             \/ ToolCheck(n)
      PROVE  IInv'
    <2>1. UNCHANGED <<timerVars, cycleVars>>
        BY <1>6 DEF Register, Unregister, ToolCheck
    <2> QED BY <1>6, <2>1, TableKeepsIInv
<1>7. CASE UNCHANGED vars
    <2>1. TypeOK' /\ AllFinite'
        BY <1>7 DEF IInv, TypeOK, AllFinite, vars, timerVars, cycleVars
    <2>2. EachDueOnce' /\ WorkersBusy' /\ CyclePolicy'
        BY <1>7, CycleUntouched DEF vars, timerVars
    <2> QED BY <2>1, <2>2 DEF IInv
<1> QED BY <1>1, <1>2, <1>3, <1>4, <1>5, <1>6, <1>7 DEF Next

-------------------------------------------------------------------------------
(* Theorems *)

\* The inductive invariant holds in every reachable state.
THEOREM Invariance == Spec => []IInv
BY InitIInv, NextIInv, PTL DEF Spec

\* The variables of the scheduler keep their types.
THEOREM TypeCorrect == Spec => []TypeOK
<1>1. IInv => TypeOK
    BY DEF IInv
<1> QED BY <1>1, Invariance, PTL

\* A cycle checks every server it found due exactly once, whatever is
\* registered, unregistered, started or stopped meanwhile.
THEOREM DueOnce == Spec => []EachDueOnce
<1>1. IInv => EachDueOnce
    BY DEF IInv
<1> QED BY <1>1, Invariance, PTL

\* The pool of workers never exceeds its limit and never idles while servers
\* wait.
THEOREM PoolFull == Spec => []WorkersBusy
<1>1. IInv => WorkersBusy
    BY DEF IInv
<1> QED BY <1>1, Invariance, PTL

\* A cycle that was not stopped runs under the policy the scheduler was last
\* started with.
THEOREM PolicyKept == Spec => []CyclePolicy
<1>1. IInv => CyclePolicy
    BY DEF IInv
<1> QED BY <1>1, Invariance, PTL
===============================================================================
