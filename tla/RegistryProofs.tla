---------------------------- MODULE RegistryProofs ----------------------------
(***************************************************************************)
(* Proofs about Registry, for all values of its constants.  The inductive  *)
(* invariant adds to the properties that ids and timestamps grow together, *)
(* so that pruning by (timestamp, id) removes a prefix of every history.   *)
(***************************************************************************)
EXTENDS Registry, FiniteSetTheorems, WellFoundedInduction, TLAPS

-------------------------------------------------------------------------------
(* The order of checks *)

UniqueIds(rows) == \A r, q \in rows : r.id = q.id => r = q

\* h2 is what is left of h once some of its oldest rows are gone.
IsRecentPart(h2, h) ==
    /\ h2 \subseteq h
    /\ \A r \in h2, q \in h : Before(r, q) => q \in h2

\* Before is a strict total order on the rows of a table: what ORDER BY
\* timestamp, id in pruneHealthChecks and getLatestHealthCheck relies on.
LEMMA BeforeOrders ==
    ASSUME NEW r \in CheckRow, NEW q \in CheckRow, NEW p \in CheckRow
    PROVE  /\ ~ Before(r, r)
           /\ Before(r, q) => ~ Before(q, r)
           /\ Before(r, q) /\ Before(q, p) => Before(r, p)
           /\ r.id # q.id => Before(r, q) \/ Before(q, r)
    BY DEF Before, CheckRow

\* A pruning with any cutoff removes a prefix of the table: every row after a
\* row that stays, stays too.
LEMMA OldestGone ==
    ASSUME NEW rows, rows \subseteq CheckRow, IsFiniteSet(rows), RetentionAssumption,
           NEW cutoff \in Int, NEW E, E = {r \in rows : r.timestamp < cutoff},
           NEW kept,
           kept = rows \ {r \in E : Cardinality({q \in E : Before(q, r)}) < PruneLimit}
    PROVE  IsRecentPart(kept, rows)
<1> DEFINE Older(r) == {q \in E : Before(q, r)}
<1>1. kept \subseteq rows
    OBVIOUS
<1>2. ASSUME NEW r \in kept, NEW q \in rows, Before(r, q), q \notin kept
      PROVE  FALSE
    <2>1. r \in CheckRow /\ q \in CheckRow /\ r \in rows
        BY <1>1
    <2>2. q \in E /\ Cardinality(Older(q)) < PruneLimit
        BY <1>2
    <2>3. r \in E
        BY <1>2, <2>1, <2>2 DEF Before, CheckRow
    <2>4. Older(r) \subseteq Older(q)
        <3>1. ASSUME NEW p \in Older(r) PROVE Before(p, q)
            <4>1. p \in CheckRow
                OBVIOUS
            <4> QED BY <1>2, <2>1, <4>1, BeforeOrders
        <3> QED BY <3>1
    <2>5. IsFiniteSet(Older(q)) /\ IsFiniteSet(Older(r))
        BY FS_Subset
    <2>6. Cardinality(Older(r)) <= Cardinality(Older(q))
        BY <2>4, <2>5, FS_Subset
    <2>7. Cardinality(Older(r)) \in Nat /\ Cardinality(Older(q)) \in Nat
        BY <2>5, FS_CardinalityType
    <2>8. Cardinality(Older(r)) < PruneLimit
        BY <2>2, <2>6, <2>7, RetentionAssumption DEF RetentionAssumption
    <2>9. r \notin kept
        BY <2>3, <2>8
    <2> QED BY <1>2, <2>9
<1> QED BY <1>1, <1>2 DEF IsRecentPart

\* pruneHealthChecks is such a pruning.
LEMMA PrunedIsRecentPart ==
    ASSUME NEW rows, rows \subseteq CheckRow, IsFiniteSet(rows),
           now \in Nat, RetentionAssumption
    PROVE  IsRecentPart(Pruned(rows), rows)
<1>1. now - Retention \in Int
    BY RetentionAssumption DEF RetentionAssumption
<1> QED BY <1>1, OldestGone DEF Pruned, Expired

\* A strict part of a finite set has fewer members.
LEMMA StrictPartIsSmaller ==
    ASSUME NEW S, IsFiniteSet(S), NEW T, T \subseteq S, T # S
    PROVE  /\ Cardinality(T) \in Nat /\ Cardinality(S) \in Nat
           /\ Cardinality(T) < Cardinality(S)
<1>1. IsFiniteSet(T) /\ Cardinality(T) <= Cardinality(S) /\ Cardinality(S) # Cardinality(T)
    BY FS_Subset
<1>2. Cardinality(T) \in Nat /\ Cardinality(S) \in Nat
    BY <1>1, FS_CardinalityType
<1> QED BY <1>1, <1>2

\* A finite table that is not empty has a row none is before.
LEMMA SomeOldest ==
    ASSUME NEW rows, rows \subseteq CheckRow, IsFiniteSet(rows), rows # {}
    PROVE  \E r \in rows : \A q \in rows : ~ Before(q, r)
<1> DEFINE UpTo(r) == {q \in rows : q = r \/ Before(q, r)}
           T == {UpTo(r) : r \in rows}
<1>1. \A A \in T : \E r \in rows : A = UpTo(r)
    OBVIOUS
<1>2. T \subseteq SUBSET rows /\ T # {}
    OBVIOUS
<1>3. \A r \in rows : UpTo(r) \in T
    OBVIOUS
<1>4. PICK A \in T : \A B \in T : <<B, A>> \notin StrictSubsetOrdering(rows)
    <2> HIDE DEF T
    <2>1. SUBSET rows = FiniteSubsetsOf(rows)
        BY FS_FiniteSubsetsOfFinite
    <2> QED BY <1>2, <2>1, FS_StrictSubsetOrderingWellFounded, WFMin
<1>5. PICK r \in rows : A = UpTo(r)
    BY <1>1
<1>6. ASSUME NEW q \in rows, Before(q, r) PROVE FALSE
    <2>1. \A p \in rows : p \in CheckRow
        OBVIOUS
    <2>2. UpTo(q) \subseteq UpTo(r)
        BY <1>6, <2>1, BeforeOrders
    <2>3. r \in UpTo(r) /\ r \notin UpTo(q)
        BY <1>6, <2>1, BeforeOrders
    <2>4. UpTo(q) \in SUBSET rows /\ UpTo(r) \in SUBSET rows /\ UpTo(q) # UpTo(r)
        BY <2>3
    <2>5. <<UpTo(q), UpTo(r)>> \in StrictSubsetOrdering(rows)
        <3> HIDE DEF UpTo
        <3> QED BY <2>2, <2>4 DEF StrictSubsetOrdering
    <2> QED BY <1>3, <1>4, <1>5, <2>5
<1> QED BY <1>6

\* One DELETE takes every expired row, or at least one if there are more than
\* it may take.
LEMMA PrunedKeepsUp ==
    ASSUME NEW rows, rows \subseteq CheckRow, IsFiniteSet(rows),
           now \in Nat, RetentionAssumption
    PROVE  IF Cardinality(Expired(rows)) <= PruneLimit
           THEN Expired(Pruned(rows)) = {}
           ELSE Cardinality(Expired(Pruned(rows))) < Cardinality(Expired(rows))
<1> DEFINE E == Expired(rows)
           Older(r) == {q \in E : Before(q, r)}
<1>1. E \subseteq CheckRow /\ IsFiniteSet(E)
    BY FS_Subset DEF Expired
<1>2. Expired(Pruned(rows)) = {r \in E : ~(Cardinality(Older(r)) < PruneLimit)}
    BY DEF Expired, Pruned
<1>3. Cardinality(E) \in Nat /\ PruneLimit \in Nat \ {0}
    BY <1>1, FS_CardinalityType, RetentionAssumption DEF RetentionAssumption
<1>4. ASSUME Cardinality(E) <= PruneLimit, NEW r \in E
      PROVE  Cardinality(Older(r)) < PruneLimit
    <2>1. r \in CheckRow /\ ~ Before(r, r)
        BY <1>1, BeforeOrders
    <2>2. Older(r) \subseteq E /\ Older(r) # E
        BY <2>1
    <2>3. Cardinality(Older(r)) \in Nat /\ Cardinality(Older(r)) < Cardinality(E)
        <3> HIDE DEF Older, E
        <3> QED BY <1>1, <2>2, StrictPartIsSmaller
    <2> QED BY <1>3, <1>4, <2>3
<1>5. ASSUME ~(Cardinality(E) <= PruneLimit)
      PROVE  Cardinality(Expired(Pruned(rows))) < Cardinality(E)
    <2>1. E # {}
        BY <1>3, <1>5, FS_EmptySet
    <2>2. PICK r \in E : \A q \in E : ~ Before(q, r)
        BY <1>1, <2>1, SomeOldest
    <2>3. Older(r) = {}
        BY <2>2
    <2>4. Cardinality(Older(r)) = 0
        BY <2>3, FS_EmptySet
    <2>5. Cardinality(Older(r)) < PruneLimit
        BY <1>3, <2>4
    <2>6. Expired(Pruned(rows)) \subseteq E /\ Expired(Pruned(rows)) # E
        BY <1>2, <2>5
    <2> HIDE DEF E
    <2> QED BY <1>1, <2>6, StrictPartIsSmaller
<1> QED BY <1>2, <1>4, <1>5

-------------------------------------------------------------------------------
(* Histories that lose old rows or gain a new one *)

\* What is newest after pruning was newest before it.
LEMMA LatestOfRecentPart ==
    ASSUME NEW h, h \subseteq CheckRow, UniqueIds(h),
           NEW h2, IsRecentPart(h2, h), NEW r \in h2, IsLatest(r, h2)
    PROVE  IsLatest(r, h)
<1>1. ASSUME NEW q \in h, q # r, ~ Before(q, r) PROVE FALSE
    <2>1. r \in h /\ r.id # q.id
        BY <1>1 DEF IsRecentPart, UniqueIds
    <2>2. Before(r, q)
        BY <1>1, <2>1, BeforeOrders
    <2>3. q \in h2
        BY <2>2 DEF IsRecentPart
    <2> QED BY <1>1, <2>2, <2>3 DEF IsLatest
<1> QED BY <1>1 DEF IsLatest, IsRecentPart

\* Pruning only shortens the streak a history shows, and leaves it alone
\* while an "up" check is left.
LEMMA StreakOfRecentPart ==
    ASSUME NEW h, h \subseteq CheckRow, UniqueIds(h), NEW h2, IsRecentPart(h2, h)
    PROVE  /\ Streak(h2) \subseteq Streak(h)
           /\ (\E u \in h2 : u.status = "up") => Streak(h2) = Streak(h)
<1>1. Streak(h2) \subseteq Streak(h)
    BY DEF Streak, IsRecentPart
<1>2. ASSUME NEW u \in h2, u.status = "up", NEW r \in Streak(h)
      PROVE  r \in Streak(h2)
    <2>1. u \in h /\ r \in h /\ r.status # "up" /\ ~ Before(r, u)
        BY <1>2 DEF Streak, IsRecentPart
    <2>2. Before(u, r)
        BY <1>2, <2>1, BeforeOrders DEF UniqueIds
    <2>3. r \in h2
        BY <2>1, <2>2 DEF IsRecentPart
    <2> QED BY <1>2, <2>3 DEF Streak, IsRecentPart
<1> QED BY <1>1, <1>2

LEMMA StreakCountedOfRecentPart ==
    ASSUME NEW h, h \subseteq CheckRow, UniqueIds(h), IsFiniteSet(h),
           NEW h2, IsRecentPart(h2, h),
           NEW failures \in Nat, StreakCounted(failures, h)
    PROVE  StreakCounted(failures, h2)
<1>1. IsFiniteSet(Streak(h))
    BY FS_Subset DEF Streak
<1>2. IsFiniteSet(Streak(h2)) /\ Cardinality(Streak(h2)) <= Cardinality(Streak(h))
    BY <1>1, StreakOfRecentPart, FS_Subset
<1>3. Cardinality(Streak(h)) \in Nat /\ Cardinality(Streak(h2)) \in Nat
    BY <1>1, <1>2, FS_CardinalityType
<1>4. Cardinality(Streak(h2)) <= failures
    BY <1>2, <1>3 DEF StreakCounted
<1>5. ASSUME NEW u \in h2, u.status = "up"
      PROVE  failures = Cardinality(Streak(h2))
    BY <1>5, StreakOfRecentPart DEF StreakCounted, IsRecentPart
<1> QED BY <1>4, <1>5 DEF StreakCounted

\* A non-up check after all others lengthens the streak by one, an "up" check
\* ends it: the assignment of consecutive_failures in recordHealthCheck.
LEMMA StreakCountedAfterAppend ==
    ASSUME NEW h, h \subseteq CheckRow, IsFiniteSet(h),
           NEW x \in CheckRow, x \notin h, \A r \in h : Before(r, x),
           NEW failures \in Nat,
           x.status # "up" => StreakCounted(failures, h)
    PROVE  StreakCounted(IF x.status = "up" THEN 0 ELSE failures + 1, h \cup {x})
<1>1. \A r \in h : ~ Before(x, r)
    BY BeforeOrders
<1>2. ~ Before(x, x)
    BY BeforeOrders
<1>3. CASE x.status = "up"
    <2>1. Streak(h \cup {x}) = {}
        BY <1>3 DEF Streak
    <2> QED BY <1>3, <2>1, FS_EmptySet DEF StreakCounted
<1>4. CASE x.status # "up"
    <2>1. Streak(h \cup {x}) = Streak(h) \cup {x}
        BY <1>1, <1>2, <1>4 DEF Streak
    <2>2. IsFiniteSet(Streak(h)) /\ x \notin Streak(h)
        BY FS_Subset DEF Streak
    <2>3. /\ Cardinality(Streak(h) \cup {x}) = Cardinality(Streak(h)) + 1
          /\ Cardinality(Streak(h)) \in Nat
        BY <2>2, FS_AddElement, FS_CardinalityType
    <2>4. Cardinality(Streak(h \cup {x})) = Cardinality(Streak(h)) + 1
        BY <2>1, <2>3
    <2>5. Cardinality(Streak(h \cup {x})) <= failures + 1
        BY <1>4, <2>3, <2>4 DEF StreakCounted
    <2>6. ASSUME NEW u \in h \cup {x}, u.status = "up"
          PROVE  failures + 1 = Cardinality(Streak(h \cup {x}))
        <3>1. u \in h
            BY <1>4, <2>6
        <3> QED BY <1>4, <2>4, <2>6, <3>1 DEF StreakCounted
    <2>7. StreakCounted(failures + 1, h \cup {x})
        BY <2>5, <2>6 DEF StreakCounted
    <2> QED BY <1>4, <2>7
<1> QED BY <1>3, <1>4

-------------------------------------------------------------------------------
(* The inductive invariant *)

\* ids and timestamps of health_checks grow together, below the counters.
IdsFollowTime ==
    /\ UniqueIds(health_checks)
    /\ \A r \in health_checks : r.id <= lastId /\ r.timestamp <= now
    /\ \A r, q \in health_checks : r.id < q.id => r.timestamp <= q.timestamp
    /\ \A n \in Registered : servers[n].created_at <= now

IInv ==
    /\ TypeOK
    /\ IsFiniteSet(health_checks)
    /\ IdsFollowTime
    /\ ReferentialIntegrity
    /\ LatestAgrees
    /\ StreakAgrees

\* In the empty database the invariant holds.
LEMMA InitIInv == RegistryInit => IInv
<1> SUFFICES ASSUME RegistryInit PROVE IInv
    OBVIOUS
<1> USE DEF RegistryInit, EmptyTable
<1>1. Registered = {} /\ DOMAIN alerts = {}
    BY DEF Registered
<1>2. TypeOK
    BY <1>1 DEF TypeOK
<1>3. IsFiniteSet(health_checks)
    BY FS_EmptySet
<1>4. IdsFollowTime /\ ReferentialIntegrity
    BY <1>1 DEF IdsFollowTime, ReferentialIntegrity, UniqueIds
<1>5. LatestAgrees /\ StreakAgrees
    BY <1>1 DEF LatestAgrees, StreakAgrees
<1> QED BY <1>2, <1>3, <1>4, <1>5 DEF IInv

-------------------------------------------------------------------------------
(* recordHealthCheck, in the parts its three statements have *)

\* The INSERT appends to the history of n and to no other.
LEMMA InsertAppends ==
    ASSUME IInv, NEW n \in Names, NEW s \in Statuses, n \in Registered
    PROVE  LET x == NewCheck(n, s)
               rows == health_checks \cup {x}
           IN  /\ x \in CheckRow /\ x \notin health_checks
               /\ rows \subseteq CheckRow /\ IsFiniteSet(rows) /\ UniqueIds(rows)
               /\ \A r \in health_checks : Before(r, x)
               /\ \A r, q \in rows : r.id < q.id => r.timestamp <= q.timestamp
               /\ \A r \in rows : r.id <= lastId + 1 /\ r.timestamp <= now
               /\ HistoryIn(rows, n) = History(n) \cup {x}
               /\ \A m \in Names \ {n} : HistoryIn(rows, m) = History(m)
<1> DEFINE x == NewCheck(n, s)
           rows == health_checks \cup {x}
<1>1. /\ x \in CheckRow
      /\ x.id = lastId + 1 /\ x.server_name = n /\ x.timestamp = now
    BY DEF IInv, TypeOK, NewCheck, CheckRow
<1>2. \A r \in health_checks : r.id < x.id /\ r.timestamp <= x.timestamp
    BY <1>1 DEF IInv, TypeOK, IdsFollowTime, CheckRow
<1>3. x \notin health_checks
    BY <1>1, <1>2 DEF CheckRow
<1>4. rows \subseteq CheckRow /\ IsFiniteSet(rows)
    BY <1>1, FS_AddElement DEF IInv, TypeOK
<1>5. UniqueIds(rows)
    BY <1>1, <1>2, <1>4 DEF IInv, IdsFollowTime, UniqueIds, CheckRow
<1>6. \A r \in health_checks : Before(r, x)
    BY <1>1, <1>2, <1>4 DEF Before, CheckRow
<1>7. \A r, q \in rows : r.id < q.id => r.timestamp <= q.timestamp
    BY <1>1, <1>2, <1>4 DEF IInv, IdsFollowTime, CheckRow
<1>8. \A r \in rows : r.id <= lastId + 1 /\ r.timestamp <= now
    BY <1>1, <1>4 DEF IInv, TypeOK, IdsFollowTime, CheckRow
<1>9. /\ HistoryIn(rows, n) = History(n) \cup {x}
      /\ \A m \in Names \ {n} : HistoryIn(rows, m) = History(m)
    BY <1>1 DEF HistoryIn, History
<1> QED BY <1>1, <1>3, <1>4, <1>5, <1>6, <1>7, <1>8, <1>9

\* Recording a check keeps the invariant, however much of the old history the
\* pruning that may follow the UPDATE removes.
LEMMA UpdateKeepsIInv ==
    ASSUME IInv, NEW n \in Names, NEW s \in Statuses, Insert(n, s), Update(n, s),
           IsRecentPart(health_checks', health_checks \cup {NewCheck(n, s)})
    PROVE  IInv'
<1> DEFINE x == NewCheck(n, s)
           rows == health_checks \cup {x}
<1>1. n \in Registered /\ lastId' = lastId + 1 /\ UNCHANGED <<alerts, now>>
    BY DEF Insert
<1>2. /\ x \in CheckRow /\ x \notin health_checks
      /\ rows \subseteq CheckRow /\ IsFiniteSet(rows) /\ UniqueIds(rows)
      /\ \A r \in health_checks : Before(r, x)
      /\ \A r, q \in rows : r.id < q.id => r.timestamp <= q.timestamp
      /\ \A r \in rows : r.id <= lastId + 1 /\ r.timestamp <= now
      /\ HistoryIn(rows, n) = History(n) \cup {x}
      /\ \A m \in Names \ {n} : HistoryIn(rows, m) = History(m)
    BY <1>1, InsertAppends
<1>3. health_checks' \subseteq rows
    BY DEF IsRecentPart
<1>4. /\ Registered' = Registered
      /\ servers' = [servers EXCEPT ![n] = Recorded(n, s)]
    BY DEF Update, IInv, TypeOK, Registered
<1>5. Recorded(n, s) \in ServerRow
    <2>1. servers[n] \in ServerRow /\ now \in Nat
        BY <1>1 DEF IInv, TypeOK
    <2>2. NextFailures(n, s) \in Nat
        BY <2>1 DEF NextFailures, ServerRow
    <2> QED BY <2>1, <2>2 DEF Recorded, ServerRow
<1>6. TypeOK'
    BY <1>1, <1>2, <1>3, <1>4, <1>5 DEF IInv, TypeOK, Update
<1>7. IsFiniteSet(health_checks)'
    BY <1>2, <1>3, FS_Subset
<1>8. servers[n] \in ServerRow /\ Recorded(n, s).created_at = servers[n].created_at
    BY <1>1 DEF Recorded, ServerRow, IInv, TypeOK
<1>9. \A m \in Registered : servers'[m].created_at = servers[m].created_at
    BY <1>1, <1>4, <1>8 DEF IInv, TypeOK
<1>10. IdsFollowTime'
    BY <1>1, <1>2, <1>3, <1>4, <1>9 DEF IInv, IdsFollowTime, UniqueIds
<1>11. ReferentialIntegrity'
    <2>1. ASSUME NEW r \in rows
          PROVE  /\ r.server_name \in Registered
                 /\ servers[r.server_name].created_at <= r.timestamp
        BY <1>1, <2>1 DEF IInv, IdsFollowTime, ReferentialIntegrity, NewCheck
    <2> QED BY <1>1, <1>3, <1>4, <1>9, <2>1 DEF IInv, ReferentialIntegrity
<1>12. ASSUME NEW m \in Names
       PROVE  /\ IsRecentPart(History(m)', HistoryIn(rows, m))
              /\ HistoryIn(rows, m) \subseteq CheckRow
              /\ UniqueIds(HistoryIn(rows, m))
              /\ IsFiniteSet(HistoryIn(rows, m))
    <2>1. HistoryIn(rows, m) \subseteq rows
        BY DEF HistoryIn
    <2> QED BY <1>2, <2>1, FS_Subset
            DEF IsRecentPart, History, HistoryIn, UniqueIds
<1>13. LatestAgrees'
    <2>1. SUFFICES ASSUME NEW m \in Registered', m \notin unsynced',
                          NEW r \in History(m)', IsLatest(r, History(m)')
                   PROVE  /\ servers'[m].last_status = r.status
                          /\ servers'[m].last_checked = r.timestamp
        BY DEF LatestAgrees, IsLatest
    <2>2. m \in Names
        BY <1>6 DEF TypeOK
    <2>3. IsLatest(r, HistoryIn(rows, m))
        BY <1>12, <2>1, <2>2, LatestOfRecentPart
    <2>4. CASE m = n
        <3>1. r = x
            <4>1. r \in History(n) \cup {x} /\ (x = r \/ Before(x, r))
                BY <1>2, <2>3, <2>4 DEF IsLatest
            <4>2. ASSUME r \in History(n) PROVE Before(r, x) /\ r \in CheckRow
                BY <1>2, <4>2 DEF History, HistoryIn
            <4> QED BY <1>2, <4>1, <4>2, BeforeOrders
        <3>2. servers'[m] = Recorded(n, s)
            BY <1>1, <1>4, <2>4 DEF IInv, TypeOK
        <3>3. /\ Recorded(n, s).last_status = s
              /\ Recorded(n, s).last_checked = now
            BY <1>8 DEF Recorded, ServerRow
        <3> QED BY <3>1, <3>2, <3>3 DEF NewCheck
    <2>5. CASE m # n
        <3>1. IsLatest(r, History(m)) /\ r \in History(m)
            BY <1>2, <2>2, <2>3, <2>5 DEF IsLatest
        <3>2. servers'[m] = servers[m]
            BY <1>4, <2>1, <2>5 DEF IInv, TypeOK
        <3>3. m \in Registered \ unsynced
            BY <1>4, <2>1, <2>5 DEF Update
        <3> QED BY <3>1, <3>2, <3>3 DEF IInv, LatestAgrees
    <2> QED BY <2>4, <2>5
<1>14. StreakAgrees'
    <2>1. SUFFICES ASSUME NEW m \in Registered', m \notin miscounted'
                   PROVE  StreakCounted(servers'[m].consecutive_failures, History(m)')
        BY DEF StreakAgrees, StreakCounted
    <2>2. m \in Names /\ servers'[m] \in ServerRow
        BY <1>6 DEF TypeOK
    <2>3. servers'[m].consecutive_failures \in Nat
        BY <2>2 DEF ServerRow
    <2>4. StreakCounted(servers'[m].consecutive_failures, HistoryIn(rows, m))
        <3>1. CASE m = n
            <4>1. /\ servers'[m] = Recorded(n, s)
                  /\ Recorded(n, s).consecutive_failures = NextFailures(n, s)
                  /\ servers[n].consecutive_failures \in Nat
                BY <1>1, <1>4, <1>8, <3>1 DEF Recorded, ServerRow, IInv, TypeOK
            <4>2. x.status = s
                BY DEF NewCheck
            <4>3. s # "up" =>
                    StreakCounted(servers[n].consecutive_failures, History(n))
                BY <1>1, <2>1, <3>1 DEF Update, IInv, StreakAgrees
            <4>4. /\ History(n) \subseteq CheckRow /\ IsFiniteSet(History(n))
                  /\ x \notin History(n) /\ \A r \in History(n) : Before(r, x)
                BY <1>2, FS_Subset DEF History, HistoryIn, IInv
            <4>5. StreakCounted(NextFailures(n, s), History(n) \cup {x})
                BY <1>2, <4>1, <4>2, <4>3, <4>4, StreakCountedAfterAppend
                DEF NextFailures
            <4> QED BY <1>2, <3>1, <4>1, <4>5
        <3>2. CASE m # n
            <4>1. servers'[m] = servers[m] /\ m \in Registered \ miscounted
                BY <1>4, <2>1, <3>2 DEF Update, IInv, TypeOK
            <4> QED BY <1>2, <2>2, <3>2, <4>1 DEF IInv, StreakAgrees
        <3> QED BY <3>1, <3>2
    <2> QED BY <1>12, <2>2, <2>3, <2>4, StreakCountedOfRecentPart
<1> QED BY <1>6, <1>7, <1>10, <1>11, <1>13, <1>14 DEF IInv

\* A record that stops after its INSERT keeps it too: the history variables
\* set the server aside until later records make its row right again.
LEMMA StopAfterInsertKeepsIInv ==
    ASSUME IInv, NEW n \in Names, NEW s \in Statuses, StopAfterInsert(n, s)
    PROVE  IInv'
<1> DEFINE rows == health_checks \cup {NewCheck(n, s)}
<1>1. /\ n \in Registered /\ lastId' = lastId + 1
      /\ health_checks' = rows
      /\ unsynced' = unsynced \cup {n} /\ miscounted' = miscounted \cup {n}
      /\ UNCHANGED <<alerts, now, servers>>
    BY DEF StopAfterInsert, Insert
<1>2. /\ NewCheck(n, s) \in CheckRow
      /\ rows \subseteq CheckRow /\ IsFiniteSet(rows) /\ UniqueIds(rows)
      /\ \A r, q \in rows : r.id < q.id => r.timestamp <= q.timestamp
      /\ \A r \in rows : r.id <= lastId + 1 /\ r.timestamp <= now
      /\ \A m \in Names \ {n} : HistoryIn(rows, m) = History(m)
    BY <1>1, InsertAppends
<1>3. Registered' = Registered
    BY <1>1 DEF Registered
<1>4. TypeOK'
    BY <1>1, <1>2, <1>3 DEF IInv, TypeOK
<1>5. IdsFollowTime'
    BY <1>1, <1>2, <1>3 DEF IInv, IdsFollowTime
<1>6. ReferentialIntegrity'
    BY <1>1, <1>3 DEF IInv, IdsFollowTime, ReferentialIntegrity, NewCheck
<1>7. \A m \in Registered' :
        m \notin unsynced' \/ m \notin miscounted' =>
            m # n /\ History(m)' = History(m)
    BY <1>1, <1>2, <1>3 DEF IInv, TypeOK, History
<1>8. LatestAgrees' /\ StreakAgrees'
    BY <1>1, <1>3, <1>7 DEF IInv, LatestAgrees, StreakAgrees
<1> QED BY <1>1, <1>2, <1>4, <1>5, <1>6, <1>8 DEF IInv

\* registerServer: a new name has no history, a known one keeps its row's
\* status columns.
LEMMA RegisterServerKeepsIInv ==
    ASSUME IInv, NEW n \in Names, NEW c \in Configs, RegisterServer(n, c)
    PROVE  IInv'
<1>1. /\ servers' = [m \in Registered \cup {n} |->
                         IF m = n THEN Upsert(n, c) ELSE servers[m]]
      /\ UNCHANGED <<health_checks, alerts, lastId, now, unsynced, miscounted>>
    BY DEF RegisterServer
<1>2. Registered' = Registered \cup {n} /\ \A m \in Names : History(m)' = History(m)
    BY <1>1 DEF Registered, History
<1>3. Upsert(n, c) \in ServerRow /\ Upsert(n, c).created_at <= now
    <2>1. NewServer(c) \in ServerRow /\ NewServer(c).created_at <= now
        BY DEF NewServer, ServerRow, IInv, TypeOK
    <2>2. ASSUME n \in Registered
          PROVE  /\ servers[n] \in ServerRow
                 /\ servers[n].created_at <= now
        BY <2>2 DEF IInv, TypeOK, IdsFollowTime
    <2> QED BY <2>1, <2>2 DEF Upsert, ServerRow
<1>4. \A m \in Registered :
        /\ servers'[m].created_at = servers[m].created_at
        /\ servers'[m].last_status = servers[m].last_status
        /\ servers'[m].last_checked = servers[m].last_checked
        /\ servers'[m].consecutive_failures = servers[m].consecutive_failures
    <2>1. ASSUME NEW m \in Registered
          PROVE  servers[m] \in ServerRow
        BY DEF IInv, TypeOK
    <2> QED BY <1>1, <1>2, <2>1 DEF Upsert, ServerRow
<1>5. TypeOK'
    <2>1. servers' \in [Registered' -> ServerRow]
        BY <1>1, <1>2, <1>3 DEF IInv, TypeOK
    <2> QED BY <1>1, <1>2, <2>1 DEF IInv, TypeOK
<1>6. IdsFollowTime'
    BY <1>1, <1>2, <1>3, <1>4 DEF IInv, IdsFollowTime, UniqueIds
<1>7. ReferentialIntegrity'
    BY <1>1, <1>2, <1>4 DEF IInv, ReferentialIntegrity
<1>8. n \notin Registered => History(n) = {}
    BY DEF IInv, ReferentialIntegrity, History, HistoryIn
<1>9. LatestAgrees'
    <2>1. \A m \in Registered : m \in Names
        BY DEF IInv, TypeOK
    <2> QED BY <1>1, <1>2, <1>4, <1>8, <2>1 DEF IInv, LatestAgrees
<1>10. StreakAgrees'
    <2>1. ASSUME NEW m \in Registered', m \notin miscounted'
          PROVE  StreakCounted(servers'[m].consecutive_failures, History(m)')
        <3>1. CASE m \in Registered
            <4>1. m \in Names
                BY <3>1 DEF IInv, TypeOK
            <4> QED BY <1>1, <1>2, <1>4, <2>1, <3>1, <4>1 DEF IInv, StreakAgrees
        <3>2. CASE m \notin Registered
            <4>1. m = n /\ History(m)' = {}
                BY <1>2, <1>8, <3>2
            <4>2. servers'[m].consecutive_failures = 0
                BY <1>1, <1>2, <3>2, <4>1 DEF Upsert, NewServer
            <4>3. Streak({}) = {}
                BY DEF Streak
            <4> QED BY <4>1, <4>2, <4>3, FS_EmptySet DEF StreakCounted
        <3> QED BY <3>1, <3>2
    <2> QED BY <2>1 DEF StreakAgrees
<1> QED BY <1>1, <1>5, <1>6, <1>7, <1>9, <1>10 DEF IInv

\* unregisterServer: the cascade takes the rows of n from every table.
LEMMA UnregisterServerKeepsIInv ==
    ASSUME IInv, NEW n \in Names, UnregisterServer(n)
    PROVE  IInv'
<1>1. /\ servers' = [m \in Registered \ {n} |-> servers[m]]
      /\ health_checks' = {r \in health_checks : r.server_name # n}
      /\ alerts' = [m \in DOMAIN alerts \ {n} |-> alerts[m]]
      /\ unsynced' = unsynced \ {n} /\ miscounted' = miscounted \ {n}
      /\ UNCHANGED <<lastId, now>>
    BY DEF UnregisterServer, WithoutChecksOf
<1>2. /\ Registered' = Registered \ {n}
      /\ \A m \in Registered' : m # n /\ servers'[m] = servers[m]
      /\ \A m \in Registered' : History(m)' = History(m)
    BY <1>1 DEF Registered, History, HistoryIn
<1>3. TypeOK'
    BY <1>1, <1>2 DEF IInv, TypeOK
<1>4. IsFiniteSet(health_checks)'
    BY <1>1, FS_Subset DEF IInv
<1>5. IdsFollowTime'
    BY <1>1, <1>2 DEF IInv, IdsFollowTime, UniqueIds
<1>6. ReferentialIntegrity'
    BY <1>1, <1>2 DEF IInv, ReferentialIntegrity
<1>7. LatestAgrees' /\ StreakAgrees'
    BY <1>1, <1>2 DEF IInv, LatestAgrees, StreakAgrees
<1> QED BY <1>3, <1>4, <1>5, <1>6, <1>7 DEF IInv

\* Every step keeps the invariant.
LEMMA NextKeepsIInv == IInv /\ [RegistryNext]_registryVars => IInv'
<1> SUFFICES ASSUME IInv, [RegistryNext]_registryVars PROVE IInv'
    OBVIOUS
<1>1. CASE Tick
    <2>1. /\ UNCHANGED <<servers, health_checks, alerts, lastId, unsynced, miscounted>>
          /\ now' = now + 1
        BY <1>1 DEF Tick
    <2>2. Registered' = Registered /\ \A m \in Names : History(m)' = History(m)
        BY <2>1 DEF Registered, History
    <2>3. TypeOK'
        BY <2>1, <2>2 DEF IInv, TypeOK
    <2>4. IdsFollowTime'
        <3>1. \A r \in health_checks : r.timestamp \in Int
            BY DEF IInv, TypeOK, CheckRow
        <3>2. \A n \in Registered : servers[n].created_at \in Int
            BY DEF IInv, TypeOK, ServerRow
        <3> QED BY <2>1, <2>2, <3>1, <3>2 DEF IInv, TypeOK, IdsFollowTime, UniqueIds
    <2>5. ReferentialIntegrity' /\ LatestAgrees' /\ StreakAgrees'
        BY <2>1, <2>2 DEF IInv, TypeOK, ReferentialIntegrity, LatestAgrees, StreakAgrees
    <2> QED BY <2>1, <2>3, <2>4, <2>5 DEF IInv
<1>2. CASE \E n \in Names, a \in AlertConfigs : SetAlert(n, a)
    <2>1. PICK n \in Names, a \in AlertConfigs : SetAlert(n, a)
        BY <1>2
    <2>2. /\ UNCHANGED <<servers, health_checks, lastId, now, unsynced, miscounted>>
          /\ alerts' = [m \in DOMAIN alerts \cup {n} |->
                           IF m = n THEN a ELSE alerts[m]]
          /\ n \in Registered
        BY <2>1 DEF SetAlert
    <2>3. Registered' = Registered /\ \A m \in Names : History(m)' = History(m)
        BY <2>2 DEF Registered, History
    <2>4. TypeOK' /\ IdsFollowTime' /\ ReferentialIntegrity'
        BY <2>2, <2>3 DEF IInv, TypeOK, IdsFollowTime, UniqueIds, ReferentialIntegrity
    <2>5. LatestAgrees' /\ StreakAgrees'
        BY <2>2, <2>3 DEF IInv, TypeOK, LatestAgrees, StreakAgrees
    <2> QED BY <2>2, <2>4, <2>5 DEF IInv
<1>3. CASE \E n \in Names, c \in Configs : RegisterServer(n, c)
    BY <1>3, RegisterServerKeepsIInv
<1>4. CASE \E n \in Names : UnregisterServer(n)
    BY <1>4, UnregisterServerKeepsIInv
<1>5. CASE \E n \in Names, s \in Statuses : RecordHealthCheck(n, s)
    <2>1. PICK n \in Names, s \in Statuses : RecordHealthCheck(n, s)
        BY <1>5
    <2> DEFINE rows == health_checks \cup {NewCheck(n, s)}
    <2>2. Insert(n, s) /\ Update(n, s) /\ health_checks' = Pruned(rows)
        BY <2>1 DEF RecordHealthCheck
    <2>3. rows \subseteq CheckRow /\ IsFiniteSet(rows) /\ now \in Nat
        BY <2>2, InsertAppends DEF Insert, IInv, TypeOK
    <2>4. IsRecentPart(Pruned(rows), rows)
        BY <2>3, PrunedIsRecentPart, RetentionAssumption
    <2> QED BY <2>2, <2>4, UpdateKeepsIInv
<1>6. CASE \E n \in Names, s \in Statuses : StopAfterInsert(n, s)
    BY <1>6, StopAfterInsertKeepsIInv
<1>7. CASE \E n \in Names, s \in Statuses : StopAfterUpdate(n, s)
    <2>1. PICK n \in Names, s \in Statuses : StopAfterUpdate(n, s)
        BY <1>7
    <2>2. IsRecentPart(health_checks', health_checks \cup {NewCheck(n, s)})
        BY <2>1 DEF StopAfterUpdate, IsRecentPart
    <2> QED BY <2>1, <2>2, UpdateKeepsIInv DEF StopAfterUpdate
<1>8. CASE UNCHANGED registryVars
    BY <1>8 DEF registryVars, IInv, TypeOK, IdsFollowTime, UniqueIds,
                ReferentialIntegrity, LatestAgrees, StreakAgrees, StreakCounted,
                Streak, IsLatest, History, HistoryIn, Registered
<1> QED BY <1>1, <1>2, <1>3, <1>4, <1>5, <1>6, <1>7, <1>8 DEF RegistryNext

-------------------------------------------------------------------------------
(* Theorems *)

\* The inductive invariant holds of every behaviour of the tables.
THEOREM Invariance == RegistrySpec => []IInv
    BY InitIInv, NextKeepsIInv, PTL DEF RegistrySpec

\* Every column keeps its type.
THEOREM TypeCorrect == RegistrySpec => []TypeOK
<1>1. IInv => TypeOK
    BY DEF IInv
<1> QED BY <1>1, Invariance, PTL

\* No check and no threshold outlives its server, and a server registered
\* again starts without history.
THEOREM ReferentiallySound == RegistrySpec => []ReferentialIntegrity
<1>1. IInv => ReferentialIntegrity
    BY DEF IInv
<1> QED BY <1>1, Invariance, PTL

\* last_status and last_checked repeat the newest row of the history.
THEOREM LatestSound == RegistrySpec => []LatestAgrees
<1>1. IInv => LatestAgrees
    BY DEF IInv
<1> QED BY <1>1, Invariance, PTL

\* consecutive_failures counts the non-up checks since the last "up".
THEOREM StreakSound == RegistrySpec => []StreakAgrees
<1>1. IInv => StreakAgrees
    BY DEF IInv
<1> QED BY <1>1, Invariance, PTL

\* A step takes from the history of a server that stays registered only
\* expired rows, and none younger than a row it leaves.
LEMMA StepLosesOldestFirst ==
    ASSUME IInv, [RegistryNext]_registryVars,
           NEW n \in Registered \cap Registered',
           NEW r \in History(n) \ health_checks'
    PROVE  /\ r.timestamp < now - Retention
           /\ \A q \in health_checks' : q.server_name = n => Before(r, q)
<1>1. r \in health_checks /\ r \notin health_checks' /\ r.server_name = n
    BY DEF History, HistoryIn
<1>2. CASE \E m \in Names, s \in Statuses : RecordHealthCheck(m, s)
    <2>1. PICK m \in Names, s \in Statuses : RecordHealthCheck(m, s)
        BY <1>2
    <2> DEFINE rows == health_checks \cup {NewCheck(m, s)}
    <2>2. /\ m \in Registered
          /\ health_checks' = Pruned(rows)
        BY <2>1 DEF RecordHealthCheck, Insert
    <2>3. /\ rows \subseteq CheckRow /\ IsFiniteSet(rows) /\ UniqueIds(rows)
          /\ now \in Nat
        BY <2>2, InsertAppends DEF IInv, TypeOK
    <2>4. IsRecentPart(Pruned(rows), rows)
        BY <2>3, PrunedIsRecentPart, RetentionAssumption
    <2>5. r \in Expired(rows)
        BY <1>1, <2>2 DEF Pruned
    <2>6. ASSUME NEW q \in health_checks' PROVE Before(r, q)
        <3>1. q \in rows /\ r \in rows /\ q \in CheckRow /\ r \in CheckRow
            BY <1>1, <2>2, <2>3, <2>4 DEF IsRecentPart
        <3>2. ~ Before(q, r) /\ q.id # r.id
            BY <1>1, <2>2, <2>3, <2>4, <3>1 DEF IsRecentPart, UniqueIds
        <3> QED BY <3>1, <3>2, BeforeOrders
    <2> QED BY <2>5, <2>6 DEF Expired
<1>3. CASE \E m \in Names : UnregisterServer(m)
    <2>1. PICK m \in Names : UnregisterServer(m)
        BY <1>3
    <2>2. n # m
        BY <2>1 DEF UnregisterServer, Registered
    <2> QED BY <1>1, <2>1, <2>2 DEF UnregisterServer, WithoutChecksOf
<1>4. CASE ~ \/ \E m \in Names, s \in Statuses : RecordHealthCheck(m, s)
             \/ \E m \in Names : UnregisterServer(m)
    <2>1. health_checks \subseteq health_checks'
        BY <1>4 DEF RegistryNext, registryVars, Tick, SetAlert, RegisterServer,
                    StopAfterInsert, StopAfterUpdate
    <2> QED BY <1>1, <2>1
<1> QED BY <1>2, <1>3, <1>4

\* Pruning is the only way a registered server loses history, and it loses it
\* oldest first.
THEOREM HistorySound == RegistrySpec => LosesOldestFirst
<1>1. IInv /\ [RegistryNext]_registryVars =>
        [\A n \in Registered \cap Registered' :
            \A r \in History(n) \ health_checks' :
                /\ r.timestamp < now - Retention
                /\ \A q \in health_checks' : q.server_name = n => Before(r, q)
        ]_registryVars
    BY StepLosesOldestFirst
<1> QED BY <1>1, Invariance, PTL DEF RegistrySpec, LosesOldestFirst

\* The DELETE of a completed record finds the expired rows that were there
\* before it: the row it inserts is of this instant.
LEMMA RecordKeepsUp ==
    ASSUME IInv, NEW n \in Names, NEW s \in Statuses, RecordHealthCheck(n, s)
    PROVE  IF Cardinality(Expired(health_checks)) <= PruneLimit
           THEN Expired(health_checks)' = {}
           ELSE Cardinality(Expired(health_checks)') < Cardinality(Expired(health_checks))
<1> DEFINE rows == health_checks \cup {NewCheck(n, s)}
<1>1. n \in Registered /\ now' = now /\ health_checks' = Pruned(rows)
    BY DEF RecordHealthCheck, Insert
<1>2. rows \subseteq CheckRow /\ IsFiniteSet(rows) /\ now \in Nat
    BY <1>1, InsertAppends DEF IInv, TypeOK
<1>3. Expired(rows) = Expired(health_checks)
    <2>1. ~(NewCheck(n, s).timestamp < now - Retention)
        BY <1>2, RetentionAssumption DEF NewCheck, RetentionAssumption
    <2> QED BY <2>1 DEF Expired
<1>4. Expired(health_checks)' = Expired(Pruned(rows))
    BY <1>1 DEF Expired
<1> HIDE DEF rows
<1> QED BY <1>2, <1>3, <1>4, PrunedKeepsUp, RetentionAssumption

\* Retention keeps up: every completed record leaves no expired row, or fewer
\* than it found.
THEOREM RetentionSound == RegistrySpec => PruningKeepsUp
<1>1. IInv /\ [RegistryNext]_registryVars =>
        [\A n \in Names, s \in Statuses :
            RecordHealthCheck(n, s) =>
                IF Cardinality(Expired(health_checks)) <= PruneLimit
                THEN Expired(health_checks)' = {}
                ELSE Cardinality(Expired(health_checks)')
                         < Cardinality(Expired(health_checks))
        ]_registryVars
    BY RecordKeepsUp
<1> QED BY <1>1, Invariance, PTL DEF RegistrySpec, PruningKeepsUp
===============================================================================
