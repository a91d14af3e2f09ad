------------------------------- MODULE Registry -------------------------------
(***************************************************************************)
(* The SQLite tables behind the monitor (src/src/registry.ts,              *)
(* src/src/alerts.ts, schema in src/src/migrations.ts): servers,           *)
(* health_checks and alerts, and the functions that write them.  Every     *)
(* function is synchronous JavaScript, so it is one step here; but         *)
(* recordHealthCheck issues three autocommit statements, and a crash or a  *)
(* failing statement commits a prefix of them, which the Stop... actions   *)
(* model.  A table is a function from its primary key to the row; SQL NULL *)
(* in an INTEGER time column is 0 (Date.now() is never 0).                 *)
(***************************************************************************)
EXTENDS Integers, FiniteSets

CONSTANTS
    Names,          \* server names
    Configs,        \* values of the columns register_server replaces
    AlertConfigs,   \* threshold rows set_alert stores
    Statuses,       \* statuses a check can return
    Retention,      \* getRetentionDays(), in ticks of the clock
    PruneLimit,     \* rows one pruning deletes at most (1000)
    MaxClock,       \* bound of the model on the clock
    MaxId           \* bound of the model on health_checks ids

ASSUME StatusAssumption == "up" \in Statuses /\ "unknown" \notin Statuses
ASSUME RetentionAssumption == Retention \in Nat /\ PruneLimit \in Nat \ {0}
ASSUME BoundAssumption == MaxClock \in Nat /\ MaxId \in Nat

VARIABLES
    servers,        \* name -> row, on the registered names
    health_checks,  \* set of rows
    alerts,         \* name -> thresholds, on the names that have some
    lastId,         \* AUTOINCREMENT counter of health_checks
    now,            \* Date.now()
    unsynced,       \* history: servers whose row misses their newest check
    miscounted      \* history: servers whose streak missed a check since the
                    \* last "up" their row has seen

registryVars ==
    <<servers, health_checks, alerts, lastId, now, unsynced, miscounted>>

-------------------------------------------------------------------------------
(* Rows and queries *)

ServerRow ==
    [config: Configs, created_at: Nat, last_checked: Nat,
     last_status: Statuses \cup {"unknown"}, consecutive_failures: Nat]

CheckRow == [id: Nat, server_name: Names, timestamp: Nat, status: Statuses]

Registered == DOMAIN servers

NewServer(c) ==
    [config |-> c, created_at |-> now, last_checked |-> 0,
     last_status |-> "unknown", consecutive_failures |-> 0]

HistoryIn(rows, n) == {r \in rows : r.server_name = n}

History(n) == HistoryIn(health_checks, n)

\* ORDER BY timestamp ASC, id ASC
Before(r, q) ==
    \/ r.timestamp < q.timestamp
    \/ r.timestamp = q.timestamp /\ r.id < q.id

\* getLatestHealthCheck, on the history h of a server
IsLatest(r, h) == r \in h /\ \A q \in h : q = r \/ Before(q, r)

-------------------------------------------------------------------------------
(* registerServer, unregisterServer, setAlertConfig *)

Upsert_ResetsRow(n, c) == NewServer(c)

Upsert(n, c) ==
    IF n \in Registered THEN [servers[n] EXCEPT !.config = c]
                        ELSE NewServer(c)

RegisterServer(n, c) ==
    /\ servers' = [m \in Registered \cup {n} |->
                       IF m = n THEN Upsert(n, c) ELSE servers[m]]
    /\ UNCHANGED <<health_checks, alerts, lastId, now, unsynced, miscounted>>

WithoutChecksOf_NoCascade(rows, n) == rows

\* ON DELETE CASCADE of health_checks
WithoutChecksOf(rows, n) == {r \in rows : r.server_name # n}

UnregisterServer(n) ==
    /\ servers' = [m \in Registered \ {n} |-> servers[m]]
    /\ health_checks' = WithoutChecksOf(health_checks, n)
    /\ alerts' = [m \in DOMAIN alerts \ {n} |-> alerts[m]]
    /\ unsynced' = unsynced \ {n}
    /\ miscounted' = miscounted \ {n}
    /\ UNCHANGED <<lastId, now>>

SetAlert(n, a) ==
    /\ n \in Registered
    /\ alerts' = [m \in DOMAIN alerts \cup {n} |->
                      IF m = n THEN a ELSE alerts[m]]
    /\ UNCHANGED <<servers, health_checks, lastId, now, unsynced, miscounted>>

-------------------------------------------------------------------------------
(* recordHealthCheck and pruneHealthChecks *)

NewCheck(n, s) ==
    [id |-> lastId + 1, server_name |-> n, timestamp |-> now, status |-> s]

NextFailures_NoReset(n, s) ==
    servers[n].consecutive_failures + (IF s = "up" THEN 0 ELSE 1)

NextFailures(n, s) ==
    IF s = "up" THEN 0 ELSE servers[n].consecutive_failures + 1

\* The columns the UPDATE statement sets.
Recorded(n, s) ==
    [servers[n] EXCEPT !.last_checked = now, !.last_status = s,
                       !.consecutive_failures = NextFailures(n, s)]

Expired_Inclusive(rows) == {r \in rows : r.timestamp <= now - Retention}

Expired(rows) == {r \in rows : r.timestamp < now - Retention}

Pruned_NewestFirst(rows) ==
    rows \ {r \in Expired(rows) :
               Cardinality({q \in Expired(rows) : Before(r, q)}) < PruneLimit}

Pruned_OneShort(rows) ==
    rows \ {r \in Expired(rows) :
               Cardinality({q \in Expired(rows) : Before(q, r)}) < PruneLimit - 1}

\* The oldest PruneLimit expired rows go.
Pruned(rows) ==
    rows \ {r \in Expired(rows) :
               Cardinality({q \in Expired(rows) : Before(q, r)}) < PruneLimit}

\* The INSERT: the foreign key refuses a name that is not registered.
Insert(n, s) ==
    /\ n \in Registered
    /\ lastId < MaxId
    /\ lastId' = lastId + 1
    /\ UNCHANGED <<alerts, now>>

Update(n, s) ==
    /\ servers' = [servers EXCEPT ![n] = Recorded(n, s)]
    /\ unsynced' = unsynced \ {n}
    /\ miscounted' = IF s = "up" THEN miscounted \ {n} ELSE miscounted

RecordHealthCheck(n, s) ==
    /\ Insert(n, s)
    /\ Update(n, s)
    /\ health_checks' = Pruned(health_checks \cup {NewCheck(n, s)})

\* The process dies, or the UPDATE fails, once the INSERT has committed.
StopAfterInsert(n, s) ==
    /\ Insert(n, s)
    /\ health_checks' = health_checks \cup {NewCheck(n, s)}
    /\ unsynced' = unsynced \cup {n}
    /\ miscounted' = miscounted \cup {n}
    /\ UNCHANGED servers

\* The process dies, or the DELETE fails, once the UPDATE has committed.
StopAfterUpdate(n, s) ==
    /\ Insert(n, s)
    /\ Update(n, s)
    /\ health_checks' = health_checks \cup {NewCheck(n, s)}

\* Time passes between two writes; it never runs backwards in the model.
Tick ==
    /\ now < MaxClock
    /\ now' = now + 1
    /\ UNCHANGED <<servers, health_checks, alerts, lastId, unsynced, miscounted>>

-------------------------------------------------------------------------------
(* Specification *)

EmptyTable == [n \in {} |-> n]

RegistryInit ==
    /\ servers = EmptyTable
    /\ alerts = EmptyTable
    /\ health_checks = {}
    /\ lastId = 0
    /\ now = 1
    /\ unsynced = {}
    /\ miscounted = {}

RegistryNext ==
    \/ Tick
    \/ \E n \in Names :
        \/ \E c \in Configs : RegisterServer(n, c)
        \/ UnregisterServer(n)
        \/ \E a \in AlertConfigs : SetAlert(n, a)
        \/ \E s \in Statuses :
            \/ RecordHealthCheck(n, s)
            \/ StopAfterInsert(n, s)
            \/ StopAfterUpdate(n, s)

RegistrySpec == RegistryInit /\ [][RegistryNext]_registryVars

-------------------------------------------------------------------------------
(* Properties *)

\* Every column has its type; alerts and history variables name servers.
TypeOK ==
    /\ Registered \subseteq Names
    /\ servers \in [Registered -> ServerRow]
    /\ health_checks \subseteq CheckRow
    /\ DOMAIN alerts \subseteq Names
    /\ alerts \in [DOMAIN alerts -> AlertConfigs]
    /\ lastId \in Nat
    /\ now \in Nat \ {0}
    /\ unsynced \subseteq Registered
    /\ miscounted \subseteq Registered

\* The foreign keys: no check and no threshold outlives its server, whatever
\* the order of checks, unregistrations and registrations of the same name;
\* in particular a server registered again starts with no history.
ReferentialIntegrity ==
    /\ DOMAIN alerts \subseteq Registered
    /\ \A r \in health_checks :
        /\ r.server_name \in Registered
        /\ servers[r.server_name].created_at <= r.timestamp

\* The columns last_status and last_checked, which list_servers and
\* get_dashboard report and the scheduler reads, repeat the newest row of the
\* server's history: after concurrent checks, pruning and registering again,
\* unless the last record of the server stopped before its UPDATE.
LatestAgrees ==
    \A n \in Registered \ unsynced : \A r \in History(n) :
        IsLatest(r, History(n)) =>
            /\ servers[n].last_status = r.status
            /\ servers[n].last_checked = r.timestamp

\* The checks of a history that are not "up" and that no "up" check follows.
Streak(h) ==
    {r \in h : /\ r.status # "up"
               /\ \A q \in h : Before(r, q) => q.status # "up"}

StreakCounted(failures, h) ==
    /\ Cardinality(Streak(h)) <= failures
    /\ (\E r \in h : r.status = "up") => failures = Cardinality(Streak(h))

\* consecutive_failures counts the non-up checks since the last "up" one.  It
\* is exact while the history still holds an "up" check and never below what
\* the history shows otherwise (older failures may be pruned).  A record that
\* stopped before its UPDATE breaks the count only until the next "up".
StreakAgrees ==
    \A n \in Registered \ miscounted :
        StreakCounted(servers[n].consecutive_failures, History(n))

\* A server that stays registered loses rows of its history only to pruning:
\* each lost row is past the retention time and older than all rows that stay,
\* so what is left is always a recent, gapless part of the history.
LosesOldestFirst ==
    [][\A n \in Registered \cap Registered' :
          \A r \in History(n) \ health_checks' :
              /\ r.timestamp < now - Retention
              /\ \A q \in health_checks' : q.server_name = n => Before(r, q)
      ]_registryVars

\* Retention keeps up: a completed record (the only step that changes a row's
\* last_checked and also prunes) that finds at most PruneLimit expired rows,
\* of whatever servers, leaves none; and it never leaves more than it found.
PruningKeepsUp ==
    [][\A n \in Names, s \in Statuses :
          RecordHealthCheck(n, s) =>
              IF Cardinality(Expired(health_checks)) <= PruneLimit
              THEN Expired(health_checks)' = {}
              ELSE Cardinality(Expired(health_checks)')
                       < Cardinality(Expired(health_checks))
      ]_registryVars
===============================================================================
