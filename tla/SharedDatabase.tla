---------------------------- MODULE SharedDatabase -----------------------------
(***************************************************************************)
(* Several processes (a stdio server for each client, or one beside the    *)
(* HTTP server) on one database file: each opens it by module Migrations   *)
(* and then runs the functions of module Registry.  SQLite serializes the  *)
(* statements but recordHealthCheck is four of them: it reads the streak,  *)
(* inserts the check, updates the server and prunes, and the statements    *)
(* of two processes interleave.  The history variables of Registry here    *)
(* collect the servers whose records overlapped.                           *)
(***************************************************************************)
EXTENDS Registry, Migrations

VARIABLE records    \* process -> its recordHealthCheck in progress

vars == <<registryVars, migrationVars, records>>

NoRecord == [step |-> "none"]

\* alone is history: since its first statement no other record of the server
\* was in progress and the server was not unregistered.
Record ==
    [step: {"read", "inserted", "updated"}, name: Names, status: Statuses,
     failures: Nat, at: Nat, alone: BOOLEAN]

Busy(p) == records[p].step # "none"

\* Processes whose record of n has statements left that depend on n.
Recording(n) ==
    {p \in Processes : records[p].step \in {"read", "inserted"} /\ records[p].name = n}

Disturbed(n) ==
    [p \in Processes |->
        IF p \in Recording(n) THEN [records[p] EXCEPT !.alone = FALSE] ELSE records[p]]

Failures(n) == IF n \in Registered THEN servers[n].consecutive_failures ELSE 0

\* Bound of the model: a check in progress never lacks an id.
IdsLeft ==
    lastId + Cardinality({p \in Processes : records[p].step = "read"}) < MaxId

\* getServer and Date.now()
StartRecord(p, n, s) ==
    /\ IsOpen(p)
    /\ ~ Busy(p)
    /\ IdsLeft
    /\ records' = [Disturbed(n) EXCEPT
           ![p] = [step |-> "read", name |-> n, status |-> s, failures |-> Failures(n),
                   at |-> now, alone |-> Recording(n) = {}]]
    /\ UNCHANGED <<registryVars, migrationVars>>

\* The foreign key refuses a server that is not registered; the caller catches.
InsertRefused(p) ==
    /\ records[p].step = "read"
    /\ records[p].name \notin Registered
    /\ records' = [records EXCEPT ![p] = NoRecord]
    /\ UNCHANGED <<registryVars, migrationVars>>

InsertCheck(p) ==
    LET r == records[p]
    IN  /\ r.step = "read"
        /\ Insert(r.name, r.status)
        /\ health_checks' = health_checks \cup
               {[id |-> lastId + 1, server_name |-> r.name,
                 timestamp |-> r.at, status |-> r.status]}
        /\ records' = [records EXCEPT ![p].step = "inserted"]
        /\ UNCHANGED <<servers, unsynced, miscounted, migrationVars>>

Written_NoReset(r) ==
    [servers[r.name] EXCEPT
        !.last_checked = r.at,
        !.last_status = r.status,
        !.consecutive_failures = r.failures + (IF r.status = "up" THEN 0 ELSE 1)]

\* The columns as recordHealthCheck computed them from what it read at first
Written(r) ==
    [servers[r.name] EXCEPT
        !.last_checked = r.at,
        !.last_status = r.status,
        !.consecutive_failures = IF r.status = "up" THEN 0 ELSE r.failures + 1]

\* The UPDATE changes nothing if the server is gone.  A record that ran alone
\* repairs the columns; one that did not may have spoilt them.
UpdateServer(p) ==
    LET r == records[p]
    IN  /\ r.step = "inserted"
        /\ servers' = [n \in Registered |-> IF n = r.name THEN Written(r) ELSE servers[n]]
        /\ unsynced' = IF r.alone THEN unsynced \ {r.name}
                       ELSE unsynced \cup ({r.name} \cap Registered)
        /\ miscounted' = IF ~ r.alone THEN miscounted \cup ({r.name} \cap Registered)
                         ELSE IF r.status = "up" THEN miscounted \ {r.name}
                         ELSE miscounted
        /\ records' = [records EXCEPT ![p].step = "updated"]
        /\ UNCHANGED <<health_checks, alerts, lastId, now, migrationVars>>

ExpiredAt(at) == {r \in health_checks : r.timestamp < at - Retention}

\* pruneHealthChecks(now), with the now that recordHealthCheck read first
PrunedAt(at) ==
    health_checks \ {r \in ExpiredAt(at) :
        Cardinality({q \in ExpiredAt(at) : Before(q, r)}) < PruneLimit}

PruneChecks(p) ==
    /\ records[p].step = "updated"
    /\ health_checks' = PrunedAt(records[p].at)
    /\ records' = [records EXCEPT ![p] = NoRecord]
    /\ UNCHANGED <<servers, alerts, lastId, now, unsynced, miscounted, migrationVars>>

\* A process registers or unregisters a server between two statements of others.
RegistryStep(p, n) ==
    /\ IsOpen(p)
    /\ ~ Busy(p)
    /\ \/ \E c \in Configs : RegisterServer(n, c) /\ UNCHANGED records
       \/ UnregisterServer(n) /\ records' = Disturbed(n)
    /\ UNCHANGED migrationVars

\* A process dies between two statements.
Die(p) ==
    LET spoilt == IF records[p].step = "inserted"
                  THEN {records[p].name} \cap Registered ELSE {}
    IN  /\ ProcessDies(p)
        /\ records' = [records EXCEPT ![p] = NoRecord]
        /\ unsynced' = unsynced \cup spoilt
        /\ miscounted' = miscounted \cup spoilt
        /\ UNCHANGED <<servers, health_checks, alerts, lastId, now>>

OpenStep(p) == GetDb(p) /\ UNCHANGED <<registryVars, records>>

Init ==
    /\ RegistryInit
    /\ MigrationsInit
    /\ records = [p \in Processes |-> NoRecord]

Next ==
    \/ Tick /\ UNCHANGED <<migrationVars, records>>
    \/ \E p \in Processes :
        \/ OpenStep(p)
        \/ Die(p)
        \/ InsertRefused(p)
        \/ InsertCheck(p)
        \/ UpdateServer(p)
        \/ PruneChecks(p)
        \/ \E n \in Names :
            \/ RegistryStep(p, n)
            \/ \E s \in Statuses : StartRecord(p, n, s)

\* Tools are called again and again, so a database that is not open is opened.
Spec == Init /\ [][Next]_vars /\ \A p \in Processes : WF_vars(OpenStep(p))

-------------------------------------------------------------------------------
(* Properties *)

\* Types of both halves.
SharedTypeOK ==
    /\ TypeOK
    /\ MigrationsTypeOK
    /\ records \in [Processes -> Record \cup {NoRecord}]
    /\ \A p \in Processes : Busy(p) => IsOpen(p)

\* No record of n stands between its INSERT and its UPDATE.
Quiet(n) == \A p \in Recording(n) : records[p].step # "inserted"

\* The cached columns and the streak agree with the history for every server
\* whose records did not overlap, in spite of the stale count each record
\* carries: what an overlap, an unregistration in the middle or a death between
\* two statements spoils is repaired by the next record that runs alone (the
\* streak: by the next "up" one).
AgreeUnlessRaced ==
    \A n \in Registered :
        Quiet(n) =>
            /\ n \notin unsynced =>
                  \A r \in History(n) : IsLatest(r, History(n)) =>
                      /\ servers[n].last_status = r.status
                      /\ servers[n].last_checked = r.timestamp
            /\ n \notin miscounted =>
                  StreakCounted(servers[n].consecutive_failures, History(n))
===============================================================================
