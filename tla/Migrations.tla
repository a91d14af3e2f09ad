------------------------------ MODULE Migrations -------------------------------
(***************************************************************************)
(* Opening the database file (src/src/db.ts, src/src/migrations.ts) by     *)
(* several processes at once.  A process reads which versions are applied  *)
(* and then applies the missing ones, each in a transaction with its row   *)
(* of schema_migrations; others may have applied them meanwhile, and then  *)
(* the primary key refuses the row, the transaction rolls back and getDb   *)
(* throws.  The next tool call tries again.                                *)
(***************************************************************************)
EXTENDS Integers, FiniteSets

CONSTANTS
    Processes,
    RunIds,         \* ids of the rows of pipeline_runs a file may hold at first
    BuildKeys,      \* values of (group_name, pipeline_name, build_id)
    MaxFaults       \* bound of the model on failing transactions and crashes

ASSUME RunIdAssumption == RunIds \subseteq Nat /\ IsFiniteSet(RunIds)
ASSUME FaultBoundAssumption == MaxFaults \in Nat

VARIABLES
    versions,       \* rows of schema_migrations
    schema,         \* migrations whose changes the file has
    runs,           \* pipeline_runs: id -> build key
    found,          \* history: pipeline_runs before the first process opened it
    opening,        \* process -> [step, missing]; step "open": cachedDb is set
    faults          \* failures that may still happen

migrationVars == <<versions, schema, runs, found, opening, faults>>

\* initial schema; response time analytics; dedupe pipeline runs
Versions == 1 .. 3

Closed == [step |-> "closed", missing |-> {}]

NewestIds_Oldest(rs) ==
    {i \in DOMAIN rs : \A j \in DOMAIN rs : rs[j] = rs[i] => i <= j}

\* SELECT MAX(id) ... GROUP BY group_name, pipeline_name, build_id
NewestIds(rs) ==
    {i \in DOMAIN rs : \A j \in DOMAIN rs : rs[j] = rs[i] => j <= i}

\* migration 3: DELETE ... WHERE id NOT IN (...)
Deduped(rs) == [i \in NewestIds(rs) |-> rs[i]]

\* No file yet, a file older than schema_migrations, or one that a former
\* release migrated up to some version.
MigrationsInit ==
    /\ versions \in {1 .. v : v \in 0 .. 3}
    /\ schema \in {versions, versions \cup {1}}
    /\ \E ids \in SUBSET RunIds : runs \in [ids -> BuildKeys]
    /\ 1 \notin schema => DOMAIN runs = {}
    /\ 3 \in schema => NewestIds(runs) = DOMAIN runs
    /\ found = runs
    /\ opening = [p \in Processes |-> Closed]
    /\ faults = MaxFaults

\* getDb without a cached connection; runMigrations reads the versions.
OpenDb(p) ==
    /\ opening[p].step = "closed"
    /\ opening' = [opening EXCEPT
           ![p] = [step |-> "applying", missing |-> Versions \ versions]]
    /\ UNCHANGED <<versions, schema, runs, found, faults>>

Applying(p, v) ==
    /\ opening[p].step = "applying"
    /\ v \in opening[p].missing
    /\ \A w \in opening[p].missing : v <= w

\* apply(): up(db) and its row, in one transaction
Apply(p, v) ==
    /\ Applying(p, v)
    /\ v \notin versions
    /\ versions' = versions \cup {v}
    /\ schema' = schema \cup {v}
    /\ runs' = IF v = 3 THEN Deduped(runs) ELSE runs
    /\ opening' = [opening EXCEPT ![p].missing = @ \ {v}]
    /\ UNCHANGED <<found, faults>>

ApplyConflicts_Retries(p, v) ==
    Applying(p, v) /\ v \in versions /\ UNCHANGED migrationVars

\* Another process was faster: the row is refused, up(db) rolled back.
ApplyConflicts(p, v) ==
    /\ Applying(p, v)
    /\ v \in versions
    /\ opening' = [opening EXCEPT ![p] = Closed]
    /\ UNCHANGED <<versions, schema, runs, found, faults>>

\* A statement fails, or the database is busy too long: rolled back, thrown.
ApplyFails(p, v) ==
    /\ Applying(p, v)
    /\ faults > 0
    /\ faults' = faults - 1
    /\ opening' = [opening EXCEPT ![p] = Closed]
    /\ UNCHANGED <<versions, schema, runs, found>>

Opened(p) ==
    /\ opening[p].step = "applying"
    /\ opening[p].missing = {}
    /\ opening' = [opening EXCEPT ![p].step = "open"]
    /\ UNCHANGED <<versions, schema, runs, found, faults>>

IsOpen(p) == opening[p].step = "open"

\* The process ends, anywhere outside a transaction, and starts again.
ProcessDies(p) ==
    /\ opening[p].step # "closed"
    /\ faults > 0
    /\ faults' = faults - 1
    /\ opening' = [opening EXCEPT ![p] = Closed]
    /\ UNCHANGED <<versions, schema, runs, found>>

GetDb(p) ==
    \/ OpenDb(p)
    \/ \E v \in Versions : Apply(p, v) \/ ApplyConflicts(p, v) \/ ApplyFails(p, v)
    \/ Opened(p)

-------------------------------------------------------------------------------
(* Properties *)

\* Types; and a version is marked as applied only if its changes are there.
MigrationsTypeOK ==
    /\ versions \subseteq schema
    /\ schema \subseteq Versions
    /\ DOMAIN runs \subseteq DOMAIN found
    /\ \A p \in Processes :
        /\ opening[p].step \in {"closed", "applying", "open"}
        /\ opening[p].missing \subseteq Versions
    /\ faults \in Nat

\* README.md: "applies schema migrations automatically on startup".  A process
\* that has the database open works on the full schema, whichever processes
\* opened it at the same time and whatever failed; the rows of pipeline_runs
\* that the unique index forbids are gone and of each build the newest is left.
OpenMeansMigrated ==
    \A p \in Processes :
        IsOpen(p) => /\ versions = Versions
                     /\ schema = Versions
                     /\ \A i \in DOMAIN found :
                           i \in DOMAIN runs <=>
                               ~ \E j \in DOMAIN found : j > i /\ found[j] = found[i]

\* A process that loses the race for a version gets the database all the same:
\* its next attempts find fewer versions missing.
OpensEventually == \A p \in Processes : ~ IsOpen(p) ~> IsOpen(p)
===============================================================================
