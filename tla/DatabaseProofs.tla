---------------------------- MODULE DatabaseProofs ----------------------------
(***************************************************************************)
(* Proofs about modules Migrations and SharedDatabase, for any number of   *)
(* processes, any file and any number of failures: a process that has the  *)
(* database open works on the full schema, and records that overlap spoil  *)
(* the columns of their server only until one runs alone.                  *)
(***************************************************************************)
EXTENDS SharedDatabase, RegistryProofs

\* The variables of Migrations keep their types, the rows of pipeline_runs
\* among them.
FilesTypeOK ==
    /\ MigrationsTypeOK
    /\ DOMAIN found \subseteq RunIds
    /\ DOMAIN opening = Processes
    /\ \A p \in Processes : opening[p] \in [step: {"closed", "applying", "open"},
                                            missing: SUBSET Versions]

\* Whoever is opening knows of every version that is not applied: others only
\* apply more.
MissingKnown ==
    \A p \in Processes :
        /\ opening[p].step = "applying" => Versions \ versions \subseteq opening[p].missing
        /\ opening[p].step = "open" => versions = Versions

\* The third migration removes the duplicates, once, and its version says so.
DedupedOnce ==
    /\ 3 \in schema => 3 \in versions
    /\ 3 \notin schema => runs = found
    /\ 3 \in schema => DOMAIN runs = NewestIds(found)

FileInv == FilesTypeOK /\ MissingKnown /\ DedupedOnce

-------------------------------------------------------------------------------
LEMMA InitFileInv == MigrationsInit => FileInv
<1> SUFFICES ASSUME MigrationsInit PROVE FileInv
    OBVIOUS
<1>1. versions \subseteq Versions /\ schema \subseteq Versions /\ versions \subseteq schema
      /\ (3 \in schema => 3 \in versions)
    <2>1. PICK v \in 0 .. 3 : versions = 1 .. v
        BY DEF MigrationsInit
    <2>2. versions \subseteq Versions /\ 1 \in Versions
        BY <2>1 DEF Versions
    <2> QED BY <2>2 DEF MigrationsInit
<1>2. DOMAIN runs \subseteq RunIds /\ found = runs
    BY DEF MigrationsInit
<1>3. FilesTypeOK
    <2>1. faults \in Nat
        BY FaultBoundAssumption DEF MigrationsInit
    <2>2. opening = [p \in Processes |-> Closed]
        BY DEF MigrationsInit
    <2>3. Closed \in [step: {"closed", "applying", "open"}, missing: SUBSET Versions]
          /\ Closed.step = "closed" /\ Closed.missing \subseteq Versions
        BY DEF Closed
    <2> QED BY <1>1, <1>2, <2>1, <2>2, <2>3 DEF FilesTypeOK, MigrationsTypeOK
<1>4. MissingKnown
    BY DEF MigrationsInit, MissingKnown, Closed
<1>5. DedupedOnce
    BY <1>1, <1>2 DEF MigrationsInit, DedupedOnce
<1> QED BY <1>3, <1>4, <1>5 DEF FileInv

\* The rows of schema_migrations only grow, and the step of one process ends.
LEMMA StepKeepsFileInv ==
    ASSUME FileInv, NEW p \in Processes,
           NEW o \in [step: {"closed", "applying", "open"}, missing: SUBSET Versions],
           opening' = [opening EXCEPT ![p] = o],
           o.step = "applying" => Versions \ versions \subseteq o.missing,
           o.step = "open" => versions = Versions,
           UNCHANGED <<versions, schema, runs, found>>, faults' \in Nat
    PROVE  FileInv'
<1>1. opening'[p] = o /\ DOMAIN opening' = Processes
      /\ \A q \in Processes \ {p} : opening'[q] = opening[q]
    BY DEF FileInv, FilesTypeOK
<1>2. FilesTypeOK'
    BY <1>1 DEF FileInv, FilesTypeOK, MigrationsTypeOK
<1>3. MissingKnown'
    BY <1>1 DEF FileInv, MissingKnown
<1>4. DedupedOnce'
    BY DEF FileInv, DedupedOnce, NewestIds
<1> QED BY <1>2, <1>3, <1>4 DEF FileInv

LEMMA ApplyKeepsFileInv ==
    ASSUME FileInv, NEW p \in Processes, NEW v \in Versions, Apply(p, v)
    PROVE  FileInv'
<1> DEFINE o == [opening[p] EXCEPT !.missing = opening[p].missing \ {v}]
<1>1. /\ opening[p].step = "applying" /\ v \notin versions
      /\ versions' = versions \cup {v} /\ schema' = schema \cup {v}
      /\ runs' = IF v = 3 THEN Deduped(runs) ELSE runs
      /\ opening' = [opening EXCEPT ![p] = o]
      /\ found' = found /\ faults' = faults
    BY DEF Apply, Applying
<1>2. opening[p] \in [step: {"closed", "applying", "open"}, missing: SUBSET Versions]
      /\ DOMAIN opening = Processes
    BY DEF FileInv, FilesTypeOK
<1>3. o \in [step: {"closed", "applying", "open"}, missing: SUBSET Versions]
      /\ o.step = "applying" /\ o.missing = opening[p].missing \ {v}
    BY <1>1, <1>2
<1> HIDE DEF o
<1>4. opening'[p] = o /\ DOMAIN opening' = Processes
      /\ \A q \in Processes \ {p} : opening'[q] = opening[q]
    BY <1>1, <1>2
<1>5. DOMAIN runs' \subseteq DOMAIN runs
    BY <1>1 DEF Deduped, NewestIds
<1>6. FilesTypeOK'
    <2>1. \A q \in Processes :
              opening'[q] \in [step: {"closed", "applying", "open"}, missing: SUBSET Versions]
        BY <1>3, <1>4 DEF FileInv, FilesTypeOK
    <2>2. versions' \subseteq schema' /\ schema' \subseteq Versions /\ faults' \in Nat
          /\ DOMAIN runs' \subseteq DOMAIN found' /\ DOMAIN found' \subseteq RunIds
        BY <1>1, <1>5 DEF FileInv, FilesTypeOK, MigrationsTypeOK
    <2> QED BY <1>4, <2>1, <2>2 DEF FilesTypeOK, MigrationsTypeOK
<1>7. MissingKnown'
    <2>1. ASSUME NEW q \in Processes
          PROVE  /\ opening'[q].step = "applying" =>
                        Versions \ versions' \subseteq opening'[q].missing
                 /\ opening'[q].step = "open" => versions' = Versions
        <3>1. CASE q = p
            BY <1>1, <1>3, <1>4, <3>1 DEF FileInv, MissingKnown
        <3>2. CASE q # p
            BY <1>1, <1>4, <3>2 DEF FileInv, MissingKnown
        <3> QED BY <3>1, <3>2
    <2> QED BY <2>1 DEF MissingKnown
<1>8. DedupedOnce'
    <2>1. CASE v = 3
        <3>1. runs = found
            BY <1>1, <2>1 DEF FileInv, DedupedOnce
        <3>2. DOMAIN runs' = NewestIds(found)
            BY <1>1, <2>1, <3>1 DEF Deduped
        <3>3. NewestIds(found)' = NewestIds(found)
            BY <1>1 DEF NewestIds
        <3> QED BY <1>1, <2>1, <3>2, <3>3 DEF DedupedOnce
    <2>2. CASE v # 3
        <3>1. NewestIds(found)' = NewestIds(found)
            BY <1>1 DEF NewestIds
        <3> QED BY <1>1, <2>2, <3>1 DEF FileInv, DedupedOnce
    <2> QED BY <2>1, <2>2
<1> QED BY <1>6, <1>7, <1>8 DEF FileInv

LEMMA GetDbKeepsFileInv ==
    ASSUME FileInv, NEW p \in Processes, GetDb(p) \/ ProcessDies(p)
    PROVE  FileInv'
<1>0. Closed \in [step: {"closed", "applying", "open"}, missing: SUBSET Versions]
      /\ Closed.step = "closed"
    BY DEF Closed
<1>1. faults \in Nat /\ versions \subseteq Versions
      /\ opening[p] \in [step: {"closed", "applying", "open"}, missing: SUBSET Versions]
    BY DEF FileInv, FilesTypeOK, MigrationsTypeOK
<1>2. CASE OpenDb(p)
    <2> DEFINE o == [step |-> "applying", missing |-> Versions \ versions]
    <2>1. o \in [step: {"closed", "applying", "open"}, missing: SUBSET Versions]
          /\ o.step = "applying" /\ o.missing = Versions \ versions
        OBVIOUS
    <2>2. opening' = [opening EXCEPT ![p] = o] /\ UNCHANGED <<versions, schema, runs, found>>
          /\ faults' \in Nat
        BY <1>1, <1>2 DEF OpenDb
    <2> HIDE DEF o
    <2> QED BY <2>1, <2>2, StepKeepsFileInv
<1>3. ASSUME NEW v \in Versions, Apply(p, v) PROVE FileInv'
    BY <1>3, ApplyKeepsFileInv
<1>4. ASSUME NEW v \in Versions, ApplyConflicts(p, v) PROVE FileInv'
    BY <1>0, <1>1, <1>4, StepKeepsFileInv DEF ApplyConflicts
<1>5. ASSUME NEW v \in Versions, ApplyFails(p, v) PROVE FileInv'
    <2>1. faults' \in Nat
        BY <1>1, <1>5 DEF ApplyFails
    <2> QED BY <1>0, <1>5, <2>1, StepKeepsFileInv DEF ApplyFails
<1>6. CASE Opened(p)
    <2> DEFINE o == [opening[p] EXCEPT !.step = "open"]
    <2>1. o \in [step: {"closed", "applying", "open"}, missing: SUBSET Versions]
          /\ o.step = "open"
        BY <1>1
    <2>2. versions = Versions
        BY <1>1, <1>6 DEF FileInv, MissingKnown, Opened
    <2>3. opening' = [opening EXCEPT ![p] = o] /\ UNCHANGED <<versions, schema, runs, found>>
          /\ faults' \in Nat
        BY <1>1, <1>6 DEF Opened
    <2> HIDE DEF o
    <2> QED BY <2>1, <2>2, <2>3, StepKeepsFileInv
<1>7. CASE ProcessDies(p)
    <2>1. faults' \in Nat
        BY <1>1, <1>7 DEF ProcessDies
    <2> QED BY <1>0, <1>7, <2>1, StepKeepsFileInv DEF ProcessDies
<1> QED BY <1>2, <1>3, <1>4, <1>5, <1>6, <1>7 DEF GetDb

\* Once a database is open, its records leave the file's schema alone.
LEMMA NextFileInv == FileInv /\ [Next]_vars => FileInv'
<1> SUFFICES ASSUME FileInv, [Next]_vars PROVE FileInv'
    OBVIOUS
<1>1. CASE UNCHANGED migrationVars
    BY <1>1 DEF FileInv, FilesTypeOK, MigrationsTypeOK, MissingKnown, DedupedOnce,
                NewestIds, migrationVars
<1>2. ASSUME NEW p \in Processes, OpenStep(p) \/ Die(p) PROVE FileInv'
    BY <1>2, GetDbKeepsFileInv DEF OpenStep, Die
<1>3. ASSUME NEW p \in Processes,
             \/ InsertRefused(p) \/ InsertCheck(p) \/ UpdateServer(p) \/ PruneChecks(p)
             \/ \E n \in Names :
                    \/ RegistryStep(p, n)
                    \/ \E s \in Statuses : StartRecord(p, n, s)
      PROVE  UNCHANGED migrationVars
    BY <1>3 DEF InsertRefused, InsertCheck, UpdateServer, PruneChecks, RegistryStep, StartRecord
<1> QED BY <1>1, <1>2, <1>3 DEF Next, vars

-------------------------------------------------------------------------------
(* Theorems about the file *)

\* The inductive invariant of the file holds whatever the processes do.
THEOREM FileInvariance == Spec => []FileInv
<1>1. Init => FileInv
    BY InitFileInv DEF Init
<1> QED BY <1>1, NextFileInv, PTL DEF Spec

\* getDb returns a fully migrated database, however many processes race.
THEOREM Migrated == Spec => []OpenMeansMigrated
<1>1. FileInv => OpenMeansMigrated
    <2> SUFFICES ASSUME FileInv, NEW p \in Processes, IsOpen(p)
                 PROVE  /\ versions = Versions
                        /\ schema = Versions
                        /\ \A i \in DOMAIN found :
                              i \in DOMAIN runs <=>
                                  ~ \E j \in DOMAIN found : j > i /\ found[j] = found[i]
        BY DEF OpenMeansMigrated
    <2>1. versions = Versions
        BY DEF FileInv, FilesTypeOK, MissingKnown, IsOpen
    <2>2. schema = Versions
        BY <2>1 DEF FileInv, FilesTypeOK, MigrationsTypeOK
    <2>3. DOMAIN runs = NewestIds(found)
        BY <2>2 DEF FileInv, DedupedOnce, Versions
    <2>4. \A i \in DOMAIN found : i \in Nat
        BY RunIdAssumption DEF FileInv, FilesTypeOK
    <2>5. \A i, j \in DOMAIN found : j <= i <=> ~(j > i)
        BY <2>4
    <2>6. \A i \in DOMAIN found :
              i \in NewestIds(found) <=>
                  ~ \E j \in DOMAIN found : j > i /\ found[j] = found[i]
        BY <2>5 DEF NewestIds
    <2> QED BY <2>1, <2>2, <2>3, <2>6
<1> QED BY <1>1, FileInvariance, PTL

-------------------------------------------------------------------------------
(* The tables under overlapping records *)

\* The columns repeat the newest row of a history.
LatestIs(h, status, time) ==
    \A r \in h : IsLatest(r, h) => status = r.status /\ time = r.timestamp

\* Records that overlap insert their rows in any order of their times, so ids
\* and times do not grow together as in RegistryProofs.
TablesHold ==
    /\ TypeOK
    /\ IsFiniteSet(health_checks)
    /\ UniqueIds(health_checks)
    /\ \A r \in health_checks :
        /\ r.server_name \in Registered
        /\ r.id <= lastId
        /\ r.timestamp <= now

RecordsHold ==
    /\ records \in [Processes -> Record \cup {NoRecord}]
    /\ \A p \in Processes : Busy(p) => records[p].at <= now

Ongoing(p) == records[p].step \in {"read", "inserted"}

\* What the UPDATE of record r is going to write agrees with history h.
WillAgree(r, h) ==
    /\ LatestIs(h, r.status, r.at)
    /\ r.name \notin miscounted \/ r.status = "up" =>
           StreakCounted(IF r.status = "up" THEN 0 ELSE r.failures + 1, h)

\* A record that is alone read the streak its server still has, and no row of
\* its server is newer than its clock.
AloneHolds(p) ==
    /\ Recording(records[p].name) = {p}
    /\ \A x \in History(records[p].name) : x.timestamp <= records[p].at
    /\ records[p].failures = Failures(records[p].name)
    /\ records[p].step = "inserted" =>
           /\ records[p].name \in Registered
           /\ WillAgree(records[p], History(records[p].name))

AloneOnes == \A p \in Processes : Ongoing(p) /\ records[p].alone => AloneHolds(p)

RowAgrees(n) ==
    /\ n \notin unsynced =>
           LatestIs(History(n), servers[n].last_status, servers[n].last_checked)
    /\ n \notin miscounted =>
           StreakCounted(servers[n].consecutive_failures, History(n))

QuietOnes == \A n \in Registered : Quiet(n) => RowAgrees(n)

SharedInv == TablesHold /\ RecordsHold /\ AloneOnes /\ QuietOnes

LEMMA LatestIsOfRecentPart ==
    ASSUME NEW h, h \subseteq CheckRow, UniqueIds(h), NEW h2, IsRecentPart(h2, h),
           NEW status, NEW time, LatestIs(h, status, time)
    PROVE  LatestIs(h2, status, time)
<1> SUFFICES ASSUME NEW r \in h2, IsLatest(r, h2)
             PROVE  status = r.status /\ time = r.timestamp
    BY DEF LatestIs
<1>1. IsLatest(r, h) /\ r \in h
    BY LatestOfRecentPart DEF IsRecentPart
<1> QED BY <1>1 DEF LatestIs

LEMMA SameIsRecentPart == \A h : IsRecentPart(h, h)
BY DEF IsRecentPart

LEMMA HistoryForm ==
    ASSUME TablesHold, NEW n
    PROVE  /\ History(n) \subseteq health_checks
           /\ History(n) \subseteq CheckRow
           /\ UniqueIds(History(n))
           /\ IsFiniteSet(History(n))
<1>1. History(n) \subseteq health_checks
    BY DEF History, HistoryIn
<1> QED BY <1>1, FS_Subset DEF TablesHold, TypeOK, UniqueIds

LEMMA RecordForm ==
    ASSUME RecordsHold, NEW p \in Processes
    PROVE  /\ records[p] \in Record \cup {NoRecord}
           /\ Busy(p) => records[p] \in Record
           /\ Ongoing(p) => Busy(p)
           /\ NoRecord.step = "none"
BY DEF RecordsHold, Busy, Ongoing, NoRecord

\* An alone record whose server changes in nothing it relies on
LEMMA AloneKept ==
    ASSUME TablesHold, RecordsHold, NEW p \in Processes, Ongoing(p), AloneHolds(p),
           records'[p] = records[p], NEW n, n = records[p].name,
           Recording(n)' = {p},
           IsRecentPart(History(n)', History(n)),
           Failures(n)' = Failures(n),
           n \in Registered => n \in Registered',
           n \notin miscounted' => n \notin miscounted
    PROVE  AloneHolds(p)'
<1>1. records[p] \in Record /\ History(n)' \subseteq History(n)
    BY RecordForm DEF IsRecentPart
<1>2. ASSUME records[p].step = "inserted"
      PROVE  WillAgree(records[p], History(n))'
    <2>1. WillAgree(records[p], History(n))
        BY <1>2 DEF AloneHolds
    <2>2. LatestIs(History(n)', records[p].status, records[p].at)
        BY <2>1, HistoryForm, LatestIsOfRecentPart DEF WillAgree
    <2>3. ASSUME n \notin miscounted' \/ records[p].status = "up"
          PROVE  StreakCounted(IF records[p].status = "up" THEN 0 ELSE records[p].failures + 1,
                               History(n)')
        <3> DEFINE f == IF records[p].status = "up" THEN 0 ELSE records[p].failures + 1
        <3>1. f \in Nat
            BY <1>1 DEF Record
        <3>2. StreakCounted(f, History(n))
            BY <2>1, <2>3 DEF WillAgree
        <3>3. StreakCounted(f, History(n)')
            <4> HIDE DEF f
            <4> QED BY <3>1, <3>2, HistoryForm, StreakCountedOfRecentPart
        <3> QED BY <3>3
    <2> QED BY <2>2, <2>3 DEF WillAgree, LatestIs, StreakCounted
<1>3. /\ \A x \in History(n)' : x.timestamp <= records[p].at
      /\ records[p].failures = Failures(n)'
      /\ records[p].step = "inserted" => n \in Registered'
    BY <1>1 DEF AloneHolds
<1> QED BY <1>2, <1>3 DEF AloneHolds

\* A row whose columns are not written
LEMMA RowKept ==
    ASSUME TablesHold, NEW n \in Registered, RowAgrees(n),
           servers'[n].last_status = servers[n].last_status,
           servers'[n].last_checked = servers[n].last_checked,
           servers'[n].consecutive_failures = servers[n].consecutive_failures,
           IsRecentPart(History(n)', History(n)),
           n \notin unsynced' => n \notin unsynced,
           n \notin miscounted' => n \notin miscounted
    PROVE  RowAgrees(n)'
<1>1. n \notin unsynced' =>
          LatestIs(History(n)', servers[n].last_status, servers[n].last_checked)
    BY HistoryForm, LatestIsOfRecentPart DEF RowAgrees
<1>2. servers[n].consecutive_failures \in Nat
    BY DEF TablesHold, TypeOK, ServerRow
<1>3. n \notin miscounted' =>
          StreakCounted(servers[n].consecutive_failures, History(n)')
    BY <1>2, HistoryForm, StreakCountedOfRecentPart DEF RowAgrees
<1> QED BY <1>1, <1>3 DEF RowAgrees, LatestIs, StreakCounted

\* Who is recording once process p has record e
LEMMA RecordingAfter ==
    ASSUME RecordsHold, NEW p \in Processes, NEW e,
           records' = [records EXCEPT ![p] = e], NEW n
    PROVE  Recording(n)' = (Recording(n) \ {p}) \cup
               {q \in {p} : e.step \in {"read", "inserted"} /\ e.name = n}
<1>1. records'[p] = e /\ \A q \in Processes \ {p} : records'[q] = records[q]
    BY DEF RecordsHold
<1> QED BY <1>1 DEF Recording

LEMMA DisturbedForm ==
    ASSUME RecordsHold, NEW n
    PROVE  /\ Disturbed(n) \in [Processes -> Record \cup {NoRecord}]
           /\ \A q \in Processes :
                /\ Disturbed(n)[q].step = records[q].step
                /\ Busy(q) => Disturbed(n)[q].at = records[q].at
                /\ Ongoing(q) => /\ Disturbed(n)[q].name = records[q].name
                                 /\ Disturbed(n)[q].alone =>
                                        records[q].name # n /\ Disturbed(n)[q] = records[q]
<1>1. ASSUME NEW q \in Processes
      PROVE  /\ Disturbed(n)[q] \in Record \cup {NoRecord}
             /\ Disturbed(n)[q].step = records[q].step
             /\ Busy(q) => Disturbed(n)[q].at = records[q].at
             /\ Ongoing(q) => /\ Disturbed(n)[q].name = records[q].name
                              /\ Disturbed(n)[q].alone =>
                                     records[q].name # n /\ Disturbed(n)[q] = records[q]
    <2>1. CASE q \in Recording(n)
        <3> DEFINE d == [records[q] EXCEPT !.alone = FALSE]
        <3>1. Disturbed(n)[q] = d
            BY <2>1 DEF Disturbed
        <3>2. records[q] \in Record
            BY <2>1, RecordForm DEF Recording, Ongoing
        <3>3. d \in Record /\ d.step = records[q].step /\ d.at = records[q].at
              /\ d.name = records[q].name /\ d.alone = FALSE
            BY <3>2 DEF Record
        <3> HIDE DEF d
        <3> QED BY <3>1, <3>3
    <2>2. CASE q \notin Recording(n)
        <3>1. Disturbed(n)[q] = records[q]
            BY <2>2 DEF Disturbed
        <3>2. Ongoing(q) => records[q].name # n
            BY <2>2 DEF Recording, Ongoing
        <3> QED BY <3>1, <3>2, RecordForm
    <2> QED BY <2>1, <2>2
<1> QED BY <1>1 DEF Disturbed

-------------------------------------------------------------------------------
(* Every step keeps the tables in order *)

LEMMA InitSharedInv == Init => SharedInv
<1> SUFFICES ASSUME Init PROVE SharedInv
    OBVIOUS
<1>1. \A p \in Processes : records[p] = NoRecord /\ NoRecord.step = "none"
    BY DEF Init, NoRecord
<1>2. RegistryInit /\ Registered = {} /\ DOMAIN alerts = {}
    BY DEF Init, RegistryInit, EmptyTable, Registered
<1>3. TypeOK
    BY <1>2 DEF RegistryInit, EmptyTable, TypeOK
<1>4. TablesHold
    BY <1>2, <1>3, FS_EmptySet DEF RegistryInit, TablesHold, UniqueIds
<1>5. RecordsHold
    BY <1>1 DEF Init, RecordsHold, Busy
<1>6. AloneOnes /\ QuietOnes
    BY <1>1, <1>2 DEF AloneOnes, Ongoing, QuietOnes
<1> QED BY <1>4, <1>5, <1>6 DEF SharedInv

\* Nothing but the clock, or a file that is not open yet, changes.
LEMMA WaitKeepsSharedInv ==
    ASSUME SharedInv, now' \in Nat \ {0}, now <= now',
           UNCHANGED <<servers, health_checks, alerts, lastId, unsynced, miscounted, records>>
    PROVE  SharedInv'
<1>1. Registered' = Registered /\ \A n : History(n)' = History(n)
    BY DEF Registered, History
<1>2. TablesHold'
    <2>1. TypeOK'
        BY <1>1 DEF SharedInv, TablesHold, TypeOK
    <2>2. \A r \in health_checks : r.timestamp \in Int /\ now \in Int
        BY DEF SharedInv, TablesHold, TypeOK, CheckRow
    <2>3. \A r \in health_checks : r.timestamp <= now'
        BY <2>2 DEF SharedInv, TablesHold
    <2> QED BY <1>1, <2>1, <2>3 DEF SharedInv, TablesHold, UniqueIds
<1>3. RecordsHold'
    <2>1. \A p \in Processes : Busy(p) => records[p].at \in Int /\ now \in Int
        BY RecordForm DEF SharedInv, TablesHold, TypeOK, Record
    <2>2. \A p \in Processes : Busy(p) => records[p].at <= now'
        BY <2>1 DEF SharedInv, RecordsHold
    <2> QED BY <2>2 DEF SharedInv, RecordsHold, Busy
<1>4. \A n : Recording(n)' = Recording(n) /\ Quiet(n)' = Quiet(n) /\ Failures(n)' = Failures(n)
    BY <1>1 DEF Recording, Quiet, Failures
<1>5. AloneOnes'
    <2> SUFFICES ASSUME NEW p \in Processes, Ongoing(p), records[p].alone
                 PROVE  AloneHolds(p)'
        BY DEF AloneOnes, Ongoing
    <2>1. AloneHolds(p)
        BY DEF SharedInv, AloneOnes
    <2> DEFINE n == records[p].name
    <2>2. Recording(n)' = {p}
        BY <1>4, <2>1 DEF AloneHolds
    <2>3. IsRecentPart(History(n)', History(n))
        BY <1>1, SameIsRecentPart
    <2>4. Failures(n)' = Failures(n)
        BY <1>4
    <2> HIDE DEF n
    <2> QED BY <1>1, <2>1, <2>2, <2>3, <2>4, AloneKept DEF SharedInv, n
<1>6. QuietOnes'
    <2> SUFFICES ASSUME NEW n \in Registered, Quiet(n) PROVE RowAgrees(n)'
        BY <1>1, <1>4 DEF QuietOnes
    <2>1. RowAgrees(n)
        BY DEF SharedInv, QuietOnes
    <2> QED BY <1>1, <2>1, SameIsRecentPart, RowKept DEF SharedInv
<1> QED BY <1>2, <1>3, <1>5, <1>6 DEF SharedInv

\* A record begins: other records of its server are no longer alone.
LEMMA StartKeepsSharedInv ==
    ASSUME SharedInv, NEW p \in Processes, NEW n \in Names, NEW s \in Statuses,
           StartRecord(p, n, s)
    PROVE  SharedInv'
<1> DEFINE e == [step |-> "read", name |-> n, status |-> s, failures |-> Failures(n),
                 at |-> now, alone |-> Recording(n) = {}]
<1>1. /\ UNCHANGED registryVars /\ ~ Busy(p) /\ ~ Ongoing(p)
      /\ records' = [Disturbed(n) EXCEPT ![p] = e]
    BY RecordForm DEF StartRecord, SharedInv
<1>2. /\ UNCHANGED <<servers, health_checks, alerts, lastId, now, unsynced, miscounted>>
      /\ Registered' = Registered /\ \A m : History(m)' = History(m) /\ Failures(m)' = Failures(m)
    BY <1>1 DEF registryVars, Registered, History, Failures
<1>3. TablesHold'
    BY <1>2 DEF SharedInv, TablesHold, TypeOK, UniqueIds
<1>4. e \in Record /\ e.step = "read" /\ e.name = n /\ e.at = now /\ e.failures = Failures(n)
      /\ e.alone = (Recording(n) = {})
    <2>1. Failures(n) \in Nat
        BY DEF Failures, SharedInv, TablesHold, TypeOK, ServerRow
    <2>2. now \in Nat /\ (Recording(n) = {}) \in BOOLEAN
        BY DEF SharedInv, TablesHold, TypeOK
    <2> QED BY <2>1, <2>2 DEF Record
<1> HIDE DEF e
<1>5. records'[p] = e /\ \A q \in Processes \ {p} : records'[q] = Disturbed(n)[q]
    BY <1>1, DisturbedForm DEF SharedInv
<1>6. RecordsHold'
    <2>1. records' \in [Processes -> Record \cup {NoRecord}]
        BY <1>1, <1>4, DisturbedForm DEF SharedInv
    <2>2. ASSUME NEW q \in Processes, records'[q].step # "none"
          PROVE  records'[q].at <= now
        <3>1. CASE q = p
            BY <1>4, <1>5, <3>1 DEF SharedInv, TablesHold, TypeOK
        <3>2. CASE q # p
            <4>1. records'[q] = Disturbed(n)[q] /\ Busy(q)
                BY <1>5, <2>2, <3>2, DisturbedForm DEF SharedInv, Busy
            <4> QED BY <4>1, DisturbedForm DEF SharedInv, RecordsHold
        <3> QED BY <3>1, <3>2
    <2> QED BY <1>2, <2>1, <2>2 DEF RecordsHold, Busy
<1>7. ASSUME NEW m
      PROVE  Recording(m)' = Recording(m) \cup {q \in {p} : m = n}
    <2>1. p \notin Recording(m)
        BY <1>1 DEF Recording, Ongoing
    <2>2. \A q \in Processes \ {p} : q \in Recording(m)' <=> q \in Recording(m)
        BY <1>5, DisturbedForm DEF SharedInv, Recording, Ongoing
    <2>3. p \in Recording(m)' <=> m = n
        BY <1>4, <1>5 DEF Recording
    <2> QED BY <2>1, <2>2, <2>3 DEF Recording
<1>8. AloneOnes'
    <2> SUFFICES ASSUME NEW q \in Processes, Ongoing(q)', records'[q].alone
                 PROVE  AloneHolds(q)'
        BY DEF AloneOnes
    <2>1. CASE q = p
        <3>1. Recording(n)' = {p}
            BY <1>4, <1>5, <1>7, <2>1
        <3>2. \A x \in History(n)' : x.timestamp <= now
            BY <1>2, HistoryForm DEF SharedInv, TablesHold
        <3> QED BY <1>2, <1>4, <1>5, <2>1, <3>1, <3>2 DEF AloneHolds
    <2>2. CASE q # p
        <3>1. records'[q] = Disturbed(n)[q] /\ Ongoing(q)
            BY <1>5, <2>2, DisturbedForm DEF SharedInv, Ongoing
        <3>2. records[q].name # n /\ records'[q] = records[q]
            BY <3>1, DisturbedForm DEF SharedInv
        <3>3. AloneHolds(q)
            BY <3>1, <3>2 DEF SharedInv, AloneOnes
        <3> PICK m : m = records[q].name
            OBVIOUS
        <3>4. Recording(m)' = {q}
            BY <1>7, <3>2, <3>3 DEF AloneHolds
        <3>5. IsRecentPart(History(m)', History(m))
            BY <1>2, SameIsRecentPart
        <3> QED BY <1>2, <3>1, <3>2, <3>3, <3>4, <3>5, AloneKept DEF SharedInv
    <2> QED BY <2>1, <2>2
<1>9. QuietOnes'
    <2> SUFFICES ASSUME NEW m \in Registered, Quiet(m)' PROVE RowAgrees(m)'
        BY <1>2 DEF QuietOnes
    <2>1. ASSUME NEW q \in Recording(m) PROVE records[q].step # "inserted"
        <3>1. q \in Processes /\ q # p /\ q \in Recording(m)'
            BY <1>1, <1>7 DEF Recording, Ongoing
        <3>2. records'[q].step # "inserted"
            BY <3>1 DEF Quiet
        <3> QED BY <1>5, <3>1, <3>2, DisturbedForm DEF SharedInv
    <2>2. RowAgrees(m)
        BY <2>1 DEF Quiet, SharedInv, QuietOnes
    <2> QED BY <1>2, <2>2, SameIsRecentPart, RowKept DEF SharedInv
<1> QED BY <1>3, <1>6, <1>8, <1>9 DEF SharedInv

\* pruneHealthChecks with the time a record read first, whatever the time is by
\* then, takes the oldest rows.
LEMMA PrunedAtIsRecentPart ==
    ASSUME health_checks \subseteq CheckRow, IsFiniteSet(health_checks), NEW at \in Nat
    PROVE  IsRecentPart(PrunedAt(at), health_checks)
<1>1. at - Retention \in Int
    BY RetentionAssumption DEF RetentionAssumption
<1> QED BY <1>1, OldestGone, RetentionAssumption DEF PrunedAt, ExpiredAt

\* A record ends, by a refused row, by its pruning or with its process: if it
\* ends between its INSERT and its UPDATE, the columns are no longer vouched for.
LEMMA EndKeepsSharedInv ==
    ASSUME SharedInv, NEW p \in Processes,
           records' = [records EXCEPT ![p] = NoRecord],
           IsRecentPart(health_checks', health_checks),
           UNCHANGED <<servers, alerts, lastId, now>>,
           unsynced \subseteq unsynced', unsynced' \subseteq Registered,
           miscounted \subseteq miscounted', miscounted' \subseteq Registered,
           records[p].step = "inserted" /\ records[p].name \in Registered =>
               records[p].name \in unsynced' /\ records[p].name \in miscounted'
    PROVE  SharedInv'
<1>1. health_checks' \subseteq health_checks /\ Registered' = Registered
      /\ \A n : Failures(n)' = Failures(n)
    BY DEF IsRecentPart, Registered, Failures
<1>2. \A n : IsRecentPart(History(n)', History(n))
    BY DEF IsRecentPart, History, HistoryIn
<1>3. TablesHold'
    <2>1. IsFiniteSet(health_checks')
        BY <1>1, FS_Subset DEF SharedInv, TablesHold
    <2>2. TypeOK'
        BY <1>1 DEF SharedInv, TablesHold, TypeOK
    <2> QED BY <1>1, <2>1, <2>2 DEF SharedInv, TablesHold, UniqueIds
<1>4. /\ records'[p] = NoRecord /\ NoRecord.step = "none"
      /\ \A q \in Processes \ {p} : records'[q] = records[q]
    BY RecordForm DEF SharedInv, RecordsHold
<1>5. RecordsHold'
    BY <1>4 DEF SharedInv, RecordsHold, Busy
<1>6. \A n : Recording(n)' = Recording(n) \ {p}
    BY <1>4 DEF Recording
<1>7. AloneOnes'
    <2> SUFFICES ASSUME NEW q \in Processes, Ongoing(q)', records'[q].alone
                 PROVE  AloneHolds(q)'
        BY DEF AloneOnes
    <2>1. q # p /\ records'[q] = records[q] /\ Ongoing(q)
        BY <1>4 DEF Ongoing
    <2>2. AloneHolds(q)
        BY <2>1 DEF SharedInv, AloneOnes
    <2> PICK n : n = records[q].name
        OBVIOUS
    <2>3. Recording(n)' = {q}
        BY <1>6, <2>1, <2>2 DEF AloneHolds
    <2>4. IsRecentPart(History(n)', History(n))
        BY <1>2
    <2> QED BY <1>1, <2>1, <2>2, <2>3, <2>4, AloneKept DEF SharedInv
<1>8. QuietOnes'
    <2> SUFFICES ASSUME NEW n \in Registered, Quiet(n)' PROVE RowAgrees(n)'
        BY <1>1 DEF QuietOnes
    <2>1. CASE p \in Recording(n) /\ records[p].step = "inserted"
        <3>1. n \in unsynced' /\ n \in miscounted'
            BY <2>1 DEF Recording
        <3> QED BY <3>1 DEF RowAgrees
    <2>2. CASE ~(p \in Recording(n) /\ records[p].step = "inserted")
        <3>1. Quiet(n)
            BY <1>4, <1>6, <2>2 DEF Quiet, Recording
        <3>2. RowAgrees(n)
            BY <3>1 DEF SharedInv, QuietOnes
        <3> QED BY <1>2, <3>2, RowKept DEF SharedInv
    <2> QED BY <2>1, <2>2
<1> QED BY <1>3, <1>5, <1>7, <1>8 DEF SharedInv

\* The INSERT of a record that is alone adds the newest row of its server, so
\* what its UPDATE is going to write is right; no other record of the server
\* is alone.
LEMMA InsertKeepsSharedInv ==
    ASSUME SharedInv, NEW p \in Processes, InsertCheck(p)
    PROVE  SharedInv'
<1> PICK r : r = records[p]
    OBVIOUS
<1> PICK n : n = r.name
    OBVIOUS
<1>x. PICK x : x = [id |-> lastId + 1, server_name |-> n, timestamp |-> r.at, status |-> r.status]
    OBVIOUS
<1>e. PICK e : e = [r EXCEPT !.step = "inserted"]
    OBVIOUS
<1>1. /\ r.step = "read" /\ n \in Registered /\ lastId' = lastId + 1
      /\ health_checks' = health_checks \cup {x}
      /\ records' = [records EXCEPT ![p] = e]
      /\ UNCHANGED <<servers, alerts, now, unsynced, miscounted>>
    BY <1>x, <1>e DEF InsertCheck, Insert
<1>2. r \in Record /\ Ongoing(p) /\ r.at <= now /\ r.step # "none"
    BY <1>1, RecordForm DEF SharedInv, RecordsHold, Ongoing, Busy
<1>3. /\ e \in Record /\ e.step = "inserted" /\ e.name = n /\ e.at = r.at
      /\ e.status = r.status /\ e.failures = r.failures /\ e.alone = r.alone
    BY <1>2, <1>e DEF Record
<1>4. /\ x \in CheckRow /\ x.id = lastId + 1 /\ x.server_name = n
      /\ x.timestamp = r.at /\ x.status = r.status
    BY <1>2, <1>x DEF SharedInv, TablesHold, TypeOK, CheckRow, Record
<1>5. \A y \in health_checks : y \in CheckRow /\ y.id < x.id /\ y # x
    BY <1>4 DEF SharedInv, TablesHold, TypeOK, CheckRow
<1>6. /\ Registered' = Registered
      /\ \A m : Failures(m)' = Failures(m)
      /\ History(n)' = History(n) \cup {x}
      /\ \A m : m # n => History(m)' = History(m)
    BY <1>1, <1>4 DEF Registered, Failures, History, HistoryIn
<1>7. TablesHold'
    <2>1. TypeOK'
        BY <1>1, <1>4, <1>6 DEF SharedInv, TablesHold, TypeOK
    <2>2. IsFiniteSet(health_checks')
        BY <1>1, FS_AddElement DEF SharedInv, TablesHold
    <2>3. UniqueIds(health_checks')
        <3>1. ASSUME NEW y \in health_checks, y.id = x.id PROVE FALSE
            BY <1>4, <1>5, <3>1 DEF CheckRow
        <3> QED BY <1>1, <3>1 DEF SharedInv, TablesHold, UniqueIds
    <2>4. \A y \in health_checks' : /\ y.server_name \in Registered
                                    /\ y.id <= lastId + 1
                                    /\ y.timestamp <= now
        <3>1. ASSUME NEW y \in health_checks PROVE y.id <= lastId + 1
            BY <1>4, <1>5 DEF CheckRow
        <3>2. x.id <= lastId + 1
            BY <1>4 DEF CheckRow
        <3> QED BY <1>1, <1>2, <1>4, <3>1, <3>2 DEF SharedInv, TablesHold
    <2> QED BY <1>1, <1>6, <2>1, <2>2, <2>3, <2>4 DEF TablesHold, UniqueIds
<1>8. records'[p] = e /\ \A q \in Processes \ {p} : records'[q] = records[q]
    BY <1>1 DEF SharedInv, RecordsHold
<1>9. RecordsHold'
    BY <1>1, <1>2, <1>3, <1>8 DEF SharedInv, RecordsHold, Busy
<1>10. p \in Recording(n) /\ \A m : Recording(m)' = Recording(m)
    BY <1>1, <1>3, <1>8 DEF Recording
<1>11. AloneOnes'
    <2> SUFFICES ASSUME NEW q \in Processes, Ongoing(q)', records'[q].alone
                 PROVE  AloneHolds(q)'
        BY DEF AloneOnes
    <2>1. CASE q = p
        <3>1. /\ Recording(n) = {p} /\ \A y \in History(n) : y.timestamp <= r.at
              /\ r.failures = Failures(n)
            BY <1>2, <1>3, <1>8, <2>1 DEF SharedInv, AloneOnes, AloneHolds
        <3>2. /\ History(n) \subseteq CheckRow /\ IsFiniteSet(History(n)) /\ x \notin History(n)
              /\ \A y \in History(n) : Before(y, x)
            <4>1. \A y \in History(n) : y \in CheckRow /\ y.id < x.id /\ y # x
                BY <1>5, HistoryForm DEF SharedInv
            <4> QED BY <1>4, <3>1, <4>1, HistoryForm DEF SharedInv, Before, CheckRow
        <3>3. LatestIs(History(n) \cup {x}, r.status, r.at)
            <4>1. \A y \in History(n) : ~ Before(x, y)
                BY <1>4, <3>2, BeforeOrders
            <4>2. \A y \in History(n) \cup {x} : IsLatest(y, History(n) \cup {x}) => y = x
                BY <3>2, <4>1 DEF IsLatest
            <4> QED BY <1>4, <4>2 DEF LatestIs
        <3>4. ASSUME n \notin miscounted \/ r.status = "up"
              PROVE  StreakCounted(IF r.status = "up" THEN 0 ELSE r.failures + 1,
                                   History(n) \cup {x})
            <4>1. r.failures \in Nat
                BY <1>2 DEF Record
            <4>2. Quiet(n)
                BY <1>1, <3>1 DEF Quiet
            <4>3. x.status # "up" => StreakCounted(r.failures, History(n))
                BY <1>1, <1>4, <3>1, <3>4, <4>2 DEF SharedInv, QuietOnes, RowAgrees, Failures
            <4> QED BY <1>4, <3>2, <4>1, <4>3, StreakCountedAfterAppend
        <3>5. WillAgree(e, History(n))'
            BY <1>1, <1>3, <1>6, <3>3, <3>4 DEF WillAgree, LatestIs, StreakCounted
        <3>6. \A y \in History(n)' : y.timestamp <= r.at
            BY <1>2, <1>4, <1>6, <3>1 DEF Record
        <3> QED BY <1>1, <1>3, <1>6, <1>8, <1>10, <2>1, <3>1, <3>5, <3>6
                DEF AloneHolds, WillAgree, LatestIs, StreakCounted
    <2>2. CASE q # p
        <3> PICK m : m = records[q].name
            OBVIOUS
        <3>1. records'[q] = records[q] /\ Ongoing(q)
            BY <1>8, <2>2 DEF Ongoing
        <3>2. AloneHolds(q)
            BY <3>1 DEF SharedInv, AloneOnes
        <3>3. Recording(m)' = {q} /\ m # n
            BY <1>10, <2>2, <3>2 DEF AloneHolds
        <3>4. IsRecentPart(History(m)', History(m))
            BY <1>6, <3>3, SameIsRecentPart
        <3> QED BY <1>1, <1>6, <3>1, <3>2, <3>3, <3>4, AloneKept DEF SharedInv
    <2> QED BY <2>1, <2>2
<1>12. QuietOnes'
    <2> SUFFICES ASSUME NEW m \in Registered, Quiet(m)' PROVE RowAgrees(m)'
        BY <1>6 DEF QuietOnes
    <2>1. m # n
        BY <1>3, <1>8, <1>10 DEF Quiet
    <2>2. p \notin Recording(m)
        BY <2>1 DEF Recording
    <2>3. Quiet(m)
        BY <1>8, <1>10, <2>2 DEF Quiet, Recording
    <2>4. RowAgrees(m)
        BY <2>3 DEF SharedInv, QuietOnes
    <2> QED BY <1>1, <1>6, <2>1, <2>4, SameIsRecentPart, RowKept DEF SharedInv
<1> QED BY <1>7, <1>9, <1>11, <1>12 DEF SharedInv

\* The UPDATE writes what a record that is alone was going to write, and the
\* history variables disown what any other record writes.
LEMMA UpdateKeepsSharedInv ==
    ASSUME SharedInv, NEW p \in Processes, UpdateServer(p)
    PROVE  SharedInv'
<1> PICK r : r = records[p]
    OBVIOUS
<1> PICK n : n = r.name
    OBVIOUS
<1>e. PICK e : e = [r EXCEPT !.step = "updated"]
    OBVIOUS
<1>1. /\ r.step = "inserted"
      /\ servers' = [m \in Registered |-> IF m = n THEN Written(r) ELSE servers[m]]
      /\ unsynced' = IF r.alone THEN unsynced \ {n} ELSE unsynced \cup ({n} \cap Registered)
      /\ miscounted' = IF ~ r.alone THEN miscounted \cup ({n} \cap Registered)
                       ELSE IF r.status = "up" THEN miscounted \ {n} ELSE miscounted
      /\ records' = [records EXCEPT ![p] = e]
      /\ UNCHANGED <<health_checks, alerts, lastId, now>>
    BY <1>e DEF UpdateServer
<1>2. r \in Record /\ Ongoing(p) /\ r.at <= now /\ r.step # "none"
    BY <1>1, RecordForm DEF SharedInv, RecordsHold, Ongoing, Busy
<1>3. e \in Record /\ e.step = "updated" /\ e.at = r.at
    BY <1>2, <1>e DEF Record
<1>4. /\ Registered' = Registered /\ \A m : History(m)' = History(m)
      /\ \A m \in Registered : servers'[m] = IF m = n THEN Written(r) ELSE servers[m]
    BY <1>1 DEF Registered, History
<1>5. ASSUME n \in Registered
      PROVE  /\ Written(r) \in ServerRow
             /\ Written(r).last_checked = r.at /\ Written(r).last_status = r.status
             /\ Written(r).consecutive_failures =
                    IF r.status = "up" THEN 0 ELSE r.failures + 1
    <2>1. servers[n] \in ServerRow
        BY <1>5 DEF SharedInv, TablesHold, TypeOK
    <2>2. (IF r.status = "up" THEN 0 ELSE r.failures + 1) \in Nat
        BY <1>2 DEF Record
    <2> QED BY <1>2, <2>1, <2>2 DEF Written, ServerRow, Record
<1>6. TablesHold'
    <2>1. servers' \in [Registered -> ServerRow]
        BY <1>1, <1>5 DEF SharedInv, TablesHold, TypeOK
    <2>2. unsynced' \subseteq Registered /\ miscounted' \subseteq Registered
        BY <1>1 DEF SharedInv, TablesHold, TypeOK
    <2>3. TypeOK'
        BY <1>1, <1>4, <2>1, <2>2 DEF SharedInv, TablesHold, TypeOK
    <2> QED BY <1>1, <1>4, <2>3 DEF SharedInv, TablesHold, UniqueIds
<1>7. records'[p] = e /\ \A q \in Processes \ {p} : records'[q] = records[q]
    BY <1>1 DEF SharedInv, RecordsHold
<1>8. RecordsHold'
    BY <1>1, <1>2, <1>3, <1>7 DEF SharedInv, RecordsHold, Busy
<1>9. p \in Recording(n) /\ \A m : Recording(m)' = Recording(m) \ {p}
    BY <1>1, <1>3, <1>7 DEF Recording
<1>10. AloneOnes'
    <2> SUFFICES ASSUME NEW q \in Processes, Ongoing(q)', records'[q].alone
                 PROVE  AloneHolds(q)'
        BY DEF AloneOnes
    <2> PICK m : m = records[q].name
        OBVIOUS
    <2>1. q # p /\ records'[q] = records[q] /\ Ongoing(q)
        BY <1>3, <1>7 DEF Ongoing
    <2>2. AloneHolds(q)
        BY <2>1 DEF SharedInv, AloneOnes
    <2>3. Recording(m)' = {q} /\ m # n
        BY <1>9, <2>1, <2>2 DEF AloneHolds
    <2>4. Failures(m)' = Failures(m) /\ (m \notin miscounted' => m \notin miscounted)
        BY <1>1, <1>4, <2>3 DEF Failures
    <2>5. IsRecentPart(History(m)', History(m))
        BY <1>4, SameIsRecentPart
    <2> QED BY <1>4, <2>1, <2>2, <2>3, <2>4, <2>5, AloneKept DEF SharedInv
<1>11. QuietOnes'
    <2> SUFFICES ASSUME NEW m \in Registered, Quiet(m)' PROVE RowAgrees(m)'
        BY <1>4 DEF QuietOnes
    <2>1. CASE m = n /\ r.alone
        <3>1. WillAgree(r, History(n))
            BY <1>1, <1>2, <2>1 DEF SharedInv, AloneOnes, AloneHolds
        <3>2. m \notin miscounted' => n \notin miscounted \/ r.status = "up"
            BY <1>1, <2>1
        <3> QED BY <1>4, <1>5, <2>1, <3>1, <3>2
                DEF RowAgrees, WillAgree, LatestIs, StreakCounted
    <2>2. CASE m = n /\ ~ r.alone
        <3>1. m \in unsynced' /\ m \in miscounted'
            BY <1>1, <2>2
        <3> QED BY <3>1 DEF RowAgrees
    <2>3. CASE m # n
        <3>1. p \notin Recording(m)
            BY <2>3 DEF Recording
        <3>2. Quiet(m)
            BY <1>7, <1>9, <3>1 DEF Quiet, Recording
        <3>3. RowAgrees(m)
            BY <3>2 DEF SharedInv, QuietOnes
        <3>4. (m \notin unsynced' => m \notin unsynced) /\ (m \notin miscounted' => m \notin miscounted)
            BY <1>1, <2>3
        <3> QED BY <1>4, <2>3, <3>3, <3>4, SameIsRecentPart, RowKept DEF SharedInv
    <2> QED BY <2>1, <2>2, <2>3
<1> QED BY <1>6, <1>8, <1>10, <1>11 DEF SharedInv

\* A server registered while a record of it is in progress has no history, and
\* one that is registered again keeps its columns.
LEMMA RegisterKeepsSharedInv ==
    ASSUME SharedInv, NEW n \in Names, NEW c \in Configs, RegisterServer(n, c),
           UNCHANGED records
    PROVE  SharedInv'
<1>1. /\ servers' = [m \in Registered \cup {n} |->
                         IF m = n THEN Upsert(n, c) ELSE servers[m]]
      /\ UNCHANGED <<health_checks, alerts, lastId, now, unsynced, miscounted>>
    BY DEF RegisterServer
<1>2. /\ Registered' = Registered \cup {n} /\ \A m : History(m)' = History(m)
      /\ \A m \in Registered \cup {n} :
            servers'[m] = IF m = n THEN Upsert(n, c) ELSE servers[m]
    BY <1>1 DEF Registered, History
<1>3. /\ Upsert(n, c) \in ServerRow
      /\ n \in Registered =>
            /\ Upsert(n, c).last_status = servers[n].last_status
            /\ Upsert(n, c).last_checked = servers[n].last_checked
            /\ Upsert(n, c).consecutive_failures = servers[n].consecutive_failures
      /\ n \notin Registered => Upsert(n, c).consecutive_failures = 0
    <2>1. NewServer(c) \in ServerRow /\ NewServer(c).consecutive_failures = 0
        BY DEF NewServer, ServerRow, SharedInv, TablesHold, TypeOK
    <2>2. n \in Registered => servers[n] \in ServerRow
        BY DEF SharedInv, TablesHold, TypeOK
    <2> QED BY <2>1, <2>2 DEF Upsert, ServerRow
<1>4. TablesHold'
    <2>1. servers' \in [Registered \cup {n} -> ServerRow]
        BY <1>1, <1>3 DEF SharedInv, TablesHold, TypeOK
    <2>2. TypeOK'
        BY <1>1, <1>2, <2>1 DEF SharedInv, TablesHold, TypeOK
    <2> QED BY <1>1, <1>2, <2>2 DEF SharedInv, TablesHold, UniqueIds
<1>5. RecordsHold'
    BY <1>1 DEF SharedInv, RecordsHold, Busy
<1>6. \A m : Recording(m)' = Recording(m) /\ Quiet(m)' = Quiet(m)
    BY DEF Recording, Quiet
<1>7. \A m : Failures(m)' = Failures(m)
    BY <1>2, <1>3 DEF Failures
<1>8. AloneOnes'
    <2> SUFFICES ASSUME NEW q \in Processes, Ongoing(q)', records'[q].alone
                 PROVE  AloneHolds(q)'
        BY DEF AloneOnes
    <2> PICK m : m = records[q].name
        OBVIOUS
    <2>1. AloneHolds(q) /\ Ongoing(q)
        BY DEF SharedInv, AloneOnes, Ongoing
    <2>2. Recording(m)' = {q}
        BY <1>6, <2>1 DEF AloneHolds
    <2>3. IsRecentPart(History(m)', History(m))
        BY <1>2, SameIsRecentPart
    <2> QED BY <1>1, <1>2, <1>7, <2>1, <2>2, <2>3, AloneKept DEF SharedInv
<1>9. QuietOnes'
    <2> SUFFICES ASSUME NEW m \in Registered \cup {n}, Quiet(m) PROVE RowAgrees(m)'
        BY <1>2, <1>6 DEF QuietOnes
    <2>1. CASE m \in Registered
        <3>1. RowAgrees(m)
            BY <2>1 DEF SharedInv, QuietOnes
        <3> QED BY <1>1, <1>2, <1>3, <2>1, <3>1, SameIsRecentPart, RowKept DEF SharedInv
    <2>2. CASE m \notin Registered
        <3>1. m = n /\ History(m)' = {}
            BY <1>2, <2>2 DEF SharedInv, TablesHold, History, HistoryIn
        <3>2. servers'[m].consecutive_failures = 0
            BY <1>2, <1>3, <2>2, <3>1
        <3>3. Streak({}) = {}
            BY DEF Streak
        <3> QED BY <3>1, <3>2, <3>3, FS_EmptySet DEF RowAgrees, LatestIs, StreakCounted
    <2> QED BY <2>1, <2>2
<1> QED BY <1>4, <1>5, <1>8, <1>9 DEF SharedInv

\* unregisterServer: no record of the server is alone any more.
LEMMA UnregisterKeepsSharedInv ==
    ASSUME SharedInv, NEW n \in Names, UnregisterServer(n), records' = Disturbed(n)
    PROVE  SharedInv'
<1>1. /\ servers' = [m \in Registered \ {n} |-> servers[m]]
      /\ health_checks' = {r \in health_checks : r.server_name # n}
      /\ alerts' = [m \in DOMAIN alerts \ {n} |-> alerts[m]]
      /\ unsynced' = unsynced \ {n} /\ miscounted' = miscounted \ {n}
      /\ UNCHANGED <<lastId, now>>
    BY DEF UnregisterServer, WithoutChecksOf
<1>2. /\ Registered' = Registered \ {n}
      /\ \A m \in Registered \ {n} : servers'[m] = servers[m]
      /\ \A m : m # n => History(m)' = History(m) /\ Failures(m)' = Failures(m)
    BY <1>1 DEF Registered, History, HistoryIn, Failures
<1>3. TablesHold'
    <2>1. IsFiniteSet(health_checks')
        BY <1>1, FS_Subset DEF SharedInv, TablesHold
    <2>2. TypeOK'
        BY <1>1, <1>2 DEF SharedInv, TablesHold, TypeOK
    <2> QED BY <1>1, <1>2, <2>1, <2>2 DEF SharedInv, TablesHold, UniqueIds
<1>4. RecordsHold'
    BY <1>1, DisturbedForm DEF SharedInv, RecordsHold, Busy
<1>5. \A m : Recording(m)' = Recording(m)
    BY DisturbedForm DEF SharedInv, Recording, Ongoing
<1>6. AloneOnes'
    <2> SUFFICES ASSUME NEW q \in Processes, Ongoing(q)', records'[q].alone
                 PROVE  AloneHolds(q)'
        BY DEF AloneOnes
    <2> PICK m : m = records[q].name
        OBVIOUS
    <2>1. Ongoing(q) /\ m # n /\ records'[q] = records[q]
        BY DisturbedForm DEF SharedInv, Ongoing
    <2>2. AloneHolds(q)
        BY <2>1 DEF SharedInv, AloneOnes
    <2>3. Recording(m)' = {q}
        BY <1>5, <2>2 DEF AloneHolds
    <2>4. IsRecentPart(History(m)', History(m))
        BY <1>2, <2>1, SameIsRecentPart
    <2> QED BY <1>1, <1>2, <2>1, <2>2, <2>3, <2>4, AloneKept DEF SharedInv
<1>7. QuietOnes'
    <2> SUFFICES ASSUME NEW m \in Registered', Quiet(m)' PROVE RowAgrees(m)'
        BY DEF QuietOnes
    <2>0. m \in Registered \ {n}
        BY <1>2
    <2>1. Quiet(m)
        BY <1>5, DisturbedForm DEF SharedInv, Quiet, Recording
    <2>2. RowAgrees(m)
        BY <2>0, <2>1 DEF SharedInv, QuietOnes
    <2> QED BY <1>1, <1>2, <2>0, <2>2, SameIsRecentPart, RowKept DEF SharedInv
<1> QED BY <1>3, <1>4, <1>6, <1>7 DEF SharedInv

LEMMA NextSharedInv == SharedInv /\ [Next]_vars => SharedInv'
<1> SUFFICES ASSUME SharedInv, [Next]_vars PROVE SharedInv'
    OBVIOUS
<1>1. now \in Nat \ {0} /\ now <= now /\ now <= now + 1 /\ now + 1 \in Nat \ {0}
      /\ unsynced \subseteq Registered /\ miscounted \subseteq Registered
    BY DEF SharedInv, TablesHold, TypeOK
<1>2. CASE Tick /\ UNCHANGED records
    BY <1>1, <1>2, WaitKeepsSharedInv DEF Tick
<1>3. CASE UNCHANGED <<registryVars, records>>
    BY <1>1, <1>3, WaitKeepsSharedInv DEF registryVars
<1>4. ASSUME NEW p \in Processes, Die(p) PROVE SharedInv'
    BY <1>1, <1>4, SameIsRecentPart, EndKeepsSharedInv DEF Die
<1>5. ASSUME NEW p \in Processes, InsertRefused(p) PROVE SharedInv'
    BY <1>1, <1>5, SameIsRecentPart, EndKeepsSharedInv DEF InsertRefused, registryVars
<1>6. ASSUME NEW p \in Processes, PruneChecks(p) PROVE SharedInv'
    <2>1. health_checks \subseteq CheckRow /\ IsFiniteSet(health_checks)
          /\ records[p].at \in Nat
        BY <1>6, RecordForm DEF SharedInv, TablesHold, RecordsHold, TypeOK, PruneChecks,
                                Record, NoRecord
    <2>2. IsRecentPart(health_checks', health_checks)
        BY <1>6, <2>1, PrunedAtIsRecentPart DEF PruneChecks
    <2> QED BY <1>1, <1>6, <2>2, EndKeepsSharedInv DEF PruneChecks
<1>7. ASSUME NEW p \in Processes, InsertCheck(p) \/ UpdateServer(p) PROVE SharedInv'
    BY <1>7, InsertKeepsSharedInv, UpdateKeepsSharedInv
<1>8. ASSUME NEW p \in Processes, NEW n \in Names,
             RegistryStep(p, n) \/ \E s \in Statuses : StartRecord(p, n, s)
      PROVE  SharedInv'
    BY <1>8, RegisterKeepsSharedInv, UnregisterKeepsSharedInv, StartKeepsSharedInv
    DEF RegistryStep
<1> QED BY <1>2, <1>3, <1>4, <1>5, <1>6, <1>7, <1>8 DEF Next, vars, OpenStep

\* The inductive invariant of the tables holds whatever the processes do.
THEOREM SharedInvariance == Spec => []SharedInv
BY InitSharedInv, NextSharedInv, PTL DEF Spec

\* Whatever records of however many processes overlap, and whichever of them
\* die between two statements, the columns of a server are right unless a
\* record that overlapped another, or was broken off, wrote them last.
THEOREM RacesRepaired == Spec => []AgreeUnlessRaced
<1>1. SharedInv => AgreeUnlessRaced
    <2> SUFFICES ASSUME SharedInv, NEW n \in Registered, Quiet(n)
                 PROVE  /\ n \notin unsynced =>
                              \A r \in History(n) : IsLatest(r, History(n)) =>
                                  /\ servers[n].last_status = r.status
                                  /\ servers[n].last_checked = r.timestamp
                        /\ n \notin miscounted =>
                              StreakCounted(servers[n].consecutive_failures, History(n))
        BY DEF AgreeUnlessRaced
    <2> QED BY DEF SharedInv, QuietOnes, RowAgrees, LatestIs
<1> QED BY <1>1, SharedInvariance, PTL

\* Only a process that has the database open has a record in progress.
OpenOnes == \A p \in Processes : Busy(p) => IsOpen(p)

LEMMA NextOpenOnes == FileInv /\ RecordsHold /\ OpenOnes /\ [Next]_vars => OpenOnes'
<1> SUFFICES ASSUME FileInv, RecordsHold, OpenOnes, [Next]_vars PROVE OpenOnes'
    OBVIOUS
<1>0. NoRecord.step = "none" /\ DOMAIN opening = Processes /\ DOMAIN records = Processes
    BY DEF NoRecord, FileInv, FilesTypeOK, RecordsHold
<1>1. CASE UNCHANGED <<opening, records>>
    BY <1>1 DEF OpenOnes, Busy, IsOpen
<1>2. ASSUME NEW p \in Processes, OpenStep(p) PROVE OpenOnes'
    <2>1. ~ IsOpen(p) /\ UNCHANGED records
        BY <1>2 DEF OpenStep, GetDb, OpenDb, Apply, ApplyConflicts, ApplyFails, Applying,
                    Opened, IsOpen
    <2>2. \A q \in Processes \ {p} : opening'[q] = opening[q]
        BY <1>0, <1>2 DEF OpenStep, GetDb, OpenDb, Apply, ApplyConflicts, ApplyFails, Opened
    <2> QED BY <2>1, <2>2 DEF OpenOnes, Busy, IsOpen
<1>3. ASSUME NEW p \in Processes, Die(p) PROVE OpenOnes'
    <2>1. /\ records'[p].step = "none"
          /\ \A q \in Processes \ {p} : records'[q] = records[q] /\ opening'[q] = opening[q]
        BY <1>0, <1>3 DEF Die, ProcessDies
    <2> QED BY <2>1 DEF OpenOnes, Busy, IsOpen
<1>4. ASSUME NEW p \in Processes,
             InsertRefused(p) \/ InsertCheck(p) \/ UpdateServer(p) \/ PruneChecks(p)
      PROVE  OpenOnes'
    <2>1. opening' = opening /\ Busy(p)
        BY <1>4 DEF InsertRefused, InsertCheck, UpdateServer, PruneChecks, migrationVars, Busy
    <2>2. \A q \in Processes \ {p} : records'[q] = records[q]
        BY <1>0, <1>4 DEF InsertRefused, InsertCheck, UpdateServer, PruneChecks
    <2> QED BY <2>1, <2>2 DEF OpenOnes, Busy, IsOpen
<1>5. ASSUME NEW p \in Processes, NEW n \in Names,
             RegistryStep(p, n) \/ \E s \in Statuses : StartRecord(p, n, s)
      PROVE  OpenOnes'
    <2>1. opening' = opening /\ IsOpen(p)
        BY <1>5 DEF RegistryStep, StartRecord, migrationVars
    <2>2. \A q \in Processes \ {p} : records'[q].step = records[q].step
        BY <1>0, <1>5, DisturbedForm DEF RegistryStep, StartRecord
    <2> QED BY <2>1, <2>2 DEF OpenOnes, Busy, IsOpen
<1> QED BY <1>1, <1>2, <1>3, <1>4, <1>5 DEF Next, vars, migrationVars

\* Tables, file and records keep their types, whatever statements of however
\* many processes come between those of a record; and none writes through a
\* database it has not opened.
THEOREM SharedTypesCorrect == Spec => []SharedTypeOK
<1>1. Init => OpenOnes
    BY DEF Init, OpenOnes, Busy, NoRecord
<1>2. FileInv /\ SharedInv /\ OpenOnes /\ [Next]_vars => OpenOnes'
    BY NextOpenOnes DEF SharedInv
<1>3. FileInv /\ SharedInv /\ OpenOnes => SharedTypeOK
    BY DEF FileInv, FilesTypeOK, SharedInv, TablesHold, RecordsHold, OpenOnes, SharedTypeOK
<1>4. Spec => []OpenOnes
    BY <1>1, <1>2, FileInvariance, SharedInvariance, PTL DEF Spec
<1> QED BY <1>3, <1>4, FileInvariance, SharedInvariance, PTL
===============================================================================
