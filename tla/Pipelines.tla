------------------------------- MODULE Pipelines -------------------------------
(***************************************************************************)
(* Azure DevOps pipelines (src/src/azure-devops.ts, the Azure half of      *)
(* src/src/registry.ts, and the handlers of src/src/app.ts that use them): *)
(* groups of pipelines are registered in one transaction, their latest     *)
(* runs are fetched concurrently by several tool calls, and each answer    *)
(* is recorded by an upsert when its turn on the event loop comes.  Azure  *)
(* goes on building meanwhile; requests fail and are retried; statements   *)
(* fail; the process restarts, perhaps with another encryption key.        *)
(***************************************************************************)
EXTENDS Integers, FiniteSets

CONSTANTS
    Groups, PipelineNames,
    Sources,        \* an organization and a project, with a token for them
    Listed,         \* source -> names of the pipelines Azure has there
    Registrations,  \* inputs of register_azure_pipelines
    Calls,          \* slots for tool calls in progress
    Results,        \* results of a completed build
    MaxBuild,       \* bound of the model: definition -> number of its builds
    Faults          \* subset of {"statement", "restart"}

ASSUME ListedAssumption == Listed \in [Sources -> SUBSET PipelineNames]
ASSUME RegistrationAssumption ==
    Registrations \subseteq
        [group: Groups, source: Sources, names: SUBSET PipelineNames]
ASSUME ResultAssumption == "none" \notin Results

VARIABLES
    remote,         \* external: definition -> [build, result] of its latest build
    azure_pipelines,\* <<group, name>> -> row
    pipeline_runs,  \* <<group, name, build>> -> row
    calls,          \* call slot -> the handler in progress
    newest          \* history: group -> its newest registration

vars == <<remote, azure_pipelines, pipeline_runs, calls, newest>>

-------------------------------------------------------------------------------
(* Builds as Azure reports them *)

\* A pipeline definition; its id means something in its own project only.
Definitions == {d \in Sources \X PipelineNames : d[2] \in Listed[d[1]]}

NoId == << >>

IdOf(source, n) == IF n \in Listed[source] THEN <<source, n>> ELSE NoId

Build == [build: Nat, result: Results \cup {"none"}]

NoBuild == [build |-> 0, result |-> "none"]

BuildStarts(d) ==
    /\ remote[d].build < MaxBuild[d]
    /\ remote' = [remote EXCEPT ![d] = [build |-> @.build + 1, result |-> "none"]]
    /\ UNCHANGED <<azure_pipelines, pipeline_runs, calls, newest>>

BuildCompletes(d) ==
    /\ remote[d].build # 0
    /\ remote[d].result = "none"
    /\ \E r \in Results : remote' = [remote EXCEPT ![d].result = r]
    /\ UNCHANGED <<azure_pipelines, pipeline_runs, calls, newest>>

\* mapStatus: Azure gives a build its result when it completes.
MapStatus(b) ==
    IF b.result = "none" THEN "inProgress"
    ELSE IF b.result \in {"succeeded", "failed", "canceled"} THEN b.result
    ELSE "unknown"

RunStatuses == {"inProgress", "succeeded", "failed", "canceled", "unknown"}

Finished(b) == b.result # "none"

-------------------------------------------------------------------------------
(* Tables *)

Rows == Groups \X PipelineNames

RowsOf(gs) == {i \in DOMAIN azure_pipelines : i[1] \in gs}

\* readable: HEALTH_MONITOR_ENCRYPTION_KEY is the key of the row's token.
Row(reg, n) ==
    [source |-> reg.source, id |-> IdOf(reg.source, n), readable |-> TRUE]

WithoutKey(row) == [source |-> row.source, id |-> row.id, readable |-> FALSE]

Named(reg) == {<<reg.group, n>> : n \in reg.names}

Stored_DoNothing(reg, is) ==
    [i \in DOMAIN azure_pipelines \cup is |->
        IF i \in DOMAIN azure_pipelines THEN azure_pipelines[i]
                                        ELSE Row(reg, i[2])]

\* The upsert replaces every column but the key columns and created_at.
Stored(reg, is) ==
    [i \in DOMAIN azure_pipelines \cup is |->
        IF i \in is THEN Row(reg, i[2]) ELSE azure_pipelines[i]]

\* recordPipelineRun: the unique index on (group_name, pipeline_name, build_id)
\* names the row.
RunKeys(i, b) == {<<i[1], i[2], b.build>>}

\* The column "from" is history: the definition that was asked.
RecordPipelineRun(i, b, d) ==
    pipeline_runs' =
        [k \in DOMAIN pipeline_runs \cup RunKeys(i, b) |->
            IF k \in RunKeys(i, b)
            THEN [status |-> MapStatus(b), result |-> b.result, from |-> d]
            ELSE pipeline_runs[k]]

-------------------------------------------------------------------------------
(* Calls and their fetches *)

EmptyTable == [n \in {} |-> n]

\* A handler in progress: the fetches it started that have not ended, the rows
\* whose item was rejected, and whether it has responded.
Idle == [tool |-> "none", fetches |-> EmptyTable, rejected |-> {},
         answered |-> FALSE]

Tools == {"check_pipeline_status", "check_all_projects", "get_pipeline_logs"}

\* overtaken and replaced are history: a finished run of the pipeline was
\* recorded, or the pipeline registered again, while the fetch was in flight.
NewFetch(phase, row) ==
    [phase |-> phase, id |-> row.id, run |-> NoBuild,
     overtaken |-> FALSE, replaced |-> FALSE]

InFlight == {f \in Calls \X Rows : f[2] \in DOMAIN calls[f[1]].fetches}

Fetch(c, i) == calls[c].fetches[i]

Replaced(fetch) == [fetch EXCEPT !.replaced = TRUE]

Overtaken(fetch) == [fetch EXCEPT !.overtaken = TRUE]

\* The handlers, with Op applied to their fetches of the rows is.
Marked(handlers, is, Op(_)) ==
    [c \in Calls |-> [handlers[c] EXCEPT !.fetches =
        [i \in DOMAIN @ |-> IF i \in is THEN Op(@[i]) ELSE @[i]]]]

Settle_KeepsWaiting(c, i, rejected) ==
    [calls EXCEPT ![c].rejected = @ \cup rejected]

\* The item of row i is fulfilled, or rejected; a call that has responded is
\* over with its last fetch.
Settle(c, i, rejected) ==
    LET call == calls[c]
        rest == DOMAIN call.fetches \ {i}
    IN  [calls EXCEPT ![c] =
            IF call.answered /\ rest = {} THEN Idle
            ELSE [tool     |-> call.tool,
                  fetches  |-> [j \in rest |-> call.fetches[j]],
                  rejected |-> call.rejected \cup rejected,
                  answered |-> call.answered]]

\* register_azure_pipelines once the list is fetched (until then the call
\* changes nothing).  One transaction; rows of the group it does not name stay.
Register(reg) ==
    /\ azure_pipelines' = Stored(reg, Named(reg))
    /\ newest' = [g \in DOMAIN newest \cup {reg.group} |->
                     IF g = reg.group THEN reg ELSE newest[g]]
    /\ calls' = Marked(calls, Named(reg), Replaced)
    /\ UNCHANGED <<remote, pipeline_runs>>

RegisterFails_Partly(reg) ==
    /\ "statement" \in Faults
    /\ \E is \in SUBSET Named(reg) : azure_pipelines' = Stored(reg, is)
    /\ UNCHANGED <<remote, pipeline_runs, calls, newest>>

\* One of its statements fails and the transaction rolls back, or the list
\* cannot be fetched, or the key is missing.
RegisterFails(reg) == reg \in Registrations /\ UNCHANGED vars

\* An id that was not resolved is answered "unknown" at once; a token that the
\* present key does not decrypt rejects the item at once.
Resolved(is) == {i \in is : azure_pipelines[i].id # NoId}

Readable(is) == {i \in is : azure_pipelines[i].readable}

StartFetches(c, tool, is) ==
    LET asked == Readable(Resolved(is))
    IN  /\ calls[c].tool = "none"
        /\ is # {}
        /\ calls' = [calls EXCEPT ![c] =
               [tool     |-> tool,
                fetches  |-> [i \in asked |-> NewFetch("asking", azure_pipelines[i])],
                rejected |-> Resolved(is) \ asked,
                answered |-> FALSE]]
        /\ UNCHANGED <<remote, azure_pipelines, pipeline_runs, newest>>

\* With a group name or without.
CheckPipelineStatus(c) ==
    \E gs \in {{g} : g \in Groups} \cup {Groups} :
        StartFetches(c, "check_pipeline_status", RowsOf(gs))

CheckAllProjects(c) == StartFetches(c, "check_all_projects", RowsOf(Groups))

\* With a build id the handler goes straight to the logs.  A row without id or
\* with an unreadable token is an error at once.
GetPipelineLogs(c, i) ==
    /\ calls[c].tool = "none"
    /\ i \in Readable(Resolved(DOMAIN azure_pipelines))
    /\ \E phase \in {"asking", "logs"} :
          calls' = [calls EXCEPT ![c] =
              [tool     |-> "get_pipeline_logs",
               fetches  |-> [j \in {i} |-> NewFetch(phase, azure_pipelines[j])],
               rejected |-> {},
               answered |-> FALSE]]
    /\ UNCHANGED <<remote, azure_pipelines, pipeline_runs, newest>>

-------------------------------------------------------------------------------
(* getLatestRun *)

Returned(c, i, b) ==
    calls' = [calls EXCEPT ![c].fetches[i] =
                 [@ EXCEPT !.phase = "returned", !.run = b]]

\* Azure answers the attempt that succeeds with the latest build of the
\* definition; the handler runs on only later.  (Attempts that fail and the
\* sleeps between them change nothing: they are part of the wait.)
AzureAnswers(c, i) ==
    /\ <<c, i>> \in InFlight
    /\ Fetch(c, i).phase = "asking"
    /\ Returned(c, i, remote[Fetch(c, i).id])
    /\ UNCHANGED <<remote, azure_pipelines, pipeline_runs, newest>>

\* A timeout, an error that is not retried, or the third attempt that fails:
\* getLatestRun catches it and returns null.
FetchGivesUp(c, i) ==
    /\ <<c, i>> \in InFlight
    /\ Fetch(c, i).phase = "asking"
    /\ Returned(c, i, NoBuild)
    /\ UNCHANGED <<remote, azure_pipelines, pipeline_runs, newest>>

-------------------------------------------------------------------------------
(* The handlers go on *)

Ready(c, i) == <<c, i>> \in InFlight /\ Fetch(c, i).phase = "returned"

\* null: "No recent builds found"
ContinueWithout(c, i) ==
    /\ Ready(c, i)
    /\ Fetch(c, i).run = NoBuild
    /\ calls' = Settle(c, i, {})
    /\ UNCHANGED <<remote, azure_pipelines, pipeline_runs, newest>>

\* get_pipeline_logs goes on to the logs of the build, the others are done.
Continued(c, i) ==
    IF calls[c].tool = "get_pipeline_logs"
    THEN [calls EXCEPT ![c].fetches[i].phase = "logs"]
    ELSE Settle(c, i, {})

ContinueRecorded(c, i) ==
    LET run == Fetch(c, i).run
    IN  /\ Ready(c, i)
        /\ run # NoBuild
        /\ RecordPipelineRun(i, run, Fetch(c, i).id)
        /\ calls' = IF Finished(run) THEN Marked(Continued(c, i), {i}, Overtaken)
                                     ELSE Continued(c, i)
        /\ UNCHANGED <<remote, azure_pipelines, newest>>

\* The statement fails: the item of Promise.allSettled, or with Promise.all
\* the group, or the call of get_pipeline_logs, is rejected.
ContinueRefused(c, i) ==
    /\ "statement" \in Faults
    /\ Ready(c, i)
    /\ Fetch(c, i).run # NoBuild
    /\ calls' = Settle(c, i, {i})
    /\ UNCHANGED <<remote, azure_pipelines, pipeline_runs, newest>>

\* getPipelineLogs: the timeline, then up to five logs one after the other, each
\* replaced by a line of text when it fails; a failing timeline is an error.
LogsEnd(c, i) ==
    /\ <<c, i>> \in InFlight
    /\ Fetch(c, i).phase = "logs"
    /\ calls' = Settle(c, i, {})
    /\ UNCHANGED <<remote, azure_pipelines, pipeline_runs, newest>>

Waiting(c, g) == {i \in DOMAIN calls[c].fetches : i[1] = g}

GroupRejected(c, g) ==
    \E i \in calls[c].rejected : i[1] = g

Settled_NotIfRejected(c) ==
    DOMAIN calls[c].fetches = {} /\ calls[c].rejected = {}

Settled_Any(c) ==
    \/ DOMAIN calls[c].fetches = {}
    \/ calls[c].tool = "check_pipeline_status" /\ calls[c].rejected # {}

\* Promise.all of a group settles with its first rejection.
Settled(c) ==
    \A g \in Groups :
        \/ Waiting(c, g) = {}
        \/ calls[c].tool = "check_all_projects" /\ GroupRejected(c, g)

\* The handler responds; what it does not wait for goes on.
Respond(c) ==
    /\ calls[c].tool # "none"
    /\ ~ calls[c].answered
    /\ Settled(c)
    /\ calls' = [calls EXCEPT ![c] =
                    IF DOMAIN @.fetches = {} THEN Idle
                    ELSE [@ EXCEPT !.answered = TRUE]]
    /\ UNCHANGED <<remote, azure_pipelines, pipeline_runs, newest>>

\* The process ends and starts again, perhaps with a key it has not had before.
Restart ==
    /\ "restart" \in Faults
    /\ calls' = [c \in Calls |-> Idle]
    /\ \/ UNCHANGED azure_pipelines
       \/ azure_pipelines' = [i \in DOMAIN azure_pipelines |->
                                 WithoutKey(azure_pipelines[i])]
    /\ UNCHANGED <<remote, pipeline_runs, newest>>

-------------------------------------------------------------------------------
(* Specification *)

Init ==
    /\ remote = [d \in Definitions |-> NoBuild]
    /\ azure_pipelines = EmptyTable
    /\ pipeline_runs = EmptyTable
    /\ calls = [c \in Calls |-> Idle]
    /\ newest = EmptyTable

FetchStep(c, i) == AzureAnswers(c, i) \/ FetchGivesUp(c, i)

HandlerStep(c, i) ==
    \/ ContinueWithout(c, i)
    \/ ContinueRecorded(c, i)
    \/ ContinueRefused(c, i)
    \/ LogsEnd(c, i)

Next ==
    \/ \E d \in Definitions : BuildStarts(d) \/ BuildCompletes(d)
    \/ \E reg \in Registrations : Register(reg) \/ RegisterFails(reg)
    \/ Restart
    \/ \E c \in Calls :
        \/ CheckPipelineStatus(c)
        \/ CheckAllProjects(c)
        \/ Respond(c)
        \/ \E i \in Rows :
            \/ GetPipelineLogs(c, i)
            \/ FetchStep(c, i)
            \/ HandlerStep(c, i)

\* Requests end (fetchWithTimeout bounds the wait for an answer; the body that
\* follows is left to the runtime's own limit), and what is ready on the event
\* loop runs.
Fairness ==
    \A c \in Calls :
        WF_vars(Respond(c)) /\ \A i \in Rows :
            WF_vars(FetchStep(c, i)) /\ WF_vars(HandlerStep(c, i))

Spec == Init /\ [][Next]_vars /\ Fairness

-------------------------------------------------------------------------------
(* Properties *)

FetchType ==
    [phase: {"asking", "returned", "logs"}, id: Definitions, run: Build, overtaken: BOOLEAN, replaced: BOOLEAN]

\* Tables, calls and fetches have their types; a fetch in flight has an id that
\* its own project resolved, and is not rejected.
PipelinesTypeOK ==
    /\ remote \in [Definitions -> Build]
    /\ DOMAIN azure_pipelines \subseteq Rows
    /\ \A i \in DOMAIN azure_pipelines :
        \E s \in Sources, t \in BOOLEAN :
            azure_pipelines[i] = [source |-> s, id |-> IdOf(s, i[2]), readable |-> t]
    /\ pipeline_runs \in
          [DOMAIN pipeline_runs ->
              [status: RunStatuses, result: Results \cup {"none"}, from: Definitions]]
    /\ \A c \in Calls :
        /\ calls[c].tool \in Tools \cup {"none"}
        /\ calls[c].fetches \in [DOMAIN calls[c].fetches -> FetchType]
        /\ DOMAIN calls[c].fetches \subseteq Rows
        /\ calls[c].rejected \subseteq Rows \ DOMAIN calls[c].fetches
        /\ calls[c].answered => DOMAIN calls[c].fetches # {}

\* A group is never half registered: the pipelines its newest registration
\* named all have what that registration resolved, under one key, also when a
\* later registration of the group broke off in the middle.
RegistrationWhole ==
    \A g \in DOMAIN newest :
        /\ Named(newest[g]) \subseteq DOMAIN azure_pipelines
        /\ \A n \in newest[g].names :
            azure_pipelines[<<g, n>>] \in
                {Row(newest[g], n), WithoutKey(Row(newest[g], n))}
        /\ \A n, m \in newest[g].names :
            azure_pipelines[<<g, n>>].readable = azure_pipelines[<<g, m>>].readable

Current(i) ==
    IF i[1] \in DOMAIN newest /\ i[2] \in newest[i[1]].names
    THEN IdOf(newest[i[1]].source, i[2])
    ELSE azure_pipelines[i].id

\* Only overlapping calls can put something stale into pipeline_runs.  A build
\* that is recorded as completed goes back to in progress only if the answer
\* that does it was in flight when the completion was recorded (or the pipeline
\* moved to another project that numbers its builds alike), and a run of another
\* definition than the one last registered is recorded only if its fetch was in
\* flight when the pipeline was registered again.
StaleOnlyIfInFlight ==
    [][\A k \in DOMAIN pipeline_runs' :
          LET i == <<k[1], k[2]>>
              was == k \in DOMAIN pipeline_runs /\ Finished(pipeline_runs[k])
              changed == k \notin DOMAIN pipeline_runs \/ pipeline_runs[k] # pipeline_runs'[k]
          IN  changed =>
                \E c \in Calls :
                    /\ ContinueRecorded(c, i)
                    /\ was /\ ~ Finished(pipeline_runs'[k]) =>
                          \/ Fetch(c, i).overtaken
                          \/ pipeline_runs'[k].from # pipeline_runs[k].from
                    /\ pipeline_runs'[k].from # Current(i) => Fetch(c, i).replaced
      ]_vars

\* A call that has responded leaves fetches behind, which record later, only if
\* it is check_all_projects and reported their groups as errors.
LateOnlyAfterFailure ==
    \A c \in Calls :
        calls[c].answered =>
            /\ calls[c].tool = "check_all_projects"
            /\ \A i \in DOMAIN calls[c].fetches : GroupRejected(c, i[1])

\* Every call responds and all it started ends, whichever requests fail.
EveryPipelineCallEnds ==
    \A c \in Calls : calls[c].tool # "none" ~> calls[c].tool = "none"
===============================================================================
