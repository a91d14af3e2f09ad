-------------------------------- MODULE Monitor --------------------------------
(***************************************************************************)
(* The tool handlers that check servers (src/src/app.ts) over the tables:  *)
(* check_server, check_all and check_all_projects, any number of them at   *)
(* once, with registrations, unregistrations and alert settings between    *)
(* their steps.  A handler reads the servers it checks, starts all checks, *)
(* and awaits them; when a check returns, its record and the evaluation of *)
(* its alerts run without a break.  A SQLite statement may fail and the    *)
(* process may die inside recordHealthCheck.                               *)
(***************************************************************************)
EXTENDS Alerts

CONSTANTS
    Calls,          \* slots for tool calls in progress
    AllowStdio,     \* policy.allowStdio
    Faults          \* subset of {"crash", "statement"}: faults that may occur

ASSUME FaultAssumption == Faults \subseteq {"crash", "statement"}
ASSUME PolicyAssumption == AllowStdio \in BOOLEAN
ASSUME ErrorAssumption == "error" \in Statuses

VARIABLES
    calls,          \* call slot -> the handler in progress
    catching        \* checks of check_all whose catch block is to run (0 or 1)

vars == <<registryVars, calls, catching>>

Tools == {"check_server", "check_all", "check_all_projects"}

EmptyCall == [tool |-> "none", waiting |-> EmptyTable, answers |-> EmptyTable]

\* The event loop is free: no synchronous section is half done.
Free == catching = {}

InFlight == {i \in Calls \X Names : i[2] \in DOMAIN calls[i[1]].waiting}

-------------------------------------------------------------------------------
(* Starting a call: a synchronous read of the servers to check *)

\* Bound of the model: an id is left for every check in flight, two for one of
\* check_all (which may insert twice), so that none is stuck for want of an id.
IdsLeftFor(tool, ns) ==
    LET twice == {i \in InFlight : calls[i[1]].tool = "check_all"}
        more  == IF tool = "check_all" THEN 2 * Cardinality(ns) ELSE Cardinality(ns)
    IN  lastId + Cardinality(InFlight) + Cardinality(twice) + more <= MaxId

Start(c, tool, ns) ==
    /\ Free
    /\ calls[c].tool = "none"
    /\ IdsLeftFor(tool, ns)
    /\ calls' = [calls EXCEPT
                    ![c] = [tool |-> tool,
                            waiting |-> [n \in ns |-> servers[n].config],
                            answers |-> EmptyTable]]
    /\ UNCHANGED <<registryVars, catching>>

StartCheckServer(c, n) == n \in Registered /\ Start(c, "check_server", {n})

\* The tags filter of check_all selects servers by what they were registered
\* with: any of them.  Without tags it is all of them.
StartCheckAll(c) ==
    \E tagged \in SUBSET Registered : Start(c, "check_all", tagged)

StartCheckAllProjects(c) == Start(c, "check_all_projects", Registered)

-------------------------------------------------------------------------------
(* A check returns *)

\* checkServerWithPolicy, with the configuration read when the call started
Outcomes(config) ==
    IF config.type = "stdio" /\ ~ AllowStdio THEN {"error"} ELSE Statuses

Answer(c, n, answer) ==
    LET call == calls[c]
    IN  calls' = [calls EXCEPT ![c] =
            [tool    |-> call.tool,
             waiting |-> [m \in DOMAIN call.waiting \ {n} |-> call.waiting[m]],
             answers |-> [m \in DOMAIN call.answers \cup {n} |->
                             IF m = n THEN answer ELSE call.answers[m]]]]

Rejected == [status |-> "rejected", alerts |-> {}]

Reported(s, findings) == [status |-> s, alerts |-> findings]

\* evaluateAlertState on the tables as recorded; check_all_projects does not
\* evaluate alerts.
AlertsAfter(c, n, s) ==
    IF calls[c].tool = "check_all_projects" THEN {}
    ELSE Findings(n, s, UptimeWindow)'

CheckRecorded(c, n, s) ==
    /\ Free
    /\ <<c, n>> \in InFlight
    /\ s \in Outcomes(calls[c].waiting[n])
    /\ RecordHealthCheck(n, s)
    /\ Answer(c, n, Reported(s, AlertsAfter(c, n, s)))
    /\ UNCHANGED catching

RefusedAnswer_Kept(c) == Reported("up", {})

\* An item of Promise.allSettled that rejects is an "error" entry of
\* check_all (its catch block is refused too), an entry without status of
\* check_all_projects, and the failure of the whole check_server call.
RefusedAnswer(c) ==
    IF calls[c].tool = "check_all" THEN Reported("error", {}) ELSE Rejected

CheckRefused_Unanswered(c, n) ==
    Free /\ <<c, n>> \in InFlight /\ n \notin Registered /\ UNCHANGED vars

\* The server was unregistered meanwhile: the foreign key refuses the row.
CheckRefused(c, n) ==
    /\ Free
    /\ <<c, n>> \in InFlight
    /\ n \notin Registered
    /\ Answer(c, n, RefusedAnswer(c))
    /\ UNCHANGED <<registryVars, catching>>

-------------------------------------------------------------------------------
(* A statement of recordHealthCheck fails (disk full, database locked) *)

InsertFails(n) == n \in Registered /\ UNCHANGED registryVars

BrokenRecord_UpdateFirst(n, s) ==
    /\ n \in Registered
    /\ Update(n, s)
    /\ UNCHANGED <<health_checks, alerts, lastId, now>>

\* The tables after a record one of whose three statements failed.
BrokenRecord(n, s) ==
    \/ InsertFails(n)
    \/ StopAfterInsert(n, s)
    \/ StopAfterUpdate(n, s)

\* check_all catches and records the failure as a check of its own; the other
\* handlers let the exception through.
CheckFailed(c, n, s) ==
    /\ "statement" \in Faults
    /\ Free
    /\ <<c, n>> \in InFlight
    /\ s \in Outcomes(calls[c].waiting[n])
    /\ BrokenRecord(n, s)
    /\ IF calls[c].tool = "check_all"
       THEN catching' = {<<c, n>>} /\ UNCHANGED calls
       ELSE Answer(c, n, Rejected) /\ UNCHANGED catching

CatchRecorded(c, n) ==
    /\ <<c, n>> \in catching
    /\ RecordHealthCheck(n, "error")
    /\ Answer(c, n, Reported("error", Findings(n, "error", UptimeWindow)'))
    /\ catching' = {}

CatchFailed(c, n) ==
    /\ <<c, n>> \in catching
    /\ BrokenRecord(n, "error")
    /\ Answer(c, n, Reported("error", {}))
    /\ catching' = {}

-------------------------------------------------------------------------------
(* End of a call, other tools, crashes *)

\* Promise.allSettled has every answer: the handler responds.
Respond(c) ==
    /\ Free
    /\ calls[c].tool # "none"
    /\ DOMAIN calls[c].waiting = {}
    /\ calls' = [calls EXCEPT ![c] = EmptyCall]
    /\ UNCHANGED <<registryVars, catching>>

\* The tools that only write tables, and the clock.
TableStep ==
    /\ Free
    /\ UNCHANGED <<calls, catching>>
    /\ \/ Tick
       \/ \E n \in Names :
           \/ \E cfg \in Configs : RegisterServer(n, cfg)
           \/ UnregisterServer(n)
           \/ \E a \in AlertConfigs : SetAlert(n, a)

\* The process dies, between two steps or within a record, and starts again.
Crash ==
    /\ "crash" \in Faults
    /\ \/ UNCHANGED registryVars
       \/ /\ Free
          /\ \E c \in Calls, n \in Names, s \in Statuses :
              /\ <<c, n>> \in InFlight
              /\ s \in Outcomes(calls[c].waiting[n])
              /\ StopAfterInsert(n, s) \/ StopAfterUpdate(n, s)
       \/ \E c \in Calls, n \in Names :
              /\ <<c, n>> \in catching
              /\ StopAfterInsert(n, "error") \/ StopAfterUpdate(n, "error")
    /\ calls' = [c \in Calls |-> EmptyCall]
    /\ catching' = {}

Init ==
    /\ RegistryInit
    /\ calls = [c \in Calls |-> EmptyCall]
    /\ catching = {}

CheckReturns(c) ==
    \E n \in Names :
        \/ CheckRefused(c, n)
        \/ \E s \in Statuses : CheckRecorded(c, n, s) \/ CheckFailed(c, n, s)
        \/ CatchRecorded(c, n)
        \/ CatchFailed(c, n)

Next ==
    \/ TableStep
    \/ Crash
    \/ \E c \in Calls :
        \/ \E n \in Names : StartCheckServer(c, n)
        \/ StartCheckAll(c)
        \/ StartCheckAllProjects(c)
        \/ CheckReturns(c)
        \/ Respond(c)

\* Every check ends (checker.ts bounds it by its timeout), and what is ready
\* to run on the event loop runs although catch blocks of other calls come
\* between (its queues are first in, first out), hence strong fairness.
\* Nothing else is sure to happen.
Fairness ==
    \A c \in Calls :
        SF_vars(Respond(c)) /\ \A n \in Names :
            SF_vars(\/ CheckRefused(c, n)
                    \/ CatchRecorded(c, n)
                    \/ CatchFailed(c, n)
                    \/ \E s \in Statuses :
                          CheckRecorded(c, n, s) \/ CheckFailed(c, n, s))

Spec == Init /\ [][Next]_vars /\ Fairness

-------------------------------------------------------------------------------
(* Properties *)

AnswerType ==
    [status: Statuses \cup {"rejected"},
     alerts: SUBSET {"down", "uptime", "consecutive_failures"}]

\* The tables have their types, a server a call waits for has no answer yet,
\* and at most one catch block is to run, of a check_all that still waits.
MonitorTypeOK ==
    /\ TypeOK
    /\ \A c \in Calls :
        /\ calls[c].tool \in Tools \cup {"none"}
        /\ calls[c].waiting \in [DOMAIN calls[c].waiting -> Configs]
        /\ calls[c].answers \in [DOMAIN calls[c].answers -> AnswerType]
        /\ DOMAIN calls[c].waiting \cap DOMAIN calls[c].answers = {}
    /\ catching \subseteq {i \in InFlight : calls[i[1]].tool = "check_all"}
    /\ Cardinality(catching) <= 1

\* The answer for n arrives in this step.
Answered(c, n) == <<c, n>> \in InFlight /\ n \in DOMAIN calls[c].answers'

\* RegistrySpec (module Registry) is a property of this specification too: the
\* handlers, their concurrency, failing statements and crashes change the
\* tables only as the functions of registry.ts and their prefixes do.

\* A server is reported with the status of a check only if that very check is
\* in the tables when it is reported: the newest row of its history, in
\* last_status, and with the streak an "up" ends.  Concurrent calls,
\* unregistrations and failing statements may not leave an answer "up" that
\* the tables do not know.
UpMeansRecorded ==
    [][\A c \in Calls, n \in Names :
          Answered(c, n) /\ calls[c].answers'[n].status = "up" =>
              /\ n \in Registered'
              /\ servers'[n].last_status = "up"
              /\ servers'[n].consecutive_failures = 0
              /\ \E r \in History(n)' :
                    r.id = lastId' /\ r.status = "up" /\ lastId' = lastId + 1
      ]_vars

Threshold(n) == EffectiveAlertConfig(n).consecutive_failures_before_alert

\* No "up" check is among the newest k of the history.
NoUpInLast(h, k) ==
    \A u \in Ups(h) : Cardinality({q \in h : Before(u, q)}) >= k

\* The check of n was recorded in full and its alerts were evaluated.
Evaluated(c, n) ==
    /\ calls[c].tool # "check_all_projects"
    /\ CatchRecorded(c, n) \/ \E s \in Statuses : CheckRecorded(c, n, s)

\* README.md: "Alert after this many non-up results in a row".  A finding
\* "consecutive_failures" is never contradicted by an "up" check among the
\* newest checks of the threshold, and is not missed when the history shows
\* that many non-up checks; however the checks of several calls interleave
\* and whatever pruning removed.  (Unless a record of the server was broken
\* off since the last "up".)
AlertMeansRun ==
    [][\A c \in Calls, n \in Names :
          LET findings == calls[c].answers'[n].alerts
              streak == Streak(History(n)')
          IN  Evaluated(c, n) /\ n \notin miscounted' =>
                  /\ "consecutive_failures" \in findings =>
                        NoUpInLast(History(n)', Threshold(n)')
                  /\ Cardinality(streak) >= Threshold(n)' =>
                        "consecutive_failures" \in findings
      ]_vars

\* The same promise without the exception for broken records.
AlertMeansRunAlways ==
    [][\A c \in Calls, n \in Names :
          /\ Answered(c, n)
          /\ "consecutive_failures" \in calls[c].answers'[n].alerts
          => NoUpInLast(History(n)', Threshold(n)')
      ]_vars

\* The share of "up" checks in the window, not rounded, is below the threshold
\* raised by so many halves of a percent.
UptimeUnder(n, halves) ==
    LET h == {r \in History(n) : now - UptimeWindow < r.timestamp}
    IN  200 * Grain * Cardinality(Ups(h))
            < (2 * EffectiveAlertConfig(n).min_uptime_percent + halves * Grain)
                  * Cardinality(h)

UptimeBelow(n) == UptimeUnder(n, 0)

\* README.md: "Alert when the selected uptime window drops below this value".
UptimeAlertNotMissed ==
    [][\A c \in Calls, n \in Names :
          /\ Answered(c, n)
          /\ calls[c].tool = "check_server"
          /\ calls[c].answers'[n].status # "rejected"
          /\ UptimeBelow(n)'
          => "uptime" \in calls[c].answers'[n].alerts
      ]_vars

WholeThreshold(n) ==
    \E w \in 0 .. 100 : EffectiveAlertConfig(n).min_uptime_percent = Grain * w

\* The code rounds the uptime to a whole percent and compares that with a
\* threshold that need not be whole.  It is wrong by less than the rounding,
\* in both directions: an alert means an uptime less than half a percent above
\* the threshold, below it when the threshold is a whole number, and an uptime
\* half a percent below is always reported; whatever expires, is pruned or is
\* recorded by other calls while the check is awaited.
UptimeAlertNear ==
    [][\A c \in Calls, n \in Names :
          LET alerted == "uptime" \in calls[c].answers'[n].alerts
          IN  Evaluated(c, n) =>
                  /\ alerted => UptimeUnder(n, 1)'
                  /\ alerted /\ WholeThreshold(n)' => UptimeBelow(n)'
                  /\ UptimeUnder(n, -1)' => alerted
      ]_vars

\* The number of servers the summary of a finished call reports as up.
SummaryUp(c) ==
    LET Statused(S) == {n \in DOMAIN calls[c].answers : calls[c].answers[n].status \in S}
    IN  IF calls[c].tool = "check_all_projects"
        THEN Cardinality(DOMAIN calls[c].answers)
                 - Cardinality(Statused(Statuses \ {"up"}))
        ELSE Cardinality(Statused({"up"}))

\* The summary counts as up exactly the servers whose answer is "up".
SummaryCountsUp ==
    \A c \in Calls :
        calls[c].tool # "none" /\ DOMAIN calls[c].waiting = {} =>
            SummaryUp(c) = Cardinality({n \in DOMAIN calls[c].answers :
                                            calls[c].answers[n].status = "up"})

\* Every call is answered (or dies with its process), whatever is
\* unregistered meanwhile and whichever statements fail.
EveryCallEnds == \A c \in Calls : calls[c].tool # "none" ~> calls[c].tool = "none"
===============================================================================
