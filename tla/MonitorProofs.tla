----------------------------- MODULE MonitorProofs -----------------------------
(***************************************************************************)
(* Proofs about Monitor, for any servers, calls, thresholds and faults.    *)
(* The handlers implement the specification of the tables, so what         *)
(* RegistryProofs shows of the tables holds under any interleaving of      *)
(* them; with it, what they answer is what the tables hold.                *)
(***************************************************************************)
EXTENDS Monitor, RegistryProofs

-------------------------------------------------------------------------------
(* The handlers implement the tables *)

LEMMA BrokenRecordImplements ==
    ASSUME NEW n \in Names, NEW s \in Statuses, BrokenRecord(n, s)
    PROVE  [RegistryNext]_registryVars
    BY DEF BrokenRecord, InsertFails, RegistryNext

LEMMA CrashImplements == Crash => [RegistryNext]_registryVars
<1> SUFFICES ASSUME Crash PROVE [RegistryNext]_registryVars
    OBVIOUS
<1>1. CASE UNCHANGED registryVars
    BY <1>1
<1>2. ASSUME NEW n \in Names, NEW s \in Statuses,
             StopAfterInsert(n, s) \/ StopAfterUpdate(n, s)
      PROVE  [RegistryNext]_registryVars
    BY <1>2 DEF RegistryNext
<1> QED BY <1>1, <1>2, ErrorAssumption DEF Crash, ErrorAssumption

LEMMA TableStepImplements == TableStep => RegistryNext
    BY DEF TableStep, RegistryNext

\* An answer comes with one record, a broken record, or no change of the tables.
LEMMA CheckReturnsImplements ==
    ASSUME NEW c \in Calls, CheckReturns(c) PROVE [RegistryNext]_registryVars
<1>1. PICK n \in Names :
          \/ CheckRefused(c, n)
          \/ \E s \in Statuses : CheckRecorded(c, n, s) \/ CheckFailed(c, n, s)
          \/ CatchRecorded(c, n)
          \/ CatchFailed(c, n)
    BY DEF CheckReturns
<1>2. CASE CheckRefused(c, n)
    BY <1>2 DEF CheckRefused
<1>3. ASSUME NEW s \in Statuses, CheckRecorded(c, n, s)
      PROVE  [RegistryNext]_registryVars
    BY <1>3 DEF CheckRecorded, RegistryNext
<1>4. ASSUME NEW s \in Statuses, CheckFailed(c, n, s)
      PROVE  [RegistryNext]_registryVars
    BY <1>4, BrokenRecordImplements DEF CheckFailed
<1>5. CASE CatchRecorded(c, n)
    BY <1>5, ErrorAssumption DEF CatchRecorded, RegistryNext, ErrorAssumption
<1>6. CASE CatchFailed(c, n)
    BY <1>6, ErrorAssumption, BrokenRecordImplements DEF CatchFailed, ErrorAssumption
<1> QED BY <1>1, <1>2, <1>3, <1>4, <1>5, <1>6

LEMMA StepImplements == [Next]_vars => [RegistryNext]_registryVars
<1> SUFFICES ASSUME [Next]_vars PROVE [RegistryNext]_registryVars
    OBVIOUS
<1>1. CASE TableStep
    BY <1>1, TableStepImplements
<1>2. CASE Crash
    BY <1>2, CrashImplements
<1>3. ASSUME NEW c \in Calls,
             \/ \E n \in Names : StartCheckServer(c, n)
             \/ StartCheckAll(c)
             \/ StartCheckAllProjects(c)
             \/ Respond(c)
      PROVE  [RegistryNext]_registryVars
    BY <1>3 DEF StartCheckServer, StartCheckAll, StartCheckAllProjects, Start, Respond
<1>4. ASSUME NEW c \in Calls, CheckReturns(c) PROVE [RegistryNext]_registryVars
    BY <1>4, CheckReturnsImplements
<1>5. CASE UNCHANGED vars
    BY <1>5 DEF vars
<1> QED BY <1>1, <1>2, <1>3, <1>4, <1>5 DEF Next

\* Whatever handlers run at once, fail or die in the middle of a record, the
\* tables change only as the functions of registry.ts and their prefixes do.
THEOREM ImplementsRegistry == Spec => RegistrySpec
<1>1. Init => RegistryInit
    BY DEF Init
<1> QED BY <1>1, StepImplements, PTL DEF Spec, RegistrySpec

\* Hence the invariant of the tables, and all it implies, under the handlers.
THEOREM TablesSound ==
    Spec => [](TypeOK /\ ReferentialIntegrity /\ LatestAgrees /\ StreakAgrees)
<1>1. IInv => TypeOK /\ ReferentialIntegrity /\ LatestAgrees /\ StreakAgrees
    BY DEF IInv
<1> QED BY <1>1, ImplementsRegistry, Invariance, PTL

-------------------------------------------------------------------------------
(* The calls in progress *)

Waitings == UNION {[D -> Configs] : D \in SUBSET Names}

Reports == UNION {[D -> AnswerType] : D \in SUBSET Names}

CallType == [tool: Tools \cup {"none"}, waiting: Waitings, answers: Reports]

CallsOK ==
    /\ calls \in [Calls -> CallType]
    /\ \A c \in Calls : DOMAIN calls[c].waiting \cap DOMAIN calls[c].answers = {}
    /\ catching \subseteq {i \in InFlight : calls[i[1]].tool = "check_all"}
    /\ \A i, j \in catching : i = j

LEMMA EmptyCallType == EmptyCall \in CallType
<1>1. EmptyTable \in Waitings /\ EmptyTable \in Reports
    <2>1. EmptyTable \in [{} -> Configs] /\ EmptyTable \in [{} -> AnswerType]
        BY DEF EmptyTable
    <2> QED BY <2>1 DEF Waitings, Reports
<1> QED BY <1>1 DEF EmptyCall, CallType

\* The answer to one check: the call stops waiting for it, and nothing else
\* of any call changes.
LEMMA AnswerEffect ==
    ASSUME CallsOK, NEW c \in Calls, NEW n \in Names, <<c, n>> \in InFlight,
           NEW answer \in AnswerType, Answer(c, n, answer)
    PROVE  /\ calls' \in [Calls -> CallType]
           /\ \A d \in Calls :
                DOMAIN calls'[d].waiting \cap DOMAIN calls'[d].answers = {}
           /\ calls'[c].answers[n] = answer
           /\ \A d \in Calls, m \in Names : <<d, m>> # <<c, n>> =>
                /\ m \in DOMAIN calls'[d].answers <=> m \in DOMAIN calls[d].answers
                /\ m \in DOMAIN calls'[d].waiting <=> m \in DOMAIN calls[d].waiting
                /\ m \in DOMAIN calls[d].answers =>
                       calls'[d].answers[m] = calls[d].answers[m]
           /\ n \notin DOMAIN calls'[c].waiting /\ n \in DOMAIN calls'[c].answers
           /\ \A d \in Calls : calls'[d].tool = calls[d].tool
<1> DEFINE w == [m \in DOMAIN calls[c].waiting \ {n} |-> calls[c].waiting[m]]
           a == [m \in DOMAIN calls[c].answers \cup {n} |->
                    IF m = n THEN answer ELSE calls[c].answers[m]]
           new == [tool |-> calls[c].tool, waiting |-> w, answers |-> a]
<1>1. /\ calls \in [Calls -> CallType] /\ calls[c] \in CallType
      /\ calls[c].waiting \in Waitings /\ calls[c].answers \in Reports
      /\ calls[c].tool \in Tools \cup {"none"}
    BY DEF CallsOK, CallType
<1>2. calls' = [calls EXCEPT ![c] = new]
    BY DEF Answer
<1>3. w \in Waitings
    <2>1. PICK D \in SUBSET Names : calls[c].waiting \in [D -> Configs]
        BY <1>1 DEF Waitings
    <2>2. w \in [D \ {n} -> Configs]
        BY <2>1
    <2> QED BY <2>1, <2>2 DEF Waitings
<1>4. a \in Reports
    <2>1. PICK D \in SUBSET Names : calls[c].answers \in [D -> AnswerType]
        BY <1>1 DEF Reports
    <2>2. a \in [D \cup {n} -> AnswerType]
        BY <2>1
    <2> QED BY <2>1, <2>2 DEF Reports
<1>5. new \in CallType
    BY <1>1, <1>3, <1>4 DEF CallType
<1>6. calls' \in [Calls -> CallType]
    BY <1>1, <1>2, <1>5
<1>7. calls'[c] = new /\ \A d \in Calls \ {c} : calls'[d] = calls[d]
    BY <1>1, <1>2
<1>8. /\ DOMAIN new.waiting = DOMAIN calls[c].waiting \ {n}
      /\ DOMAIN new.answers = DOMAIN calls[c].answers \cup {n}
      /\ new.answers[n] = answer
      /\ \A m \in DOMAIN calls[c].answers \ {n} : new.answers[m] = calls[c].answers[m]
      /\ new.tool = calls[c].tool
    OBVIOUS
<1> HIDE DEF new
<1> QED BY <1>6, <1>7, <1>8 DEF CallsOK

\* A call that starts anew waits for servers of the tables and has no answer.
LEMMA StartType ==
    ASSUME NEW tool \in Tools, NEW ns \in SUBSET Names, NEW config \in [ns -> Configs]
    PROVE  [tool |-> tool, waiting |-> config, answers |-> EmptyTable] \in CallType
<1>1. EmptyTable \in Reports
    BY EmptyCallType DEF EmptyCall, CallType
<1>2. config \in Waitings
    BY DEF Waitings
<1> QED BY <1>1, <1>2 DEF CallType

LEMMA AlertsType ==
    ASSUME NEW c \in Calls, NEW n \in Names, NEW s \in Statuses
    PROVE  /\ Reported(s, AlertsAfter(c, n, s)) \in AnswerType
           /\ Reported(s, Findings(n, s, UptimeWindow)') \in AnswerType
           /\ Reported(s, {}) \in AnswerType
           /\ Rejected \in AnswerType
<1>1. Findings(n, s, UptimeWindow)' \in SUBSET {"down", "uptime", "consecutive_failures"}
    BY DEF Findings
<1>2. AlertsAfter(c, n, s) \in SUBSET {"down", "uptime", "consecutive_failures"}
    BY <1>1 DEF AlertsAfter
<1> QED BY <1>1, <1>2 DEF Reported, Rejected, AnswerType

LEMMA RefusedType == \A c \in Calls : RefusedAnswer(c) \in AnswerType
    BY AlertsType, ErrorAssumption
    DEF RefusedAnswer, Reported, Rejected, AnswerType, ErrorAssumption

LEMMA AnswerKeepsCallsOK ==
    ASSUME CallsOK, NEW c \in Calls, NEW n \in Names, <<c, n>> \in InFlight,
           NEW answer \in AnswerType, Answer(c, n, answer), catching' = {}
    PROVE  CallsOK'
    BY AnswerEffect DEF CallsOK

LEMMA StartKeepsCallsOK ==
    ASSUME CallsOK, TypeOK, NEW c \in Calls, NEW tool \in Tools,
           NEW ns \in SUBSET Registered, Start(c, tool, ns)
    PROVE  CallsOK'
<1> DEFINE config == [n \in ns |-> servers[n].config]
           new == [tool |-> tool, waiting |-> config, answers |-> EmptyTable]
<1>1. ns \subseteq Names /\ config \in [ns -> Configs]
    BY DEF TypeOK, ServerRow
<1>2. new \in CallType
    BY <1>1, StartType
<1>3. calls' = [calls EXCEPT ![c] = new] /\ catching = {} /\ catching' = {}
    BY DEF Start, Free
<1>4. calls' \in [Calls -> CallType]
    BY <1>2, <1>3 DEF CallsOK
<1>5. DOMAIN new.waiting \cap DOMAIN new.answers = {}
    BY DEF EmptyTable
<1>6. calls'[c] = new /\ \A d \in Calls \ {c} : calls'[d] = calls[d]
    BY <1>3 DEF CallsOK
<1> HIDE DEF new
<1> QED BY <1>3, <1>4, <1>5, <1>6 DEF CallsOK

LEMMA CheckReturnsKeepsCallsOK ==
    ASSUME CallsOK, NEW c \in Calls, NEW n \in Names,
           \/ CheckRefused(c, n)
           \/ \E s \in Statuses : CheckRecorded(c, n, s) \/ CheckFailed(c, n, s)
           \/ CatchRecorded(c, n)
           \/ CatchFailed(c, n)
    PROVE  CallsOK'
<1> USE AlertsType, ErrorAssumption DEF ErrorAssumption
<1>1. CASE CheckRefused(c, n)
    BY <1>1, RefusedType, AnswerKeepsCallsOK DEF CheckRefused, Free
<1>2. ASSUME NEW s \in Statuses, CheckRecorded(c, n, s) PROVE CallsOK'
    BY <1>2, AnswerKeepsCallsOK DEF CheckRecorded, Free
<1>3. ASSUME NEW s \in Statuses, CheckFailed(c, n, s) PROVE CallsOK'
    <2>1. <<c, n>> \in InFlight /\ catching = {}
        BY <1>3 DEF CheckFailed, Free
    <2>2. CASE calls[c].tool = "check_all"
        <3>1. catching' = {<<c, n>>} /\ UNCHANGED calls
            BY <1>3, <2>2 DEF CheckFailed
        <3>2. InFlight' = InFlight
            BY <3>1 DEF InFlight
        <3> QED BY <2>1, <2>2, <3>1, <3>2 DEF CallsOK
    <2>3. CASE calls[c].tool # "check_all"
        BY <1>3, <2>1, <2>3, AnswerKeepsCallsOK DEF CheckFailed
    <2> QED BY <2>2, <2>3
<1>4. CASE CatchRecorded(c, n)
    <2>1. <<c, n>> \in InFlight
        BY <1>4 DEF CatchRecorded, CallsOK
    <2> QED BY <1>4, <2>1, AnswerKeepsCallsOK DEF CatchRecorded
<1>5. CASE CatchFailed(c, n)
    <2>1. <<c, n>> \in InFlight
        BY <1>5 DEF CatchFailed, CallsOK
    <2> QED BY <1>5, <2>1, AnswerKeepsCallsOK DEF CatchFailed
<1> QED BY <1>1, <1>2, <1>3, <1>4, <1>5

LEMMA CallsOKKept == TypeOK /\ CallsOK /\ [Next]_vars => CallsOK'
<1> SUFFICES ASSUME TypeOK, CallsOK, [Next]_vars PROVE CallsOK'
    OBVIOUS
<1>1. CASE TableStep \/ UNCHANGED vars
    <2>1. UNCHANGED <<calls, catching>>
        BY <1>1 DEF TableStep, vars
    <2> QED BY <2>1 DEF CallsOK, InFlight
<1>2. CASE Crash
    <2>1. calls' = [c \in Calls |-> EmptyCall] /\ catching' = {}
        BY <1>2 DEF Crash
    <2> QED BY <2>1, EmptyCallType DEF CallsOK, EmptyCall, EmptyTable
<1>3. ASSUME NEW c \in Calls, Respond(c) PROVE CallsOK'
    <2>1. calls' = [calls EXCEPT ![c] = EmptyCall] /\ catching' = {}
        BY <1>3 DEF Respond, Free
    <2> QED BY <2>1, EmptyCallType DEF CallsOK, EmptyCall, EmptyTable
<1>4. ASSUME NEW c \in Calls,
             \/ \E n \in Names : StartCheckServer(c, n)
             \/ StartCheckAll(c)
             \/ StartCheckAllProjects(c)
      PROVE  CallsOK'
    BY <1>4, StartKeepsCallsOK
    DEF StartCheckServer, StartCheckAll, StartCheckAllProjects, Tools
<1>5. ASSUME NEW c \in Calls, CheckReturns(c) PROVE CallsOK'
    BY <1>5, CheckReturnsKeepsCallsOK DEF CheckReturns
<1> QED BY <1>1, <1>2, <1>3, <1>4, <1>5 DEF Next

LEMMA InitCallsOK == Init => CallsOK
    BY EmptyCallType DEF Init, CallsOK, EmptyCall, EmptyTable

\* The invariant of the tables and of the calls.
THEOREM CallsInvariance == Spec => [](IInv /\ CallsOK)
<1>1. Init => IInv /\ CallsOK
    BY InitIInv, InitCallsOK DEF Init
<1>2. IInv /\ CallsOK /\ [Next]_vars => (IInv /\ CallsOK)'
    <2>1. IInv /\ [Next]_vars => IInv'
        BY StepImplements, NextKeepsIInv
    <2>2. IInv /\ CallsOK /\ [Next]_vars => CallsOK'
        BY CallsOKKept DEF IInv
    <2> QED BY <2>1, <2>2
<1> QED BY <1>1, <1>2, PTL DEF Spec

\* Tables and calls keep their types; no call waits for an answer it has.
THEOREM MonitorTypeCorrect == Spec => []MonitorTypeOK
<1>1. IInv /\ CallsOK => MonitorTypeOK
    <2> SUFFICES ASSUME IInv, CallsOK PROVE MonitorTypeOK
        OBVIOUS
    <2>1. ASSUME NEW c \in Calls
          PROVE  /\ calls[c].tool \in Tools \cup {"none"}
                 /\ calls[c].waiting \in [DOMAIN calls[c].waiting -> Configs]
                 /\ calls[c].answers \in [DOMAIN calls[c].answers -> AnswerType]
        BY DEF CallsOK, CallType, Waitings, Reports
    <2>2. Cardinality(catching) <= 1
        <3>1. CASE catching = {}
            BY <3>1, FS_EmptySet
        <3>2. CASE catching # {}
            <4>1. PICK i \in catching : catching = {i}
                BY <3>2 DEF CallsOK
            <4>2. Cardinality({i}) = 1
                BY FS_Singleton
            <4> QED BY <4>1, <4>2
        <3> QED BY <3>1, <3>2
    <2> QED BY <2>1, <2>2 DEF MonitorTypeOK, CallsOK, IInv
<1> QED BY <1>1, CallsInvariance, PTL

-------------------------------------------------------------------------------
(* What is answered is what the tables hold *)

\* The steps that answer the check of n in call c.
Answers(c, n) ==
    \/ CheckRefused(c, n)
    \/ \E s \in Statuses : CheckRecorded(c, n, s)
    \/ \E s \in Statuses : CheckFailed(c, n, s) /\ Answer(c, n, Rejected)
    \/ CatchRecorded(c, n)
    \/ CatchFailed(c, n)

\* A step of another check, call or tool answers nothing of this one.
LEMMA OnlyAnswersAnswer ==
    ASSUME CallsOK, [Next]_vars, NEW c \in Calls, NEW n \in Names, Answered(c, n)
    PROVE  Answers(c, n)
<1>1. /\ <<c, n>> \in InFlight /\ n \in DOMAIN calls'[c].answers
      /\ n \notin DOMAIN calls[c].answers
    BY DEF Answered, InFlight, CallsOK
<1>2. ASSUME UNCHANGED calls PROVE FALSE
    BY <1>1, <1>2
<1>3. ASSUME NEW d \in Calls, calls'[d].answers = EmptyTable,
             c # d => calls'[c] = calls[c]
      PROVE  FALSE
    BY <1>1, <1>3 DEF EmptyTable
<1>4. ASSUME NEW d \in Calls, NEW m \in Names, <<d, m>> \in InFlight,
             NEW answer \in AnswerType, Answer(d, m, answer)
      PROVE  d = c /\ m = n
    <2>1. <<c, n>> # <<d, m>> =>
            (n \in DOMAIN calls'[c].answers <=> n \in DOMAIN calls[c].answers)
        BY <1>4, AnswerEffect
    <2> QED BY <1>1, <2>1
<1>5. CASE TableStep \/ UNCHANGED vars
    BY <1>2, <1>5 DEF TableStep, vars
<1>6. CASE Crash
    BY <1>3, <1>6 DEF Crash, EmptyCall
<1>7. ASSUME NEW d \in Calls,
             \/ Respond(d)
             \/ \E tool, ns : Start(d, tool, ns)
      PROVE  FALSE
    <2>1. calls'[d].answers = EmptyTable /\ (c # d => calls'[c] = calls[c])
        <3>1. CASE Respond(d)
            BY <3>1 DEF Respond, EmptyCall, CallsOK
        <3>2. ASSUME NEW tool, NEW ns, Start(d, tool, ns)
              PROVE  /\ calls'[d].answers = EmptyTable
                     /\ c # d => calls'[c] = calls[c]
            BY <3>2 DEF Start, CallsOK
        <3> QED BY <1>7, <3>1, <3>2
    <2> QED BY <1>3, <2>1
<1>8. ASSUME NEW d \in Calls, CheckReturns(d) PROVE Answers(c, n)
    <2> USE AlertsType, RefusedType, ErrorAssumption DEF ErrorAssumption
    <2>1. PICK m \in Names :
              \/ CheckRefused(d, m)
              \/ \E s \in Statuses : CheckRecorded(d, m, s) \/ CheckFailed(d, m, s)
              \/ CatchRecorded(d, m)
              \/ CatchFailed(d, m)
        BY <1>8 DEF CheckReturns
    <2>2. CASE CheckRefused(d, m)
        <3>1. d = c /\ m = n
            BY <1>4, <2>2 DEF CheckRefused
        <3> QED BY <2>2, <3>1 DEF Answers
    <2>3. ASSUME NEW s \in Statuses, CheckRecorded(d, m, s) PROVE Answers(c, n)
        <3>1. d = c /\ m = n
            BY <1>4, <2>3 DEF CheckRecorded
        <3> QED BY <2>3, <3>1 DEF Answers
    <2>4. ASSUME NEW s \in Statuses, CheckFailed(d, m, s) PROVE Answers(c, n)
        <3>1. Answer(d, m, Rejected)
            BY <1>2, <2>4 DEF CheckFailed
        <3>2. d = c /\ m = n
            BY <1>4, <2>4, <3>1 DEF CheckFailed
        <3> QED BY <2>4, <3>1, <3>2 DEF Answers
    <2>5. CASE CatchRecorded(d, m)
        <3>1. <<d, m>> \in InFlight
            BY <2>5 DEF CatchRecorded, CallsOK
        <3>2. d = c /\ m = n
            BY <1>4, <2>5, <3>1 DEF CatchRecorded
        <3> QED BY <2>5, <3>2 DEF Answers
    <2>6. CASE CatchFailed(d, m)
        <3>1. <<d, m>> \in InFlight
            BY <2>6 DEF CatchFailed, CallsOK
        <3>2. d = c /\ m = n
            BY <1>4, <2>6, <3>1 DEF CatchFailed
        <3> QED BY <2>6, <3>2 DEF Answers
    <2> QED BY <2>1, <2>2, <2>3, <2>4, <2>5, <2>6
<1> QED
    BY <1>5, <1>6, <1>7, <1>8
    DEF Next, StartCheckServer, StartCheckAll, StartCheckAllProjects

\* The row a completed record inserts survives the pruning of that record, as
\* the newest of its server.
LEMMA RecordKeepsNewRow ==
    ASSUME IInv, NEW n \in Names, NEW s \in Statuses, RecordHealthCheck(n, s)
    PROVE  LET x == NewCheck(n, s)
           IN  /\ x \in History(n)' /\ x.id = lastId' /\ x.status = s
               /\ lastId' = lastId + 1
               /\ n \in Registered'
               /\ servers'[n].last_status = s
               /\ servers'[n].consecutive_failures = NextFailures(n, s)
               /\ \A r \in History(n)' : r = x \/ Before(r, x)
<1> DEFINE x == NewCheck(n, s)
           rows == health_checks \cup {x}
<1>1. /\ n \in Registered /\ lastId' = lastId + 1 /\ UNCHANGED now
      /\ servers' = [servers EXCEPT ![n] = Recorded(n, s)]
      /\ health_checks' = Pruned(rows)
    BY DEF RecordHealthCheck, Insert, Update
<1>2. x \in CheckRow /\ \A r \in health_checks : Before(r, x)
    BY <1>1, InsertAppends
<1>3. x.id = lastId + 1 /\ x.status = s /\ x.timestamp = now /\ x.server_name = n
    BY DEF NewCheck
<1>4. x \notin Expired(rows)
    BY <1>3, RetentionAssumption DEF Expired, RetentionAssumption, IInv, TypeOK
<1>5. x \in health_checks' /\ health_checks' \subseteq rows
    BY <1>1, <1>4 DEF Pruned
<1>6. x \in History(n)' /\ \A r \in History(n)' : r = x \/ Before(r, x)
    BY <1>2, <1>3, <1>5 DEF History, HistoryIn
<1>7. n \in Registered' /\ servers'[n] = Recorded(n, s)
    BY <1>1 DEF IInv, TypeOK, Registered
<1>8. /\ Recorded(n, s).last_status = s
      /\ Recorded(n, s).consecutive_failures = NextFailures(n, s)
    BY <1>1 DEF Recorded, IInv, TypeOK, ServerRow
<1> QED BY <1>1, <1>3, <1>6, <1>7, <1>8

LEMMA StepUpMeansRecorded ==
    ASSUME IInv, CallsOK, [Next]_vars, NEW c \in Calls, NEW n \in Names,
           Answered(c, n), calls'[c].answers[n].status = "up"
    PROVE  /\ n \in Registered'
           /\ servers'[n].last_status = "up"
           /\ servers'[n].consecutive_failures = 0
           /\ \E r \in History(n)' :
                 r.id = lastId' /\ r.status = "up" /\ lastId' = lastId + 1
<1> USE AlertsType, RefusedType, ErrorAssumption DEF ErrorAssumption
<1>1. Answers(c, n) /\ <<c, n>> \in InFlight
    BY OnlyAnswersAnswer DEF Answered
<1>2. ASSUME NEW answer \in AnswerType, Answer(c, n, answer)
      PROVE  answer.status = "up"
    BY <1>1, <1>2, AnswerEffect
<1>3. CASE CheckRefused(c, n)
    BY <1>2, <1>3 DEF CheckRefused, RefusedAnswer, Reported, Rejected
<1>4. ASSUME NEW s \in Statuses, CheckRecorded(c, n, s) PROVE s = "up"
    BY <1>2, <1>4 DEF CheckRecorded, Reported
<1>5. ~ Answer(c, n, Rejected)
    BY <1>2 DEF Rejected
<1>6. CASE CatchRecorded(c, n)
    BY <1>2, <1>6 DEF CatchRecorded, Reported
<1>7. CASE CatchFailed(c, n)
    BY <1>2, <1>7 DEF CatchFailed, Reported
<1>8. CASE CheckRecorded(c, n, "up") /\ "up" \in Statuses
    <2>1. RecordHealthCheck(n, "up")
        BY <1>8 DEF CheckRecorded
    <2> QED BY <1>8, <2>1, RecordKeepsNewRow DEF NextFailures
<1> QED BY <1>1, <1>3, <1>4, <1>5, <1>6, <1>7, <1>8 DEF Answers

\* An answer "up" is the check just recorded, whatever else is in progress.
THEOREM AnswersSound == Spec => UpMeansRecorded
<1>1. IInv /\ CallsOK /\ [Next]_vars =>
        [\A c \in Calls, n \in Names :
            Answered(c, n) /\ calls[c].answers'[n].status = "up" =>
                /\ n \in Registered'
                /\ servers'[n].last_status = "up"
                /\ servers'[n].consecutive_failures = 0
                /\ \E r \in History(n)' :
                      r.id = lastId' /\ r.status = "up" /\ lastId' = lastId + 1
        ]_vars
    BY StepUpMeansRecorded
<1> QED BY <1>1, CallsInvariance, PTL DEF Spec, UpMeansRecorded

-------------------------------------------------------------------------------
(* The streak alert means a streak *)

PositiveThresholds ==
    \A n \in Names : Threshold(n) \in Nat /\ Threshold(n) >= 1

\* The effective threshold of a server is a positive number.
LEMMA ThresholdPositive == TypeOK => PositiveThresholds
<1> SUFFICES ASSUME TypeOK, NEW n \in Names
             PROVE  Threshold(n) \in Nat /\ Threshold(n) >= 1
    BY DEF PositiveThresholds
<1>1. CASE n \in DOMAIN alerts
    <2>1. alerts[n] \in AlertConfigs
        BY <1>1 DEF TypeOK
    <2> QED BY <1>1, <2>1, AlertConfigAssumption
            DEF AlertConfigAssumption, Threshold, EffectiveAlertConfig
<1>2. CASE n \notin DOMAIN alerts
    BY <1>2 DEF Threshold, EffectiveAlertConfig
<1> QED BY <1>1, <1>2

StreaksAreRuns ==
    \A n \in Registered \ miscounted, k \in Nat :
        /\ servers[n].consecutive_failures >= k => NoUpInLast(History(n), k)
        /\ Cardinality(Streak(History(n))) >= k =>
              servers[n].consecutive_failures >= k

\* The number of non-up checks the tables count since the last "up" check is
\* the number of checks the history shows after any "up" check, or less.
LEMMA StreakIsRun == IInv => StreaksAreRuns
<1> SUFFICES ASSUME IInv, NEW n \in Registered \ miscounted, NEW k \in Nat
             PROVE  /\ servers[n].consecutive_failures >= k =>
                          NoUpInLast(History(n), k)
                    /\ Cardinality(Streak(History(n))) >= k =>
                          servers[n].consecutive_failures >= k
    BY DEF StreaksAreRuns
<1> DEFINE h == History(n)
           failures == servers[n].consecutive_failures
<1>1. /\ h \subseteq health_checks /\ h \subseteq CheckRow
      /\ UniqueIds(h) /\ IsFiniteSet(health_checks)
    BY DEF IInv, TypeOK, IdsFollowTime, UniqueIds, History, HistoryIn
<1>2. IsFiniteSet(h) /\ IsFiniteSet(Streak(h))
    BY <1>1, FS_Subset DEF Streak
<1>3. failures \in Nat /\ Cardinality(Streak(h)) \in Nat
    BY <1>2, FS_CardinalityType DEF IInv, TypeOK, ServerRow
<1>4. StreakCounted(failures, h)
    BY DEF IInv, StreakAgrees
<1>5. Cardinality(Streak(h)) >= k => failures >= k
    BY <1>3, <1>4 DEF StreakCounted
<1>6. ASSUME failures >= k, NEW u \in Ups(h)
      PROVE  Cardinality({q \in h : Before(u, q)}) >= k
    <2> DEFINE after == {q \in h : Before(u, q)}
    <2>1. u \in h /\ u.status = "up"
        BY DEF Ups
    <2>2. ASSUME NEW r \in Streak(h) PROVE r \in after
        <3>1. r \in h /\ r.status # "up" /\ ~ Before(r, u)
            BY <2>1 DEF Streak
        <3>2. r.id # u.id
            BY <1>1, <2>1, <3>1 DEF UniqueIds
        <3> QED BY <1>1, <2>1, <3>1, <3>2, BeforeOrders
    <2>3. IsFiniteSet(after)
        BY <1>2, FS_Subset
    <2>4. Cardinality(Streak(h)) <= Cardinality(after)
        BY <2>2, <2>3, FS_Subset
    <2>5. Cardinality(after) \in Nat
        BY <2>3, FS_CardinalityType
    <2>6. failures = Cardinality(Streak(h))
        BY <1>4, <2>1 DEF StreakCounted
    <2> QED BY <1>3, <1>6, <2>4, <2>5, <2>6
<1> QED BY <1>5, <1>6 DEF NoUpInLast

LEMMA RunsAfterStep == IInv' => PositiveThresholds' /\ StreaksAreRuns'
<1>1. IInv => PositiveThresholds /\ StreaksAreRuns
    BY ThresholdPositive, StreakIsRun DEF IInv
<1> QED BY <1>1, PTL

\* What evaluateAlertState finds right after recording a check of n.
LEMMA FindingMeansRun ==
    ASSUME IInv, IInv', NEW n \in Names, NEW s \in Statuses,
           RecordHealthCheck(n, s), n \notin miscounted'
    PROVE  /\ "consecutive_failures" \in Findings(n, s, UptimeWindow)' =>
                 NoUpInLast(History(n)', Threshold(n)')
           /\ Cardinality(Streak(History(n)')) >= Threshold(n)' =>
                 "consecutive_failures" \in Findings(n, s, UptimeWindow)'
<1>1. /\ n \in Registered'
      /\ \E x \in History(n)' :
            x.status = s /\ \A r \in History(n)' : r = x \/ Before(r, x)
    BY RecordKeepsNewRow
<1>2. Threshold(n)' \in Nat /\ Threshold(n)' >= 1
    BY RunsAfterStep DEF PositiveThresholds
<1>3. /\ servers'[n].consecutive_failures >= Threshold(n)' =>
            NoUpInLast(History(n)', Threshold(n)')
      /\ Cardinality(Streak(History(n)')) >= Threshold(n)' =>
            servers'[n].consecutive_failures >= Threshold(n)'
    BY <1>1, <1>2, RunsAfterStep DEF StreaksAreRuns
<1>4. "consecutive_failures" \in Findings(n, s, UptimeWindow)' <=>
        s # "up" /\ servers'[n].consecutive_failures >= Threshold(n)'
    BY <1>1 DEF Findings, ConsecutiveFinding, Threshold
<1>5. ASSUME s = "up" PROVE Cardinality(Streak(History(n)')) = 0
    <2>1. Streak(History(n)') = {}
        BY <1>1, <1>5 DEF Streak
    <2> QED BY <2>1, FS_EmptySet
<1> QED BY <1>2, <1>3, <1>4, <1>5

\* The answer of a check that was recorded and evaluated carries the findings
\* of the tables as they are after the record.
LEMMA EvaluatedAnswer ==
    ASSUME IInv, CallsOK, NEW c \in Calls, NEW n \in Names, Evaluated(c, n)
    PROVE  \E s \in Statuses :
              /\ RecordHealthCheck(n, s)
              /\ calls'[c].answers[n].alerts = Findings(n, s, UptimeWindow)'
<1>1. PICK s \in Statuses :
        /\ <<c, n>> \in InFlight
        /\ RecordHealthCheck(n, s)
        /\ Answer(c, n, Reported(s, Findings(n, s, UptimeWindow)'))
    <2>1. CASE CatchRecorded(c, n)
        BY <2>1, ErrorAssumption DEF CatchRecorded, CallsOK, ErrorAssumption
    <2>2. ASSUME NEW s \in Statuses, CheckRecorded(c, n, s)
          PROVE  /\ <<c, n>> \in InFlight
                 /\ RecordHealthCheck(n, s)
                 /\ Answer(c, n, Reported(s, Findings(n, s, UptimeWindow)'))
        BY <2>2 DEF CheckRecorded, Evaluated, AlertsAfter
    <2> QED BY <2>1, <2>2 DEF Evaluated
<1>2. calls'[c].answers[n] = Reported(s, Findings(n, s, UptimeWindow)')
    BY <1>1, AlertsType, AnswerEffect
<1> QED BY <1>1, <1>2 DEF Reported

LEMMA StepAlertMeansRun ==
    ASSUME IInv, CallsOK, [Next]_vars, NEW c \in Calls, NEW n \in Names,
           Evaluated(c, n), n \notin miscounted'
    PROVE  /\ "consecutive_failures" \in calls'[c].answers[n].alerts =>
                 NoUpInLast(History(n)', Threshold(n)')
           /\ Cardinality(Streak(History(n)')) >= Threshold(n)' =>
                 "consecutive_failures" \in calls'[c].answers[n].alerts
<1>1. IInv'
    BY StepImplements, NextKeepsIInv
<1>2. PICK s \in Statuses :
        /\ RecordHealthCheck(n, s)
        /\ calls'[c].answers[n].alerts = Findings(n, s, UptimeWindow)'
    BY EvaluatedAnswer
<1> QED BY <1>1, <1>2, FindingMeansRun

\* The alert "consecutive_failures" is raised exactly for a run of failures:
\* never with an "up" check among the newest checks of the threshold, always
\* when the history shows that many non-up checks since the last "up".
THEOREM AlertsSound == Spec => AlertMeansRun
<1>1. IInv /\ CallsOK /\ [Next]_vars =>
        [\A c \in Calls, n \in Names :
            LET findings == calls[c].answers'[n].alerts
                streak == Streak(History(n)')
            IN  Evaluated(c, n) /\ n \notin miscounted' =>
                    /\ "consecutive_failures" \in findings =>
                          NoUpInLast(History(n)', Threshold(n)')
                    /\ Cardinality(streak) >= Threshold(n)' =>
                          "consecutive_failures" \in findings
        ]_vars
    BY StepAlertMeansRun
<1> QED BY <1>1, CallsInvariance, PTL DEF Spec, AlertMeansRun

-------------------------------------------------------------------------------
(* The uptime alert *)

\* Math.round((up / total) * 100), in the three comparisons the property makes:
\* q is the rounded percentage, least the threshold in units of 1/grain percent.
LEMMA RoundingFacts ==
    ASSUME NEW ups \in Nat, NEW total \in Nat, total > 0,
           NEW q \in Int, q = (200 * ups + total) \div (2 * total)
    PROVE  /\ q >= 0
           /\ 200 * ups < (2 * total) * q + total
           /\ (2 * total) * q <= 200 * ups + total
<1>1. /\ 2 * total \in Nat \ {0} /\ 200 * ups + total \in Nat
      /\ 200 * ups + total < (2 * total) * q + 2 * total
      /\ (2 * total) * q <= 200 * ups + total
      /\ q >= 0
    OBVIOUS
<1>2. (2 * total) * q \in Int
    BY <1>1
<1> QED BY <1>1, <1>2

LEMMA Scaled ==
    ASSUME NEW a \in Int, NEW b \in Int, NEW grain \in Nat \ {0}
    PROVE  /\ a < b => grain * a < grain * b
           /\ a <= b => grain * a <= grain * b
OBVIOUS

\* The threshold is a multiple of a percent and above q: so by a percent.
LEMMA WholeAbove ==
    ASSUME NEW q \in Int, NEW least \in Nat, NEW grain \in Nat \ {0},
           grain * q < least, \E w \in 0 .. 100 : least = grain * w
    PROVE  grain * (q + 1) <= least
<1>1. PICK w \in 0 .. 100 : least = grain * w
    OBVIOUS
<1>2. q < w
    <2>1. w <= q => grain * w <= grain * q
        BY Scaled
    <2>2. grain * q \in Int /\ grain * w \in Int
        OBVIOUS
    <2> QED BY <1>1, <2>1, <2>2
<1>3. grain * (q + 1) <= grain * w
    BY <1>2, Scaled
<1> QED BY <1>1, <1>3

LEMMA RoundedAlert ==
    ASSUME NEW ups \in Nat, NEW total \in Nat, total > 0,
           NEW least \in Nat, NEW grain \in Nat \ {0},
           NEW q \in Int, q = (200 * ups + total) \div (2 * total)
    PROVE  /\ grain * q < least => 200 * grain * ups < (2 * least + 1 * grain) * total
           /\ grain * q < least /\ (\E w \in 0 .. 100 : least = grain * w) =>
                  200 * grain * ups < (2 * least + 0 * grain) * total
           /\ 200 * grain * ups < (2 * least + (-1) * grain) * total => grain * q < least
<1>1. /\ 200 * ups < (2 * total) * q + total
      /\ (2 * total) * q <= 200 * ups + total
    BY RoundingFacts
<1> DEFINE gu == 200 * grain * ups
           gt == grain * total
           gqt == (2 * total) * (grain * q)
           lt == (2 * total) * least
<1>2. gu \in Int /\ gt \in Int /\ gqt \in Int /\ lt \in Int /\ gt > 0
    OBVIOUS
<1>3. gu < gqt + gt
    <2>1. grain * (200 * ups) < grain * ((2 * total) * q + total)
        BY <1>1, Scaled
    <2>2. grain * (200 * ups) = gu /\ grain * ((2 * total) * q + total) = gqt + gt
        OBVIOUS
    <2> QED BY <2>1, <2>2
<1>4. gqt <= gu + gt
    <2>1. grain * ((2 * total) * q) <= grain * (200 * ups + total)
        BY <1>1, Scaled
    <2>2. grain * ((2 * total) * q) = gqt /\ grain * (200 * ups + total) = gu + gt
        OBVIOUS
    <2> QED BY <2>1, <2>2
<1>5. /\ (2 * least + 1 * grain) * total = lt + gt
      /\ (2 * least + 0 * grain) * total = lt
      /\ (2 * least + (-1) * grain) * total = lt - gt
    OBVIOUS
<1>6. ASSUME grain * q < least PROVE gqt <= lt
    <2>1. 2 * total \in Nat \ {0} /\ grain * q <= least /\ grain * q \in Int
        BY <1>6
    <2> QED BY <2>1, Scaled
<1>7. ASSUME grain * q < least, \E w \in 0 .. 100 : least = grain * w
      PROVE  gqt + 2 * gt <= lt
    <2>1. 2 * total \in Nat \ {0} /\ grain * (q + 1) <= least /\ grain * (q + 1) \in Int
        BY <1>7, WholeAbove
    <2>2. (2 * total) * (grain * (q + 1)) <= lt
        BY <2>1, Scaled
    <2>3. (2 * total) * (grain * (q + 1)) = gqt + 2 * gt
        OBVIOUS
    <2> QED BY <2>2, <2>3
<1>8. ASSUME ~(grain * q < least) PROVE lt <= gqt
    <2>1. 2 * total \in Nat \ {0} /\ least <= grain * q /\ grain * q \in Int
        BY <1>8
    <2> QED BY <2>1, Scaled
<1> HIDE DEF gu, gt, gqt, lt
<1>9. /\ grain * q < least => gu < lt + gt
      /\ grain * q < least /\ (\E w \in 0 .. 100 : least = grain * w) => gu < lt
      /\ gu < lt - gt => grain * q < least
    BY <1>2, <1>3, <1>4, <1>6, <1>7, <1>8
<1> QED BY <1>5, <1>9 DEF gu

\* What the property says of an alert that is raised exactly when alerted.
UptimeNear(n, alerted) ==
    /\ alerted => UptimeUnder(n, 1)
    /\ alerted /\ WholeThreshold(n) => UptimeBelow(n)
    /\ UptimeUnder(n, -1) => alerted

UptimeFindingsNear == \A n \in Registered : UptimeNear(n, UptimeFinding(n, UptimeWindow))

\* evaluateAlertState is wrong about the uptime by less than the rounding.
LEMMA UptimeFindingNear == IInv => UptimeFindingsNear
<1> SUFFICES ASSUME IInv, NEW n \in Registered
             PROVE  UptimeNear(n, UptimeFinding(n, UptimeWindow))
    BY DEF UptimeFindingsNear
<1> DEFINE h == InWindow(n, UptimeWindow)
           least == EffectiveAlertConfig(n).min_uptime_percent
           ups == Cardinality(Ups(h))
           total == Cardinality(h)
<1>1. h = {r \in History(n) : now - UptimeWindow < r.timestamp} /\ h \subseteq health_checks
    <2>1. \A r \in History(n) : r.timestamp \in Int
        BY DEF IInv, TypeOK, History, HistoryIn, CheckRow
    <2> QED BY <2>1, WindowAssumption
            DEF InWindow, History, HistoryIn, IInv, TypeOK, WindowAssumption
<1>2. IsFiniteSet(h) /\ IsFiniteSet(Ups(h))
    BY <1>1, FS_Subset DEF IInv, Ups
<1>3. total \in Nat /\ ups \in Nat /\ (h # {} <=> total > 0)
    <2> HIDE DEF h
    <2>1. total \in Nat /\ ups \in Nat /\ (total = 0 <=> h = {})
        BY <1>2, FS_CardinalityType, FS_EmptySet
    <2> HIDE DEF total
    <2> QED BY <2>1
<1>4. least \in Nat /\ Grain \in Nat \ {0}
    BY AlertConfigAssumption, GrainAssumption
    DEF AlertConfigAssumption, GrainAssumption, EffectiveAlertConfig, IInv, TypeOK
<1>5. /\ \A k \in {-1, 0, 1} :
            UptimeUnder(n, k) <=> 200 * Grain * ups < (2 * least + k * Grain) * total
      /\ WholeThreshold(n) <=> (\E w \in 0 .. 100 : least = Grain * w)
    BY <1>1 DEF UptimeUnder, WholeThreshold
<1>6. CASE h = {}
    <2>1. ~ UptimeFinding(n, UptimeWindow)
        BY <1>6 DEF UptimeFinding
    <2>2. ~ UptimeUnder(n, -1)
        <3>1. Ups(h) = {} /\ total = 0
            BY <1>6, FS_EmptySet DEF Ups
        <3>2. ups = 0
            BY <3>1, FS_EmptySet
        <3> HIDE DEF ups, total, least
        <3>3. ~(200 * Grain * ups < (2 * least + (-1) * Grain) * total)
            BY <1>4, <3>1, <3>2
        <3> QED BY <1>5, <3>3
    <2> QED BY <2>1, <2>2 DEF UptimeNear
<1>7. CASE h # {}
    <2> DEFINE q == (200 * ups + total) \div (2 * total)
    <2>1. UptimeFinding(n, UptimeWindow) <=> Grain * q < least
        BY <1>7 DEF UptimeFinding, UptimePercent
    <2>2. q \in Int
        <3> HIDE DEF ups, total
        <3> QED BY <1>3, <1>7
    <2>3. /\ Grain * q < least => 200 * Grain * ups < (2 * least + 1 * Grain) * total
          /\ Grain * q < least /\ (\E w \in 0 .. 100 : least = Grain * w) =>
                 200 * Grain * ups < (2 * least + 0 * Grain) * total
          /\ 200 * Grain * ups < (2 * least + (-1) * Grain) * total => Grain * q < least
        <3>1. total > 0
            BY <1>3, <1>7
        <3> HIDE DEF ups, total, least, h
        <3>2. q = (200 * ups + total) \div (2 * total)
            OBVIOUS
        <3> HIDE DEF q
        <3> QED BY ONLY <1>3, <1>4, <2>2, <3>1, <3>2, RoundedAlert
    <2> HIDE DEF ups, total, least, h, q
    <2> QED BY <1>5, <2>1, <2>3 DEF UptimeNear, UptimeBelow
<1> QED BY <1>6, <1>7

LEMMA UptimeNearAfterStep == IInv' => UptimeFindingsNear'
BY UptimeFindingNear, PTL

\* The findings of an answer are those of the tables right after the record.
LEMMA StepUptimeNear ==
    ASSUME IInv, CallsOK, [Next]_vars, NEW c \in Calls, NEW n \in Names, Evaluated(c, n)
    PROVE  LET alerted == "uptime" \in calls'[c].answers[n].alerts
           IN  /\ alerted => UptimeUnder(n, 1)'
               /\ alerted /\ WholeThreshold(n)' => UptimeBelow(n)'
               /\ UptimeUnder(n, -1)' => alerted
<1>1. PICK s \in Statuses :
        /\ RecordHealthCheck(n, s)
        /\ calls'[c].answers[n].alerts = Findings(n, s, UptimeWindow)'
    BY EvaluatedAnswer
<1>2. n \in Registered'
    BY <1>1, RecordKeepsNewRow
<1>3. "uptime" \in calls'[c].answers[n].alerts <=> UptimeFinding(n, UptimeWindow)'
    BY <1>1 DEF Findings
<1>4. UptimeFindingsNear'
    BY StepImplements, NextKeepsIInv, UptimeNearAfterStep
<1> QED BY <1>2, <1>3, <1>4 DEF UptimeFindingsNear, UptimeNear

\* How far the uptime alert can be trusted although the uptime is rounded and
\* the threshold need not be whole: for any thresholds, window and history it
\* is wrong by less than half a percent, and has no false alarm when the
\* threshold is a whole number.
THEOREM UptimeAlertsNear == Spec => UptimeAlertNear
<1>1. IInv /\ CallsOK /\ [Next]_vars =>
        [\A c \in Calls, n \in Names :
            LET alerted == "uptime" \in calls[c].answers'[n].alerts
            IN  Evaluated(c, n) =>
                    /\ alerted => UptimeUnder(n, 1)'
                    /\ alerted /\ WholeThreshold(n)' => UptimeBelow(n)'
                    /\ UptimeUnder(n, -1)' => alerted
        ]_vars
    BY StepUptimeNear
<1> QED BY <1>1, CallsInvariance, PTL DEF Spec, UptimeAlertNear

-------------------------------------------------------------------------------
(* Calls answer for the servers they were started for, and count them *)

\* A call in progress keeps its tool and its servers, and what it has answered.
CallGoesOn(c) ==
    /\ calls'[c].tool = calls[c].tool
    /\ DOMAIN calls'[c].waiting \subseteq DOMAIN calls[c].waiting
    /\ DOMAIN calls'[c].waiting \cup DOMAIN calls'[c].answers
           = DOMAIN calls[c].waiting \cup DOMAIN calls[c].answers
    /\ \A n \in DOMAIN calls[c].answers :
           n \in DOMAIN calls'[c].answers /\ calls'[c].answers[n] = calls[c].answers[n]

LEMMA AnswerGoesOn ==
    ASSUME CallsOK, NEW c \in Calls, NEW n \in Names, <<c, n>> \in InFlight,
           NEW answer \in AnswerType, Answer(c, n, answer), NEW d \in Calls
    PROVE  CallGoesOn(d)
<1>1. /\ calls[d] \in CallType /\ calls'[d] \in CallType
      /\ n \in DOMAIN calls[c].waiting
    BY AnswerEffect DEF CallsOK, InFlight
<1>2. /\ DOMAIN calls[d].waiting \subseteq Names /\ DOMAIN calls[d].answers \subseteq Names
      /\ DOMAIN calls'[d].waiting \subseteq Names /\ DOMAIN calls'[d].answers \subseteq Names
    BY <1>1 DEF CallType, Waitings, Reports
<1>3. DOMAIN calls[c].waiting \cap DOMAIN calls[c].answers = {}
    BY DEF CallsOK
<1>4. /\ calls'[d].tool = calls[d].tool
      /\ \A m \in Names : <<d, m>> # <<c, n>> =>
           /\ m \in DOMAIN calls'[d].answers <=> m \in DOMAIN calls[d].answers
           /\ m \in DOMAIN calls'[d].waiting <=> m \in DOMAIN calls[d].waiting
           /\ m \in DOMAIN calls[d].answers =>
                  calls'[d].answers[m] = calls[d].answers[m]
      /\ n \notin DOMAIN calls'[c].waiting /\ n \in DOMAIN calls'[c].answers
    BY AnswerEffect
<1>5. CASE d = c
    BY <1>1, <1>2, <1>3, <1>4, <1>5 DEF CallGoesOn
<1>6. CASE d # c
    BY <1>2, <1>4, <1>6 DEF CallGoesOn
<1> QED BY <1>5, <1>6

LEMMA CheckReturnsGoesOn ==
    ASSUME CallsOK, NEW c \in Calls, CheckReturns(c), NEW d \in Calls
    PROVE  CallGoesOn(d)
<1> USE AlertsType, ErrorAssumption DEF ErrorAssumption
<1>1. PICK n \in Names :
          \/ CheckRefused(c, n)
          \/ \E s \in Statuses : CheckRecorded(c, n, s) \/ CheckFailed(c, n, s)
          \/ CatchRecorded(c, n)
          \/ CatchFailed(c, n)
    BY DEF CheckReturns
<1>2. UNCHANGED calls => CallGoesOn(d)
    BY DEF CallGoesOn
<1>3. CASE CheckRefused(c, n)
    BY <1>3, RefusedType, AnswerGoesOn DEF CheckRefused
<1>4. ASSUME NEW s \in Statuses, CheckRecorded(c, n, s) PROVE CallGoesOn(d)
    BY <1>4, AnswerGoesOn DEF CheckRecorded
<1>5. ASSUME NEW s \in Statuses, CheckFailed(c, n, s) PROVE CallGoesOn(d)
    BY <1>2, <1>5, AnswerGoesOn DEF CheckFailed
<1>6. CASE CatchRecorded(c, n)
    <2>1. <<c, n>> \in InFlight
        BY <1>6 DEF CatchRecorded, CallsOK
    <2> QED BY <1>6, <2>1, AnswerGoesOn DEF CatchRecorded
<1>7. CASE CatchFailed(c, n)
    <2>1. <<c, n>> \in InFlight
        BY <1>7 DEF CatchFailed, CallsOK
    <2> QED BY <1>7, <2>1, AnswerGoesOn DEF CatchFailed
<1> QED BY <1>1, <1>3, <1>4, <1>5, <1>6, <1>7

\* Otherwise a call starts, for registered servers, or ends.
Starts(c) ==
    /\ calls[c].tool = "none"
    /\ DOMAIN calls'[c].waiting \subseteq Registered
    /\ calls'[c].answers = EmptyTable

LEMMA StepOfCall ==
    ASSUME CallsOK, [Next]_vars, NEW c \in Calls
    PROVE  CallGoesOn(c) \/ Starts(c) \/ calls'[c] = EmptyCall
<1>1. CASE TableStep \/ UNCHANGED vars
    BY <1>1 DEF TableStep, vars, CallGoesOn
<1>2. CASE Crash
    BY <1>2 DEF Crash
<1>3. ASSUME NEW d \in Calls, CheckReturns(d) PROVE CallGoesOn(c)
    BY <1>3, CheckReturnsGoesOn
<1>4. ASSUME NEW d \in Calls, NEW tool \in Tools, NEW ns \in SUBSET Registered,
             Start(d, tool, ns)
      PROVE  CallGoesOn(c) \/ Starts(c)
    <2> DEFINE new == [tool |-> tool, waiting |-> [n \in ns |-> servers[n].config],
                       answers |-> EmptyTable]
    <2>1. calls' = [calls EXCEPT ![d] = new] /\ calls[d].tool = "none"
        BY <1>4 DEF Start
    <2>2. DOMAIN new.waiting = ns /\ new.answers = EmptyTable
        OBVIOUS
    <2> HIDE DEF new
    <2>3. IF c = d THEN calls'[c] = new ELSE calls'[c] = calls[c]
        BY <2>1 DEF CallsOK
    <2> QED BY <2>1, <2>2, <2>3 DEF CallGoesOn, Starts
<1>5. ASSUME NEW d \in Calls, Respond(d) PROVE CallGoesOn(c) \/ calls'[c] = EmptyCall
    <2>1. calls' = [calls EXCEPT ![d] = EmptyCall]
        BY <1>5 DEF Respond
    <2>2. IF c = d THEN calls'[c] = EmptyCall ELSE calls'[c] = calls[c]
        BY <2>1 DEF CallsOK
    <2> QED BY <2>2 DEF CallGoesOn
<1>6. ASSUME NEW d \in Calls,
             \/ \E n \in Names : StartCheckServer(d, n)
             \/ StartCheckAll(d)
             \/ StartCheckAllProjects(d)
      PROVE  CallGoesOn(c) \/ Starts(c)
    BY <1>4, <1>6 DEF StartCheckServer, StartCheckAll, StartCheckAllProjects, Tools
<1> QED BY <1>1, <1>2, <1>3, <1>5, <1>6 DEF Next

LEMMA StepGoesOn ==
    ASSUME CallsOK, [Next]_vars, NEW c \in Calls,
           calls[c].tool # "none", calls'[c].tool # "none"
    PROVE  CallGoesOn(c)
<1>1. calls'[c] # EmptyCall
    BY DEF EmptyCall
<1> QED BY <1>1, StepOfCall DEF Starts

\* Promise.allSettled of the handlers: a call answers once for each server it
\* was started for and for no other, whatever is registered or unregistered,
\* and whatever fails, while it waits.
THEOREM CallsAnswerWhole ==
    Spec => [][\A c \in Calls :
                  calls[c].tool # "none" /\ calls'[c].tool # "none" => CallGoesOn(c)
              ]_vars
<1>1. IInv /\ CallsOK /\ [Next]_vars =>
        [\A c \in Calls :
            calls[c].tool # "none" /\ calls'[c].tool # "none" => CallGoesOn(c)
        ]_vars
    BY StepGoesOn
<1> QED BY <1>1, CallsInvariance, PTL DEF Spec

\* Only finitely many servers are registered, waited for or answered.
FinitelyMany ==
    /\ IsFiniteSet(Registered)
    /\ \A c \in Calls :
          IsFiniteSet(DOMAIN calls[c].waiting) /\ IsFiniteSet(DOMAIN calls[c].answers)

LEMMA ServersStayFinite ==
    IsFiniteSet(Registered) /\ [RegistryNext]_registryVars => IsFiniteSet(Registered)'
<1> SUFFICES ASSUME IsFiniteSet(Registered), [RegistryNext]_registryVars
             PROVE  IsFiniteSet(Registered')
    OBVIOUS
<1>1. ASSUME NEW n \in Names, NEW c \in Configs, RegisterServer(n, c)
      PROVE  IsFiniteSet(Registered')
    <2>1. Registered' = Registered \cup {n}
        BY <1>1 DEF RegisterServer, Registered
    <2> QED BY <2>1, FS_AddElement
<1>2. ASSUME NEW n \in Names, UnregisterServer(n) PROVE IsFiniteSet(Registered')
    <2>1. Registered' = Registered \ {n}
        BY <1>2 DEF UnregisterServer, Registered
    <2> QED BY <2>1, FS_RemoveElement
<1>3. ASSUME Registered' = Registered PROVE IsFiniteSet(Registered')
    BY <1>3
<1>4. ASSUME NEW n \in Names, NEW s \in Statuses, Update(n, s)
      PROVE  Registered' = Registered
    BY <1>4 DEF Update, Registered
<1>5. CASE UNCHANGED registryVars \/ Tick
    BY <1>3, <1>5 DEF registryVars, Tick, Registered
<1>6. ASSUME NEW n \in Names, NEW a \in AlertConfigs, SetAlert(n, a)
      PROVE  Registered' = Registered
    BY <1>6 DEF SetAlert, Registered
<1>7. ASSUME NEW n \in Names, NEW s \in Statuses,
             \/ RecordHealthCheck(n, s)
             \/ StopAfterInsert(n, s)
             \/ StopAfterUpdate(n, s)
      PROVE  Registered' = Registered
    BY <1>4, <1>7 DEF RecordHealthCheck, StopAfterInsert, StopAfterUpdate, Registered
<1> QED BY <1>1, <1>2, <1>3, <1>5, <1>6, <1>7 DEF RegistryNext

LEMMA StepFinite == FinitelyMany /\ CallsOK /\ [Next]_vars => FinitelyMany'
<1> SUFFICES ASSUME FinitelyMany, CallsOK, [Next]_vars PROVE FinitelyMany'
    OBVIOUS
<1>1. IsFiniteSet(Registered)'
    BY StepImplements, ServersStayFinite DEF FinitelyMany
<1>2. ASSUME NEW c \in Calls
      PROVE  IsFiniteSet(DOMAIN calls'[c].waiting) /\ IsFiniteSet(DOMAIN calls'[c].answers)
    <2> DEFINE W == DOMAIN calls[c].waiting
               A == DOMAIN calls[c].answers
               W2 == DOMAIN calls'[c].waiting
               A2 == DOMAIN calls'[c].answers
    <2>1. IsFiniteSet(W) /\ IsFiniteSet(A)
        BY DEF FinitelyMany
    <2>2. CASE CallGoesOn(c)
        <3>1. W2 \in SUBSET (W \cup A) /\ A2 \in SUBSET (W \cup A)
            BY <2>2 DEF CallGoesOn
        <3>2. IsFiniteSet(W \cup A)
            BY <2>1, FS_Union
        <3> QED BY <3>1, <3>2, FS_Subset
    <2>3. CASE Starts(c)
        <3>1. W2 \in SUBSET Registered /\ A2 = {}
            BY <2>3 DEF Starts, EmptyTable
        <3> QED BY <3>1, FS_Subset, FS_EmptySet DEF FinitelyMany
    <2>4. CASE calls'[c] = EmptyCall
        <3>1. W2 = {} /\ A2 = {}
            BY <2>4 DEF EmptyCall, EmptyTable
        <3> QED BY <3>1, FS_EmptySet
    <2> QED BY <2>2, <2>3, <2>4, StepOfCall
<1> QED BY <1>1, <1>2 DEF FinitelyMany

LEMMA InitFinite == Init => FinitelyMany
<1> SUFFICES ASSUME Init PROVE FinitelyMany
    OBVIOUS
<1>1. Registered = {} /\ \A c \in Calls :
          DOMAIN calls[c].waiting = {} /\ DOMAIN calls[c].answers = {}
    BY DEF Init, RegistryInit, Registered, EmptyCall, EmptyTable
<1> QED BY <1>1, FS_EmptySet DEF FinitelyMany

\* The answers of a call with these statuses.
AnsweredWith(c, S) == {n \in DOMAIN calls[c].answers : calls[c].answers[n].status \in S}

\* What the summary of a finished call reports as up: the answers "up" and, of
\* check_all_projects, also the answers without a status.
SummaryOffBy ==
    \A c \in Calls :
        calls[c].tool # "none" /\ DOMAIN calls[c].waiting = {} =>
            SummaryUp(c) = Cardinality(AnsweredWith(c, {"up"}))
                              + (IF calls[c].tool = "check_all_projects"
                                 THEN Cardinality(AnsweredWith(c, {"rejected"} \ Statuses))
                                 ELSE 0)

\* check_all and check_server never report a server as up that is not;
\* check_all_projects does so exactly for the checks that were refused or whose
\* record failed, so its summary is right if none was.
THEOREM SummaryExact == Spec => []SummaryOffBy
<1>1. FinitelyMany /\ CallsOK => SummaryOffBy
    <2> SUFFICES ASSUME FinitelyMany, CallsOK, NEW c \in Calls
                 PROVE  SummaryUp(c) = Cardinality(AnsweredWith(c, {"up"}))
                              + (IF calls[c].tool = "check_all_projects"
                                 THEN Cardinality(AnsweredWith(c, {"rejected"} \ Statuses))
                                 ELSE 0)
        BY DEF SummaryOffBy
    <2> DEFINE A == DOMAIN calls[c].answers
               U == AnsweredWith(c, {"up"})
               R == AnsweredWith(c, {"rejected"} \ Statuses)
               B == AnsweredWith(c, Statuses \ {"up"})
    <2>1. \A n \in A : calls[c].answers[n].status \in Statuses \cup {"rejected"}
        BY DEF CallsOK, CallType, Reports, AnswerType
    <2>2. A = (U \cup R) \cup B /\ (U \cup R) \cap B = {} /\ U \cap R = {}
        BY <2>1, StatusAssumption DEF AnsweredWith, StatusAssumption
    <2>3. U \in SUBSET A /\ R \in SUBSET A /\ B \in SUBSET A
        BY DEF AnsweredWith
    <2>4. IsFiniteSet(A)
        BY DEF FinitelyMany
    <2>5. SummaryUp(c) = IF calls[c].tool = "check_all_projects"
                         THEN Cardinality(A) - Cardinality(B)
                         ELSE Cardinality(U)
        BY DEF SummaryUp, AnsweredWith
    <2> HIDE DEF A, U, R, B
    <2>6. IsFiniteSet(U) /\ IsFiniteSet(R) /\ IsFiniteSet(B)
        BY <2>3, <2>4, FS_Subset
    <2>7. IsFiniteSet(U \cup R) /\ Cardinality(U \cup R) = Cardinality(U) + Cardinality(R)
        <3>1. Cardinality(U \cap R) = 0
            BY <2>2, FS_EmptySet
        <3>2. Cardinality(U) \in Nat /\ Cardinality(R) \in Nat
            BY <2>6, FS_CardinalityType
        <3>3. /\ IsFiniteSet(U \cup R)
              /\ Cardinality(U \cup R) = Cardinality(U) + Cardinality(R) - Cardinality(U \cap R)
            BY <2>6, FS_Union
        <3> QED BY <3>1, <3>2, <3>3
    <2>8. Cardinality(A) = Cardinality(U) + Cardinality(R) + Cardinality(B)
        <3>1. Cardinality((U \cup R) \cap B) = 0
            BY <2>2, FS_EmptySet
        <3>2. Cardinality(U \cup R) \in Nat /\ Cardinality(B) \in Nat
            BY <2>6, <2>7, FS_CardinalityType
        <3>3. Cardinality((U \cup R) \cup B)
                  = Cardinality(U \cup R) + Cardinality(B) - Cardinality((U \cup R) \cap B)
            BY <2>6, <2>7, FS_Union
        <3>4. Cardinality(A) = Cardinality((U \cup R) \cup B)
            BY <2>2
        <3> QED BY <2>7, <3>1, <3>2, <3>3, <3>4
    <2>9. Cardinality(U) \in Nat /\ Cardinality(R) \in Nat /\ Cardinality(B) \in Nat
        BY <2>6, FS_CardinalityType
    <2>10. Cardinality(A) - Cardinality(B) = Cardinality(U) + Cardinality(R)
        BY <2>8, <2>9
    <2>11. SummaryUp(c) = Cardinality(U)
               + (IF calls[c].tool = "check_all_projects" THEN Cardinality(R) ELSE 0)
        BY <2>5, <2>9, <2>10
    <2> QED BY <2>11 DEF U, R
<1>2. Spec => []FinitelyMany
    BY InitFinite, StepFinite, CallsInvariance, PTL DEF Spec
<1> QED BY <1>1, <1>2, CallsInvariance, PTL
===============================================================================
