------------------------------- MODULE Scheduler -------------------------------
(***************************************************************************)
(* The background checker (src/src/scheduler.ts): a timer starts cycles, a *)
(* cycle reads which servers are due and checks them with a bounded number *)
(* of workers.  Registrations, checks by tools, starting and stopping the  *)
(* scheduler come between any two steps of a cycle.                        *)
(*                                                                         *)
(* Of the servers table only what the scheduler reads is kept, with the    *)
(* time since last_checked in place of the time itself: ages and the time  *)
(* since the timer fired stop counting once all comparisons with them have *)
(* their final value, so time itself is unbounded here.                    *)
(***************************************************************************)
EXTENDS Integers, FiniteSets

CONSTANTS
    Names,              \* server names, as integers in the order of ORDER BY name
    MaxInterval,        \* largest check_interval_minutes, in ticks
    Period,             \* intervalMs, in ticks
    MaxConcurrency,     \* getMaxConcurrency()
    Policies            \* values of options.allowStdio in use

ASSUME NamesAssumption == Names \subseteq Int
ASSUME NumbersAssumption ==
    MaxInterval \in Nat \ {0} /\ Period \in Nat \ {0} /\ MaxConcurrency \in Nat \ {0}
ASSUME PoliciesAssumption == Policies \subseteq {"undefined", "true", "false"}

VARIABLES
    servers,        \* name -> [interval, age]; age MaxInterval: due, or never checked
    timerOn,        \* schedulerTimer is set
    sinceFired,     \* ticks since the timer was set or fired last, at most Period
    allowStdio,     \* schedulerAllowStdio
    running,        \* schedulerRunning
    waiting,        \* due servers of the cycle no worker has taken yet
    checking,       \* name -> policy its check runs under, one per busy worker
    due,            \* history: what the cycle found due
    checked,        \* history: servers whose check in this cycle has ended
    stopped         \* history: stopScheduler ran during the cycle

cycleVars == <<running, waiting, checking, due, checked, stopped>>
timerVars == <<timerOn, sinceFired, allowStdio>>
vars == <<servers, timerVars, cycleVars>>

Least(a, b) == IF a <= b THEN a ELSE b

-------------------------------------------------------------------------------
(* runSchedulerCycle *)

\* isServerDue
IsDue(n) == servers[n].age >= servers[n].interval

DueServers == {n \in DOMAIN servers : IsDue(n)}

\* The first k names in name order, taken by k workers.
Firsts(ns, k) == {n \in ns : Cardinality({m \in ns : m < n}) < k}

RunCycle_OldPolicy ==
    IF running \/ DueServers = {} THEN UNCHANGED cycleVars
    ELSE /\ LET first == Firsts(DueServers, MaxConcurrency)
            IN  /\ waiting' = DueServers \ first
                /\ checking' = [n \in first |-> allowStdio]
         /\ running' = TRUE
         /\ due' = DueServers
         /\ checked' = {}
         /\ stopped' = FALSE

\* The synchronous part of a cycle, up to the first await.  It reads
\* schedulerAllowStdio after startScheduler has set it.
RunCycle ==
    IF running \/ DueServers = {} THEN UNCHANGED cycleVars
    ELSE /\ LET first == Firsts(DueServers, MaxConcurrency)
            IN  /\ waiting' = DueServers \ first
                /\ checking' = [n \in first |-> allowStdio']
         /\ running' = TRUE
         /\ due' = DueServers
         /\ checked' = {}
         /\ stopped' = FALSE

\* A worker takes the next server, if any, when its check of n has ended.
TakeNext_Stalls(n) ==
    /\ checking' = [m \in DOMAIN checking \ {n} |-> checking[m]]
    /\ UNCHANGED waiting

TakeNext_KeepsItem(n) ==
    LET next == Firsts(waiting, 1)
    IN  /\ UNCHANGED waiting
        /\ checking' = [m \in (DOMAIN checking \ {n}) \cup next |->
                            IF m \in next THEN allowStdio ELSE checking[m]]

TakeNext(n) ==
    LET next == Firsts(waiting, 1)
    IN  /\ waiting' = waiting \ next
        /\ checking' = [m \in (DOMAIN checking \ {n}) \cup next |->
                            IF m \in next THEN allowStdio ELSE checking[m]]

RecordedOrNot_Resurrects(n) ==
    servers' = [m \in DOMAIN servers \cup {n} |->
                   IF m # n THEN servers[m]
                   ELSE [interval |-> IF n \in DOMAIN servers THEN servers[n].interval
                                                             ELSE 0,
                         age |-> 0]]

\* recordHealthCheck sets last_checked if n is still registered and both its
\* INSERT and its UPDATE succeed.  Whatever throws before that, the check, the
\* foreign key or a statement, is only logged: n is as due as it was.
RecordedOrNot(n) ==
    servers' \in {servers,
                  [m \in DOMAIN servers |->
                      IF m = n THEN [servers[m] EXCEPT !.age = 0] ELSE servers[m]]}

CheckEnds_KeepsFlag(n) ==
    /\ n \in DOMAIN checking
    /\ RecordedOrNot(n)
    /\ TakeNext(n)
    /\ checked' = checked \cup {n}
    /\ UNCHANGED <<timerVars, running, due, stopped>>

\* The check of n has returned or thrown; its worker takes the next server, and
\* the last worker to end releases the flag.
CheckEnds(n) ==
    /\ n \in DOMAIN checking
    /\ RecordedOrNot(n)
    /\ TakeNext(n)
    /\ checked' = checked \cup {n}
    /\ running' = (DOMAIN checking' # {})
    /\ UNCHANGED <<timerVars, due, stopped>>

-------------------------------------------------------------------------------
(* startScheduler, stopScheduler, the timer *)

StartScheduler(policy) ==
    /\ ~ timerOn
    /\ timerOn' = TRUE
    /\ sinceFired' = 0
    /\ allowStdio' = policy
    /\ RunCycle
    /\ UNCHANGED servers

\* The cycle in progress goes on.
StopScheduler ==
    /\ timerOn
    /\ timerOn' = FALSE
    /\ sinceFired' = 0
    /\ allowStdio' = "undefined"
    /\ stopped' = (stopped \/ running)
    /\ UNCHANGED <<servers, running, waiting, checking, due, checked>>

TimerFires ==
    /\ timerOn
    /\ sinceFired = Period
    /\ sinceFired' = 0
    /\ UNCHANGED <<timerOn, allowStdio, servers>>
    /\ RunCycle

-------------------------------------------------------------------------------
(* The rest of the process *)

\* registerServer keeps last_checked of a known name.
Register(n, interval) ==
    /\ servers' = [m \in DOMAIN servers \cup {n} |->
                       IF m # n THEN servers[m]
                       ELSE [interval |-> interval,
                             age |-> IF n \in DOMAIN servers THEN servers[n].age
                                                             ELSE MaxInterval]]
    /\ UNCHANGED <<timerVars, cycleVars>>

Unregister(n) ==
    /\ servers' = [m \in DOMAIN servers \ {n} |-> servers[m]]
    /\ UNCHANGED <<timerVars, cycleVars>>

\* check_server, check_all or check_all_projects records a check of n.
ToolCheck(n) ==
    /\ n \in DOMAIN servers
    /\ servers' = [servers EXCEPT ![n].age = 0]
    /\ UNCHANGED <<timerVars, cycleVars>>

Tick ==
    /\ servers' = [n \in DOMAIN servers |->
                       [servers[n] EXCEPT !.age = Least(@ + 1, MaxInterval)]]
    /\ sinceFired' = IF timerOn THEN Least(sinceFired + 1, Period) ELSE 0
    /\ UNCHANGED <<timerOn, allowStdio, cycleVars>>

Init ==
    /\ servers = [n \in {} |-> n]
    /\ timerOn = FALSE /\ sinceFired = 0 /\ allowStdio = "undefined"
    /\ running = FALSE
    /\ waiting = {} /\ checking = [n \in {} |-> n]
    /\ due = {} /\ checked = {} /\ stopped = FALSE

Next ==
    \/ \E p \in Policies : StartScheduler(p)
    \/ StopScheduler
    \/ TimerFires
    \/ Tick
    \/ \E n \in Names :
        \/ CheckEnds(n)
        \/ \E i \in 1 .. MaxInterval : Register(n, i)
        \/ Unregister(n)
        \/ ToolCheck(n)

\* Time passes, the timer fires once its period is over, and a check ends
\* (the checker bounds it by its timeout).
Fairness ==
    /\ WF_vars(Tick)
    /\ WF_vars(TimerFires)
    /\ \A n \in Names : WF_vars(CheckEnds(n))

Spec == Init /\ [][Next]_vars /\ Fairness

-------------------------------------------------------------------------------
(* Properties *)

\* Rows, counters and flags have their types.
TypeOK ==
    /\ DOMAIN servers \subseteq Names
    /\ servers \in [DOMAIN servers -> [interval: 1 .. MaxInterval, age: 0 .. MaxInterval]]
    /\ timerOn \in BOOLEAN /\ running \in BOOLEAN /\ stopped \in BOOLEAN
    /\ sinceFired \in 0 .. Period
    /\ allowStdio \in Policies \cup {"undefined"}
    /\ checking \in [DOMAIN checking -> Policies \cup {"undefined"}]
    /\ waiting \subseteq Names /\ due \subseteq Names /\ checked \subseteq Names

\* Each server a cycle found due is, until the cycle ends, in exactly one of
\* three places: waiting, checked by one worker, or checked; so no server is
\* checked twice or skipped, whichever order the checks end in and whatever
\* is registered, unregistered, started or stopped meanwhile.  The flag that
\* keeps a second cycle out is set exactly while checks are in progress.
EachDueOnce ==
    /\ running <=> DOMAIN checking # {}
    /\ running => /\ due = waiting \cup DOMAIN checking \cup checked
                  /\ waiting \cap DOMAIN checking = {}
                  /\ (waiting \cup DOMAIN checking) \cap checked = {}
    /\ ~ running => waiting = {}

\* At most MaxConcurrency scheduled checks are in progress, in all cycles
\* together, and no worker is idle while servers wait.
WorkersBusy ==
    /\ Cardinality(DOMAIN checking) <= MaxConcurrency
    /\ waiting # {} => Cardinality(DOMAIN checking) = MaxConcurrency

\* All checks of a cycle run under the policy the scheduler was last started
\* with, unless it was stopped while the cycle was in progress: what a stopped
\* cycle has left runs without a policy.
CyclePolicy ==
    running /\ ~ stopped =>
        timerOn /\ \A n \in DOMAIN checking : checking[n] = allowStdio

\* Every cycle ends and lets the next one in.
CycleEnds == running ~> ~ running

\* While the scheduler is on, a server that is due gets checked (unless it is
\* unregistered, or a tool checks it first), and if its result cannot be stored
\* it is checked again and again until one can; although due servers may be
\* more than the workers and others become due, or stay due, all the time.
DueIsChecked ==
    \A n \in Names :
        timerOn /\ n \in DOMAIN servers /\ IsDue(n)
            ~> \/ ~ timerOn
               \/ n \notin DOMAIN servers
               \/ ~ IsDue(n)
               \/ n \in DOMAIN checking
===============================================================================
