-------------------------------- MODULE Alerts --------------------------------
(***************************************************************************)
(* Alert evaluation (src/src/alerts.ts) over the tables of Registry: a     *)
(* pure reading of the server's row, its thresholds and its recent history *)
(* against the result of the check just made.  The comparison of the       *)
(* result's own response time with its threshold reads no state and is     *)
(* left out.  A threshold row is a record of min_uptime_percent (0 also    *)
(* for SQL NULL: no uptime is below 0) and                                 *)
(* consecutive_failures_before_alert.  min_uptime_percent may be any       *)
(* number (the column is REAL, the schema does not ask for an integer): it *)
(* is counted in units of 1/Grain percent.                                 *)
(***************************************************************************)
EXTENDS Registry

CONSTANTS
    UptimeWindow,       \* 24 hours, in ticks
    Grain               \* units of min_uptime_percent in one percent

ASSUME GrainAssumption == Grain \in Nat \ {0}
ASSUME AlertConfigAssumption ==
    AlertConfigs \subseteq [min_uptime_percent: 0 .. 100 * Grain,
                            consecutive_failures_before_alert: 1 .. 10]
ASSUME ConfigAssumption ==
    Configs \subseteq [type: {"http", "sse", "stdio"}, alert_on_down: BOOLEAN]
ASSUME WindowAssumption == UptimeWindow \in Nat

EffectiveAlertConfig(n) ==
    IF n \in DOMAIN alerts THEN alerts[n]
    ELSE [min_uptime_percent |-> 0, consecutive_failures_before_alert |-> 3]

InWindow_Inclusive(n, hours) == {r \in History(n) : r.timestamp >= now - hours}

\* timestamp > Date.now() - hours
InWindow(n, hours) == {r \in History(n) : r.timestamp > now - hours}

Ups(h) == {r \in h : r.status = "up"}

\* Math.round((up / total) * 100)
UptimePercent(h) ==
    (200 * Cardinality(Ups(h)) + Cardinality(h)) \div (2 * Cardinality(h))

DownFinding(n, s) ==
    s # "up" /\ n \in Registered /\ servers[n].config.alert_on_down

UptimeFinding(n, hours) ==
    /\ n \in Registered
    /\ InWindow(n, hours) # {}
    /\ Grain * UptimePercent(InWindow(n, hours))
           < EffectiveAlertConfig(n).min_uptime_percent

ConsecutiveFinding(n, s) ==
    /\ s # "up"
    /\ n \in Registered
    /\ servers[n].consecutive_failures
           >= EffectiveAlertConfig(n).consecutive_failures_before_alert

\* evaluateAlertState: the types of the findings
Findings(n, s, hours) ==
    {f \in {"down", "uptime", "consecutive_failures"} :
        \/ f = "down" /\ DownFinding(n, s)
        \/ f = "uptime" /\ UptimeFinding(n, hours)
        \/ f = "consecutive_failures" /\ ConsecutiveFinding(n, s)}
===============================================================================
