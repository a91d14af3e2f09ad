------------------------------- MODULE MCMonitor -------------------------------
(* Monitor for TLC; the uptime thresholds and the numbers of servers, calls,  *)
(* ids and instants are in the cfg files.                                     *)
EXTENDS Monitor, TLC

CONSTANTS MinUptimes, AlertAfter

MCConfigs == {[type |-> "http", alert_on_down |-> TRUE]}

MCStdioConfigs == MCConfigs \cup {[type |-> "stdio", alert_on_down |-> FALSE]}

MCAlertConfigs ==
    [min_uptime_percent: MinUptimes, consecutive_failures_before_alert: {AlertAfter}]

Symmetry == Permutations(Names) \cup Permutations(Calls)
===============================================================================
