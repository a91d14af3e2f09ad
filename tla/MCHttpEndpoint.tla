---------------------------- MODULE MCHttpEndpoint ----------------------------
(* HttpEndpoint under every configuration, with one connection, two clients   *)
(* and a limit of two requests in two ticks.                                  *)
EXTENDS HttpEndpoint
================================================================================
