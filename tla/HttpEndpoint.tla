----------------------------- MODULE HttpEndpoint -----------------------------
(***************************************************************************)
(* The HTTP endpoint (src/src/server-http.ts): what startHttpServer        *)
(* demands of the configuration, the scheduler it starts, the gates a      *)
(* request of /mcp passes in order, the rate limiter behind them (module   *)
(* RateLimiter), and the stateless handler, which creates one MonitorServer *)
(* per request.  What a stateful request does with its session is module   *)
(* Sessions; here it is an answer that may never come.                     *)
(***************************************************************************)
EXTENDS RateLimiter, FiniteSets, FiniteSetsExt

CONSTANT Slots      \* connections; each carries one request at a time

VARIABLES
    config,     \* the environment the process was started with
    phase,      \* of the process: see Phases
    scheduler,  \* "off", the policy startScheduler was given, or "unset": only
                \* a cycle is left, and stopScheduler has unset its policy
    requests,   \* slot -> its request and what became of it so far
    servers     \* slots whose MonitorServer and transport are open

vars == <<config, phase, scheduler, requests, servers, limiterVars>>

Configurations ==
    [loopback: BOOLEAN,     \* isLoopbackHost(HOST)
     token: BOOLEAN,        \* HEALTH_MONITOR_HTTP_TOKEN is set
     safe: BOOLEAN,         \* isRemoteSafeProfile(HEALTH_MONITOR_PROFILE)
     origins: BOOLEAN,      \* HEALTH_MONITOR_HTTP_ORIGIN_ALLOWLIST names one
     stdio: BOOLEAN,        \* HEALTH_MONITOR_ALLOW_STDIO
     stateful: BOOLEAN,     \* HEALTH_MONITOR_HTTP_STATEFUL_SESSIONS
     autoCheck: BOOLEAN]    \* HEALTH_MONITOR_AUTO_CHECK

Phases == {"starting", "refused", "binding", "listening", "closing", "ended"}

\* The headers of a request, by what the gates tell apart.  "none" is a request
\* without Origin, "listed" one the allowlist names; GET stands for DELETE
\* too, PUT for every method never allowed, "/health" for every other path.
Headers ==
    [path: {"/mcp", "/health"}, method: {"POST", "GET", "PUT"},
     origin: {"none", "listed", "other"}, accepts: BOOLEAN, bearer: BOOLEAN]

-------------------------------------------------------------------------------
(* Start of the process *)

\* validateHttpStartupConfig
StartupValid == config.loopback \/ (config.token /\ config.safe /\ config.origins)

AllowStdio_AsRequested == config.stdio

\* createRuntimePolicy
AllowStdio == config.stdio /\ ~config.safe

\* startHttpServer validates, starts the scheduler, then binds the port.
StartHttpServer ==
    /\ phase = "starting"
    /\ IF StartupValid
       THEN /\ phase' = "binding"
            /\ scheduler' = IF ~config.autoCheck THEN "off"
                            ELSE IF AllowStdio THEN "stdio" ELSE "no stdio"
       ELSE phase' = "refused" /\ UNCHANGED scheduler
    /\ UNCHANGED <<config, requests, servers, limiterVars>>

Listens ==
    /\ phase = "binding"
    /\ phase' = "listening"
    /\ UNCHANGED <<config, scheduler, requests, servers, limiterVars>>

\* server.on('error'): process.exit(1), and the scheduler ends with its process
BindFails ==
    /\ phase = "binding"
    /\ phase' = "ended"
    /\ scheduler' = "off"
    /\ UNCHANGED <<config, requests, servers, limiterVars>>

-------------------------------------------------------------------------------
(* The gates of createHttpServer *)

OriginAllowed(origin) == origin = "none" \/ (config.origins => origin = "listed")

\* in the order of the code; a request is refused by the first that fails
Gates(h) ==
    <<[status |-> 404, passes |-> h.path = "/mcp"],
      [status |-> 405, passes |-> h.method = "POST" \/ (config.stateful /\ h.method = "GET")],
      [status |-> 403, passes |-> OriginAllowed(h.origin)],
      [status |-> 406, passes |-> h.accepts],
      [status |-> 503, passes |-> config.token],
      [status |-> 401, passes |-> h.bearer]>>

Failing(h) == {g \in DOMAIN Gates(h) : ~Gates(h)[g].passes}

Free == [stage |-> "free"]
Answered(status) == [stage |-> "answered", status |-> status]
InService(stage, h) ==
    [stage |-> stage, method |-> h.method, origin |-> h.origin, bearer |-> h.bearer]

Arrives(r) == phase = "listening" /\ requests[r].stage = "free"

\* GET /health is answered before every gate.
Health(r) ==
    /\ Arrives(r)
    /\ requests' = [requests EXCEPT ![r] = Answered(200)]
    /\ UNCHANGED <<config, phase, scheduler, servers, limiterVars>>

Refuse(r, h) ==
    /\ Arrives(r)
    /\ ~(h.method = "GET" /\ h.path = "/health")
    /\ Failing(h) # {}
    /\ requests' = [requests EXCEPT ![r] = Answered(Gates(h)[Min(Failing(h))].status)]
    /\ UNCHANGED <<config, phase, scheduler, servers, limiterVars>>

\* Past the gates the limiter counts the request of client k: it is served, or
\* refused with 429.
Admit(r, h, k) ==
    /\ Arrives(r)
    /\ Failing(h) = {}
    /\ Check(k)
    /\ requests' = [requests EXCEPT ![r] =
                       IF IsAllowed(Counted(k)) THEN InService("reading", h)
                                                ELSE Answered(429)]
    /\ UNCHANGED <<config, phase, scheduler, servers>>

-------------------------------------------------------------------------------
(* handleStatelessMcpRequest and handleStatefulMcpRequest *)

ReadFails_Unanswered(r, status) ==
    /\ requests[r].stage = "reading"
    /\ requests' = [requests EXCEPT ![r].stage = "open"]
    /\ UNCHANGED <<config, phase, scheduler, servers, limiterVars>>

\* readRequestBody rejects: too large, not JSON, or the client left (nobody
\* reads that answer).  A stateful GET has no body to read.
ReadFails(r, status) ==
    /\ requests[r].stage = "reading"
    /\ ~config.stateful \/ requests[r].method = "POST"
    /\ status \in {400, 413}
    /\ requests' = [requests EXCEPT ![r] = Answered(status)]
    /\ UNCHANGED <<config, phase, scheduler, servers, limiterVars>>

\* monitorFactory, the 'close' listener and the connection to the transport
ReadEnds(r) ==
    /\ requests[r].stage = "reading"
    /\ ~config.stateful
    /\ requests' = [requests EXCEPT ![r].stage = "handling"]
    /\ servers' = servers \cup {r}
    /\ UNCHANGED <<config, phase, scheduler, limiterVars>>

\* connect or handleRequest settles: answered, or 500 unless the headers were
\* sent, in which case nothing ends the response.
Handled(r, response) ==
    /\ requests[r].stage = "handling"
    /\ response \in {Answered(200), Answered(500), [requests[r] EXCEPT !.stage = "open"]}
    /\ requests' = [requests EXCEPT ![r] = response]
    /\ UNCHANGED <<config, phase, scheduler, servers, limiterVars>>

GoesToSession(r) ==
    /\ requests[r].stage = "reading"
    /\ config.stateful
    /\ requests' = [requests EXCEPT ![r].stage = "session"]
    /\ UNCHANGED <<config, phase, scheduler, servers, limiterVars>>

\* 200 by the session's transport, else 400, 404 or 500 by the handler
SessionAnswers(r, status) ==
    /\ requests[r].stage = "session"
    /\ status \in {200, 400, 404, 500}
    /\ requests' = [requests EXCEPT ![r] = Answered(status)]
    /\ UNCHANGED <<config, phase, scheduler, servers, limiterVars>>

ResponseCloses_OnSuccess(r) ==
    /\ requests[r].stage = "answered"
    /\ requests' = [requests EXCEPT ![r] = Free]
    /\ servers' = IF requests[r].status = 200 THEN servers \ {r} ELSE servers
    /\ UNCHANGED <<config, phase, scheduler, limiterVars>>

\* res.on('close'): the response was sent
ResponseCloses(r) ==
    /\ requests[r].stage = "answered"
    /\ requests' = [requests EXCEPT ![r] = Free]
    /\ servers' = servers \ {r}
    /\ UNCHANGED <<config, phase, scheduler, limiterVars>>

\* res.on('close'): the client gave up.  A handler that still runs ends with
\* nobody to answer.
ClientLeaves(r) ==
    /\ requests[r].stage \in {"handling", "open", "session"}
    /\ requests' = [requests EXCEPT ![r] =
                       IF @.stage = "handling" THEN [@ EXCEPT !.stage = "left"] ELSE Free]
    /\ servers' = servers \ {r}
    /\ UNCHANGED <<config, phase, scheduler, limiterVars>>

HandledForNobody(r) ==
    /\ requests[r].stage = "left"
    /\ requests' = [requests EXCEPT ![r] = Free]
    /\ UNCHANGED <<config, phase, scheduler, servers, limiterVars>>

-------------------------------------------------------------------------------
(* End of the process, and the whole endpoint *)

\* server.close() by the program that started it: no new connections
Close ==
    /\ phase = "listening"
    /\ phase' = "closing"
    /\ UNCHANGED <<config, scheduler, requests, servers, limiterVars>>

\* server.on('close') fires when the last connection has ended: stopScheduler.
\* A cycle that is running then goes on, under no policy.
Closed ==
    /\ phase = "closing"
    /\ \A r \in Slots : requests[r].stage = "free"
    /\ phase' = "ended"
    /\ \/ scheduler' = "off"
       \/ scheduler # "off" /\ scheduler' = "unset"
    /\ UNCHANGED <<config, requests, servers, limiterVars>>

CycleEnds ==
    /\ scheduler = "unset"
    /\ scheduler' = "off"
    /\ UNCHANGED <<config, phase, requests, servers, limiterVars>>

Tick == LimiterTick /\ UNCHANGED <<config, phase, scheduler, requests, servers>>

Init ==
    /\ LimiterInit
    /\ config \in Configurations
    /\ phase = "starting"
    /\ scheduler = "off"
    /\ requests = [r \in Slots |-> Free]
    /\ servers = {}

Receive(r) ==
    \/ Health(r)
    \/ \E h \in Headers : Refuse(r, h) \/ \E k \in Keys : Admit(r, h, k)

Serve(r) ==
    \/ ReadEnds(r)
    \/ \E status \in {400, 413} : ReadFails(r, status)
    \/ \E response \in {Answered(200), Answered(500), [requests[r] EXCEPT !.stage = "open"]} :
           Handled(r, response)
    \/ GoesToSession(r)
    \/ ResponseCloses(r)
    \/ HandledForNobody(r)

Next ==
    \/ StartHttpServer \/ Listens \/ BindFails \/ Close \/ Closed \/ CycleEnds \/ Tick
    \/ \E r \in Slots :
           \/ Receive(r)
           \/ Serve(r)
           \/ \E status \in {200, 400, 404, 500} : SessionAnswers(r, status)
           \/ ClientLeaves(r)

\* Time passes; the body of a request ends or breaks off (the runtime limits
\* the time a request may take) and its handler settles.  Neither a session's
\* answer nor a client that leaves is owed.
Spec ==
    /\ Init /\ [][Next]_vars
    /\ WF_vars(Tick)
    /\ \A r \in Slots : WF_vars(Serve(r))

-------------------------------------------------------------------------------
(* Properties *)

Headed(stages) ==
    [stage: stages, method: {"POST", "GET", "PUT"}, origin: {"none", "listed", "other"},
     bearer: BOOLEAN]

Exchange ==
    {Free} \cup [stage: {"answered"}, status: 200 .. 599]
           \cup Headed({"reading", "handling", "session", "open", "left"})

\* Variables have their types, the limiter's among them.
EndpointTypeOK ==
    /\ LimiterTypeOK
    /\ config \in Configurations
    /\ phase \in Phases
    /\ scheduler \in {"off", "stdio", "no stdio", "unset"}
    /\ requests \in [Slots -> Exchange]
    /\ servers \subseteq Slots

InHandler(r) == requests[r].stage \in {"reading", "handling", "session", "open", "left"}

\* The promise validateHttpStartupConfig and the gates make together: a handler
\* runs only for a request that carried the token and no foreign origin, and an
\* endpoint that other machines can reach starts no stdio command, neither for
\* a request nor from its scheduler, and always has origins to compare with.
\* The scheduler keeps to it as long as the endpoint is there: a cycle without
\* policy (for which checkServer starts stdio commands) is one that was running
\* when the endpoint closed.
ServedAsConfigured ==
    /\ \A r \in Slots : InHandler(r) =>
           /\ config.token /\ requests[r].bearer
           /\ requests[r].origin = "other" => ~config.origins
    /\ ~config.loopback /\ (scheduler # "off" \/ \E r \in Slots : InHandler(r)) =>
           /\ ~AllowStdio /\ scheduler # "stdio"
           /\ config.origins
    /\ scheduler = "stdio" => AllowStdio
    /\ scheduler = "unset" => phase = "ended"

\* A MonitorServer is open only behind a connection, exactly from the end of
\* the request's body on.  When the endpoint's 'close' or 'error' has been
\* handled no server is open, and no check is left to start but those of the
\* cycle that was running then.
NothingLeftOpen ==
    /\ \A r \in servers : requests[r].stage \in {"handling", "answered", "open"}
    /\ \A r \in Slots : requests[r].stage \in {"handling", "open"} => r \in servers
    /\ phase \in {"starting", "refused", "ended"} =>
           /\ servers = {}
           /\ scheduler = "off" \/ (phase = "ended" /\ scheduler = "unset")

\* Every request is answered and its connection free again.  Two kinds end only
\* with their client: a request waiting for its session, and a response whose
\* headers were sent before the handler failed.
RequestsEnd ==
    \A r \in Slots :
        /\ requests[r].stage = "reading"
               ~> requests[r].stage \in {"answered", "handling", "session"}
        /\ requests[r].stage \in {"handling", "answered"}
               ~> requests[r].stage \in {"free", "open"}
===============================================================================
