-------------------------------- MODULE Checker --------------------------------
(***************************************************************************)
(* One health check (src/src/checker.ts): up to three attempts to connect  *)
(* and list tools over HTTP (streamable, once more, then SSE) and a probe, *)
(* or one attempt over stdio, all against one budget of time.  The server  *)
(* may answer, fail or stay silent at every await; at the very end of a    *)
(* timeout the answer and the timer race.  Timers are modelled as punctual *)
(* and JavaScript between two awaits as taking no time.                    *)
(***************************************************************************)
EXTENDS Integers, FiniteSets

CONSTANTS
    Kinds,          \* subset of {"http", "stdio"}: servers checked
    Timeout,        \* timeoutMs, in ticks
    RetryDelay,     \* initialDelayMs of withRetry (200)
    ProbeMin,       \* least timeout of the probe (1000)
    CloseTime       \* bound of the model on client.close() (the SDK's)

ASSUME KindAssumption == Kinds \subseteq {"http", "stdio"}
\* timeout_ms is at least 1000 (types.ts) and 8000 in the scheduler.
ASSUME TimeAssumption ==
    /\ Timeout \in Nat \ {0} /\ RetryDelay \in Nat
    /\ ProbeMin \in Nat /\ CloseTime \in Nat
    /\ RetryDelay <= ProbeMin /\ ProbeMin <= Timeout

VARIABLES
    kind,           \* what is checked
    phase,          \* what the check awaits, or "done"
    leg,            \* attempt: 1 and 2 streamable HTTP (1: stdio), 3 SSE
    elapsed,        \* Date.now() - startedAt
    timer,          \* ticks until the awaited timer fires
    outcome,        \* how the attempt being closed ended
    open,           \* attempts whose client has not been closed
    status,         \* status of the result, "none" before
    response        \* response_time_ms of the result

vars == <<kind, phase, leg, elapsed, timer, outcome, open, status, response>>

Phases == {"connecting", "listing", "closing", "sleeping", "probing", "done"}

\* Phases of an attempt awaited under withTimeout.
Timed_ListingForever == {"connecting"}

Timed == {"connecting", "listing"}

NoTime == -1

Larger(a, b) == IF a >= b THEN a ELSE b

\* getRemainingTimeout
Remaining_PerAttempt == Timeout

Remaining == Timeout - elapsed

-------------------------------------------------------------------------------
(* The parts of an attempt; each is the code between two awaits *)

\* Both exits of an attempt close its client and keep how it ended.
Close(o) ==
    /\ phase' = "closing"
    /\ outcome' = o
    /\ timer' = CloseTime

\* The clients not closed once the one of this attempt is.
Closed_OnSuccess == IF outcome = "up" THEN open \ {leg} ELSE open

Closed == open \ {leg}

\* attemptTransport up to its first await
Attempt(i) ==
    /\ leg' = i
    /\ open' = Closed \cup {i}
    /\ IF Remaining <= 0 THEN Close("timeout")
       ELSE phase' = "connecting" /\ timer' = Remaining /\ UNCHANGED outcome

Finish(s, time) ==
    /\ phase' = "done"
    /\ status' = s
    /\ response' = time
    /\ timer' = 0

Start(k) ==
    /\ phase = "done"
    /\ kind' = k
    /\ elapsed' = 0
    /\ leg' = 1 /\ open' = {1}
    /\ phase' = "connecting" /\ timer' = Timeout /\ outcome' = "none"
    /\ status' = "none" /\ response' = NoTime

\* Nothing to connect to, or validateStdioCommandPolicy or the profile refuses.
Refused(k) ==
    /\ phase = "done"
    /\ kind' = k
    /\ elapsed' = 0 /\ leg' = 1 /\ outcome' = "none"
    /\ Finish("error", NoTime)
    /\ UNCHANGED open

\* connect resolves.  The listing gets what is left of the budget, if anything
\* is.  (Over stdio listTools is called even then; that the promise it returns
\* has no handler is outside the model.)
Connected ==
    /\ phase = "connecting"
    /\ IF Remaining > 0
       THEN phase' = "listing" /\ timer' = Remaining /\ UNCHANGED outcome
       ELSE Close("timeout")
    /\ UNCHANGED <<kind, leg, elapsed, open, status, response>>

\* listTools resolves; over HTTP the response time is taken before the client
\* is closed, over stdio after it.
Listed ==
    /\ phase = "listing"
    /\ Close("up")
    /\ response' = IF kind = "http" THEN elapsed ELSE NoTime
    /\ UNCHANGED <<kind, leg, elapsed, open, status>>

\* connect or listTools rejects (with a message other than "timeout", by
\* which the code tells its own timeouts).
Rejected ==
    /\ phase \in {"connecting", "listing"}
    /\ Close("error")
    /\ UNCHANGED <<kind, leg, elapsed, open, status, response>>

TimesOut ==
    /\ phase \in Timed
    /\ timer = 0
    /\ Close("timeout")
    /\ UNCHANGED <<kind, leg, elapsed, open, status, response>>

-------------------------------------------------------------------------------
(* What follows the attempt, once its client is closed *)

\* probeHttpEndpoint: at least ProbeMin, at most what is left; between them
\* HEALTH_MONITOR_HTTP_TIMEOUT_MS decides.
ProbeTimeouts == ProbeMin .. Larger(ProbeMin, Remaining)

HttpAttemptEnds_NoSse ==
    \/ /\ outcome # "error"
       /\ Finish(outcome, IF outcome = "up" THEN response ELSE elapsed)
       /\ UNCHANGED <<leg, outcome>> /\ open' = Closed
    \/ /\ leg = 1 /\ outcome = "error"
       /\ phase' = "sleeping" /\ timer' = RetryDelay
       /\ UNCHANGED <<leg, outcome, status, response>> /\ open' = Closed
    \/ /\ leg = 2 /\ outcome = "error"
       /\ phase' = "probing" /\ timer' \in ProbeTimeouts
       /\ UNCHANGED <<leg, outcome, status, response>> /\ open' = Closed

\* attemptTransportWithRetry retries an error of the first attempt, never a
\* timeout; checkHttpServer falls back to SSE, and probes after that.
HttpAttemptEnds ==
    \/ /\ outcome = "up"
       /\ Finish("up", response)
       /\ UNCHANGED <<leg, outcome>> /\ open' = Closed
    \/ /\ leg < 3 /\ outcome = "timeout"
       /\ Finish("timeout", elapsed)
       /\ UNCHANGED <<leg, outcome>> /\ open' = Closed
    \/ /\ leg = 1 /\ outcome = "error"
       /\ phase' = "sleeping" /\ timer' = RetryDelay
       /\ UNCHANGED <<leg, outcome, status, response>> /\ open' = Closed
    \/ /\ leg = 2 /\ outcome = "error"
       /\ Attempt(3)
       /\ UNCHANGED <<status, response>>
    \/ /\ leg = 3 /\ outcome # "up"
       /\ phase' = "probing" /\ timer' \in ProbeTimeouts
       /\ UNCHANGED <<leg, outcome, status, response>> /\ open' = Closed

StdioAttemptEnds ==
    /\ Finish(outcome, elapsed)
    /\ UNCHANGED <<leg, outcome>> /\ open' = Closed

\* client.close() settles; a failure of it is swallowed.
CloseEnds ==
    /\ phase = "closing"
    /\ IF kind = "http" THEN HttpAttemptEnds ELSE StdioAttemptEnds
    /\ UNCHANGED <<kind, elapsed>>

Retry ==
    /\ phase = "sleeping"
    /\ timer = 0
    /\ Attempt(2)
    /\ UNCHANGED <<kind, elapsed, status, response>>

\* The probe responds, fails or is aborted: it only adds to the message.
ProbeEnds ==
    /\ phase = "probing"
    /\ Finish(IF outcome = "timeout" THEN "timeout" ELSE "down", elapsed)
    /\ UNCHANGED <<kind, leg, elapsed, outcome, open>>

\* A timer that is due comes before the next tick.
Tick ==
    /\ phase # "done"
    /\ timer > 0
    /\ elapsed' = elapsed + 1
    /\ timer' = timer - 1
    /\ UNCHANGED <<kind, phase, leg, outcome, open, status, response>>

Init ==
    /\ kind \in Kinds
    /\ phase = "done" /\ leg = 1 /\ elapsed = 0 /\ timer = 0
    /\ outcome = "none" /\ open = {}
    /\ status = "none" /\ response = NoTime

Next ==
    \/ \E k \in Kinds : Start(k) \/ Refused(k)
    \/ Connected
    \/ Listed
    \/ Rejected
    \/ TimesOut
    \/ CloseEnds
    \/ Retry
    \/ ProbeEnds
    \/ Tick

\* Time passes, timers fire, and closing ends within CloseTime; no server
\* need ever answer.
Fairness ==
    /\ WF_vars(Tick) /\ WF_vars(TimesOut) /\ WF_vars(Retry)
    /\ WF_vars(timer = 0 /\ CloseEnds) /\ WF_vars(timer = 0 /\ ProbeEnds)

Spec == Init /\ [][Next]_vars /\ Fairness

-------------------------------------------------------------------------------
(* Properties *)

\* Variables have their types; no timer is set to a time that has passed.
TypeOK ==
    /\ kind \in Kinds /\ phase \in Phases /\ leg \in 1 .. 3
    /\ elapsed \in Nat /\ timer \in Nat
    /\ outcome \in {"none", "up", "error", "timeout"}
    /\ open \subseteq 1 .. 3
    /\ status \in {"none", "up", "down", "timeout", "error"}
    /\ response \in Nat \cup {NoTime}

\* CHANGELOG.md: "health checks with bounded timeouts".  However the attempts
\* fail, hang and are retried, a check is over within its timeout, two calls
\* of close that run past it, and the least timeout of the probe.
EndsInTime == elapsed <= Timeout + 2 * CloseTime + ProbeMin

\* One client at a time, and none is left when the check is over: no child
\* process or connection outlives its check.
ClientsClosed ==
    /\ Cardinality(open) <= 1
    /\ phase = "done" => open = {}

\* A verdict is earned: "up" within the timeout (over stdio the closing is
\* counted too), "timeout" not before the budget is spent, "down" only for an
\* HTTP server that failed over both transports, "error" only for stdio or
\* when nothing was tried.
VerdictsEarned ==
    /\ status = "up" =>
           response \in 0 .. Timeout + (IF kind = "stdio" THEN CloseTime ELSE 0)
    /\ status = "timeout" => response >= Timeout
    /\ status = "down" => kind = "http" /\ leg = 3
    /\ status = "error" => kind = "stdio" \/ response = NoTime

\* Every check ends, although its server may never answer.
CheckEnds == phase # "done" ~> phase = "done"
===============================================================================
