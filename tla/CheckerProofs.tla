----------------------------- MODULE CheckerProofs -----------------------------
(***************************************************************************)
(* Proofs about Checker, for all timeouts.  The inductive invariant bounds *)
(* elapsed + timer, the time at which the pending timer fires, separately  *)
(* for each phase and attempt: an attempt that follows another gets what   *)
(* is left of the budget, and none at all when nothing is left.            *)
(***************************************************************************)
EXTENDS Checker, FiniteSetTheorems, TLAPS

\* The client of an attempt is open until its close settles.
Shape ==
    /\ TypeOK
    /\ kind = "stdio" => leg = 1
    /\ phase \in {"sleeping", "probing"} => kind = "http"
    /\ phase = "sleeping" => leg = 1
    /\ phase = "probing" => leg = 3 /\ outcome \in {"error", "timeout"}
    /\ phase = "closing" => outcome # "none"
    /\ phase # "done" => status = "none"
    /\ open = IF phase \in {"connecting", "listing", "closing"} THEN {leg} ELSE {}

\* When the pending timer fires.  A timeout of an attempt means that the budget
\* is spent, any other end of an attempt that it was not.
Deadlines ==
    /\ phase \in {"connecting", "listing"} => elapsed + timer = Timeout
    /\ phase \in {"closing", "probing"} /\ outcome = "timeout" => elapsed >= Timeout
    /\ phase = "closing" /\ (leg = 1 \/ outcome # "timeout") =>
           elapsed + timer <= Timeout + CloseTime
    /\ phase = "closing" /\ leg = 2 =>
           elapsed + timer <= Timeout + 2 * CloseTime + RetryDelay
    /\ phase = "closing" /\ leg = 3 => elapsed + timer <= Timeout + 2 * CloseTime
    /\ phase = "sleeping" => elapsed + timer <= Timeout + CloseTime + RetryDelay
    /\ phase = "probing" => elapsed + timer <= Timeout + 2 * CloseTime + ProbeMin
    /\ phase = "done" => elapsed <= Timeout + 2 * CloseTime + ProbeMin

Answers ==
    /\ phase = "closing" /\ outcome = "up" /\ kind = "http" => response \in 0 .. Timeout
    /\ VerdictsEarned

IInv == Shape /\ Deadlines /\ Answers

-------------------------------------------------------------------------------
(* The inductive invariant *)

LEMMA InitIInv == Init => IInv
<1> SUFFICES ASSUME Init PROVE IInv
    OBVIOUS
<1> USE TimeAssumption DEF Init, TimeAssumption
<1>1. TypeOK
    <2>1. open \subseteq 1 .. 3 /\ leg \in 1 .. 3 /\ response \in Nat \cup {NoTime}
        OBVIOUS
    <2> QED BY <2>1 DEF TypeOK, Phases
<1>2. Shape
    BY <1>1 DEF Shape
<1>3. Deadlines
    BY DEF Deadlines
<1>4. Answers
    BY DEF Answers, VerdictsEarned
<1> QED BY <1>2, <1>3, <1>4 DEF IInv

\* A new attempt keeps the deadlines: it connects within what is left of the
\* budget, or ends at once because nothing is left.
LEMMA AttemptKeepsDeadlines ==
    ASSUME IInv, NEW i \in {2, 3}, Attempt(i), elapsed' = elapsed,
           i = 2 => elapsed <= Timeout + CloseTime + RetryDelay,
           i = 3 => elapsed <= Timeout + CloseTime
    PROVE  Deadlines'
<1> USE TimeAssumption DEF TimeAssumption, IInv, Shape, TypeOK
<1>1. CASE Remaining <= 0
    BY <1>1 DEF Attempt, Close, Remaining, Deadlines
<1>2. CASE ~ (Remaining <= 0)
    BY <1>2 DEF Attempt, Remaining, Deadlines
<1> QED BY <1>1, <1>2

LEMMA HttpAttemptEndsKeepsIInv ==
    ASSUME IInv, CloseEnds, kind = "http" PROVE IInv'
<1> USE TimeAssumption DEF TimeAssumption
<1>0. /\ phase = "closing" /\ HttpAttemptEnds
      /\ UNCHANGED <<kind, elapsed>>
    BY DEF CloseEnds
<1>1. CASE outcome = "up"
    <2>1. Finish("up", response) /\ UNCHANGED <<leg, outcome>> /\ open' = Closed
        BY <1>0, <1>1 DEF HttpAttemptEnds
    <2>2. Shape'
        BY <1>0, <2>1 DEF IInv, Shape, TypeOK, Phases, Finish, Closed
    <2>3. Deadlines'
        BY <1>0, <1>1, <2>1 DEF IInv, Shape, TypeOK, Deadlines, Finish
    <2>4. Answers'
        BY <1>0, <1>1, <2>1
        DEF IInv, Shape, TypeOK, Answers, VerdictsEarned, Finish
    <2> QED BY <2>2, <2>3, <2>4 DEF IInv
<1>2. CASE leg < 3 /\ outcome = "timeout"
    <2>1. Finish("timeout", elapsed) /\ UNCHANGED <<leg, outcome>> /\ open' = Closed
        BY <1>0, <1>2 DEF HttpAttemptEnds
    <2>2. Shape'
        BY <1>0, <2>1 DEF IInv, Shape, TypeOK, Phases, Finish, Closed
    <2>3. Deadlines'
        BY <1>0, <1>2, <2>1 DEF IInv, Shape, TypeOK, Deadlines, Finish
    <2>4. Answers'
        BY <1>0, <1>2, <2>1
        DEF IInv, Shape, TypeOK, Deadlines, Answers, VerdictsEarned, Finish
    <2> QED BY <2>2, <2>3, <2>4 DEF IInv
<1>3. CASE leg = 1 /\ outcome = "error"
    <2>1. /\ phase' = "sleeping" /\ timer' = RetryDelay
          /\ UNCHANGED <<leg, outcome, status, response>> /\ open' = Closed
        BY <1>0, <1>3 DEF HttpAttemptEnds
    <2>2. Shape'
        BY <1>0, <1>3, <2>1 DEF IInv, Shape, TypeOK, Phases, Closed
    <2>3. Deadlines'
        BY <1>0, <1>3, <2>1 DEF IInv, Shape, TypeOK, Deadlines
    <2>4. Answers'
        BY <1>0, <2>1 DEF IInv, Shape, Answers, VerdictsEarned
    <2> QED BY <2>2, <2>3, <2>4 DEF IInv
<1>4. CASE leg = 2 /\ outcome = "error"
    <2>1. Attempt(3) /\ UNCHANGED <<status, response>>
        BY <1>0, <1>4 DEF HttpAttemptEnds
    <2>2. Shape'
        BY <1>0, <1>4, <2>1
        DEF IInv, Shape, TypeOK, Phases, Attempt, Close, Closed, Remaining
    <2>3. Deadlines'
        <3>1. elapsed <= Timeout + CloseTime
            BY <1>0, <1>4 DEF IInv, Shape, TypeOK, Deadlines
        <3> QED BY <1>0, <2>1, <3>1, AttemptKeepsDeadlines
    <2>4. Answers'
        BY <1>0, <1>4, <2>1
        DEF IInv, Shape, Answers, VerdictsEarned, Attempt, Close
    <2> QED BY <2>2, <2>3, <2>4 DEF IInv
<1>5. CASE leg = 3 /\ outcome # "up"
    <2>1. PICK p \in ProbeTimeouts :
              /\ phase' = "probing" /\ timer' = p
              /\ UNCHANGED <<leg, outcome, status, response>> /\ open' = Closed
        BY <1>0, <1>5 DEF HttpAttemptEnds
    <2>2. /\ p \in Nat
          /\ p <= ProbeMin \/ p <= Timeout - elapsed
        BY DEF ProbeTimeouts, Larger, Remaining, IInv, Shape, TypeOK
    <2>3. Shape'
        BY <1>0, <1>5, <2>1, <2>2 DEF IInv, Shape, TypeOK, Phases, Closed
    <2>4. Deadlines'
        <3>1. /\ elapsed \in Nat /\ timer \in Nat
              /\ elapsed + timer <= Timeout + 2 * CloseTime
              /\ outcome = "timeout" => elapsed >= Timeout
            BY <1>0, <1>5 DEF IInv, Shape, TypeOK, Deadlines
        <3>2. elapsed + p <= Timeout + 2 * CloseTime + ProbeMin
            BY <2>2, <3>1
        <3> QED BY <1>0, <2>1, <3>1, <3>2 DEF Deadlines
    <2>5. Answers'
        BY <1>0, <2>1 DEF IInv, Shape, Answers, VerdictsEarned
    <2> QED BY <2>3, <2>4, <2>5 DEF IInv
<1> QED BY <1>0, <1>1, <1>2, <1>3, <1>4, <1>5 DEF HttpAttemptEnds

LEMMA StdioAttemptEndsKeepsIInv ==
    ASSUME IInv, CloseEnds, kind # "http" PROVE IInv'
<1> USE TimeAssumption, KindAssumption DEF TimeAssumption, KindAssumption
<1>1. /\ phase = "closing" /\ UNCHANGED <<kind, elapsed>>
      /\ Finish(outcome, elapsed) /\ UNCHANGED <<leg, outcome>> /\ open' = Closed
    BY DEF CloseEnds, StdioAttemptEnds
<1>2. kind = "stdio" /\ leg = 1
    BY DEF IInv, Shape, TypeOK
<1>3. Shape'
    BY <1>1, <1>2 DEF IInv, Shape, TypeOK, Phases, Finish, Closed
<1>4. Deadlines'
    BY <1>1, <1>2 DEF IInv, Shape, TypeOK, Deadlines, Finish
<1>5. Answers'
    BY <1>1, <1>2
    DEF IInv, Shape, TypeOK, Deadlines, Answers, VerdictsEarned, Finish
<1> QED BY <1>3, <1>4, <1>5 DEF IInv

LEMMA NextKeepsIInv == IInv /\ [Next]_vars => IInv'
<1> SUFFICES ASSUME IInv, [Next]_vars PROVE IInv'
    OBVIOUS
<1> USE TimeAssumption DEF TimeAssumption
<1>1. ASSUME NEW k \in Kinds, Start(k) PROVE IInv'
    <2>1. Shape'
        <3>1. /\ kind' = k /\ phase' = "connecting" /\ leg' = 1 /\ open' = {1}
              /\ elapsed' = 0 /\ timer' = Timeout /\ outcome' = "none"
              /\ status' = "none" /\ response' = NoTime
            BY <1>1 DEF Start
        <3>2. {1} \subseteq 1 .. 3 /\ 1 \in 1 .. 3 /\ Timeout \in Nat
            OBVIOUS
        <3>3. TypeOK'
            BY <3>1, <3>2 DEF TypeOK, Phases
        <3> QED BY <3>1, <3>3 DEF Shape
    <2>2. Deadlines'
        BY <1>1 DEF Start, Deadlines
    <2>3. Answers'
        BY <1>1 DEF Start, Answers, VerdictsEarned
    <2> QED BY <2>1, <2>2, <2>3 DEF IInv
<1>2. ASSUME NEW k \in Kinds, Refused(k) PROVE IInv'
    <2>1. Shape'
        <3>1. /\ kind' = k /\ phase' = "done" /\ leg' = 1 /\ open' = {}
              /\ elapsed' = 0 /\ timer' = 0 /\ outcome' = "none"
              /\ status' = "error" /\ response' = NoTime
            BY <1>2 DEF Refused, Finish, IInv, Shape
        <3>2. {} \subseteq 1 .. 3 /\ 1 \in 1 .. 3
            OBVIOUS
        <3>3. TypeOK'
            BY <3>1, <3>2 DEF TypeOK, Phases
        <3> QED BY <3>1, <3>3 DEF Shape
    <2>2. Deadlines'
        BY <1>2 DEF Refused, Finish, Deadlines
    <2>3. Answers'
        BY <1>2 DEF Refused, Finish, Answers, VerdictsEarned
    <2> QED BY <2>1, <2>2, <2>3 DEF IInv
<1>3. CASE Connected
    <2>1. Shape'
        <3>1. CASE Remaining > 0
            BY <1>3, <3>1 DEF Connected, Remaining, IInv, Shape, TypeOK, Phases
        <3>2. CASE ~ (Remaining > 0)
            BY <1>3, <3>2 DEF Connected, Close, IInv, Shape, TypeOK, Phases
        <3> QED BY <3>1, <3>2
    <2>2. Deadlines'
        BY <1>3 DEF Connected, Close, Remaining, IInv, Shape, TypeOK, Deadlines
    <2>3. Answers'
        BY <1>3 DEF Connected, Close, Remaining, IInv, Shape, TypeOK, Answers,
                    VerdictsEarned
    <2> QED BY <2>1, <2>2, <2>3 DEF IInv
<1>4. CASE Listed
    <2>1. Shape'
        BY <1>4 DEF Listed, Close, IInv, Shape, TypeOK, Phases
    <2>2. Deadlines'
        BY <1>4 DEF Listed, Close, IInv, Shape, TypeOK, Deadlines
    <2>3. Answers'
        BY <1>4 DEF Listed, Close, IInv, Shape, TypeOK, Deadlines, Answers,
                    VerdictsEarned
    <2> QED BY <2>1, <2>2, <2>3 DEF IInv
<1>5. CASE Rejected
    <2>1. Shape'
        BY <1>5 DEF Rejected, Close, IInv, Shape, TypeOK, Phases
    <2>2. Deadlines'
        BY <1>5 DEF Rejected, Close, IInv, Shape, TypeOK, Deadlines
    <2>3. Answers'
        BY <1>5 DEF Rejected, Close, IInv, Shape, Answers,
                    VerdictsEarned
    <2> QED BY <2>1, <2>2, <2>3 DEF IInv
<1>6. CASE TimesOut
    <2>1. Shape'
        BY <1>6 DEF TimesOut, Timed, Close, IInv, Shape, TypeOK, Phases
    <2>2. Deadlines'
        BY <1>6 DEF TimesOut, Timed, Close, IInv, Shape, TypeOK, Deadlines
    <2>3. Answers'
        BY <1>6 DEF TimesOut, Timed, Close, IInv, Shape, Answers,
                    VerdictsEarned
    <2> QED BY <2>1, <2>2, <2>3 DEF IInv
<1>7. CASE CloseEnds
    BY <1>7, HttpAttemptEndsKeepsIInv, StdioAttemptEndsKeepsIInv
<1>8. CASE Retry
    <2>1. Shape'
        BY <1>8 DEF Retry, Attempt, Close, Closed, Remaining, IInv, Shape, TypeOK, Phases
    <2>2. Deadlines'
        <3>1. elapsed <= Timeout + CloseTime + RetryDelay
            BY <1>8 DEF Retry, IInv, Shape, TypeOK, Deadlines
        <3> QED BY <1>8, <3>1, AttemptKeepsDeadlines DEF Retry
    <2>3. Answers'
        BY <1>8 DEF Retry, Attempt, Close, IInv, Shape, Answers, VerdictsEarned
    <2> QED BY <2>1, <2>2, <2>3 DEF IInv
<1>9. CASE ProbeEnds
    <2>1. Shape'
        BY <1>9 DEF ProbeEnds, Finish, IInv, Shape, TypeOK, Phases
    <2>2. Deadlines'
        BY <1>9 DEF ProbeEnds, Finish, IInv, Shape, TypeOK, Deadlines
    <2>3. Answers'
        BY <1>9 DEF ProbeEnds, Finish, IInv, Shape, TypeOK, Deadlines, Answers,
                    VerdictsEarned
    <2> QED BY <2>1, <2>2, <2>3 DEF IInv
<1>10. CASE Tick
    <2>1. Shape'
        BY <1>10 DEF Tick, IInv, Shape, TypeOK, Phases
    <2>2. Deadlines'
        BY <1>10 DEF Tick, IInv, Shape, TypeOK, Deadlines
    <2>3. Answers'
        BY <1>10 DEF Tick, IInv, Shape, TypeOK, Answers, VerdictsEarned
    <2> QED BY <2>1, <2>2, <2>3 DEF IInv
<1>11. CASE UNCHANGED vars
    <2>1. Shape'
        BY <1>11 DEF vars, IInv, Shape, TypeOK
    <2>2. Deadlines'
        BY <1>11 DEF vars, IInv, Deadlines
    <2>3. Answers'
        BY <1>11 DEF vars, IInv, Answers, VerdictsEarned
    <2> QED BY <2>1, <2>2, <2>3 DEF IInv
<1> QED BY <1>1, <1>2, <1>3, <1>4, <1>5, <1>6, <1>7, <1>8, <1>9, <1>10, <1>11 DEF Next

-------------------------------------------------------------------------------
(* The theorems *)

\* The invariant of every check, with any timeout and any server.
THEOREM Invariance == Spec => []IInv
    BY InitIInv, NextKeepsIInv, PTL DEF Spec

\* Variables keep their types; in particular no timer of an attempt is set once
\* the budget is spent.
THEOREM TypeCorrect == Spec => []TypeOK
    BY Invariance, PTL DEF IInv, Shape

\* A check is over within its timeout, two closes and the least probe timeout,
\* whatever the server does at each await.
THEOREM ChecksEndInTime == Spec => []EndsInTime
<1>1. IInv => EndsInTime
    <2> SUFFICES ASSUME IInv PROVE EndsInTime
        OBVIOUS
    <2> USE TimeAssumption DEF TimeAssumption
    <2>1. elapsed \in Nat /\ timer \in Nat /\ leg \in 1 .. 3 /\ phase \in Phases
        BY DEF IInv, Shape, TypeOK
    <2>2. CASE phase \in {"connecting", "listing"}
        BY <2>1, <2>2 DEF IInv, Deadlines, EndsInTime
    <2>3. CASE phase = "closing"
        BY <2>1, <2>3 DEF IInv, Deadlines, EndsInTime
    <2>4. CASE phase \in {"sleeping", "probing", "done"}
        BY <2>1, <2>4 DEF IInv, Deadlines, EndsInTime
    <2> QED BY <2>1, <2>2, <2>3, <2>4 DEF Phases
<1> QED BY <1>1, Invariance, PTL

\* Clients are used one after the other and all closed when a check is over.
THEOREM NoClientLeft == Spec => []ClientsClosed
<1>1. IInv => ClientsClosed
    <2> SUFFICES ASSUME IInv PROVE ClientsClosed
        OBVIOUS
    <2>1. open = {leg} \/ open = {}
        BY DEF IInv, Shape
    <2>2. Cardinality({leg}) = 1 /\ Cardinality({}) = 0
        BY FS_Singleton, FS_EmptySet
    <2> QED BY <2>1, <2>2 DEF IInv, Shape, ClientsClosed
<1> QED BY <1>1, Invariance, PTL

\* Every verdict is earned: an early "timeout", a late "up" and a "down" before
\* all transports were tried do not exist.
THEOREM VerdictsSound == Spec => []VerdictsEarned
    BY Invariance, PTL DEF IInv, Answers
===============================================================================
