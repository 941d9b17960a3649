--------------------------- MODULE CircuitBreaker ---------------------------
(***************************************************************************)
(* What the pool promises about the circuit breaker on real traffic, for   *)
(* every backend, without saying how it is implemented: a backend is       *)
(*   "unknown"    not a member of the pool,                                *)
(*   "closed"     in service as far as traffic is concerned,               *)
(*   "open"       ejected: it is picked for no call,                       *)
(*   "half_open"  its cooldown is over and the next verdict decides.       *)
(* A backend is picked for a call while it is in service; the call reports *)
(* at any later time, also after the backend was ejected, readmitted,      *)
(* removed, or removed and added again, or it is never made.               *)
(***************************************************************************)
EXTENDS Naturals

CONSTANTS Ids,       \* the backends a pool may ever have
          MaxCalls   \* bound: calls one backend is picked for

VARIABLES mode, calls

breakerVars == <<mode, calls>>

Modes == {"unknown", "closed", "open", "half_open"}

BreakerTypeOK ==
    /\ mode \in [Ids -> Modes]
    /\ calls \in [Ids -> 0..MaxCalls]

BreakerInit ==
    /\ mode \in [Ids -> {"unknown", "closed"}]
    /\ calls = [n \in Ids |-> 0]

\* The members of the pool become S: a newcomer starts closed.
Membership(S) ==
    /\ mode' = [n \in Ids |-> IF n \notin S THEN "unknown"
                              ELSE IF mode[n] = "unknown" THEN "closed"
                              ELSE mode[n]]
    /\ UNCHANGED calls

\* A backend is picked for a call, never while it is ejected.
Pick(n) ==
    /\ mode[n] \in {"closed", "half_open"}
    /\ calls[n] < MaxCalls
    /\ calls' = [calls EXCEPT ![n] = @ + 1]
    /\ UNCHANGED mode

\* A failover candidate whose turn never came.
Drop(n) ==
    /\ calls[n] > 0
    /\ calls' = [calls EXCEPT ![n] = @ - 1]
    /\ UNCHANGED mode

\* A success closes the breaker at once, however late it comes.
Success(n) ==
    /\ calls[n] > 0
    /\ calls' = [calls EXCEPT ![n] = @ - 1]
    /\ mode' = [mode EXCEPT ![n] = IF @ = "unknown" THEN @ ELSE "closed"]

\* A failure may trip a closed breaker and always trips a half-open one; on an
\* open one it changes nothing.
Failure(n) ==
    /\ calls[n] > 0
    /\ calls' = [calls EXCEPT ![n] = @ - 1]
    /\ \E next \in Modes :
         /\ mode' = [mode EXCEPT ![n] = next]
         /\ \/ mode[n] \in {"unknown", "open"} /\ next = mode[n]
            \/ mode[n] = "closed" /\ next \in {"closed", "open"}
            \/ mode[n] = "half_open" /\ next = "open"

\* The cooldown of the backends in S ends.
Expire(S) ==
    /\ S # {}
    /\ \A n \in S : mode[n] = "open"
    /\ mode' = [n \in Ids |-> IF n \in S THEN "half_open" ELSE mode[n]]
    /\ UNCHANGED calls

BreakerNext ==
    \/ \E S \in SUBSET Ids : Membership(S) \/ Expire(S)
    \/ \E n \in Ids : Pick(n) \/ Drop(n) \/ Success(n) \/ Failure(n)

BreakerSteps == BreakerInit /\ [][BreakerNext]_breakerVars

\* Every cooldown ends.
BreakerFairness ==
    \A n \in Ids : WF_breakerVars(\E S \in SUBSET Ids : n \in S /\ Expire(S))

BreakerSpec == BreakerSteps /\ BreakerFairness
=============================================================================
