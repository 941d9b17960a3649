------------------------------ MODULE PoolRouter ------------------------------
(***************************************************************************)
(* What the request paths of pool-router.mjs share: the health checker and *)
(* the in-flight counters, the ways a node is chosen, and the ways a call  *)
(* to a backend can end.                                                   *)
(*                                                                         *)
(* Latency estimates are not modelled: wherever the code sorts by them,    *)
(* every order is possible, and wherever it takes the best scored node,    *)
(* every candidate is.                                                     *)
(***************************************************************************)
EXTENDS HealthChecker, SequencesExt

CONSTANTS UrlOf,    \* url of a target: two ids may name the same backend
          FastUrls  \* POOL_FAST_NODE_URLS

VARIABLE inflight   \* in-flight requests per node id

routerVars == <<healthVars, inflight>>

\* inflightInc, inflightDec on the map; an absent key is 0.
Inc(counts, n) == [counts EXCEPT ![n] = @ + 1]

\* Mutant: the last request is never taken off.
DecKeepsLast(counts, n) == [counts EXCEPT ![n] = IF @ <= 1 THEN @ ELSE @ - 1]

Dec(counts, n) == [counts EXCEPT ![n] = IF @ <= 1 THEN 0 ELSE @ - 1]

\* The sequences getHealthyNodes() may return now.
ByLatency == SetToSeqs(HealthyNodes)

\* Mutant: nothing is excluded.
SelectNodeAgain(healthy, exclude, preferFast) ==
    LET fast == {n \in healthy : UrlOf[n] \in FastUrls}
    IN  IF preferFast /\ fast # {} THEN fast ELSE healthy

\* The nodes selectNode(exclude, { preferFast }) may return when getHealthyNodes()
\* returns healthy; an empty set is null.  exclude is a set of at most one id.
SelectNode(healthy, exclude, preferFast) ==
    LET candidates == healthy \ exclude
        fast == {n \in candidates : UrlOf[n] \in FastUrls}
    IN  IF preferFast /\ fast # {} THEN fast ELSE candidates

\* A sequence with its i-th element, if any, brought to the front.
ToFront(seq, i) == IF i = 0 THEN seq ELSE <<seq[i]>> \o RemoveAt(seq, i)

Least(a, b) == IF a < b THEN a ELSE b

\* How proxyTo may end, by what the callers of proxyTo tell apart:
\*   "ok"          200 with one vector per text
\*   "miscounted"  200 with an array of another length
\*   "garbled"     200 with a body that does not parse into one
\*   "refused"     another status below 500
\*   "failed"      a status of 500 or above
\*   "thrown"      connection error or POOL_REQUEST_TIMEOUT_MS
Replies == {"ok", "miscounted", "garbled", "refused", "failed", "thrown"}

\* Mutant: only answers are recorded, as if nothing were known of a timeout.
RecordBatchAnswer(n, kind) ==
    IF kind = "thrown" THEN nodes' = nodes
    ELSE RecordTrafficOutcome(n, kind \in {"ok", "miscounted"})

\* What flushBatch and embedShardWithFailover tell the breaker: only a 200 is a
\* success, and it is recorded before its body is parsed, so that a body that
\* does not parse is recorded as a success and then as a failure.
RecordBatchOutcome(n, kind) ==
    IF kind = "garbled" /\ n \in registered
    THEN nodes' = [nodes EXCEPT ![n] = Outcome(Outcome(@, TRUE), FALSE)]
    ELSE RecordTrafficOutcome(n, kind \in {"ok", "miscounted"})

\* Discovery, health checks and time, while the router does nothing.
HealthStep == HealthNext /\ UNCHANGED inflight
=============================================================================
