--------------------------- MODULE CoalescerHistory ---------------------------
(***************************************************************************)
(* The coalescer with a history of what each backend did to the batches it *)
(* was sent, to compare with what the circuit breaker made of it.          *)
(***************************************************************************)
EXTENDS Coalescer

VARIABLE served   \* history: how the last TrafficEjectThreshold calls to a node ended

historyVars == <<vars, served>>

HistoryInit == Init /\ served = [n \in Ids |-> <<>>]

Remember(n, kind) ==
    served' = IF n \notin registered THEN served
              ELSE [served EXCEPT ![n] =
                      LET all == Append(@, kind)
                      IN  IF Len(all) > TrafficEjectThreshold THEN Tail(all) ELSE all]

\* A call to a backend ends.
RecordedCall(f, kind) == CallEnds(f, kind) /\ Remember(Head(f.candidates), kind)

\* Anything else happens.
OtherStep ==
    /\ \/ Submit
       \/ TimerFires
       \/ \E f \in flushes : Finally(f)
       \/ HealthStep /\ UNCHANGED batchVars
    /\ served' = [n \in Ids |-> IF n \in registered' THEN served[n] ELSE <<>>]

HistoryNext ==
    \/ \E f \in flushes, kind \in Answers : RecordedCall(f, kind)
    \/ OtherStep

HistorySpec == HistoryInit /\ [][HistoryNext]_historyVars

----------------------------------------------------------------------------

\* The last TrafficEjectThreshold calls to n ended in one of kinds.
Streak(n, kinds) ==
    Len(served[n]) = TrafficEjectThreshold /\ ToSet(served[n]) \subseteq kinds

\* The breaker ejects a backend whose last TrafficEjectThreshold batches ended in one of
\* kinds, when the last of them ends.
EjectedAfter(kinds) ==
    \A n \in Ids : (served'[n] # served[n] /\ Streak(n, kinds)') => nodes'[n].ejected > 0

\* A backend that fails TrafficEjectThreshold batches in a row, with a status of 500 or
\* above or with no answer, is ejected, whatever it answered before and however other
\* flushes, checks and the clock interleave.  (Bodies that do not parse eject only
\* when one failure is enough: they are recorded as a success first, which resets the
\* counter.)
FailingBackendEjected == [][EjectedAfter({"failed", "thrown"})]_historyVars

\* What the comment on flushBatch says, and the code does not do.

\* Only backend failures, a status of 500 or above or no answer, eject a backend.
EjectedOnlyByFailures ==
    \A n \in Ids : nodes[n].ejected > 0 => Streak(n, {"failed", "thrown"})
=============================================================================
