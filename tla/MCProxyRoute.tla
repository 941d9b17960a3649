---------------------------- MODULE MCProxyRoute ----------------------------
(* Instances of ProxyRoute for TLC. *)
EXTENDS ProxyRoute

CONSTANTS a, b, c1, c2

OwnUrl == [n \in Ids |-> n]

\* Sequence mode is disabled, as it is by default: 501.
SequenceDisabled == [route \in {"embed", "sequence"} |->
                       IF route = "embed" THEN {"ok"} ELSE {"failed"}]

\* Calls are answered, with a failure or not, or end without an answer.
AnyEnd == [route \in {"embed"} |-> {"ok", "failed", "thrown"}]
=============================================================================
