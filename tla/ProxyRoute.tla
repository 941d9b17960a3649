----------------------------- MODULE ProxyRoute -----------------------------
(***************************************************************************)
(* handleProxy of pool-router.mjs for the requests the coalescer does not  *)
(* take: /embed/sequence, and /embed with the coalescer off.  A request    *)
(* goes to the best node and, when that fails, to another one; a pinned    *)
(* request goes to the backend it names and nowhere else.                  *)
(*                                                                         *)
(* Clients is a set of connections; each has one request under way at a    *)
(* time and may send the next once it got its answer.                      *)
(***************************************************************************)
EXTENDS PoolRouter

CONSTANTS Clients,
          Answers   \* for each route in use, the ways a call on it may end

ASSUME ProxyAssumption ==
    /\ IsFiniteSet(Clients)
    /\ DOMAIN Answers \subseteq {"embed", "sequence"}
    /\ \A route \in DOMAIN Answers : Answers[route] \subseteq Replies

VARIABLE request   \* the request of each client

vars == <<routerVars, request>>

\* tried: the nodes called so far, the last of which the request is waiting
\* for while in phase "first", "retry" or "pinned".  steady is history: the
\* nodes that were in rotation ever since the request came.
Request(phase, route, heavy, tried, answer, steady) ==
    [phase |-> phase, route |-> route, heavy |-> heavy,
     tried |-> tried, answer |-> answer, steady |-> steady]
Idle == Request("idle", "none", FALSE, <<>>, "none", {})
New(route, heavy, steady) == Request("idle", route, heavy, <<>>, "none", steady)

Init ==
    /\ HealthInit
    /\ inflight = [n \in Ids |-> 0]
    /\ request = [c \in Clients |-> Idle]

\* Every step updates the history of every request.
Steady(requests) ==
    [c \in Clients |-> LET req == requests[c] IN
        Request(req.phase, req.route, req.heavy, req.tried, req.answer,
                req.steady \cap HealthyNodes')]

Answered(req, answer) ==
    Request("done", req.route, FALSE, req.tried, answer, req.steady)
Calls(req, phase, n) ==
    Request(phase, req.route, req.heavy, Append(req.tried, n), req.answer, req.steady)

----------------------------------------------------------------------------

\* A request arrives: the best node is called, the client is told when there is
\* none.  heavy requests prefer a fast node.
Arrive(c) ==
    /\ request[c].phase = "idle"
    /\ UNCHANGED healthVars
    /\ \E route \in DOMAIN Answers, heavy \in BOOLEAN :
         LET req == New(route, heavy, HealthyNodes)
             nodesToTry == SelectNode(HealthyNodes, {}, heavy)
         IN  \/ /\ nodesToTry = {}
                /\ request' = [request EXCEPT ![c] = Answered(req, "no_healthy_backends")]
                /\ UNCHANGED inflight
             \/ \E n \in nodesToTry :
                  /\ request' = [request EXCEPT ![c] = Calls(req, "first", n)]
                  /\ inflight' = Inc(inflight, n)

\* A request pinned to a backend by x-pool-pin-backend, looked up among all
\* registered nodes; health checks count, ejection does not.
ArrivePinned(c) ==
    /\ request[c].phase = "idle"
    /\ UNCHANGED healthVars
    /\ \E route \in DOMAIN Answers, url \in Range(UrlOf) :
         LET req == New(route, FALSE, {})
             matches == {n \in registered : UrlOf[n] = url}
         IN  \/ /\ \/ matches = {}
                   \/ \E n \in matches : ~nodes[n].healthy
                /\ request' = [request EXCEPT
                                 ![c] = Answered(req, "pinned_backend_unavailable")]
                /\ UNCHANGED inflight
             \/ \E n \in matches :
                  /\ nodes[n].healthy
                  /\ request' = [request EXCEPT ![c] = Calls(req, "pinned", n)]
                  /\ inflight' = Inc(inflight, n)

\* What the breaker is told: statuses below 500 are fine on this path.
Usable(kind) == kind \in {"ok", "garbled", "refused"}

\* The first call ends.  A usable answer is passed on; otherwise another node is
\* selected at once, on what the failure just recorded left of the pool.
FirstEnds(c, kind) ==
    LET req == request[c]
        n == Last(req.tried)
        left == Dec(inflight, n)
    IN  /\ req.phase = "first"
        /\ kind \in Answers[req.route]
        /\ RecordTrafficOutcome(n, Usable(kind))
        /\ UNCHANGED <<targets, registered, checking>>
        /\ \/ /\ Usable(kind)
              /\ inflight' = left
              /\ request' = Steady([request EXCEPT ![c] = Answered(req, kind)])
           \/ /\ ~Usable(kind)
              /\ SelectNode(HealthyNodes', {n}, req.heavy) = {}
              /\ inflight' = left
              /\ request' = Steady([request EXCEPT
                                      ![c] = Answered(req, "backend_unavailable")])
           \/ /\ ~Usable(kind)
              /\ \E other \in SelectNode(HealthyNodes', {n}, req.heavy) :
                   /\ inflight' = Inc(left, other)
                   /\ request' = Steady([request EXCEPT ![c] = Calls(req, "retry", other)])

\* The retry ends: whatever status it brings is passed on.
RetryEnds(c, kind) ==
    LET req == request[c]
        n == Last(req.tried)
    IN  /\ req.phase = "retry"
        /\ kind \in Answers[req.route]
        /\ RecordTrafficOutcome(n, Usable(kind))
        /\ UNCHANGED <<targets, registered, checking>>
        /\ inflight' = Dec(inflight, n)
        /\ request' = Steady([request EXCEPT
             ![c] = Answered(req, IF kind = "thrown" THEN "all_backends_failed" ELSE kind)])

\* Mutant: a pinned call that is not answered stays in the in-flight count.
PinnedEndsLeaking(c, kind) ==
    LET req == request[c]
    IN  /\ req.phase = "pinned"
        /\ kind \in Answers[req.route]
        /\ UNCHANGED healthVars
        /\ inflight' = IF kind = "thrown" THEN inflight
                       ELSE Dec(inflight, Last(req.tried))
        /\ request' = [request EXCEPT
             ![c] = Answered(req, IF kind = "thrown" THEN "pinned_backend_failed" ELSE kind)]

\* The pinned call ends; the breaker is not told.
PinnedEnds(c, kind) ==
    LET req == request[c]
        n == Last(req.tried)
    IN  /\ req.phase = "pinned"
        /\ kind \in Answers[req.route]
        /\ UNCHANGED healthVars
        /\ inflight' = Dec(inflight, n)
        /\ request' = [request EXCEPT
             ![c] = Answered(req, IF kind = "thrown" THEN "pinned_backend_failed" ELSE kind)]

\* The client is free to send its next request.
Leave(c) ==
    /\ request[c].phase = "done"
    /\ request' = [request EXCEPT ![c] = Idle]
    /\ UNCHANGED routerVars

CallEnds(c) == \E kind \in Replies :
                  FirstEnds(c, kind) \/ RetryEnds(c, kind) \/ PinnedEnds(c, kind)

Health == HealthStep /\ request' = Steady(request)

Next ==
    \/ \E c \in Clients : Arrive(c) \/ ArrivePinned(c) \/ CallEnds(c) \/ Leave(c)
    \/ Health

Spec == Init /\ [][Next]_vars

----------------------------------------------------------------------------
(* Properties *)

WaitingFor(n) == {c \in Clients : /\ request[c].phase \in {"first", "retry", "pinned"}
                                   /\ Last(request[c].tried) = n}

\* The in-flight counter of a node is the number of requests waiting for it, on
\* every path, also for a node that has left the pool meanwhile.
InflightExact == \A n \in Ids : inflight[n] = Cardinality(WaitingFor(n))

\* A client that is not pinned sees a failure only after two nodes failed, or
\* when no node other than the one that failed stayed in rotation all along.
Failure == {"failed", "backend_unavailable", "all_backends_failed", "no_healthy_backends"}
NoNeedlessFailure ==
    \A c \in Clients :
        LET req == request[c]
        IN  (req.answer \in Failure /\ req.steady # {}) =>
              \/ Cardinality(ToSet(req.tried)) = 2
              \/ req.steady \subseteq ToSet(req.tried)

\* What the README says of disabled sequence mode, and the code does not do.

\* Where backends serve every embed request, one is refused for the lack of a
\* healthy backend only when they all fail their health checks.
EmbedFallbackWorks ==
    [][\A c \in Clients :
         (/\ request[c].phase = "idle"
          /\ request'[c].route = "embed"
          /\ request'[c].answer = "no_healthy_backends")
            => \A n \in registered : ~nodes[n].healthy]_vars
=============================================================================
