--------------------------- MODULE ProxyRouteProofs ---------------------------
(***************************************************************************)
(* For every pool, every finite number of clients and every way calls may  *)
(* end: the in-flight counters of ProxyRoute are exact, and no request     *)
(* fails while a node that has been healthy all along was never asked.     *)
(***************************************************************************)
EXTENDS ProxyRoute, FiniteSetTheorems, SequenceTheorems, TLAPS

Waits == {"first", "retry", "pinned"}

Phases == Waits \cup {"idle", "done"}
Routes == {"none", "embed", "sequence"}
Ends == Replies \cup {"none", "no_healthy_backends", "pinned_backend_unavailable",
                      "backend_unavailable", "all_backends_failed", "pinned_backend_failed"}

Requests == [phase : Phases, route : Routes, heavy : BOOLEAN,
             tried : Seq(Ids), answer : Ends, steady : SUBSET Ids]

TypeInv ==
    /\ targets \subseteq Ids /\ registered \subseteq Ids
    /\ inflight \in [Ids -> Nat]
    /\ request \in [Clients -> Requests]

\* A request that waits for an answer waits for some node.
Called == \A c \in Clients : request[c].phase \in Waits => request[c].tried # <<>>

CountInv == TypeInv /\ Called /\ InflightExact

----------------------------------------------------------------------------
(* Records *)

\* The record of an arrival.
LEMMA NewType ==
    ASSUME NEW route \in DOMAIN Answers, NEW heavy \in BOOLEAN, NEW steady \in SUBSET Ids
    PROVE  New(route, heavy, steady) \in Requests /\ New(route, heavy, steady).tried = <<>>
<1>1. route \in Routes
  BY ProxyAssumption DEF Routes
<1>2. <<>> \in Seq(Ids) /\ "idle" \in Phases /\ "none" \in Ends
  BY DEF Phases, Ends
<1> QED
  BY <1>1, <1>2 DEF New, Request, Requests

\* The record of an answered request.
LEMMA AnsweredType ==
    ASSUME NEW q \in Requests, NEW answer \in Ends
    PROVE  Answered(q, answer) \in Requests /\ Answered(q, answer).phase = "done"
<1>1. /\ q.route \in Routes /\ q.tried \in Seq(Ids) /\ q.steady \in SUBSET Ids
      /\ FALSE \in BOOLEAN /\ "done" \in Phases
  BY DEF Requests, Phases
<1> QED
  BY <1>1 DEF Answered, Request, Requests

\* The record of a request that waits for n.
LEMMA CallsType ==
    ASSUME NEW q \in Requests, NEW phase \in Waits, NEW n \in Ids
    PROVE  /\ Calls(q, phase, n) \in Requests /\ Calls(q, phase, n).phase = phase
           /\ Calls(q, phase, n).tried # <<>> /\ Last(Calls(q, phase, n).tried) = n
<1>1. /\ q.route \in Routes /\ q.tried \in Seq(Ids) /\ q.steady \in SUBSET Ids
      /\ q.heavy \in BOOLEAN /\ q.answer \in Ends /\ phase \in Phases
  BY DEF Requests, Phases
<1>2. /\ Append(q.tried, n) \in Seq(Ids) /\ Append(q.tried, n) # <<>>
      /\ Last(Append(q.tried, n)) = n
  BY <1>1 DEF Last
<1> QED
  BY <1>1, <1>2 DEF Calls, Request, Requests

\* The history of the others leaves what they wait for.
LEMMA SteadyType ==
    ASSUME NEW requests \in [Clients -> Requests]
    PROVE  /\ Steady(requests) \in [Clients -> Requests]
           /\ \A c \in Clients : /\ Steady(requests)[c].phase = requests[c].phase
                                 /\ Steady(requests)[c].tried = requests[c].tried
<1>1. ASSUME NEW c \in Clients
      PROVE  /\ Steady(requests)[c] \in Requests
             /\ Steady(requests)[c].phase = requests[c].phase
             /\ Steady(requests)[c].tried = requests[c].tried
  <2> DEFINE q == requests[c]
             rest == q.steady \cap HealthyNodes'
  <2>1. /\ q.phase \in Phases /\ q.route \in Routes /\ q.heavy \in BOOLEAN
        /\ q.tried \in Seq(Ids) /\ q.answer \in Ends /\ rest \in SUBSET Ids
    BY DEF Requests
  <2>2. Steady(requests)[c] = Request(q.phase, q.route, q.heavy, q.tried, q.answer, rest)
    BY DEF Steady
  <2> HIDE DEF rest
  <2> QED
    BY <2>1, <2>2 DEF Request, Requests
<1>2. Steady(requests) = [c \in Clients |-> Steady(requests)[c]]
  BY DEF Steady
<1> QED
  BY <1>1, <1>2

----------------------------------------------------------------------------
(* Counting *)

\* c waits for n.
At(c, n) == request[c].phase \in Waits /\ Last(request[c].tried) = n

\* A step of one client moves it alone.
LEMMA OneMoves ==
    ASSUME NEW c \in Clients, NEW n,
           \A d \in Clients \ {c} : At(d, n) <=> At(d, n)'
    PROVE  /\ Cardinality(WaitingFor(n)) \in Nat
           /\ At(c, n)' /\ At(c, n) => Cardinality(WaitingFor(n)') = Cardinality(WaitingFor(n))
           /\ ~At(c, n)' /\ ~At(c, n) => Cardinality(WaitingFor(n)') = Cardinality(WaitingFor(n))
           /\ At(c, n)' /\ ~At(c, n) => Cardinality(WaitingFor(n)') = Cardinality(WaitingFor(n)) + 1
           /\ ~At(c, n)' /\ At(c, n) => /\ Cardinality(WaitingFor(n)) >= 1
                                        /\ Cardinality(WaitingFor(n)') = Cardinality(WaitingFor(n)) - 1
<1> DEFINE W == {d \in Clients : At(d, n)}
           V == {d \in Clients : At(d, n)'}
<1>1. WaitingFor(n) = W /\ WaitingFor(n)' = V
  BY DEF WaitingFor, At, Waits
<1>2. IsFiniteSet(W) /\ IsFiniteSet(V)
  BY ProxyAssumption, FS_Subset
<1>3. Cardinality(W) \in Nat /\ Cardinality(V) \in Nat
  BY <1>2, FS_CardinalityType
<1>4. (At(c, n)' <=> At(c, n)) => V = W
  OBVIOUS
<1>5. At(c, n)' /\ ~At(c, n) => V = W \cup {c} /\ c \notin W
  OBVIOUS
<1>6. ~At(c, n)' /\ At(c, n) => W = V \cup {c} /\ c \notin V
  OBVIOUS
<1>7. c \notin W => Cardinality(W \cup {c}) = Cardinality(W) + 1
  BY <1>2, FS_AddElement
<1>8. c \notin V => Cardinality(V \cup {c}) = Cardinality(V) + 1
  BY <1>2, FS_AddElement
<1> HIDE DEF W, V
<1> QED
  BY <1>1, <1>3, <1>4, <1>5, <1>6, <1>7, <1>8

\* A step that takes c from one node to another, and says so to the counters, keeps
\* them exact.
LEMMA Counted ==
    ASSUME CountInv, NEW c \in Clients, request' \in [Clients -> Requests],
           \A d \in Clients \ {c} : /\ request'[d].phase = request[d].phase
                                    /\ request'[d].tried = request[d].tried,
           \A k \in Ids :
              /\ (At(c, k)' <=> At(c, k)) => inflight'[k] = inflight[k]
              /\ At(c, k)' /\ ~At(c, k) => inflight'[k] = inflight[k] + 1
              /\ ~At(c, k)' /\ At(c, k) /\ inflight[k] >= 1 => inflight'[k] = inflight[k] - 1
    PROVE  InflightExact'
<1> SUFFICES ASSUME NEW k \in Ids PROVE inflight'[k] = Cardinality(WaitingFor(k)')
  BY DEF InflightExact
<1>1. \A d \in Clients \ {c} : At(d, k) <=> At(d, k)'
  BY DEF At
<1>2. inflight[k] = Cardinality(WaitingFor(k))
  BY DEF CountInv, InflightExact
<1>3. /\ Cardinality(WaitingFor(k)) \in Nat
      /\ At(c, k)' /\ At(c, k) => Cardinality(WaitingFor(k)') = Cardinality(WaitingFor(k))
      /\ ~At(c, k)' /\ ~At(c, k) => Cardinality(WaitingFor(k)') = Cardinality(WaitingFor(k))
      /\ At(c, k)' /\ ~At(c, k) => Cardinality(WaitingFor(k)') = Cardinality(WaitingFor(k)) + 1
      /\ ~At(c, k)' /\ At(c, k) => /\ Cardinality(WaitingFor(k)) >= 1
                                   /\ Cardinality(WaitingFor(k)') = Cardinality(WaitingFor(k)) - 1
  BY <1>1, OneMoves
<1> QED
  BY <1>2, <1>3

\* The record of one client is replaced, with or without the histories of all.
LEMMA Replaced ==
    ASSUME TypeInv, NEW c \in Clients, NEW q \in Requests,
           \/ request' = [request EXCEPT ![c] = q]
           \/ request' = Steady([request EXCEPT ![c] = q])
    PROVE  /\ request' \in [Clients -> Requests]
           /\ request'[c].phase = q.phase /\ request'[c].tried = q.tried
           /\ \A d \in Clients \ {c} : /\ request'[d].phase = request[d].phase
                                       /\ request'[d].tried = request[d].tried
<1> DEFINE next == [request EXCEPT ![c] = q]
<1>1. /\ next \in [Clients -> Requests] /\ next[c] = q
      /\ \A d \in Clients \ {c} : next[d] = request[d]
  BY DEF TypeInv
<1> HIDE DEF next
<1>2. CASE request' = next
  BY <1>1, <1>2
<1>3. CASE request' = Steady(next)
  BY <1>1, <1>3, SteadyType
<1> QED
  BY <1>2, <1>3 DEF next

----------------------------------------------------------------------------
(* Steps *)

\* What a step of client c leaves alone.
Pool == targets' = targets /\ registered' = registered

\* The node a request waits for is a node.
LEMMA LastCalled ==
    ASSUME TypeInv, Called, NEW c \in Clients, request[c].phase \in Waits
    PROVE  Last(request[c].tried) \in Ids
<1>1. request[c].tried \in Seq(Ids) /\ request[c].tried # <<>>
  BY DEF TypeInv, Called, Requests
<1> QED
  BY <1>1 DEF Last

\* c begins to wait for n.
LEMMA Begins ==
    ASSUME CountInv, Pool, NEW c \in Clients, NEW n \in Ids, NEW q \in Requests, NEW phase \in Waits,
           request[c].phase \notin Waits,
           request' = [request EXCEPT ![c] = Calls(q, phase, n)],
           inflight' = Inc(inflight, n)
    PROVE  CountInv'
<1> DEFINE next == Calls(q, phase, n)
<1>0. next \in Requests /\ next.phase = phase /\ next.tried # <<>> /\ Last(next.tried) = n
  BY CallsType
<1>1. TypeInv /\ Called
  BY DEF CountInv
<1> HIDE DEF next
<1>2. /\ request' \in [Clients -> Requests]
      /\ request'[c].phase = phase /\ request'[c].tried # <<>> /\ Last(request'[c].tried) = n
      /\ \A d \in Clients \ {c} : /\ request'[d].phase = request[d].phase
                                  /\ request'[d].tried = request[d].tried
  <2>1. request' = [request EXCEPT ![c] = next]
    BY DEF next
  <2> QED
    BY <1>0, <1>1, <2>1, Replaced
<1>3. /\ inflight' \in [Ids -> Nat] /\ inflight'[n] = inflight[n] + 1
      /\ \A k \in Ids \ {n} : inflight'[k] = inflight[k]
  BY <1>1 DEF TypeInv, Inc
<1>4. /\ \A k : ~At(c, k)
      /\ \A k : At(c, k)' <=> k = n
  BY <1>2 DEF At
<1>5. InflightExact'
  BY <1>2, <1>3, <1>4, Counted
<1>6. Called'
  BY <1>1, <1>2 DEF Called
<1> QED
  BY <1>1, <1>2, <1>3, <1>5, <1>6 DEF CountInv, TypeInv, Pool

\* c no longer waits for n.
LEMMA IsOver ==
    ASSUME CountInv, Pool, NEW c \in Clients, NEW q \in Requests, q.phase \notin Waits,
           request[c].phase \in Waits,
           \/ request' = [request EXCEPT ![c] = q]
           \/ request' = Steady([request EXCEPT ![c] = q]),
           inflight' = Dec(inflight, Last(request[c].tried))
    PROVE  CountInv'
<1> DEFINE n == Last(request[c].tried)
<1>1. TypeInv /\ Called
  BY DEF CountInv
<1>2. /\ request' \in [Clients -> Requests]
      /\ request'[c].phase \notin Waits
      /\ \A d \in Clients \ {c} : /\ request'[d].phase = request[d].phase
                                  /\ request'[d].tried = request[d].tried
  BY <1>1, Replaced
<1>3. n \in Ids
  BY <1>1, LastCalled
<1>4. /\ inflight' \in [Ids -> Nat] /\ (inflight[n] >= 1 => inflight'[n] = inflight[n] - 1)
      /\ \A k \in Ids \ {n} : inflight'[k] = inflight[k]
  BY <1>1, <1>3 DEF TypeInv, Dec
<1>5. /\ \A k : At(c, k) <=> k = n
      /\ \A k : ~At(c, k)'
  BY <1>2 DEF At
<1>6. InflightExact'
  BY <1>2, <1>4, <1>5, Counted
<1>7. Called'
  BY <1>1, <1>2 DEF Called
<1> QED
  BY <1>1, <1>2, <1>4, <1>6, <1>7 DEF CountInv, TypeInv, Pool

\* c waits for m instead of n.
LEMMA Moves ==
    ASSUME CountInv, Pool, NEW c \in Clients, NEW m \in Ids,
           request[c].phase \in Waits, m # Last(request[c].tried),
           request' = Steady([request EXCEPT ![c] = Calls(request[c], "retry", m)]),
           inflight' = Inc(Dec(inflight, Last(request[c].tried)), m)
    PROVE  CountInv'
<1> DEFINE n == Last(request[c].tried)
           next == Calls(request[c], "retry", m)
<1>1. TypeInv /\ Called /\ request[c] \in Requests /\ "retry" \in Waits
  BY DEF CountInv, TypeInv, Waits
<1>2. next \in Requests /\ next.phase = "retry" /\ next.tried # <<>> /\ Last(next.tried) = m
  BY <1>1, CallsType
<1>3. n \in Ids
  BY <1>1, LastCalled
<1> HIDE DEF next
<1>4. /\ request' \in [Clients -> Requests]
      /\ request'[c].phase = "retry" /\ request'[c].tried # <<>> /\ Last(request'[c].tried) = m
      /\ \A d \in Clients \ {c} : /\ request'[d].phase = request[d].phase
                                  /\ request'[d].tried = request[d].tried
  <2>1. request' = Steady([request EXCEPT ![c] = next])
    BY DEF next
  <2> QED
    BY <1>1, <1>2, <2>1, Replaced
<1>5. /\ inflight' \in [Ids -> Nat] /\ inflight'[m] = inflight[m] + 1
      /\ inflight[n] >= 1 => inflight'[n] = inflight[n] - 1
      /\ \A k \in Ids \ {m, n} : inflight'[k] = inflight[k]
  BY <1>1, <1>3 DEF TypeInv, Inc, Dec
<1>6. /\ \A k : At(c, k) <=> k = n
      /\ \A k : At(c, k)' <=> k = m
  BY <1>1, <1>4 DEF At
<1>7. InflightExact'
  BY <1>4, <1>5, <1>6, Counted
<1>8. Called'
  BY <1>1, <1>4 DEF Called
<1> QED
  BY <1>1, <1>4, <1>5, <1>7, <1>8 DEF CountInv, TypeInv, Pool

\* A step that neither begins nor ends a call.
LEMMA Calm ==
    ASSUME CountInv, inflight' = inflight, targets' \subseteq Ids, registered' \subseteq Ids,
           request' \in [Clients -> Requests],
           \A c \in Clients : \/ request[c].phase \notin Waits /\ request'[c].phase \notin Waits
                              \/ /\ request'[c].phase = request[c].phase
                                 /\ request'[c].tried = request[c].tried
    PROVE  CountInv'
<1>1. ASSUME NEW k PROVE WaitingFor(k)' = WaitingFor(k)
  BY DEF WaitingFor, Waits
<1>2. InflightExact'
  BY <1>1 DEF CountInv, InflightExact
<1> QED
  BY <1>2 DEF CountInv, TypeInv, Called

\* c is answered at once.
LEMMA Refused ==
    ASSUME CountInv, Pool, NEW c \in Clients, NEW q \in Requests,
           NEW answer \in {"no_healthy_backends", "pinned_backend_unavailable"},
           request[c].phase \notin Waits,
           request' = [request EXCEPT ![c] = Answered(q, answer)], inflight' = inflight
    PROVE  CountInv'
<1> DEFINE next == Answered(q, answer)
<1>1. TypeInv
  BY DEF CountInv
<1>2. next \in Requests /\ next.phase = "done" /\ "done" \notin Waits
  BY AnsweredType DEF Ends, Waits
<1> HIDE DEF next
<1>3. /\ request' \in [Clients -> Requests] /\ request'[c].phase = "done"
      /\ \A d \in Clients \ {c} : request'[d] = request[d]
  BY <1>1, <1>2 DEF TypeInv, next
<1>4. targets' \subseteq Ids /\ registered' \subseteq Ids
  BY <1>1 DEF TypeInv, Pool
<1> QED
  BY <1>2, <1>3, <1>4, Calm

\* c is answered after a call.
LEMMA IsAnswered ==
    ASSUME CountInv, Pool, NEW c \in Clients, NEW answer \in Ends,
           request[c] \in Requests, request[c].phase \in Waits,
           \/ request' = [request EXCEPT ![c] = Answered(request[c], answer)]
           \/ request' = Steady([request EXCEPT ![c] = Answered(request[c], answer)]),
           inflight' = Dec(inflight, Last(request[c].tried))
    PROVE  CountInv'
<1> DEFINE next == Answered(request[c], answer)
<1>1. next \in Requests /\ next.phase = "done" /\ "done" \notin Waits
  BY AnsweredType DEF Waits
<1>2. \/ request' = [request EXCEPT ![c] = next]
      \/ request' = Steady([request EXCEPT ![c] = next])
  OBVIOUS
<1> HIDE DEF next
<1> QED
  BY <1>1, <1>2, IsOver

\* Nobody waits and nothing is counted at the start.
LEMMA CountInit == Init => CountInv
<1> SUFFICES ASSUME Init PROVE CountInv
  OBVIOUS
<1>1. Idle \in Requests /\ Idle.phase \notin Waits
  BY DEF Idle, Request, Requests, Waits, Phases, Routes, Ends
<1>2. TypeInv /\ Called
  BY <1>1, StaticAssumption DEF Init, HealthInit, TypeInv, Called
<1>3. ASSUME NEW n \in Ids PROVE inflight[n] = Cardinality(WaitingFor(n))
  <2>1. WaitingFor(n) = {}
    BY <1>1 DEF Init, WaitingFor, Waits
  <2> QED
    BY <2>1, FS_EmptySet DEF Init
<1> QED
  BY <1>2, <1>3 DEF CountInv, InflightExact

\* One step per action: who stops waiting is taken off, who starts is added.
LEMMA CountNext == CountInv /\ [Next]_vars => CountInv'
<1> SUFFICES ASSUME CountInv, [Next]_vars PROVE CountInv'
  OBVIOUS
<1>0. TypeInv
  BY DEF CountInv
<1>1. ASSUME NEW c \in Clients, Arrive(c) PROVE CountInv'
  <2>1. Pool /\ request[c].phase = "idle" /\ "idle" \notin Waits /\ "first" \in Waits
    BY <1>1 DEF Arrive, Pool, healthVars, Waits
  <2>2. PICK route \in DOMAIN Answers, heavy \in BOOLEAN :
          LET req == New(route, heavy, HealthyNodes)
          IN  \/ /\ request' = [request EXCEPT ![c] = Answered(req, "no_healthy_backends")]
                 /\ inflight' = inflight
              \/ \E n \in SelectNode(HealthyNodes, {}, heavy) :
                   /\ request' = [request EXCEPT ![c] = Calls(req, "first", n)]
                   /\ inflight' = Inc(inflight, n)
    BY <1>1 DEF Arrive
  <2> DEFINE req == New(route, heavy, HealthyNodes)
  <2>3. HealthyNodes \in SUBSET Ids
    BY DEF HealthyNodes
  <2>4. req \in Requests
    BY <2>3, NewType
  <2> HIDE DEF req
  <2>5. CASE /\ request' = [request EXCEPT ![c] = Answered(req, "no_healthy_backends")]
             /\ inflight' = inflight
    BY <1>0, <2>1, <2>4, <2>5, Refused
  <2>6. ASSUME NEW n \in SelectNode(HealthyNodes, {}, heavy),
               request' = [request EXCEPT ![c] = Calls(req, "first", n)],
               inflight' = Inc(inflight, n)
        PROVE  CountInv'
    <3>1. n \in Ids
      BY <2>3 DEF SelectNode
    <3> QED
      BY <2>1, <2>4, <2>6, <3>1, Begins
  <2> QED
    BY <2>2, <2>5, <2>6 DEF req
<1>2. ASSUME NEW c \in Clients, ArrivePinned(c) PROVE CountInv'
  <2>1. Pool /\ request[c].phase = "idle" /\ "idle" \notin Waits /\ "pinned" \in Waits
    BY <1>2 DEF ArrivePinned, Pool, healthVars, Waits
  <2>2. PICK route \in DOMAIN Answers :
          LET req == New(route, FALSE, {})
          IN  \/ /\ request' = [request EXCEPT ![c] = Answered(req, "pinned_backend_unavailable")]
                 /\ inflight' = inflight
              \/ \E n \in registered :
                   /\ request' = [request EXCEPT ![c] = Calls(req, "pinned", n)]
                   /\ inflight' = Inc(inflight, n)
    BY <1>2 DEF ArrivePinned
  <2> DEFINE req == New(route, FALSE, {})
  <2>3. req \in Requests
    BY NewType
  <2> HIDE DEF req
  <2>4. CASE /\ request' = [request EXCEPT ![c] = Answered(req, "pinned_backend_unavailable")]
             /\ inflight' = inflight
    BY <1>0, <2>1, <2>3, <2>4, Refused
  <2>5. ASSUME NEW n \in registered,
               request' = [request EXCEPT ![c] = Calls(req, "pinned", n)],
               inflight' = Inc(inflight, n)
        PROVE  CountInv'
    <3>1. n \in Ids
      BY <1>0 DEF TypeInv
    <3> QED
      BY <2>1, <2>3, <2>5, <3>1, Begins
  <2> QED
    BY <2>2, <2>4, <2>5 DEF req
<1>3. ASSUME NEW c \in Clients, NEW kind \in Replies, FirstEnds(c, kind) PROVE CountInv'
  <2>1. Pool /\ request[c].phase \in Waits /\ request[c] \in Requests
    BY <1>0, <1>3 DEF FirstEnds, Pool, Waits, TypeInv
  <2>2. ASSUME NEW answer \in Ends,
               request' = Steady([request EXCEPT ![c] = Answered(request[c], answer)]),
               inflight' = Dec(inflight, Last(request[c].tried))
        PROVE  CountInv'
    BY <2>1, <2>2, IsAnswered
  <2>3. ASSUME NEW other \in SelectNode(HealthyNodes', {Last(request[c].tried)}, request[c].heavy),
               request' = Steady([request EXCEPT ![c] = Calls(request[c], "retry", other)]),
               inflight' = Inc(Dec(inflight, Last(request[c].tried)), other)
        PROVE  CountInv'
    <3>1. other \in Ids /\ other # Last(request[c].tried)
      BY DEF SelectNode, HealthyNodes
    <3> QED
      BY <2>1, <2>3, <3>1, Moves
  <2>4. kind \in Ends /\ "backend_unavailable" \in Ends
    BY DEF Ends
  <2> QED
    BY <1>3, <2>2, <2>3, <2>4 DEF FirstEnds
<1>4. ASSUME NEW c \in Clients, NEW kind \in Replies, RetryEnds(c, kind) PROVE CountInv'
  <2>1. Pool /\ request[c].phase \in Waits /\ request[c] \in Requests
    BY <1>0, <1>4 DEF RetryEnds, Pool, Waits, TypeInv
  <2>2. PICK answer \in Ends :
             request' = Steady([request EXCEPT ![c] = Answered(request[c], answer)])
    BY <1>4 DEF RetryEnds, Ends
  <2>3. inflight' = Dec(inflight, Last(request[c].tried))
    BY <1>4 DEF RetryEnds
  <2> QED
    BY <2>1, <2>2, <2>3, IsAnswered
<1>5. ASSUME NEW c \in Clients, NEW kind \in Replies, PinnedEnds(c, kind) PROVE CountInv'
  <2>1. Pool /\ request[c].phase \in Waits /\ request[c] \in Requests
    BY <1>0, <1>5 DEF PinnedEnds, Pool, healthVars, Waits, TypeInv
  <2>2. PICK answer \in Ends : request' = [request EXCEPT ![c] = Answered(request[c], answer)]
    BY <1>5 DEF PinnedEnds, Ends
  <2>3. inflight' = Dec(inflight, Last(request[c].tried))
    BY <1>5 DEF PinnedEnds
  <2> QED
    BY <2>1, <2>2, <2>3, IsAnswered
<1>6. ASSUME NEW c \in Clients, Leave(c) PROVE CountInv'
  <2>1. Idle \in Requests /\ Idle.phase \notin Waits
    BY DEF Idle, Request, Requests, Waits, Phases, Routes, Ends
  <2>2. request' \in [Clients -> Requests] /\ inflight' = inflight
    BY <1>0, <1>6, <2>1 DEF Leave, TypeInv, routerVars
  <2>3. targets' \subseteq Ids /\ registered' \subseteq Ids
    BY <1>0, <1>6 DEF Leave, TypeInv, routerVars, healthVars
  <2>4. /\ request[c].phase \notin Waits /\ request'[c].phase \notin Waits
        /\ \A d \in Clients \ {c} : request'[d] = request[d]
    BY <1>0, <1>6, <2>1 DEF Leave, TypeInv, Waits
  <2> QED
    BY <2>2, <2>3, <2>4, Calm
<1>7. ASSUME Health PROVE CountInv'
  <2>1. targets' \subseteq Ids /\ registered' \subseteq Ids
    BY <1>0, <1>7, StaticAssumption
       DEF Health, HealthStep, HealthNext, DiscoveryPoll, PollAll, Tick, CheckOk, CheckFail, EndCheck, TypeInv
  <2>2. inflight' = inflight /\ request' = Steady(request) /\ request \in [Clients -> Requests]
    BY <1>0, <1>7 DEF Health, HealthStep, TypeInv
  <2> QED
    BY <2>1, <2>2, SteadyType, Calm
<1>8. CASE UNCHANGED vars
  <2>1. targets' \subseteq Ids /\ registered' \subseteq Ids /\ request' \in [Clients -> Requests]
    BY <1>0, <1>8 DEF vars, routerVars, healthVars, TypeInv
  <2>2. inflight' = inflight /\ request' = request
    BY <1>8 DEF vars, routerVars
  <2> QED
    BY <2>1, <2>2, Calm
<1> QED
  BY <1>1, <1>2, <1>3, <1>4, <1>5, <1>6, <1>7, <1>8 DEF Next, CallEnds

\* The in-flight counters are exact: no path through handleProxy leaks a request or
\* takes one off twice, whatever becomes of the node meanwhile.
THEOREM CountersAreExact == Spec => []InflightExact
<1>1. CountInv => InflightExact
  BY DEF CountInv
<1> QED
  BY CountInit, CountNext, <1>1, PTL DEF Spec

----------------------------------------------------------------------------
(* No needless failure *)

Deserves(answer, tried, steady) ==
    answer \in Failure /\ steady # {} =>
      Cardinality(ToSet(tried)) = 2 \/ steady \subseteq ToSet(tried)

\* A request is unanswered while it waits, for one node first and for another in the
\* retry; a pinned one is owed nothing; and what it is answered it deserves.
Deserved(q) ==
    /\ q.phase \in Waits => q.answer = "none"
    /\ q.phase = "first" => \E n \in Ids : q.tried = <<n>>
    /\ q.phase = "retry" => \E n, m \in Ids : n # m /\ q.tried = <<n, m>>
    /\ q.phase = "pinned" => q.steady = {}
    /\ Deserves(q.answer, q.tried, q.steady)

AllDeserved == \A c \in Clients : Deserved(request[c])

Narrowed(q, steady) == Request(q.phase, q.route, q.heavy, q.tried, q.answer, steady)

\* A shorter history excuses no more.
LEMMA StaysDeserved ==
    ASSUME NEW q \in Requests, NEW steady, steady \subseteq q.steady, Deserved(q)
    PROVE  Deserved(Narrowed(q, steady))
<1> DEFINE r == Narrowed(q, steady)
<1>1. /\ r.phase = q.phase /\ r.answer = q.answer /\ r.tried = q.tried /\ r.steady = steady
  BY DEF Narrowed, Request
<1> HIDE DEF r
<1>2. Deserves(q.answer, q.tried, steady)
  BY DEF Deserved, Deserves
<1>3. Deserved(r)
  BY <1>1, <1>2 DEF Deserved
<1> QED
  BY <1>3 DEF r

\* When the record of one client is replaced by a deserved one, all are.
LEMMA OneDeserved ==
    ASSUME TypeInv, AllDeserved, NEW c \in Clients, NEW q \in Requests,
           \/ request' = [request EXCEPT ![c] = q] /\ Deserved(q)
           \/ /\ request' = Steady([request EXCEPT ![c] = q])
              /\ Deserved(Narrowed(q, q.steady \cap HealthyNodes'))
    PROVE  AllDeserved'
<1> DEFINE next == [request EXCEPT ![c] = q]
<1>1. /\ next \in [Clients -> Requests] /\ next[c] = q
      /\ \A d \in Clients \ {c} : next[d] = request[d]
  BY DEF TypeInv
<1>2. \A d \in Clients : request[d] \in Requests /\ Deserved(request[d])
  BY DEF TypeInv, AllDeserved
<1> HIDE DEF next
<1>3. CASE request' = next /\ Deserved(q)
  BY <1>1, <1>2, <1>3 DEF AllDeserved
<1>4. CASE request' = Steady(next) /\ Deserved(Narrowed(q, q.steady \cap HealthyNodes'))
  <2> SUFFICES ASSUME NEW d \in Clients PROVE Deserved(request'[d])
    BY DEF AllDeserved
  <2>1. request'[d] = Narrowed(next[d], next[d].steady \cap HealthyNodes')
    BY <1>4 DEF Steady, Narrowed
  <2>2. CASE d = c
    BY <1>1, <1>4, <2>1, <2>2
  <2>3. CASE d # c
    <3>1. next[d] \in Requests /\ Deserved(next[d])
      BY <1>1, <1>2, <2>3
    <3>2. next[d].steady \cap HealthyNodes' \subseteq next[d].steady
      OBVIOUS
    <3> QED
      BY <2>1, <3>1, <3>2, StaysDeserved
  <2> QED
    BY <2>2, <2>3
<1> QED
  BY <1>3, <1>4 DEF next

\* Not an answer a request could complain of.
LEMMA NoComplaint ==
    ASSUME NEW q \in Requests, NEW answer \in Ends,
           \/ answer \notin Failure
           \/ q.steady = {}
           \/ Cardinality(ToSet(q.tried)) = 2
    PROVE  /\ Answered(q, answer) \in Requests
           /\ Deserved(Answered(q, answer))
<1> DEFINE r == Answered(q, answer)
<1>1. r \in Requests
  BY AnsweredType
<1>2. /\ r.phase = "done" /\ r.answer = answer /\ r.tried = q.tried /\ r.steady = q.steady
  BY DEF Answered, Request
<1> HIDE DEF r
<1>3. Deserves(answer, q.tried, q.steady)
  BY DEF Deserves
<1>4. Deserved(r)
  BY <1>2, <1>3 DEF Deserved, Waits
<1> QED
  BY <1>1, <1>4 DEF r

\* The two nodes of a request that was retried.
LEMMA Singles ==
    ASSUME NEW n \in Ids, NEW m \in Ids, n # m
    PROVE  /\ ToSet(<<n>>) = {n} /\ ToSet(<<n, m>>) = {n, m} /\ Cardinality({n, m}) = 2
           /\ Append(<<n>>, m) = <<n, m>>
<1>1. ToSet(<<n>>) = {n} /\ ToSet(<<n, m>>) = {n, m}
  BY DEF ToSet
<1>2. Cardinality({n, m}) = 2
  <2>1. IsFiniteSet({n}) /\ Cardinality({n}) = 1
    BY FS_Singleton
  <2>2. {n, m} = {n} \cup {m} /\ m \notin {n}
    OBVIOUS
  <2> QED
    BY <2>1, <2>2, FS_AddElement
<1>3. Append(<<n>>, m) = <<n, m>>
  <2>1. <<n>> \in Seq(Ids) /\ Len(<<n>>) = 1
    OBVIOUS
  <2> DEFINE s == Append(<<n>>, m)
             t == <<n, m>>
  <2>2. s \in Seq(Ids) /\ Len(s) = 2 /\ s[2] = m
    BY <2>1, AppendProperties
  <2>3. s[1] = n
    <3>1. s[1] = <<n>>[1]
      BY <2>1, AppendProperties
    <3> QED
      BY <3>1
  <2>4. t \in Seq(Ids) /\ Len(t) = 2 /\ t[1] = n /\ t[2] = m
    OBVIOUS
  <2> HIDE DEF s, t
  <2>5. \A i \in 1..Len(s) : s[i] = t[i]
    BY <2>2, <2>3, <2>4
  <2>6. s = t
    BY <2>2, <2>4, <2>5, SeqEqual
  <2> QED
    BY <2>6 DEF s, t
<1> QED
  BY <1>1, <1>2, <1>3

\* Nobody waits or has failed at the start.
LEMMA DeservedInit == Init => AllDeserved
<1> SUFFICES ASSUME Init, NEW c \in Clients PROVE Deserved(request[c])
  BY DEF AllDeserved
<1>1. request[c] = Idle
  BY DEF Init
<1>2. Idle.phase = "idle" /\ Idle.answer = "none"
  BY DEF Idle, Request
<1> QED
  BY <1>1, <1>2 DEF Deserved, Deserves, Waits, Failure

\* Whoever is called first after an arrival is the first node tried.
LEMMA FirstCall ==
    ASSUME NEW route \in DOMAIN Answers, NEW heavy \in BOOLEAN, NEW steady \in SUBSET Ids,
           NEW n \in Ids, NEW phase \in {"first", "pinned"},
           phase = "pinned" => steady = {}
    PROVE  LET q == Calls(New(route, heavy, steady), phase, n)
           IN  q \in Requests /\ Deserved(q)
<1> DEFINE new == New(route, heavy, steady)
           q == Calls(new, phase, n)
<1>1. new \in Requests /\ new.tried = <<>> /\ phase \in Waits
  BY NewType DEF Waits
<1>2. new.answer = "none" /\ new.steady = steady
  BY DEF New, Request
<1> HIDE DEF new
<1>3. q \in Requests
  BY <1>1, CallsType
<1>4. /\ q.phase = phase /\ q.answer = "none" /\ q.steady = steady /\ q.tried = Append(<<>>, n)
  BY <1>1, <1>2 DEF Calls, Request
<1>5. Append(<<>>, n) = <<n>>
  OBVIOUS
<1> HIDE DEF q
<1> DEFINE one == <<n>>
<1>6. q.tried = one /\ \E m \in Ids : one = <<m>>
  BY <1>4, <1>5
<1> HIDE DEF one
<1>7. Deserved(q)
  BY <1>4, <1>6 DEF Deserved, Deserves, Failure, one
<1> QED
  BY <1>3, <1>7 DEF q, new

\* One step per action; only the end of a call can disturb it.
LEMMA DeservedNext == CountInv /\ AllDeserved /\ [Next]_vars => AllDeserved'
<1> SUFFICES ASSUME CountInv, AllDeserved, [Next]_vars PROVE AllDeserved'
  OBVIOUS
<1>0. TypeInv /\ \A c \in Clients : request[c] \in Requests /\ Deserved(request[c])
  BY DEF CountInv, TypeInv, AllDeserved
<1>1. ASSUME NEW c \in Clients, Arrive(c) PROVE AllDeserved'
  <2>1. PICK route \in DOMAIN Answers, heavy \in BOOLEAN :
          LET req == New(route, heavy, HealthyNodes)
          IN  \/ /\ SelectNode(HealthyNodes, {}, heavy) = {}
                 /\ request' = [request EXCEPT ![c] = Answered(req, "no_healthy_backends")]
              \/ \E n \in SelectNode(HealthyNodes, {}, heavy) :
                   request' = [request EXCEPT ![c] = Calls(req, "first", n)]
    BY <1>1 DEF Arrive
  <2> DEFINE req == New(route, heavy, HealthyNodes)
  <2>2. HealthyNodes \in SUBSET Ids
    BY DEF HealthyNodes
  <2>3. req \in Requests /\ req.steady = HealthyNodes
    BY <2>2, NewType DEF New, Request
  <2>4. ASSUME SelectNode(HealthyNodes, {}, heavy) = {},
               request' = [request EXCEPT ![c] = Answered(req, "no_healthy_backends")]
        PROVE  AllDeserved'
    <3>1. HealthyNodes = {}
      BY <2>4 DEF SelectNode
    <3> DEFINE q == Answered(req, "no_healthy_backends")
    <3> HIDE DEF req
    <3>2. q \in Requests /\ Deserved(q)
      BY <2>3, <3>1, NoComplaint DEF Ends
    <3> HIDE DEF q
    <3>3. request' = [request EXCEPT ![c] = q]
      BY <2>4 DEF q
    <3> QED
      BY <1>0, <3>2, <3>3, OneDeserved
  <2>5. ASSUME NEW n \in SelectNode(HealthyNodes, {}, heavy),
               request' = [request EXCEPT ![c] = Calls(req, "first", n)]
        PROVE  AllDeserved'
    <3>1. n \in Ids
      BY <2>2 DEF SelectNode
    <3> DEFINE q == Calls(req, "first", n)
    <3>2. q \in Requests /\ Deserved(q)
      BY <2>2, <3>1, FirstCall
    <3> HIDE DEF q
    <3>3. request' = [request EXCEPT ![c] = q]
      BY <2>5 DEF q
    <3> QED
      BY <1>0, <3>2, <3>3, OneDeserved
  <2> QED
    BY <2>1, <2>4, <2>5
<1>2. ASSUME NEW c \in Clients, ArrivePinned(c) PROVE AllDeserved'
  <2>1. PICK route \in DOMAIN Answers :
          LET req == New(route, FALSE, {})
          IN  \/ request' = [request EXCEPT ![c] = Answered(req, "pinned_backend_unavailable")]
              \/ \E n \in registered : request' = [request EXCEPT ![c] = Calls(req, "pinned", n)]
    BY <1>2 DEF ArrivePinned
  <2> DEFINE req == New(route, FALSE, {})
  <2>2. req \in Requests /\ req.steady = {}
    BY NewType DEF New, Request
  <2>3. ASSUME request' = [request EXCEPT ![c] = Answered(req, "pinned_backend_unavailable")]
        PROVE  AllDeserved'
    <3> DEFINE q == Answered(req, "pinned_backend_unavailable")
    <3> HIDE DEF req
    <3>1. q \in Requests /\ Deserved(q)
      BY <2>2, NoComplaint DEF Ends
    <3> HIDE DEF q
    <3>2. request' = [request EXCEPT ![c] = q]
      BY <2>3 DEF q
    <3> QED
      BY <1>0, <3>1, <3>2, OneDeserved
  <2>4. ASSUME NEW n \in registered, request' = [request EXCEPT ![c] = Calls(req, "pinned", n)]
        PROVE  AllDeserved'
    <3>1. n \in Ids
      BY <1>0 DEF TypeInv
    <3> DEFINE q == Calls(req, "pinned", n)
    <3>2. q \in Requests /\ Deserved(q)
      BY <3>1, FirstCall
    <3> HIDE DEF q
    <3>3. request' = [request EXCEPT ![c] = q]
      BY <2>4 DEF q
    <3> QED
      BY <1>0, <3>2, <3>3, OneDeserved
  <2> QED
    BY <2>1, <2>3, <2>4
<1>3. ASSUME NEW c \in Clients, NEW kind \in Replies, FirstEnds(c, kind) PROVE AllDeserved'
  <2> DEFINE req == request[c]
             n == Last(req.tried)
  <2>1. PICK first \in Ids : req.tried = <<first>>
    BY <1>0, <1>3 DEF FirstEnds, Deserved
  <2>2. req \in Requests /\ req.phase = "first" /\ req.answer = "none"
    BY <1>0, <1>3 DEF FirstEnds, Deserved, Waits
  <2>3. n = first /\ ToSet(req.tried) = {n}
    BY <2>1 DEF Last, ToSet
  <2>4. ASSUME Usable(kind), request' = Steady([request EXCEPT ![c] = Answered(req, kind)])
        PROVE  AllDeserved'
    <3> DEFINE q == Answered(req, kind)
    <3>1. kind \in Ends /\ kind \notin Failure
      BY <2>4 DEF Ends, Usable, Failure
    <3> HIDE DEF req
    <3>2. q \in Requests /\ Deserved(q)
      BY <2>2, <3>1, NoComplaint
    <3> HIDE DEF q
    <3>3. Deserved(Narrowed(q, q.steady \cap HealthyNodes'))
      BY <3>2, StaysDeserved
    <3>4. request' = Steady([request EXCEPT ![c] = q])
      BY <2>4 DEF q
    <3> QED
      BY <1>0, <3>2, <3>3, <3>4, OneDeserved
  <2>5. ASSUME SelectNode(HealthyNodes', {n}, req.heavy) = {},
               request' = Steady([request EXCEPT ![c] = Answered(req, "backend_unavailable")])
        PROVE  AllDeserved'
    <3> DEFINE q == Answered(req, "backend_unavailable")
               r == Narrowed(q, q.steady \cap HealthyNodes')
    <3>1. HealthyNodes' \subseteq {n}
      BY <2>5 DEF SelectNode
    <3>2. q \in Requests /\ q.phase = "done" /\ q.tried = req.tried
      <4>1. "backend_unavailable" \in Ends
        BY DEF Ends
      <4> HIDE DEF req
      <4> QED
        BY <2>2, <4>1, AnsweredType DEF Answered, Request
    <3> HIDE DEF q, n, req
    <3>3. /\ r.phase = "done" /\ r.tried = req.tried /\ r.steady \subseteq {n}
      BY <3>1, <3>2 DEF Narrowed, Request
    <3> HIDE DEF r
    <3>4. Deserved(r)
      BY <2>3, <3>3 DEF Deserved, Deserves, Waits
    <3>5. request' = Steady([request EXCEPT ![c] = q])
      BY <2>5 DEF q
    <3> QED
      BY <1>0, <3>2, <3>4, <3>5, OneDeserved DEF r
  <2>6. ASSUME NEW other \in SelectNode(HealthyNodes', {n}, req.heavy),
               request' = Steady([request EXCEPT ![c] = Calls(req, "retry", other)])
        PROVE  AllDeserved'
    <3> DEFINE q == Calls(req, "retry", other)
    <3>1. other \in Ids /\ other # first
      BY <2>3 DEF SelectNode, HealthyNodes
    <3> HIDE DEF req
    <3>2. q \in Requests /\ q.phase = "retry" /\ q.answer = "none"
          /\ q.tried = Append(req.tried, other)
      BY <2>2, <3>1, CallsType DEF Calls, Request, Waits
    <3> HIDE DEF q
    <3>3. q.tried = <<first, other>>
      <4>1. Append(<<first>>, other) = <<first, other>>
        BY <3>1, Singles
      <4>2. req.tried = <<first>>
        BY <2>1, <2>3
      <4> QED
        BY <3>2, <4>1, <4>2
    <3> DEFINE two == <<first, other>>
    <3>4. q.tried = two /\ \E k, m \in Ids : k # m /\ two = <<k, m>>
      BY <3>1, <3>3
    <3> HIDE DEF two
    <3>5. Deserved(q)
      BY <3>2, <3>4 DEF Deserved, Deserves, Failure
    <3>6. Deserved(Narrowed(q, q.steady \cap HealthyNodes'))
      BY <3>2, <3>5, StaysDeserved
    <3>7. request' = Steady([request EXCEPT ![c] = q])
      BY <2>6 DEF q
    <3> QED
      BY <1>0, <3>2, <3>6, <3>7, OneDeserved
  <2> QED
    BY <1>3, <2>4, <2>5, <2>6 DEF FirstEnds
<1>4. ASSUME NEW c \in Clients, NEW kind \in Replies, RetryEnds(c, kind) PROVE AllDeserved'
  <2> DEFINE req == request[c]
  <2>1. PICK n, m \in Ids : n # m /\ req.tried = <<n, m>>
    BY <1>0, <1>4 DEF RetryEnds, Deserved
  <2>2. Cardinality(ToSet(req.tried)) = 2
    <3>1. ToSet(<<n, m>>) = {n, m}
      BY <2>1, Singles
    <3>2. Cardinality({n, m}) = 2
      BY <2>1, Singles
    <3> HIDE DEF req
    <3> QED
      BY <2>1, <3>1, <3>2
  <2>3. PICK answer \in Ends : request' = Steady([request EXCEPT ![c] = Answered(req, answer)])
    BY <1>4 DEF RetryEnds, Ends
  <2> DEFINE q == Answered(req, answer)
  <2>4. q \in Requests /\ Deserved(q)
    BY <1>0, <2>2, NoComplaint
  <2>5. Deserved(Narrowed(q, q.steady \cap HealthyNodes'))
    <3> HIDE DEF q
    <3> QED
      BY <2>4, StaysDeserved
  <2> HIDE DEF q
  <2>6. request' = Steady([request EXCEPT ![c] = q])
    BY <2>3 DEF q
  <2> QED
    BY <1>0, <2>4, <2>5, <2>6, OneDeserved
<1>5. ASSUME NEW c \in Clients, NEW kind \in Replies, PinnedEnds(c, kind) PROVE AllDeserved'
  <2> DEFINE req == request[c]
  <2>1. req.steady = {} /\ req \in Requests
    BY <1>0, <1>5 DEF PinnedEnds, Deserved
  <2>2. PICK answer \in Ends : request' = [request EXCEPT ![c] = Answered(req, answer)]
    BY <1>5 DEF PinnedEnds, Ends
  <2> DEFINE q == Answered(req, answer)
  <2>3. q \in Requests /\ Deserved(q)
    BY <2>1, NoComplaint
  <2> HIDE DEF q
  <2>4. request' = [request EXCEPT ![c] = q]
    BY <2>2 DEF q
  <2> QED
    BY <1>0, <2>3, <2>4, OneDeserved
<1>6. ASSUME NEW c \in Clients, Leave(c) PROVE AllDeserved'
  <2>1. Idle \in Requests
    BY DEF Idle, Request, Requests, Phases, Routes, Ends
  <2>2. Deserved(Idle)
    <3>1. Idle.phase = "idle" /\ Idle.answer = "none"
      BY DEF Idle, Request
    <3> QED
      BY <3>1 DEF Deserved, Deserves, Waits, Failure
  <2>3. request' = [request EXCEPT ![c] = Idle]
    BY <1>6 DEF Leave
  <2> HIDE DEF Idle
  <2> QED
    BY <1>0, <2>1, <2>2, <2>3, OneDeserved
<1>7. ASSUME Health PROVE AllDeserved'
  <2> SUFFICES ASSUME NEW d \in Clients PROVE Deserved(request'[d])
    BY DEF AllDeserved
  <2>1. request'[d] = Narrowed(request[d], request[d].steady \cap HealthyNodes')
    BY <1>7 DEF Health, Steady, Narrowed
  <2> QED
    BY <1>0, <2>1, StaysDeserved
<1>8. CASE UNCHANGED vars
  BY <1>8 DEF vars, AllDeserved
<1> QED
  BY <1>1, <1>2, <1>3, <1>4, <1>5, <1>6, <1>7, <1>8 DEF Next, CallEnds

\* handleProxy: a client that is not pinned is told of a failure only after two nodes
\* failed, or when the node that failed was the only one that stayed in rotation.
THEOREM FailureIsTheLastResort == Spec => []NoNeedlessFailure
<1>1. AllDeserved => NoNeedlessFailure
  BY DEF AllDeserved, Deserved, Deserves, NoNeedlessFailure
<1>2. Init => CountInv /\ AllDeserved
  BY CountInit, DeservedInit
<1>3. CountInv /\ AllDeserved /\ [Next]_vars => (CountInv /\ AllDeserved)'
  BY CountNext, DeservedNext
<1> QED
  BY <1>1, <1>2, <1>3, PTL DEF Spec
=============================================================================
