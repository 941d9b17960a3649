---------------------------- MODULE GatewayProofs ----------------------------
(***************************************************************************)
(* For every finite set of requests, every text and every batch size: the  *)
(* token embeddings of a sequence are aligned with its tokens, and every   *)
(* request is counted once, as it was answered.                            *)
(***************************************************************************)
EXTENDS Gateway, FiniteSetTheorems, SequenceTheorems, TLAPS

AllRoutes == Routes \cup {None}
Models == {"nomic", "jina", None}
Pooled == {None, <<>>, <<Text>>}

Reqs == [phase : {"new", "called", "done"}, route : AllRoutes, model : Models,
         tei : Nat, status : Nat, tokens : Nat, index : Nat,
         pooled : Pooled, embeddings : Seq(Nat), short : BOOLEAN]

\* A request that has not come; one that waits for TEI, with nothing but its model
\* counted.
Fresh(q) == q.phase = "new" => q = New
Unanswered(q) ==
    q.phase = "called" =>
      /\ q.tei = 0 /\ q.status = 0
      /\ (q.route = "/embed") <=> (q.model # None)

\* The embeddings of the batches received: those of tokens up to the index, in order,
\* and all of them unless an array was short.
Upto(q) == IF q.index < q.tokens THEN q.index ELSE q.tokens
Increasing(s) == \A i \in 1..Len(s) : \A j \in 1..(i - 1) : s[j] < s[i]
Within(s, n) == \A i \in 1..Len(s) : s[i] <= n
Aligned(q) ==
    /\ q.pooled = None => q.index = 0 /\ q.embeddings = <<>>
    /\ Increasing(q.embeddings) /\ Within(q.embeddings, Upto(q))
    /\ ~q.short => q.pooled \in {None, <<Text>>} /\ q.embeddings = [i \in 1..Upto(q) |-> i]

\* A sequence that TEI still works on has something left; one answered 200 has not.
Finished(q) ==
    /\ q.phase = "called" => ~Complete(q)
    /\ q.route = "/embed/sequence" /\ q.status = 200 => Complete(q)

Good(q) == Fresh(q) /\ Unanswered(q) /\ Aligned(q) /\ Finished(q)

StateInv ==
    /\ req \in [Requests -> Reqs]
    /\ \A r \in Requests : Good(req[r])

\* Every label is counted as often as a request has caused it.
Copies == \A label : Counted(label, counterStore)
                       = Cardinality({r \in Requests : label \in Caused(req[r], synthetic)})

CountInv == IsABag(counterStore) /\ Copies

----------------------------------------------------------------------------
(* Records *)

\* The record of a request that has not come, and of one that has.
LEMMA NewIs ==
    /\ New \in Reqs
    /\ New.phase = "new" /\ New.model = None /\ New.tei = 0 /\ New.status = 0
    /\ New.index = 0 /\ New.pooled = None /\ New.embeddings = <<>> /\ New.short = FALSE
    /\ New.tokens = 0
<1>1. <<>> \in Seq(Nat)
  OBVIOUS
<1> QED
  BY <1>1 DEF New, Reqs, AllRoutes, Models, Pooled

LEMMA OnType ==
    ASSUME NEW route \in Routes
    PROVE  /\ On(route) \in Reqs
           /\ On(route).phase = "new" /\ On(route).route = route /\ On(route).model = None
           /\ On(route).tei = 0 /\ On(route).status = 0 /\ On(route).index = 0
           /\ On(route).pooled = None /\ On(route).embeddings = <<>> /\ On(route).short = FALSE
           /\ On(route).tokens = 0
<1>1. ASSUME NEW q \in Reqs
      PROVE  LET p == [q EXCEPT !.route = route]
             IN  /\ p \in Reqs /\ p.route = route
                 /\ p.phase = q.phase /\ p.model = q.model /\ p.tei = q.tei
                 /\ p.status = q.status /\ p.tokens = q.tokens /\ p.index = q.index
                 /\ p.pooled = q.pooled /\ p.embeddings = q.embeddings /\ p.short = q.short
  BY DEF Reqs, AllRoutes
<1> QED
  BY <1>1, NewIs DEF On

\* An /embed with the model it was resolved to, a sequence with its tokens.
LEMMA WithModel ==
    ASSUME NEW q \in Reqs, NEW model \in Models
    PROVE  LET p == [q EXCEPT !.model = model]
           IN  /\ p \in Reqs /\ p.model = model
               /\ p.phase = q.phase /\ p.route = q.route /\ p.tei = q.tei
               /\ p.status = q.status /\ p.tokens = q.tokens /\ p.index = q.index
               /\ p.pooled = q.pooled /\ p.embeddings = q.embeddings /\ p.short = q.short
BY DEF Reqs

LEMMA WithTokens ==
    ASSUME NEW q \in Reqs, NEW tokens \in Nat
    PROVE  LET p == [q EXCEPT !.tokens = tokens]
           IN  /\ p \in Reqs /\ p.tokens = tokens
               /\ p.phase = q.phase /\ p.route = q.route /\ p.tei = q.tei
               /\ p.status = q.status /\ p.model = q.model /\ p.index = q.index
               /\ p.pooled = q.pooled /\ p.embeddings = q.embeddings /\ p.short = q.short
BY DEF Reqs

\* The record of a request that waits for TEI.
LEMMA CalledType ==
    ASSUME NEW q \in Reqs
    PROVE  LET p == [q EXCEPT !.phase = "called"]
           IN  /\ p \in Reqs /\ p.phase = "called"
               /\ p.route = q.route /\ p.model = q.model /\ p.tei = q.tei /\ p.status = q.status
               /\ p.tokens = q.tokens /\ p.index = q.index /\ p.pooled = q.pooled
               /\ p.embeddings = q.embeddings /\ p.short = q.short
BY DEF Reqs

\* The record of an answered request.
LEMMA DoneType ==
    ASSUME NEW q \in Reqs, NEW status \in Nat
    PROVE  LET p == [q EXCEPT !.phase = "done", !.status = status]
           IN  /\ p \in Reqs /\ p.phase = "done" /\ p.status = status
               /\ p.route = q.route /\ p.model = q.model /\ p.tei = q.tei
               /\ p.tokens = q.tokens /\ p.index = q.index /\ p.pooled = q.pooled
               /\ p.embeddings = q.embeddings /\ p.short = q.short
BY DEF Reqs

\* What a request has caused, by what has become of it.
LEMMA CausedIs ==
    ASSUME NEW mode, NEW q \in Reqs
    PROVE  /\ q.phase # "done" /\ q.model = None => Caused(q, mode) = {}
           /\ q.phase # "done" /\ q.model # None => Caused(q, mode) = {RouteTotal(q.model)}
<1>1. ASSUME q.phase # "done", q.model = None PROVE Caused(q, mode) = {}
  BY <1>1 DEF Caused
<1>2. ASSUME q.phase # "done", q.model # None PROVE Caused(q, mode) = {RouteTotal(q.model)}
  BY <1>2 DEF Caused
<1> QED
  BY <1>1, <1>2

\* An /embed answered without TEI.
LEMMA CausedByRefusal ==
    ASSUME NEW mode, NEW q \in Reqs, q.phase = "done", q.route = "/embed", q.model = None
    PROVE  /\ q.status = 503 => Caused(q, mode) = {RouteError}
           /\ q.status # 503 => Caused(q, mode) = {}
BY DEF Caused

\* A request that TEI answered, or that failed.
LEMMA CausedByAnswer ==
    ASSUME NEW mode, NEW q \in Reqs, q.phase = "done", q.status # 501, q.tei = 0,
           q.route # "/metrics", (q.route = "/embed") <=> (q.model # None)
    PROVE  /\ q.model = None => Caused(q, mode) = {RequestsTotal(q.route, q.status)}
           /\ q.model # None =>
                Caused(q, mode) = {RouteTotal(q.model), RequestsTotal(q.route, q.status)}
BY DEF Caused

\* An answered /metrics.
LEMMA CausedByMetrics ==
    ASSUME NEW mode, NEW q \in Reqs, q.phase = "done", q.route = "/metrics", q.model = None
    PROVE  /\ q.tei = 0 => Caused(q, mode) = {RequestsTotal("/metrics", q.status),
                                              Fallback("metrics_proxy_failed")}
           /\ q.tei # 0 => Caused(q, mode) = {RequestsTotal("/metrics", q.tei)}
BY DEF Caused

\* A sequence answered without TEI.
LEMMA CausedByFallback ==
    ASSUME NEW mode, NEW q \in Reqs, q.phase = "done", q.route = "/embed/sequence",
           q.tei = 0, q.model = None
    PROVE  /\ q.status # 501 => Caused(q, mode) = {RequestsTotal(q.route, q.status)}
           /\ q.status = 501 /\ mode =>
                Caused(q, mode) = {RequestsTotal(q.route, q.status), Fallback("too_many_tokens")}
           /\ q.status = 501 /\ ~mode =>
                Caused(q, mode) = {RequestsTotal(q.route, q.status), Fallback("disabled")}
BY DEF Caused

\* Different counters have different labels.
LEMMA LabelsDiffer ==
    ASSUME NEW route, NEW status, NEW model
    PROVE  RequestsTotal(route, status) # RouteTotal(model)
BY DEF RequestsTotal, RouteTotal

----------------------------------------------------------------------------
(* The counters *)

\* Labels counted once more.
LEMMA CountAdds ==
    ASSUME NEW B, IsABag(B), NEW L
    PROVE  /\ IsABag(B (+) SetToBag(L))
           /\ \A label : Counted(label, B (+) SetToBag(L))
                            = Counted(label, B) + (IF label \in L THEN 1 ELSE 0)
<1> DEFINE C == B (+) SetToBag(L)
<1>1. DOMAIN C = DOMAIN B \cup L
  BY DEF SetToBag, (+)
<1>2. \A e \in DOMAIN C : C[e] = (IF e \in DOMAIN B THEN B[e] ELSE 0) + (IF e \in L THEN 1 ELSE 0)
  BY DEF SetToBag, (+)
<1>3. \A e \in DOMAIN B : B[e] \in Nat /\ B[e] > 0
  BY DEF IsABag
<1>4. C = [e \in DOMAIN C |-> C[e]]
  BY DEF (+)
<1> HIDE DEF C
<1>5. \A e \in DOMAIN C : C[e] \in Nat /\ C[e] > 0
  BY <1>1, <1>2, <1>3
<1>6. IsABag(C)
  BY <1>4, <1>5 DEF IsABag
<1>7. \A label : Counted(label, C) = Counted(label, B) + (IF label \in L THEN 1 ELSE 0)
  BY <1>1, <1>2, <1>3 DEF Counted, BagToSet
<1> QED
  BY <1>6, <1>7 DEF C

\* The step of request r adds the labels L, which r had not caused before.
Adds(r, L) ==
    /\ Caused(req'[r], synthetic) = Caused(req[r], synthetic) \cup L
    /\ L \cap Caused(req[r], synthetic) = {}
    /\ \/ Count(L)
       \/ L = {} /\ UNCHANGED counterStore

\* The counters after the step of a request that counts what it causes.
LEMMA StillCounted ==
    ASSUME NEW r \in Requests, CountInv, req \in [Requests -> Reqs], UNCHANGED synthetic,
           \A p \in Requests \ {r} : req'[p] = req[p],
           \E L : Adds(r, L)
    PROVE  CountInv'
<1>1. PICK L : Adds(r, L)
  OBVIOUS
<1>2. /\ IsABag(counterStore')
      /\ \A label : Counted(label, counterStore')
                       = Counted(label, counterStore) + (IF label \in L THEN 1 ELSE 0)
  <2>1. CASE Count(L)
    BY <2>1, CountAdds DEF CountInv, Count
  <2>2. CASE L = {} /\ UNCHANGED counterStore
    <3>1. \A label : Counted(label, counterStore) \in Nat
      BY DEF CountInv, IsABag, Counted, BagToSet
    <3> QED
      BY <2>2, <3>1 DEF CountInv
  <2> QED
    BY <1>1, <2>1, <2>2 DEF Adds
<1>3. ASSUME NEW label
      PROVE  Counted(label, counterStore')
               = Cardinality({p \in Requests : label \in Caused(req'[p], synthetic)})
  <2> DEFINE Before == {p \in Requests : label \in Caused(req[p], synthetic)}
             After == {p \in Requests : label \in Caused(req'[p], synthetic)}
  <2>1. Counted(label, counterStore) = Cardinality(Before)
    BY DEF CountInv, Copies
  <2>2. IsFiniteSet(Before) /\ Cardinality(Before) \in Nat
    BY GatewayAssumption, FS_Subset, FS_CardinalityType
  <2>3. CASE label \in L
    <3>1. r \notin Before /\ After = Before \cup {r}
      BY <1>1, <2>3 DEF Adds
    <3>2. Cardinality(After) = Cardinality(Before) + 1
      BY <2>2, <3>1, FS_AddElement
    <3>3. Counted(label, counterStore') = Counted(label, counterStore) + 1
      BY <1>2, <2>3
    <3> QED
      BY <2>1, <2>2, <3>2, <3>3
  <2>4. CASE label \notin L
    <3>1. After = Before
      BY <1>1, <2>4 DEF Adds
    <3>2. Counted(label, counterStore') = Counted(label, counterStore) + 0
      BY <1>2, <2>4
    <3>3. Cardinality(After) = Cardinality(Before)
      BY <3>1
    <3> HIDE DEF Before, After
    <3>4. Counted(label, counterStore') = Cardinality(After)
      BY <2>1, <2>2, <3>2, <3>3
    <3> QED
      BY <3>4 DEF After
  <2> QED
    BY <2>3, <2>4
<1> QED
  BY <1>2, <1>3 DEF CountInv, Copies

----------------------------------------------------------------------------
(* One request moves *)

\* The step of one request keeps both invariants when its record stays good and it
\* counts what it causes.
LEMMA OneRequest ==
    ASSUME NEW r \in Requests, StateInv, CountInv, UNCHANGED synthetic,
           req' = [req EXCEPT ![r] = req'[r]], req'[r] \in Reqs, Good(req'[r]),
           \E L : Adds(r, L)
    PROVE  StateInv' /\ CountInv'
<1>1. req \in [Requests -> Reqs] /\ \A p \in Requests : Good(req[p])
  BY DEF StateInv
<1>2. req' \in [Requests -> Reqs] /\ \A p \in Requests \ {r} : req'[p] = req[p]
  BY <1>1
<1>3. \A p \in Requests : Good(req'[p])
  BY <1>1, <1>2
<1>4. StateInv'
  BY <1>2, <1>3 DEF StateInv, Good, Fresh, Unanswered, Aligned, Finished
<1>5. CountInv'
  BY <1>1, <1>2, StillCounted
<1> QED
  BY <1>4, <1>5

\* The record of a request that calls TEI, and of one that is answered.
LEMMA CallIs ==
    ASSUME NEW r \in Requests, req \in [Requests -> Reqs], NEW STATE q, q \in Reqs, Call(r, q)
    PROVE  /\ req' = [req EXCEPT ![r] = req'[r]]
           /\ req'[r] \in Reqs /\ req'[r].phase = "called"
           /\ req'[r].route = q.route /\ req'[r].model = q.model /\ req'[r].tei = q.tei
           /\ req'[r].status = q.status
           /\ req'[r].tokens = q.tokens /\ req'[r].index = q.index /\ req'[r].pooled = q.pooled
           /\ req'[r].embeddings = q.embeddings /\ req'[r].short = q.short
<1>1. req' = [req EXCEPT ![r] = [q EXCEPT !.phase = "called"]]
  BY DEF Call
<1>2. req'[r] = [q EXCEPT !.phase = "called"]
  BY <1>1
<1> QED
  BY <1>1, <1>2, CalledType

LEMMA AnswerIs ==
    ASSUME NEW r \in Requests, req \in [Requests -> Reqs], NEW STATE q, q \in Reqs,
           NEW STATE status, status \in Nat, Answer(r, q, status)
    PROVE  /\ req' = [req EXCEPT ![r] = req'[r]]
           /\ req'[r] \in Reqs /\ req'[r].phase = "done" /\ req'[r].status = status
           /\ req'[r].route = q.route /\ req'[r].model = q.model /\ req'[r].tei = q.tei
           /\ req'[r].tokens = q.tokens /\ req'[r].index = q.index /\ req'[r].pooled = q.pooled
           /\ req'[r].embeddings = q.embeddings /\ req'[r].short = q.short
<1>1. req' = [req EXCEPT ![r] = [q EXCEPT !.phase = "done", !.status = status]]
  BY DEF Answer
<1>2. req'[r] = [q EXCEPT !.phase = "done", !.status = status]
  BY <1>1
<1> QED
  BY <1>1, <1>2, DoneType

\* What a record holds of the tokens is all that Aligned looks at.
LEMMA StillAligned ==
    ASSUME NEW q \in Reqs, NEW p \in Reqs, Aligned(q),
           p.tokens = q.tokens, p.index = q.index, p.pooled = q.pooled,
           p.embeddings = q.embeddings, p.short = q.short
    PROVE  Aligned(p)
BY DEF Aligned, Upto

\* A request that has just come.
LEMMA NewAligned ==
    ASSUME NEW q \in Reqs, q.index = 0, q.pooled = None, q.embeddings = <<>>
    PROVE  Aligned(q)
<1>1. Upto(q) = 0
  BY DEF Upto, Reqs
<1>2. Len(q.embeddings) = 0 /\ <<>> = [i \in 1..0 |-> i]
  OBVIOUS
<1> QED
  BY <1>1, <1>2 DEF Aligned, Increasing, Within

\* Get: nothing is counted yet.
LEMMA GetStep ==
    ASSUME StateInv, CountInv, NEW r \in Requests, NEW route \in Routes, Get(r, route)
    PROVE  StateInv' /\ CountInv'
<1>1. /\ req \in [Requests -> Reqs] /\ req[r].phase = "new" /\ Good(req[r])
      /\ route \in {"/healthz", "/health", "/metrics"} /\ Call(r, On(route))
      /\ UNCHANGED synthetic /\ UNCHANGED counterStore
  BY DEF Get, StateInv
<1>2. /\ req' = [req EXCEPT ![r] = req'[r]]
      /\ req'[r] \in Reqs /\ req'[r].phase = "called"
      /\ req'[r].route = route /\ req'[r].model = None /\ req'[r].tei = 0
      /\ req'[r].status = 0 /\ req'[r].index = 0 /\ req'[r].pooled = None
      /\ req'[r].embeddings = <<>>
  <2> DEFINE q == On(route)
  <2>1. /\ q \in Reqs /\ q.route = route /\ q.model = None /\ q.tei = 0
        /\ q.status = 0 /\ q.index = 0 /\ q.pooled = None /\ q.embeddings = <<>>
    BY OnType
  <2>2. Call(r, q)
    BY <1>1
  <2> HIDE DEF q
  <2> QED
    BY <1>1, <2>1, <2>2, CallIs
<1>3. Good(req'[r])
  <2>1. Aligned(req'[r])
    BY <1>2, NewAligned
  <2> QED
    BY <1>1, <1>2, <2>1 DEF Good, Fresh, Unanswered, Finished, Complete
<1>4. Adds(r, {})
  <2>1. req[r].model = None
    BY <1>1, NewIs DEF Good, Fresh
  <2>2. Caused(req[r], synthetic) = {} /\ Caused(req'[r], synthetic) = {}
    BY <1>1, <1>2, <2>1, CausedIs
  <2> QED
    BY <1>1, <2>2 DEF Adds
<1> QED
  BY <1>1, <1>2, <1>3, <1>4, OneRequest

\* Embed: a routed request is counted by its model, one without a backend as an error.
LEMMA EmbedStep ==
    ASSUME StateInv, CountInv, NEW r \in Requests, Embed(r)
    PROVE  StateInv' /\ CountInv'
<1>1. /\ req \in [Requests -> Reqs] /\ req[r].phase = "new" /\ Good(req[r])
      /\ UNCHANGED synthetic
  BY DEF Embed, StateInv
<1>2. Caused(req[r], synthetic) = {}
  <2>1. req[r].model = None
    BY <1>1, NewIs DEF Good, Fresh
  <2> QED
    BY <1>1, <2>1, CausedIs
<1>3. On("/embed") \in Reqs
  BY OnType DEF Routes
<1>4. ASSUME NEW status \in {413, 503}, Answer(r, On("/embed"), status),
             IF status = 503 THEN Count({RouteError}) ELSE UNCHANGED counterStore
      PROVE  StateInv' /\ CountInv'
  <2>1. /\ req' = [req EXCEPT ![r] = req'[r]]
        /\ req'[r] \in Reqs /\ req'[r].phase = "done" /\ req'[r].status = status
        /\ req'[r].route = "/embed" /\ req'[r].model = None
        /\ req'[r].index = 0 /\ req'[r].pooled = None /\ req'[r].embeddings = <<>>
    BY <1>1, <1>3, <1>4, OnType, AnswerIs DEF Routes
  <2>2. Good(req'[r])
    <3>1. Aligned(req'[r])
      BY <2>1, NewAligned
    <3> QED
      BY <2>1, <3>1 DEF Good, Fresh, Unanswered, Finished
  <2>3. Caused(req'[r], synthetic) = IF status = 503 THEN {RouteError} ELSE {}
    <3> DEFINE q == req'[r]
    <3>1. q \in Reqs /\ q.phase = "done" /\ q.route = "/embed" /\ q.model = None /\ q.status = status
      BY <2>1
    <3> HIDE DEF q
    <3>2. /\ q.status = 503 => Caused(q, synthetic) = {RouteError}
          /\ q.status # 503 => Caused(q, synthetic) = {}
      BY <3>1, CausedByRefusal
    <3> QED
      BY <3>1, <3>2 DEF q
  <2>4. Adds(r, IF status = 503 THEN {RouteError} ELSE {})
    BY <1>2, <1>4, <2>3 DEF Adds
  <2> QED
    BY <1>1, <2>1, <2>2, <2>4, OneRequest
<1>5. ASSUME NEW model \in {"nomic", "jina"}, Count({RouteTotal(model)}),
             Call(r, [On("/embed") EXCEPT !.model = model])
      PROVE  StateInv' /\ CountInv'
  <2> DEFINE q == [On("/embed") EXCEPT !.model = model]
  <2>1. /\ q \in Reqs /\ q.model = model /\ q.route = "/embed"
        /\ q.tei = 0 /\ q.status = 0 /\ q.index = 0 /\ q.pooled = None /\ q.embeddings = <<>>
    <3> DEFINE o == On("/embed")
    <3>1. /\ o \in Reqs /\ o.route = "/embed" /\ o.tei = 0 /\ o.status = 0
          /\ o.index = 0 /\ o.pooled = None /\ o.embeddings = <<>>
      BY OnType DEF Routes
    <3>2. model \in Models
      BY DEF Models
    <3> HIDE DEF o
    <3> QED
      BY <3>1, <3>2, WithModel DEF o
  <2> HIDE DEF q
  <2>2. /\ req' = [req EXCEPT ![r] = req'[r]]
        /\ req'[r] \in Reqs /\ req'[r].phase = "called"
        /\ req'[r].route = "/embed" /\ req'[r].model = model /\ req'[r].tei = 0
        /\ req'[r].status = 0 /\ req'[r].index = 0 /\ req'[r].pooled = None
        /\ req'[r].embeddings = <<>>
    BY <1>1, <1>5, <2>1, CallIs DEF q
  <2>3. model # None
    BY GatewayAssumption
  <2>4. Good(req'[r])
    <3>1. Aligned(req'[r])
      BY <2>2, NewAligned
    <3> QED
      BY <2>2, <2>3, <3>1 DEF Good, Fresh, Unanswered, Finished, Complete
  <2>5. Caused(req'[r], synthetic) = {RouteTotal(model)}
    BY <2>2, <2>3, CausedIs
  <2>6. Adds(r, {RouteTotal(model)})
    BY <1>2, <1>5, <2>5 DEF Adds
  <2> QED
    BY <1>1, <2>2, <2>4, <2>6, OneRequest
<1>6. CASE Answer(r, On("/embed"), 413) /\ UNCHANGED counterStore
  BY <1>4, <1>6
<1>7. CASE \E model \in {"nomic", "jina"} :
             IF Resolved(model)
             THEN Call(r, [On("/embed") EXCEPT !.model = model]) /\ Count({RouteTotal(model)})
             ELSE Answer(r, On("/embed"), 503) /\ Count({RouteError})
  <2>1. PICK model \in {"nomic", "jina"} :
             \/ Call(r, [On("/embed") EXCEPT !.model = model]) /\ Count({RouteTotal(model)})
             \/ Answer(r, On("/embed"), 503) /\ Count({RouteError})
    BY <1>7
  <2> QED
    BY <1>4, <1>5, <2>1
<1> QED
  BY <1>6, <1>7 DEF Embed

\* Sequence: a refused text is counted with its reason, a text for TEI not yet.
LEMMA SequenceStep ==
    ASSUME StateInv, CountInv, NEW r \in Requests, Sequence(r)
    PROVE  StateInv' /\ CountInv'
<1>1. /\ req \in [Requests -> Reqs] /\ req[r].phase = "new" /\ Good(req[r])
      /\ UNCHANGED synthetic
  BY DEF Sequence, StateInv
<1>2. Caused(req[r], synthetic) = {}
  <2>1. req[r].model = None
    BY <1>1, NewIs DEF Good, Fresh
  <2> QED
    BY <1>1, <2>1, CausedIs
<1> DEFINE Refused(status) ==
             {RequestsTotal("/embed/sequence", status)} \cup
             (IF status # 501 THEN {}
              ELSE {Fallback(IF synthetic THEN "too_many_tokens" ELSE "disabled")})
<1>3. ASSUME NEW tokens \in Nat
      PROVE  LET q == [On("/embed/sequence") EXCEPT !.tokens = tokens]
             IN  /\ q \in Reqs /\ q.route = "/embed/sequence" /\ q.model = None /\ q.tei = 0
                 /\ q.status = 0 /\ q.index = 0 /\ q.pooled = None /\ q.embeddings = <<>>
  <2> DEFINE o == On("/embed/sequence")
  <2>1. /\ o \in Reqs /\ o.route = "/embed/sequence" /\ o.model = None /\ o.tei = 0
        /\ o.status = 0 /\ o.index = 0 /\ o.pooled = None /\ o.embeddings = <<>>
    BY OnType DEF Routes
  <2> HIDE DEF o
  <2> QED
    BY <2>1, WithTokens DEF o
<1>4. ASSUME NEW q \in Reqs, q.route = "/embed/sequence", q.model = None, q.tei = 0,
             q.index = 0, q.pooled = None, q.embeddings = <<>>,
             NEW status \in {400, 500, 501}, Answer(r, q, status), Count(Refused(status))
      PROVE  StateInv' /\ CountInv'
  <2>1. /\ req' = [req EXCEPT ![r] = req'[r]]
        /\ req'[r] \in Reqs /\ req'[r].phase = "done" /\ req'[r].status = status
        /\ req'[r].route = "/embed/sequence" /\ req'[r].model = None /\ req'[r].tei = 0
        /\ req'[r].index = 0 /\ req'[r].pooled = None /\ req'[r].embeddings = <<>>
    BY <1>1, <1>4, AnswerIs
  <2>2. Good(req'[r])
    <3>1. Aligned(req'[r])
      BY <2>1, NewAligned
    <3> QED
      BY <2>1, <3>1 DEF Good, Fresh, Unanswered, Finished
  <2>3. Caused(req'[r], synthetic) = Refused(status)
    <3> DEFINE p == req'[r]
    <3>1. /\ p \in Reqs /\ p.phase = "done" /\ p.route = "/embed/sequence"
          /\ p.tei = 0 /\ p.model = None /\ p.status = status
      BY <2>1
    <3> HIDE DEF p
    <3>2. /\ status # 501 => Caused(p, synthetic) = {RequestsTotal("/embed/sequence", status)}
          /\ status = 501 /\ synthetic =>
                Caused(p, synthetic) = {RequestsTotal("/embed/sequence", status),
                                        Fallback("too_many_tokens")}
          /\ status = 501 /\ ~synthetic =>
                Caused(p, synthetic) = {RequestsTotal("/embed/sequence", status),
                                        Fallback("disabled")}
      BY <3>1, CausedByFallback
    <3> QED
      BY <3>2 DEF p
  <2> HIDE DEF Refused
  <2>4. Adds(r, Refused(status))
    BY <1>2, <1>4, <2>3 DEF Adds
  <2> QED
    BY <1>1, <2>1, <2>2, <2>4, OneRequest
<1>5. ASSUME NEW tokens \in 1..MaxTokens, UNCHANGED counterStore,
             Call(r, [On("/embed/sequence") EXCEPT !.tokens = tokens])
      PROVE  StateInv' /\ CountInv'
  <2> DEFINE q == [On("/embed/sequence") EXCEPT !.tokens = tokens]
  <2>1. tokens \in Nat
    BY GatewayAssumption
  <2>2. /\ q \in Reqs /\ q.route = "/embed/sequence" /\ q.model = None /\ q.tei = 0
        /\ q.status = 0 /\ q.index = 0 /\ q.pooled = None /\ q.embeddings = <<>>
    BY <1>3, <2>1
  <2>3. Call(r, q)
    BY <1>5
  <2> HIDE DEF q
  <2>4. /\ req' = [req EXCEPT ![r] = req'[r]]
        /\ req'[r] \in Reqs /\ req'[r].phase = "called"
        /\ req'[r].route = "/embed/sequence" /\ req'[r].model = None /\ req'[r].tei = 0
        /\ req'[r].status = 0 /\ req'[r].index = 0 /\ req'[r].pooled = None
        /\ req'[r].embeddings = <<>>
    BY <1>1, <2>2, <2>3, CallIs
  <2>5. Good(req'[r])
    <3>1. Aligned(req'[r])
      BY <2>4, NewAligned
    <3> QED
      BY <2>4, <3>1 DEF Good, Fresh, Unanswered, Finished, Complete
  <2>6. Caused(req'[r], synthetic) = {}
    BY <2>4, CausedIs
  <2>7. Adds(r, {})
    BY <1>2, <1>5, <2>6 DEF Adds
  <2> QED
    BY <1>1, <2>4, <2>5, <2>7, OneRequest
<1>6. ASSUME NEW tokens \in 0..MaxTokens,
             Answer(r, [On("/embed/sequence") EXCEPT !.tokens = tokens], Refusal(tokens).status),
             Count({RequestsTotal("/embed/sequence", Refusal(tokens).status)}
                     \cup {Fallback(reason) : reason \in Refusal(tokens).reasons}),
             ~(tokens > 0 /\ synthetic /\ tokens <= SequenceMaxTokens)
      PROVE  StateInv' /\ CountInv'
  <2> DEFINE q == [On("/embed/sequence") EXCEPT !.tokens = tokens]
             status == Refusal(tokens).status
  <2>1. tokens \in Nat
    BY GatewayAssumption
  <2>2. /\ q \in Reqs /\ q.route = "/embed/sequence" /\ q.model = None /\ q.tei = 0
        /\ q.index = 0 /\ q.pooled = None /\ q.embeddings = <<>>
    BY <1>3, <2>1
  <2>3. /\ status \in {400, 500, 501}
        /\ {Fallback(reason) : reason \in Refusal(tokens).reasons}
             = IF status # 501 THEN {}
               ELSE {Fallback(IF synthetic THEN "too_many_tokens" ELSE "disabled")}
    <3>1. CASE tokens = 0
      BY <2>1, <3>1 DEF Refusal
    <3>2. CASE tokens > 0 /\ ~synthetic
      BY <2>1, <3>2 DEF Refusal
    <3>3. CASE tokens > 0 /\ synthetic
      BY <2>1, <3>3 DEF Refusal
    <3> QED
      BY <2>1, <3>1, <3>2, <3>3
  <2>4. Answer(r, q, status) /\ Count(Refused(status))
    BY <1>6, <2>3
  <2> HIDE DEF q, status, Refused
  <2> QED
    BY <1>4, <2>2, <2>3, <2>4
<1>7. CASE Answer(r, On("/embed/sequence"), 500) /\ Count({RequestsTotal("/embed/sequence", 500)})
  <2>1. /\ On("/embed/sequence") \in Reqs /\ On("/embed/sequence").route = "/embed/sequence"
        /\ On("/embed/sequence").model = None /\ On("/embed/sequence").tei = 0
        /\ On("/embed/sequence").index = 0 /\ On("/embed/sequence").pooled = None
        /\ On("/embed/sequence").embeddings = <<>>
    BY OnType DEF Routes
  <2>2. Count(Refused(500))
    BY <1>7
  <2> HIDE DEF Refused
  <2> QED
    BY <1>4, <1>7, <2>1, <2>2
<1>8. CASE \E tokens \in 0..MaxTokens :
             LET q == [On("/embed/sequence") EXCEPT !.tokens = tokens]
                 refusal == Refusal(tokens)
             IN IF tokens > 0 /\ synthetic /\ tokens <= SequenceMaxTokens
                THEN Call(r, q) /\ UNCHANGED counterStore
                ELSE /\ Answer(r, q, refusal.status)
                     /\ Count({RequestsTotal("/embed/sequence", refusal.status)}
                              \cup {Fallback(reason) : reason \in refusal.reasons})
  <2>1. PICK tokens \in 0..MaxTokens :
             IF tokens > 0 /\ synthetic /\ tokens <= SequenceMaxTokens
             THEN /\ Call(r, [On("/embed/sequence") EXCEPT !.tokens = tokens])
                  /\ UNCHANGED counterStore
             ELSE /\ Answer(r, [On("/embed/sequence") EXCEPT !.tokens = tokens],
                            Refusal(tokens).status)
                  /\ Count({RequestsTotal("/embed/sequence", Refusal(tokens).status)}
                           \cup {Fallback(reason) : reason \in Refusal(tokens).reasons})
    BY <1>8
  <2>2. CASE tokens > 0 /\ synthetic /\ tokens <= SequenceMaxTokens
    <3>1. tokens \in 1..MaxTokens
      BY <2>2
    <3> QED
      BY <1>5, <2>1, <2>2, <3>1
  <2>3. CASE ~(tokens > 0 /\ synthetic /\ tokens <= SequenceMaxTokens)
    BY <1>6, <2>1, <2>3
  <2> QED
    BY <2>2, <2>3
<1> QED
  BY <1>7, <1>8 DEF Sequence

\* A request that waits for TEI is counted when it is answered.
LEMMA AnswerCounted ==
    ASSUME StateInv, NEW r \in Requests, req[r].phase = "called", req[r].route # "/metrics",
           req'[r] \in Reqs, req'[r].phase = "done", req'[r].tei = 0, req'[r].status # 501,
           req'[r].route = req[r].route, req'[r].model = req[r].model,
           Count({RequestsTotal(req[r].route, req'[r].status)})
    PROVE  Adds(r, {RequestsTotal(req[r].route, req'[r].status)})
<1>1. /\ req \in [Requests -> Reqs] /\ req[r] \in Reqs
      /\ (req[r].route = "/embed") <=> (req[r].model # None)
  BY DEF StateInv, Good, Unanswered
<1> DEFINE p == req'[r]
           label == RequestsTotal(req[r].route, req'[r].status)
<1>2. p \in Reqs /\ p.phase = "done" /\ p.status # 501 /\ p.tei = 0 /\ p.route # "/metrics"
  OBVIOUS
<1>3. /\ (p.route = "/embed") <=> (p.model # None)
      /\ p.model = req[r].model /\ RequestsTotal(p.route, p.status) = label
  BY <1>1
<1> HIDE DEF p
<1>4. /\ req[r].model = None => Caused(p, synthetic) = {label}
      /\ req[r].model # None => Caused(p, synthetic) = {RouteTotal(req[r].model), label}
  BY <1>2, <1>3, CausedByAnswer
<1>5. /\ req[r].model = None => Caused(req[r], synthetic) = {}
      /\ req[r].model # None => Caused(req[r], synthetic) = {RouteTotal(req[r].model)}
  BY <1>1, CausedIs
<1>6. label # RouteTotal(req[r].model)
  BY LabelsDiffer
<1> HIDE DEF label
<1>7. /\ Caused(p, synthetic) = Caused(req[r], synthetic) \cup {label}
      /\ {label} \cap Caused(req[r], synthetic) = {}
  BY <1>4, <1>5, <1>6
<1> QED
  BY <1>7 DEF Adds, p, label

\* proxyToTei, and the probe.
LEMMA ProxiedStep ==
    ASSUME StateInv, CountInv, UNCHANGED synthetic, NEW r \in Requests,
           req[r].phase = "called", req[r].route # "/metrics", req[r].route # "/embed/sequence",
           NEW given \in Nat, given # 501, Answer(r, req[r], given),
           Count({RequestsTotal(req[r].route, given)})
    PROVE  StateInv' /\ CountInv'
<1>1. /\ req \in [Requests -> Reqs] /\ req[r] \in Reqs /\ Good(req[r])
      /\ req[r].tei = 0
  BY DEF StateInv, Good, Unanswered
<1>2. /\ req' = [req EXCEPT ![r] = req'[r]]
      /\ req'[r] \in Reqs /\ req'[r].phase = "done" /\ req'[r].status = given
      /\ req'[r].route = req[r].route /\ req'[r].model = req[r].model /\ req'[r].tei = 0
      /\ req'[r].tokens = req[r].tokens /\ req'[r].index = req[r].index
      /\ req'[r].pooled = req[r].pooled /\ req'[r].embeddings = req[r].embeddings
      /\ req'[r].short = req[r].short
  BY <1>1, AnswerIs
<1>3. Good(req'[r])
  <2>1. Aligned(req'[r])
    BY <1>1, <1>2, StillAligned DEF Good
  <2> QED
    BY <1>2, <2>1 DEF Good, Fresh, Unanswered, Finished
<1>4. Adds(r, {RequestsTotal(req[r].route, given)})
  BY <1>2, AnswerCounted
<1> QED
  BY <1>2, <1>3, <1>4, OneRequest

\* /metrics with TEI's status, or without.
LEMMA RenderedStep ==
    ASSUME StateInv, CountInv, UNCHANGED synthetic, NEW r \in Requests,
           req[r].phase = "called", NEW status \in Statuses, Rendered(r, status)
    PROVE  StateInv' /\ CountInv'
<1> DEFINE q == [req[r] EXCEPT !.tei = status]
           L == IF status = 0
                THEN {Fallback("metrics_proxy_failed"), RequestsTotal("/metrics", 200)}
                ELSE {RequestsTotal("/metrics", status)}
<1>1. /\ req \in [Requests -> Reqs] /\ req[r] \in Reqs /\ Good(req[r])
      /\ req[r].route = "/metrics" /\ req[r].model = None
      /\ Answer(r, q, 200) /\ Count(L)
  BY DEF StateInv, Good, Unanswered, Rendered
<1>2. /\ q \in Reqs /\ q.tei = status /\ q.route = "/metrics" /\ q.model = None
      /\ q.tokens = req[r].tokens /\ q.index = req[r].index
      /\ q.pooled = req[r].pooled /\ q.embeddings = req[r].embeddings
      /\ q.short = req[r].short
  <2>1. status \in Nat
    BY DEF Statuses
  <2> QED
    BY <1>1, <2>1 DEF Reqs
<1> HIDE DEF q, L
<1>3. /\ req' = [req EXCEPT ![r] = req'[r]]
      /\ req'[r] \in Reqs /\ req'[r].phase = "done" /\ req'[r].status = 200
      /\ req'[r].route = "/metrics" /\ req'[r].model = None /\ req'[r].tei = status
      /\ req'[r].tokens = req[r].tokens /\ req'[r].index = req[r].index
      /\ req'[r].pooled = req[r].pooled /\ req'[r].embeddings = req[r].embeddings
      /\ req'[r].short = req[r].short
  BY <1>1, <1>2, AnswerIs
<1>4. Good(req'[r])
  <2>1. Aligned(req'[r])
    BY <1>1, <1>3, StillAligned DEF Good
  <2> QED
    BY <1>3, <2>1 DEF Good, Fresh, Unanswered, Finished
<1>5. Caused(req[r], synthetic) = {}
  BY <1>1, CausedIs
<1>6. Caused(req'[r], synthetic) = L
  <2> DEFINE p == req'[r]
  <2>1. /\ p \in Reqs /\ p.phase = "done" /\ p.route = "/metrics" /\ p.model = None
        /\ p.tei = status /\ p.status = 200
    BY <1>3
  <2> HIDE DEF p
  <2>2. /\ status = 0 => Caused(p, synthetic) = {RequestsTotal("/metrics", 200),
                                                Fallback("metrics_proxy_failed")}
        /\ status # 0 => Caused(p, synthetic) = {RequestsTotal("/metrics", status)}
    BY <2>1, CausedByMetrics
  <2> QED
    BY <2>2 DEF p, L
<1>7. Adds(r, L)
  BY <1>1, <1>5, <1>6 DEF Adds
<1> QED
  BY <1>3, <1>4, <1>7, OneRequest

----------------------------------------------------------------------------
(* The batches of a sequence *)

\* The inputs of a batch are the tokens that follow the index.
LEMMA BatchIs ==
    ASSUME NEW q \in Reqs, q.pooled # None, q.index < q.tokens
    PROVE  LET end == IF q.index + TokenBatchSize < q.tokens THEN q.index + TokenBatchSize
                      ELSE q.tokens
           IN  /\ Inputs(q) \in Seq(Nat) /\ Len(Inputs(q)) = end - q.index
               /\ \A i \in 1..(end - q.index) : Inputs(q)[i] = q.index + i
<1> DEFINE end == IF q.index + TokenBatchSize < q.tokens THEN q.index + TokenBatchSize
                  ELSE q.tokens
           tokens == q.tokens
           index == q.index
           s == Tokens(q)
<1>1. tokens \in Nat /\ index \in Nat /\ TokenBatchSize \in Nat /\ index < tokens
  BY GatewayAssumption DEF Reqs
<1>2. end \in Nat /\ index < end /\ end <= tokens
  BY <1>1, GatewayAssumption
<1>3. s \in Seq(Nat) /\ Len(s) = tokens /\ \A i \in 1..tokens : s[i] = i
  BY <1>1 DEF Tokens
<1>4. Inputs(q) = SubSeq(s, index + 1, end)
  BY DEF Inputs, Slice
<1> HIDE DEF s, end, index, tokens
<1>5. /\ SubSeq(s, index + 1, end) \in Seq(Nat)
      /\ Len(SubSeq(s, index + 1, end)) = end - index
      /\ \A i \in 1..(end - index) : SubSeq(s, index + 1, end)[i] = s[index + 1 + i - 1]
  <2>1. \A i \in (index + 1)..end : s[i] \in Nat
    BY <1>1, <1>2, <1>3
  <2> QED
    BY <1>1, <1>2, <2>1, SubSeqProperties
<1>6. \A i \in 1..(end - index) : s[index + 1 + i - 1] = index + i
  BY <1>1, <1>2, <1>3
<1> QED
  BY <1>4, <1>5, <1>6 DEF end, index

\* The first array of a sequence is that of its text, or empty.
LEMMA FirstReceived ==
    ASSUME NEW q \in Reqs, Aligned(q), q.pooled = None, NEW n \in 0..Len(Inputs(q))
    PROVE  LET p == Received(q, SubSeq(Inputs(q), 1, n))
           IN  /\ p \in Reqs /\ Aligned(p)
               /\ p.route = q.route /\ p.model = q.model /\ p.tei = q.tei /\ p.status = q.status
<1> DEFINE vectors == SubSeq(Inputs(q), 1, n)
           isShort == q.short \/ Len(vectors) < Len(Inputs(q))
           read == [q EXCEPT !.short = isShort]
           p == [read EXCEPT !.pooled = vectors]
<1>1. Inputs(q) = <<Text>> /\ Len(Inputs(q)) = 1
  BY DEF Inputs
<1>2. n \in {0, 1} /\ vectors = IF n = 0 THEN <<>> ELSE <<Text>>
  <2>1. n \in {0, 1}
    BY <1>1
  <2>2. SubSeq(<<Text>>, 1, 0) = <<>>
    BY SubSeqEmpty
  <2>3. SubSeq(<<Text>>, 1, 1) = <<Text>>
    <3>1. <<Text>> \in Seq({Text}) /\ Len(<<Text>>) = 1
      OBVIOUS
    <3> QED
      BY <3>1, SubSeqFull
  <2> QED
    BY <1>1, <2>1, <2>2, <2>3
<1>3. vectors \in Pooled /\ vectors # None /\ (~isShort => vectors = <<Text>>)
  <2>1. CASE n = 0
    <3>1. vectors = <<>> /\ Len(vectors) = 0
      BY <1>2, <2>1
    <3>2. isShort
      BY <1>1, <3>1
    <3> QED
      BY <3>1, <3>2, GatewayAssumption DEF Pooled
  <2>2. CASE n = 1
    <3>1. vectors = <<Text>>
      BY <1>2, <2>2
    <3> HIDE DEF vectors
    <3> QED
      BY <3>1, GatewayAssumption DEF Pooled
  <2> QED
    BY <1>2, <2>1, <2>2
<1>4. q.short \in BOOLEAN
  BY DEF Reqs
<1>5. isShort \in BOOLEAN /\ (~isShort => ~q.short)
  BY <1>4
<1>6. Received(q, vectors) = p
  BY DEF Received
<1> HIDE DEF vectors, isShort
<1>7. /\ p \in Reqs /\ p.pooled = vectors /\ p.short = isShort
      /\ p.index = q.index /\ p.embeddings = q.embeddings /\ p.tokens = q.tokens
      /\ p.route = q.route /\ p.model = q.model /\ p.tei = q.tei /\ p.status = q.status
  BY <1>3, <1>5 DEF Reqs
<1> HIDE DEF p
<1>8. Upto(p) = Upto(q)
  BY <1>7 DEF Upto
<1>9. Aligned(p)
  BY <1>3, <1>5, <1>7, <1>8 DEF Aligned
<1> QED
  BY <1>6, <1>7, <1>9 DEF vectors

\* The arrays that follow it extend the embeddings by those of the next tokens.
LEMMA NextReceived ==
    ASSUME NEW q \in Reqs, Aligned(q), q.pooled # None, q.index < q.tokens,
           NEW n \in 0..Len(Inputs(q))
    PROVE  LET p == Received(q, SubSeq(Inputs(q), 1, n))
           IN  /\ p \in Reqs /\ Aligned(p)
               /\ p.route = q.route /\ p.model = q.model /\ p.tei = q.tei /\ p.status = q.status
<1> DEFINE tokens == q.tokens
           index == q.index
           old == q.embeddings
           end == IF index + TokenBatchSize < tokens THEN index + TokenBatchSize ELSE tokens
           inputs == Inputs(q)
           vectors == SubSeq(inputs, 1, n)
           isShort == q.short \/ Len(vectors) < Len(inputs)
           new == old \o vectors
           next == index + TokenBatchSize
           read == [q EXCEPT !.short = isShort]
           p == [read EXCEPT !.embeddings = new, !.index = next]
<1>1. tokens \in Nat /\ index \in Nat /\ TokenBatchSize \in Nat /\ index < tokens
  BY GatewayAssumption DEF Reqs
<1>2. end \in Nat /\ index < end /\ end <= tokens
  BY <1>1, GatewayAssumption
<1>3. Upto(q) = index
  BY <1>1 DEF Upto
<1>4. /\ old \in Seq(Nat) /\ Len(old) \in Nat
      /\ Increasing(old) /\ Within(old, index)
      /\ ~q.short => q.pooled \in {None, <<Text>>} /\ old = [i \in 1..index |-> i]
  BY <1>3 DEF Aligned, Reqs
<1>5. /\ inputs \in Seq(Nat) /\ Len(inputs) = end - index
      /\ \A i \in 1..(end - index) : inputs[i] = index + i
  BY BatchIs
<1>6. q.short \in BOOLEAN
  BY DEF Reqs
<1>7. isShort \in BOOLEAN /\ (~isShort => ~q.short)
  BY <1>6
<1>8. Received(q, vectors) = p
  BY DEF Received
<1> HIDE DEF inputs
<1>9. n \in Nat /\ n <= end - index
  BY <1>1, <1>2, <1>5 DEF inputs
<1>10. /\ vectors \in Seq(Nat) /\ Len(vectors) = n
       /\ \A i \in 1..n : vectors[i] = index + i
  <2>1. \A i \in 1..n : inputs[i] \in Nat
    BY <1>1, <1>2, <1>5, <1>9
  <2>2. /\ vectors \in Seq(Nat) /\ Len(vectors) = IF 1 <= n THEN n - 1 + 1 ELSE 0
        /\ \A i \in 1..(n - 1 + 1) : vectors[i] = inputs[1 + i - 1]
    BY <1>9, <2>1, SubSeqProperties
  <2> QED
    BY <1>1, <1>2, <1>5, <1>9, <2>2
<1>11. ~isShort => n = end - index
  BY <1>1, <1>2, <1>5, <1>9, <1>10
<1> HIDE DEF vectors, isShort, end, old
<1>12. /\ new \in Seq(Nat) /\ Len(new) = Len(old) + n
       /\ \A i \in 1..(Len(old) + n) : new[i] = IF i <= Len(old) THEN old[i]
                                               ELSE index + (i - Len(old))
  <2>1. /\ new \in Seq(Nat) /\ Len(new) = Len(old) + Len(vectors)
        /\ \A i \in 1..(Len(old) + Len(vectors)) :
              new[i] = IF i <= Len(old) THEN old[i] ELSE vectors[i - Len(old)]
    <3>1. old \in Seq(Nat) /\ vectors \in Seq(Nat)
      BY <1>4, <1>10
    <3> QED
      BY <3>1, ConcatProperties
  <2>2. \A i \in 1..(Len(old) + n) : i > Len(old) => i - Len(old) \in 1..n
    BY <1>4, <1>9
  <2> QED
    BY <1>4, <1>9, <1>10, <2>1, <2>2
<1>13. \A i \in 1..Len(old) : old[i] \in Nat
  BY <1>4, ElementOfSeq
<1> HIDE DEF new
<1>14. Increasing(new)
  <2> SUFFICES ASSUME NEW i \in 1..Len(new), NEW j \in 1..(i - 1) PROVE new[j] < new[i]
    BY DEF Increasing
  <2>1. j \in 1..Len(new) /\ j < i
    BY <1>4, <1>9, <1>12
  <2>2. CASE i <= Len(old)
    <3>1. i \in 1..Len(old) /\ j \in 1..Len(old)
      BY <1>4, <1>9, <1>12, <2>1, <2>2
    <3>2. old[j] < old[i]
      BY <1>4, <3>1 DEF Increasing
    <3>3. new[i] = old[i] /\ new[j] = old[j]
      BY <1>4, <1>9, <1>12, <2>1, <2>2
    <3> QED
      BY <3>2, <3>3
  <2>3. CASE j <= Len(old) /\ i > Len(old)
    <3>1. old[j] <= index /\ old[j] \in Nat
      BY <1>4, <1>13, <2>1, <2>3 DEF Within
    <3> QED
      BY <1>1, <1>4, <1>9, <1>12, <2>1, <2>3, <3>1
  <2>4. CASE j > Len(old)
    BY <1>1, <1>4, <1>9, <1>12, <2>1, <2>4
  <2> QED
    BY <1>4, <2>2, <2>3, <2>4
<1>15. Within(new, end)
  <2> SUFFICES ASSUME NEW i \in 1..Len(new) PROVE new[i] <= end
    BY DEF Within
  <2>1. CASE i <= Len(old)
    <3>1. old[i] <= index /\ old[i] \in Nat
      BY <1>4, <1>13, <2>1 DEF Within
    <3> QED
      BY <1>1, <1>2, <1>12, <2>1, <3>1
  <2>2. CASE i > Len(old)
    BY <1>1, <1>2, <1>4, <1>9, <1>12, <2>2
  <2> QED
    BY <1>4, <2>1, <2>2
<1>16. ~isShort => new = [i \in 1..end |-> i]
  <2> SUFFICES ASSUME ~isShort PROVE new = [i \in 1..end |-> i]
    OBVIOUS
  <2>1. n = end - index /\ old = [i \in 1..index |-> i]
    BY <1>4, <1>7, <1>11
  <2>2. Len(old) = index
    BY <1>1, <2>1
  <2>3. Len(new) = end
    BY <1>1, <1>2, <1>12, <2>1, <2>2
  <2>4. \A i \in 1..end : new[i] = i
    BY <1>1, <1>2, <1>12, <2>1, <2>2, <2>3
  <2>5. /\ [i \in 1..end |-> i] \in Seq(Nat) /\ Len([i \in 1..end |-> i]) = end
    BY <1>2
  <2> QED
    BY <1>12, <2>3, <2>4, <2>5, SeqEqual
<1> HIDE DEF next
<1>17. next \in Nat
  BY <1>1 DEF next
<1>18. /\ p \in Reqs /\ p.embeddings = new /\ p.index = next /\ p.short = isShort
       /\ p.pooled = q.pooled /\ p.tokens = tokens
       /\ p.route = q.route /\ p.model = q.model /\ p.tei = q.tei /\ p.status = q.status
  BY <1>7, <1>12, <1>17 DEF Reqs
<1> HIDE DEF p
<1>19. Upto(p) = end
  BY <1>18 DEF Upto, next, end
<1>20. Aligned(p)
  BY <1>4, <1>7, <1>14, <1>15, <1>16, <1>18, <1>19 DEF Aligned
<1> QED
  BY <1>8, <1>18, <1>20 DEF vectors, inputs

\* EmbedInputsEnds: the sequence goes on with its next batch, is answered with what
\* it has, or fails.
LEMMA EmbedInputsStep ==
    ASSUME StateInv, CountInv, UNCHANGED synthetic, NEW r \in Requests,
           req[r].phase = "called", NEW status \in Statuses, EmbedInputsEnds(r, status)
    PROVE  StateInv' /\ CountInv'
<1>1. /\ req \in [Requests -> Reqs] /\ req[r] \in Reqs /\ Good(req[r])
      /\ req[r].route = "/embed/sequence" /\ req[r].model = None
      /\ req[r].tei = 0 /\ req[r].status = 0 /\ Aligned(req[r])
      /\ req[r].pooled = None \/ req[r].index < req[r].tokens
  <2>1. req[r].index \in Nat /\ req[r].tokens \in Nat
    BY DEF StateInv, Reqs
  <2> QED
    BY <2>1 DEF StateInv, Good, Unanswered, Finished, Complete, EmbedInputsEnds
<1>2. ASSUME Answer(r, req[r], 500), Count({RequestsTotal("/embed/sequence", 500)})
      PROVE  StateInv' /\ CountInv'
  <2>1. /\ req' = [req EXCEPT ![r] = req'[r]]
        /\ req'[r] \in Reqs /\ req'[r].phase = "done" /\ req'[r].status = 500
        /\ req'[r].route = req[r].route /\ req'[r].model = req[r].model /\ req'[r].tei = 0
        /\ req'[r].tokens = req[r].tokens /\ req'[r].index = req[r].index
        /\ req'[r].pooled = req[r].pooled /\ req'[r].embeddings = req[r].embeddings
        /\ req'[r].short = req[r].short
    BY <1>1, <1>2, AnswerIs
  <2>2. Good(req'[r])
    <3>1. Aligned(req'[r])
      BY <1>1, <2>1, StillAligned
    <3> QED
      BY <2>1, <3>1 DEF Good, Fresh, Unanswered, Finished
  <2>3. Adds(r, {RequestsTotal("/embed/sequence", 500)})
    BY <1>1, <1>2, <2>1, AnswerCounted
  <2> QED
    BY <2>1, <2>2, <2>3, OneRequest
<1>3. ASSUME NEW n \in 0..Len(Inputs(req[r])),
             Answered(r, Received(req[r], SubSeq(Inputs(req[r]), 1, n)))
      PROVE  StateInv' /\ CountInv'
  <2> DEFINE q == Received(req[r], SubSeq(Inputs(req[r]), 1, n))
  <2>1. /\ q \in Reqs /\ Aligned(q)
        /\ q.route = "/embed/sequence" /\ q.model = None /\ q.tei = 0 /\ q.status = 0
    <3>1. CASE req[r].pooled = None
      BY <1>1, <3>1, FirstReceived
    <3>2. CASE req[r].pooled # None
      BY <1>1, <3>2, NextReceived
    <3> QED
      BY <3>1, <3>2
  <2>2. Answered(r, q)
    BY <1>3
  <2> HIDE DEF q
  <2>3. CASE Complete(q)
    <3>1. Answer(r, q, 200) /\ Count({RequestsTotal("/embed/sequence", 200)})
      BY <2>2, <2>3 DEF Answered
    <3>2. /\ req' = [req EXCEPT ![r] = req'[r]]
          /\ req'[r] \in Reqs /\ req'[r].phase = "done" /\ req'[r].status = 200
          /\ req'[r].route = req[r].route /\ req'[r].model = req[r].model /\ req'[r].tei = 0
          /\ req'[r].tokens = q.tokens /\ req'[r].index = q.index
          /\ req'[r].pooled = q.pooled /\ req'[r].embeddings = q.embeddings
          /\ req'[r].short = q.short
      BY <1>1, <2>1, <3>1, AnswerIs
    <3>3. Good(req'[r])
      <4>1. Aligned(req'[r])
        BY <2>1, <3>2, StillAligned
      <4>2. Complete(req'[r])
        BY <2>3, <3>2 DEF Complete
      <4> QED
        BY <3>2, <4>1, <4>2 DEF Good, Fresh, Unanswered, Finished
    <3>4. Adds(r, {RequestsTotal("/embed/sequence", 200)})
      BY <1>1, <3>1, <3>2, AnswerCounted
    <3> QED
      BY <3>2, <3>3, <3>4, OneRequest
  <2>4. CASE ~Complete(q)
    <3>1. Call(r, q) /\ UNCHANGED counterStore
      BY <2>2, <2>4 DEF Answered
    <3>2. /\ req' = [req EXCEPT ![r] = req'[r]]
          /\ req'[r] \in Reqs /\ req'[r].phase = "called" /\ req'[r].status = 0
          /\ req'[r].route = "/embed/sequence" /\ req'[r].model = None /\ req'[r].tei = 0
          /\ req'[r].tokens = q.tokens /\ req'[r].index = q.index
          /\ req'[r].pooled = q.pooled /\ req'[r].embeddings = q.embeddings
          /\ req'[r].short = q.short
      BY <1>1, <2>1, <3>1, CallIs
    <3>3. Good(req'[r])
      <4>1. Aligned(req'[r])
        BY <2>1, <3>2, StillAligned
      <4>2. ~Complete(req'[r])
        BY <2>4, <3>2 DEF Complete
      <4> QED
        BY <3>2, <4>1, <4>2 DEF Good, Fresh, Unanswered, Finished
    <3>4. Adds(r, {})
      <4>1. Caused(req[r], synthetic) = {} /\ Caused(req'[r], synthetic) = {}
        BY <1>1, <3>2, CausedIs
      <4> QED
        BY <3>1, <4>1 DEF Adds
    <3> QED
      BY <3>2, <3>3, <3>4, OneRequest
  <2> QED
    BY <2>3, <2>4
<1> QED
  BY <1>2, <1>3 DEF EmbedInputsEnds

\* Every answer of TEI.
LEMMA CallEndsStep ==
    ASSUME StateInv, CountInv, NEW r \in Requests, NEW status \in Statuses, CallEnds(r, status)
    PROVE  StateInv' /\ CountInv'
<1>1. req[r].phase = "called" /\ UNCHANGED synthetic
  BY DEF CallEnds
<1>2. CASE Proxied(r, status)
  <2> DEFINE given == IF status = 0 THEN 502 ELSE status
  <2>1. given \in Nat /\ given # 501
    BY DEF Statuses
  <2>2. /\ req[r].route # "/metrics" /\ req[r].route # "/embed/sequence"
        /\ Answer(r, req[r], given) /\ Count({RequestsTotal(req[r].route, given)})
    BY <1>2 DEF Proxied
  <2> HIDE DEF given
  <2> QED
    BY <1>1, <2>1, <2>2, ProxiedStep
<1>3. CASE Probed(r, status)
  <2> DEFINE given == IF status = 200 THEN 200 ELSE 503
  <2>1. given \in Nat /\ given # 501
    OBVIOUS
  <2>2. /\ req[r].route # "/metrics" /\ req[r].route # "/embed/sequence"
        /\ Answer(r, req[r], given) /\ Count({RequestsTotal(req[r].route, given)})
    BY <1>3 DEF Probed
  <2> HIDE DEF given
  <2> QED
    BY <1>1, <2>1, <2>2, ProxiedStep
<1>4. CASE Rendered(r, status)
  BY <1>1, <1>4, RenderedStep
<1>5. CASE EmbedInputsEnds(r, status)
  BY <1>1, <1>5, EmbedInputsStep
<1> QED
  BY <1>2, <1>3, <1>4, <1>5 DEF CallEnds

----------------------------------------------------------------------------
(* The invariants *)

\* No request has come, and nothing is counted.
LEMMA InitGood == Init => StateInv /\ CountInv
<1> SUFFICES ASSUME Init PROVE StateInv /\ CountInv
  OBVIOUS
<1>1. req = [r \in Requests |-> New] /\ counterStore = EmptyBag
  BY DEF Init
<1>2. StateInv
  <2>1. Good(New)
    <3>1. Aligned(New)
      BY NewIs, NewAligned
    <3> QED
      BY <3>1, NewIs DEF Good, Fresh, Unanswered, Finished
  <2> QED
    BY <1>1, <2>1, NewIs DEF StateInv
<1>3. IsABag(counterStore) /\ DOMAIN counterStore = {}
  BY <1>1 DEF EmptyBag, SetToBag, IsABag
<1>4. ASSUME NEW label
      PROVE  Counted(label, counterStore)
               = Cardinality({r \in Requests : label \in Caused(req[r], synthetic)})
  <2>1. Caused(New, synthetic) = {}
    BY NewIs, CausedIs
  <2>2. {r \in Requests : label \in Caused(req[r], synthetic)} = {}
    BY <1>1, <2>1
  <2> QED
    BY <1>3, <2>2, FS_EmptySet DEF Counted, BagToSet
<1> QED
  BY <1>2, <1>3, <1>4 DEF CountInv, Copies

\* Every step keeps the invariants.
LEMMA NextGood == StateInv /\ CountInv /\ [Next]_vars => StateInv' /\ CountInv'
<1> SUFFICES ASSUME StateInv, CountInv, [Next]_vars PROVE StateInv' /\ CountInv'
  OBVIOUS
<1>1. ASSUME NEW r \in Requests, NEW route \in Routes, Get(r, route)
      PROVE  StateInv' /\ CountInv'
  BY <1>1, GetStep
<1>2. ASSUME NEW r \in Requests, Embed(r) PROVE StateInv' /\ CountInv'
  BY <1>2, EmbedStep
<1>3. ASSUME NEW r \in Requests, Sequence(r) PROVE StateInv' /\ CountInv'
  BY <1>3, SequenceStep
<1>4. ASSUME NEW r \in Requests, NEW status \in Statuses, CallEnds(r, status)
      PROVE  StateInv' /\ CountInv'
  BY <1>4, CallEndsStep
<1>5. CASE UNCHANGED vars
  BY <1>5 DEF vars, StateInv, Good, Fresh, Unanswered, Aligned, Finished, CountInv, Copies,
              Counted, Caused
<1> QED
  BY <1>1, <1>2, <1>3, <1>4, <1>5 DEF Next

\* The embeddings of a sequence answered 200 are those of its tokens, in their order,
\* none twice, and all of them unless TEI left vectors out.
THEOREM SequencesAreAligned == Spec => []TokensAligned
<1>1. ASSUME StateInv PROVE TokensAligned
  <2> SUFFICES ASSUME NEW r \in Requests, req[r].route = "/embed/sequence",
                      req[r].status = 200
               PROVE  /\ Increasing(req[r].embeddings)
                      /\ ~req[r].short => /\ req[r].pooled = <<Text>>
                                          /\ req[r].embeddings = Tokens(req[r])
    BY DEF TokensAligned, Increasing
  <2>1. req[r] \in Reqs /\ Aligned(req[r]) /\ Complete(req[r])
    BY <1>1 DEF StateInv, Good, Finished
  <2>2. Upto(req[r]) = req[r].tokens
    BY <2>1 DEF Complete, Upto, Reqs
  <2> QED
    BY <2>1, <2>2 DEF Aligned, Complete, Tokens
<1> QED
  BY <1>1, InitGood, NextGood, PTL DEF Spec

\* The counters are what the answered requests have caused, each counted once.
THEOREM CountersAreAnswers == Spec => []CountersMatchAnswers
<1>1. ASSUME CountInv PROVE CountersMatchAnswers
  BY <1>1 DEF CountInv, Copies, CountersMatchAnswers
<1> QED
  BY <1>1, InitGood, NextGood, PTL DEF Spec
=============================================================================
