------------------------------- MODULE Gateway -------------------------------
(***************************************************************************)
(* server.mjs: the gateway in front of TEI.  Every request makes its calls *)
(* one after the other, and between them the calls of other requests end.  *)
(* What the requests share is counterStore, a bag of labels.               *)
(*                                                                         *)
(* A text is the number of its tokens; the embedding of a token is its     *)
(* number, and that of the text is Text.                                   *)
(***************************************************************************)
EXTENDS Naturals, Sequences, FiniteSets, Bags

CONSTANTS Requests,
          SequenceMaxTokens,  \* EMBEDDER_SEQUENCE_MAX_TOKENS
          TokenBatchSize,     \* EMBEDDER_TOKEN_BATCH_SIZE
          MaxTokens,          \* bound: the longest text
          Text, None

ASSUME GatewayAssumption ==
    /\ IsFiniteSet(Requests)
    /\ {SequenceMaxTokens, TokenBatchSize} \subseteq Nat \ {0}
    /\ MaxTokens \in Nat
    /\ None \notin {"nomic", "jina"} /\ None \notin {<<>>, <<Text>>}

VARIABLES synthetic,     \* EMBEDDER_SEQUENCE_MODE is synthetic
          jina,          \* TEI_JINA_BASE_URL is set
          counterStore,
          req

vars == <<synthetic, jina, counterStore, req>>

Routes == {"/healthz", "/health", "/metrics", "/embed", "/embed/sequence"}

\* tei: the status of TEI's last answer; short: an array of TEI's was too short.
New == [phase |-> "new", route |-> None, model |-> None, tei |-> 0, status |-> 0,
        tokens |-> 0, index |-> 0, pooled |-> None, embeddings |-> <<>>, short |-> FALSE]

Init ==
    /\ synthetic \in BOOLEAN
    /\ jina \in BOOLEAN
    /\ counterStore = EmptyBag
    /\ req = [r \in Requests |-> New]

----------------------------------------------------------------------------
(* Counters *)

RequestsTotal(route, status) == <<"requests_total", route, status>>
Fallback(reason) == <<"sequence_fallback_total", reason>>
RouteTotal(model) == <<"backend_route_total", model>>
RouteError == <<"backend_route_error_total">>

Count(labels) == counterStore' = counterStore (+) SetToBag(labels)

\* The request waits for TEI; q is its record.
Call(r, q) == req' = [req EXCEPT ![r] = [q EXCEPT !.phase = "called"]]

\* The request is answered.
Answer(r, q, status) == req' = [req EXCEPT ![r] = [q EXCEPT !.phase = "done", !.status = status]]

----------------------------------------------------------------------------
(* Requests arrive *)

On(route) == [New EXCEPT !.route = route]

\* GET /healthz (and /readyz), /health and /metrics go to TEI at once.
Get(r, route) ==
    /\ req[r].phase = "new"
    /\ route \in {"/healthz", "/health", "/metrics"}
    /\ Call(r, On(route))
    /\ UNCHANGED <<synthetic, jina, counterStore>>

\* resolveBackend: there is a TEI for the model.
Resolved(model) == model = "nomic" \/ jina

\* POST /embed: the body is too large or cut off, or names a model.
Embed(r) ==
    /\ req[r].phase = "new"
    /\ \/ /\ Answer(r, On("/embed"), 413)
          /\ UNCHANGED counterStore
       \/ \E model \in {"nomic", "jina"} :
            IF Resolved(model)
            THEN Call(r, [On("/embed") EXCEPT !.model = model]) /\ Count({RouteTotal(model)})
            ELSE Answer(r, On("/embed"), 503) /\ Count({RouteError})
    /\ UNCHANGED <<synthetic, jina>>

\* POST /embed/sequence, answered without TEI.
Refusal(tokens) ==
    CASE tokens = 0 -> [status |-> 400, reasons |-> {}]
      [] tokens > 0 /\ ~synthetic -> [status |-> 501, reasons |-> {"disabled"}]
      [] OTHER -> [status |-> 501, reasons |-> {"too_many_tokens"}]

Sequence(r) ==
    /\ req[r].phase = "new"
    /\ \/ \E tokens \in 0..MaxTokens :
            LET q == [On("/embed/sequence") EXCEPT !.tokens = tokens]
                refusal == Refusal(tokens)
            IN IF tokens > 0 /\ synthetic /\ tokens <= SequenceMaxTokens
               THEN Call(r, q) /\ UNCHANGED counterStore
               ELSE /\ Answer(r, q, refusal.status)
                    /\ Count({RequestsTotal("/embed/sequence", refusal.status)}
                             \cup {Fallback(reason) : reason \in refusal.reasons})
       \/ /\ Answer(r, On("/embed/sequence"), 500)   \* no body, or not JSON
          /\ Count({RequestsTotal("/embed/sequence", 500)})
    /\ UNCHANGED <<synthetic, jina>>

----------------------------------------------------------------------------
(* TEI answers, with a status, or 0 when the call throws *)

Statuses == {0, 200, 429, 503}

\* proxyToTei passes the answer on.
Proxied(r, status) ==
    LET given == IF status = 0 THEN 502 ELSE status
    IN /\ req[r].route \in {"/health", "/embed"}
       /\ Answer(r, req[r], given)
       /\ Count({RequestsTotal(req[r].route, given)})

\* The probe is TEI's health.
Probed(r, status) ==
    LET given == IF status = 200 THEN 200 ELSE 503
    IN /\ req[r].route = "/healthz"
       /\ Answer(r, req[r], given)
       /\ Count({RequestsTotal("/healthz", given)})

\* /metrics is always rendered, but counted with TEI's status.
Rendered(r, status) ==
    /\ req[r].route = "/metrics"
    /\ Answer(r, [req[r] EXCEPT !.tei = status], 200)
    /\ Count(IF status = 0
             THEN {Fallback("metrics_proxy_failed"), RequestsTotal("/metrics", 200)}
             ELSE {RequestsTotal("/metrics", status)})

Tokens(q) == [i \in 1..q.tokens |-> i]
Slice(q, start, end) == SubSeq(Tokens(q), start + 1, IF end < q.tokens THEN end ELSE q.tokens)

\* Mutant: batches overlap.
InputsOverlapping(q) == IF q.pooled = None THEN <<Text>>
                        ELSE Slice(q, q.index, q.index + TokenBatchSize + 1)

\* The inputs of the call of a sequence: the text, then one batch of tokens after another.
Inputs(q) == IF q.pooled = None THEN <<Text>>
             ELSE Slice(q, q.index, q.index + TokenBatchSize)

\* An empty first array leaves pooledEmbedding undefined, and the batches follow all the same.
Received(q, vectors) ==
    LET read == [q EXCEPT !.short = @ \/ Len(vectors) < Len(Inputs(q))]
    IN IF q.pooled = None
       THEN [read EXCEPT !.pooled = vectors]
       ELSE [read EXCEPT !.embeddings = @ \o vectors, !.index = @ + TokenBatchSize]

Complete(q) == q.pooled # None /\ q.index >= q.tokens

\* Mutant: the request is counted once its text is embedded.
AnsweredAfterCount(r, q) ==
    IF Complete(q)
    THEN Answer(r, q, 200) /\ UNCHANGED counterStore
    ELSE Call(r, q) /\ (IF q.index = 0 THEN Count({RequestsTotal("/embed/sequence", 200)})
                        ELSE UNCHANGED counterStore)

Answered(r, q) ==
    IF Complete(q)
    THEN Answer(r, q, 200) /\ Count({RequestsTotal("/embed/sequence", 200)})
    ELSE Call(r, q) /\ UNCHANGED counterStore

EmbedInputsEnds(r, status) ==
    /\ req[r].route = "/embed/sequence"
    /\ \/ /\ status = 200
          /\ \E n \in 0..Len(Inputs(req[r])) : Answered(r, Received(req[r], SubSeq(Inputs(req[r]), 1, n)))
       \/ /\ Answer(r, req[r], 500)     \* a status, no array, or no answer
          /\ Count({RequestsTotal("/embed/sequence", 500)})

CallEnds(r, status) ==
    /\ req[r].phase = "called"
    /\ Proxied(r, status) \/ Probed(r, status) \/ Rendered(r, status) \/ EmbedInputsEnds(r, status)
    /\ UNCHANGED <<synthetic, jina>>

Next == \E r \in Requests :
    \/ \E route \in Routes : Get(r, route)
    \/ Embed(r)
    \/ Sequence(r)
    \/ \E status \in Statuses : CallEnds(r, status)

Spec == Init /\ [][Next]_vars

----------------------------------------------------------------------------
(* Properties *)

\* A sequence answered 200, however its calls and those of others interleave, has
\* embeddings of its tokens in their order, none twice; when TEI gave a vector for
\* every input it has all of them, each at the index of its token_offsets.
TokensAligned ==
    \A r \in Requests : LET q == req[r] IN
        q.route = "/embed/sequence" /\ q.status = 200 =>
            /\ \A i \in 1..Len(q.embeddings) : \A j \in 1..(i - 1) :
                 q.embeddings[j] < q.embeddings[i]
            /\ ~q.short => q.pooled = <<Text>> /\ q.embeddings = Tokens(q)

\* What a request with the record q has added to the counters, the gateway being
\* synthetic or not.
Caused(q, mode) ==
    LET done == q.phase = "done"
        If(happened, label) == IF happened THEN {label} ELSE {}
    IN If(q.model # None, RouteTotal(q.model))
       \cup If(done /\ q.route = "/embed" /\ q.model = None /\ q.status = 503, RouteError)
       \cup If(done /\ (q.route = "/embed" => q.model # None),
               RequestsTotal(q.route, IF q.tei # 0 THEN q.tei ELSE q.status))
       \cup If(done /\ q.route = "/embed/sequence" /\ q.status = 501,
               Fallback(IF mode THEN "too_many_tokens" ELSE "disabled"))
       \cup If(done /\ q.route = "/metrics" /\ q.tei = 0, Fallback("metrics_proxy_failed"))

Counted(label, counters) == IF label \in BagToSet(counters) THEN counters[label] ELSE 0

\* On every path of success, refusal and failure a request is counted once, as it
\* was answered; /metrics as TEI answered it, and an /embed that never reached TEI
\* not at all.
CountersMatchAnswers ==
    \A label \in BagToSet(counterStore) \cup UNION {Caused(req[r], synthetic) : r \in Requests} :
        Counted(label, counterStore)
          = Cardinality({r \in Requests : label \in Caused(req[r], synthetic)})
=============================================================================
