------------------------------ MODULE Coalescer ------------------------------
(***************************************************************************)
(* The remote-batch coalescer of pool-router.mjs: /embed requests wait in  *)
(* batchQueue, a timer or a full queue flushes them as combined batches,   *)
(* at most Parallel of them at a time, and a flush walks down the healthy  *)
(* nodes it saw when it started until one of them serves the batch.        *)
(*                                                                         *)
(* Request r is the r-th one to be queued and carries size texts; a text   *)
(* is <<r, i>>, and so is the vector a backend computes for it.            *)
(***************************************************************************)
EXTENDS PoolRouter

CONSTANTS Requests,  \* bound: number of requests
          MaxTexts,  \* bound: texts of one request
          Target,    \* POOL_REMOTE_BATCH_TARGET_TEXTS
          MinTexts,  \* POOL_REMOTE_BATCH_MIN_TEXTS
          Parallel,  \* POOL_REMOTE_BATCH_PARALLEL_FLUSHES
          MaxHops,   \* POOL_BATCH_MAX_HOPS
          RemoteUrl, \* POOL_REMOTE_BATCH_NODE_URL
          Answers    \* the ways a call may end, a subset of Replies

ASSUME CoalescerAssumption ==
    /\ IsFiniteSet(Ids)
    /\ Requests \in Nat /\ MaxTexts \in Nat \ {0}
    /\ Target \in Nat \ {0} /\ MinTexts \in Nat
    /\ Parallel \in Nat \ {0} /\ MaxHops \in Nat \ {0}
    /\ Answers \subseteq Replies

VARIABLES queue,         \* batchQueue: the waiting requests, as [id, size]
          timer,         \* batchFlushTimer is armed
          activeFlushes, \* activeFlushes
          flushes,       \* the flushBatch calls whose finally has not run
          submitted,     \* requests queued so far
          reply          \* how each request was settled

batchVars == <<queue, timer, activeFlushes, flushes, submitted, reply>>
vars == <<routerVars, batchVars>>

\* The texts of a request, of a batch, and the requests in a batch.
Texts(item) == [i \in 1..item.size |-> <<item.id, i>>]
AllTexts(batch) == FoldLeft(LAMBDA texts, item : texts \o Texts(item), <<>>, batch)
IdsOf(batch) == {batch[i].id : i \in DOMAIN batch}

\* A flushBatch call: its batch, the nodes left to try, the first of which is called
\* now, and, as history, the nodes that failed and those that were healthy at the start.
Flush(batch, candidates, tried, seen) ==
    [batch |-> batch, candidates |-> candidates, tried |-> tried, seen |-> seen]

\* What a caller gets.  The rest is history: how many texts it sent, and whether the
\* backend answered the batch with one vector per text; how many nodes failed, and
\* how many the flush started with.
Pending == [status |-> "waiting"]
Vectors(v, item, complete) ==
    [status |-> "ok", vectors |-> v, size |-> item.size, complete |-> complete]
Rejection(flush) ==
    [status |-> "rejected", tried |-> Cardinality(flush.tried), seen |-> Cardinality(flush.seen)]

Init ==
    /\ HealthInit
    /\ inflight = [n \in Ids |-> 0]
    /\ queue = <<>>
    /\ timer = FALSE
    /\ activeFlushes = 0
    /\ flushes = {}
    /\ submitted = 0
    /\ reply = [r \in 1..Requests |-> Pending]

----------------------------------------------------------------------------
(* Starting flushes *)

\* Mutant: the preferred node is not taken out of the rest.
CandidatesTwice(byLatency, batch) ==
    LET Preferred(n) == UrlOf[n] = RemoteUrl /\ Len(AllTexts(batch)) >= MinTexts
        ordered == SelectSeq(byLatency, Preferred) \o byLatency
    IN  SubSeq(ordered, 1, Least(Len(ordered), MaxHops))

\* Candidates of a batch: the remote node first when it is healthy and the
\* batch is big enough for it, then the healthy nodes by latency, at most
\* MaxHops in all.
Candidates(byLatency, batch) ==
    LET Preferred(n) == UrlOf[n] = RemoteUrl /\ Len(AllTexts(batch)) >= MinTexts
        ordered == ToFront(byLatency, SelectInSeq(byLatency, Preferred))
    IN  SubSeq(ordered, 1, Least(Len(ordered), MaxHops))

\* Mutant: a batch leaves out the last of the requests taken for it.
BatchShort(q, i) == SubSeq(q, (i - 1) * Target + 1, Least(i * Target - 1, Len(q)))

\* The i-th batch cut from the queue q: up to Target requests.
Batch(q, i) == SubSeq(q, (i - 1) * Target + 1, Least(i * Target, Len(q)))

\* flushBatch() runs once per free slot while q holds requests, all in one turn of
\* the event loop, hence on one view of the pool; running are the flushes under
\* way.  Without a healthy node a flush is over at once and its callers are
\* rejected.
StartFlushes(q, active, running, slots) ==
    LET started == Least(slots, (Len(q) + Target - 1) \div Target)
    IN  \E byLatency \in ByLatency :
          LET new == {Flush(Batch(q, i), Candidates(byLatency, Batch(q, i)), {}, HealthyNodes)
                        : i \in 1..started}
              over == {f \in new : f.candidates = <<>>}
          IN  /\ queue' = SubSeq(q, started * Target + 1, Len(q))
              /\ activeFlushes' = active + started
              /\ flushes' = running \cup new
              /\ inflight' = [n \in Ids |-> inflight[n] +
                                Cardinality({f \in new \ over : Head(f.candidates) = n})]
              /\ reply' = [r \in 1..Requests |->
                             IF \E f \in over : r \in IdsOf(f.batch)
                             THEN Rejection(CHOOSE f \in over : r \in IdsOf(f.batch))
                             ELSE reply[r]]

\* maybeFlush().
MaybeFlush(q, active, running) == StartFlushes(q, active, running, Parallel - active)

\* Mutant: no timer is set.
SubmitWithoutTimer ==
    /\ submitted < Requests
    /\ submitted' = submitted + 1
    /\ \E size \in 1..MaxTexts :
         LET q == Append(queue, [id |-> submitted + 1, size |-> size])
         IN  IF Len(AllTexts(q)) >= Target
             THEN MaybeFlush(q, activeFlushes, flushes)
             ELSE queue' = q /\ UNCHANGED <<activeFlushes, flushes, reply, inflight>>
    /\ UNCHANGED <<healthVars, timer>>

\* coalesceOrNull(texts): queue the request; a full queue is flushed now, any
\* other when the timer fires.
Submit ==
    /\ submitted < Requests
    /\ submitted' = submitted + 1
    /\ \E size \in 1..MaxTexts :
         LET q == Append(queue, [id |-> submitted + 1, size |-> size])
         IN  IF Len(AllTexts(q)) >= Target
             THEN timer' = FALSE /\ MaybeFlush(q, activeFlushes, flushes)
             ELSE /\ timer' = TRUE
                  /\ queue' = q
                  /\ UNCHANGED <<activeFlushes, flushes, reply, inflight>>
    /\ UNCHANGED healthVars

\* The window set by scheduleBatchFlush() is over.
TimerFires ==
    /\ timer
    /\ timer' = FALSE
    /\ MaybeFlush(queue, activeFlushes, flushes)
    /\ UNCHANGED <<healthVars, submitted>>

----------------------------------------------------------------------------
(* A flush *)

Calling == {f \in flushes : f.candidates # <<>>}
Over == flushes \ Calling

\* Mutant: the offset advances by one per request.
OffsetPerRequest(batch, i) == i - 1

\* How many vectors come before those of the i-th request of a batch.
Offset(batch, i) == Len(AllTexts(SubSeq(batch, 1, i - 1)))

\* A vector that belongs to no text.
Stray == <<0, 0>>

\* The arrays a 200 may carry: a vector for each of the texts or, miscounted, one
\* missing or one too many (bound), anywhere.
Arrays(texts, kind) ==
    IF kind = "ok" THEN {texts}
    ELSE {RemoveAt(texts, p) : p \in 1..Len(texts)}
         \cup {InsertAt(texts, p, Stray) : p \in 1..(Len(texts) + 1)}

\* allVectors.slice(offset, offset + p.texts.length) for the i-th request of a batch.
SliceOf(array, batch, i) ==
    SubSeq(array, Offset(batch, i) + 1, Least(Len(array), Offset(batch, i) + batch[i].size))

\* The batch is served: every caller gets its slice of the array, whose length is
\* not looked at.
Serve(f, kind) ==
    LET n == Head(f.candidates)
        texts == AllTexts(f.batch)
    IN  /\ RecordBatchOutcome(n, kind)
        /\ \E array \in Arrays(texts, kind) :
              reply' = [r \in 1..Requests |->
                          IF r \in IdsOf(f.batch)
                          THEN LET i == CHOOSE i \in DOMAIN f.batch : f.batch[i].id = r
                               IN  Vectors(SliceOf(array, f.batch, i), f.batch[i],
                                           Len(array) = Len(texts))
                          ELSE reply[r]]
        /\ inflight' = Dec(inflight, n)
        /\ flushes' = (flushes \ {f}) \cup {Flush(f.batch, <<>>, f.tried, f.seen)}

\* Mutant: one failed hop rejects the callers, and the batch goes on.
FailoverRejects(f, kind) ==
    LET n == Head(f.candidates)
        rest == Tail(f.candidates)
        next == Flush(f.batch, rest, f.tried \cup {n}, f.seen)
    IN  /\ RecordBatchOutcome(n, kind)
        /\ flushes' = (flushes \ {f}) \cup {next}
        /\ inflight' = IF rest = <<>> THEN Dec(inflight, n)
                       ELSE Inc(Dec(inflight, n), Head(rest))
        /\ reply' = [r \in 1..Requests |->
                       IF r \in IdsOf(f.batch) THEN Rejection(next) ELSE reply[r]]

\* The hop failed: on to the next candidate, or reject the callers.
Failover(f, kind) ==
    LET n == Head(f.candidates)
        rest == Tail(f.candidates)
        next == Flush(f.batch, rest, f.tried \cup {n}, f.seen)
    IN  /\ RecordBatchOutcome(n, kind)
        /\ flushes' = (flushes \ {f}) \cup {next}
        /\ inflight' = IF rest = <<>> THEN Dec(inflight, n)
                       ELSE Inc(Dec(inflight, n), Head(rest))
        /\ reply' = [r \in 1..Requests |->
                       IF rest = <<>> /\ r \in IdsOf(f.batch)
                       THEN Rejection(next) ELSE reply[r]]

\* proxyTo settles, at the latest after POOL_REQUEST_TIMEOUT_MS.
CallEnds(f, kind) ==
    /\ f \in Calling
    /\ IF kind \in {"ok", "miscounted"} THEN Serve(f, kind) ELSE Failover(f, kind)
    /\ UNCHANGED <<targets, registered, checking, queue, timer, activeFlushes, submitted>>

\* Mutant: the end of a flush does not look at the queue.
FinallyWithoutFlush(f) ==
    /\ f \in Over
    /\ activeFlushes' = activeFlushes - 1
    /\ flushes' = flushes \ {f}
    /\ UNCHANGED <<routerVars, queue, timer, submitted, reply>>

\* The finally of maybeFlush, a microtask after flushBatch settled.
Finally(f) ==
    /\ f \in Over
    /\ MaybeFlush(queue, activeFlushes - 1, flushes \ {f})
    /\ UNCHANGED <<healthVars, timer, submitted>>

----------------------------------------------------------------------------

Step(f) == (\E kind \in Answers : CallEnds(f, kind)) \/ Finally(f)

Next ==
    \/ Submit
    \/ TimerFires
    \/ \E f \in flushes : Step(f)
    \/ HealthStep /\ UNCHANGED batchVars

Spec == Init /\ [][Next]_vars

\* The flush timer fires, and while calls or microtasks are due, one of them runs: with
\* a bounded number of requests this is all it takes.
Fairness == WF_vars(TimerFires) /\ WF_vars(\E f \in flushes : Step(f))

FairSpec == Spec /\ Fairness

----------------------------------------------------------------------------
(* Properties *)

\* A request in the queue is never forgotten: the timer will fire, or every
\* flush slot is taken and its finally looks at the queue again.
NoLostWakeup == queue # <<>> => timer \/ activeFlushes = Parallel

\* Every request queued and not settled is in one place only, the queue or a
\* batch still being sent, and settled requests are in neither.
NoRequestLost ==
    \A r \in 1..Requests :
        LET queued == {i \in DOMAIN queue : queue[i].id = r}
            sending == {p \in Calling \X (1..Target) :
                          p[2] \in DOMAIN p[1].batch /\ p[1].batch[p[2]].id = r}
        IN  Cardinality(queued) + Cardinality(sending) =
              IF r <= submitted /\ reply[r].status = "waiting" THEN 1 ELSE 0

\* activeFlushes counts the flushes, and the in-flight counter of a node the
\* batches it is working on: neither leaks on any path through flushBatch.
CountersExact ==
    /\ activeFlushes = Cardinality(flushes)
    /\ \A n \in Ids :
         inflight[n] = Cardinality({f \in Calling : Head(f.candidates) = n})

Answered == {r \in 1..Requests : reply[r].status = "ok"}
OwnTexts(r) == [i \in 1..reply[r].size |-> <<r, i>>]

\* When the backend answered the batch with one vector per text, a caller gets those of
\* its own texts, in order and all of them; and however many it answered with, no
\* vector goes to two callers.
OwnVectors ==
    /\ \A r \in Answered : reply[r].complete => reply[r].vectors = OwnTexts(r)
    /\ \A r, s \in Answered : r # s =>
         ToSet(reply[r].vectors) \cap ToSet(reply[s].vectors) \subseteq {Stray}

\* A caller is rejected only after as many different backends failed its batch
\* as there were healthy ones, up to MaxHops.
RejectedOnlyAfterFailover ==
    \A r \in 1..Requests : reply[r].status = "rejected" =>
        reply[r].tried = Least(MaxHops, reply[r].seen)

\* A request is settled once and for all.
SettledOnce ==
    [][\A r \in 1..Requests :
         reply[r].status # "waiting" => reply'[r] = reply[r]]_vars

\* Every queued request is settled.
EverySubmissionSettles ==
    \A r \in 1..Requests : submitted >= r ~> reply[r].status # "waiting"
=============================================================================
