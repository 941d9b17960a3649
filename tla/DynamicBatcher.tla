---------------------------- MODULE DynamicBatcher ----------------------------
(***************************************************************************)
(* The Jina server (jina-server/server.py): request threads put their      *)
(* inputs in the queue of DynamicBatcher and wait on a future; one worker  *)
(* thread takes the whole queue, groups it by the parameters of the model, *)
(* runs one forward pass per group under _gpu_lock and gives every request *)
(* its slice.  multi_vector requests and, with batching off, /embed        *)
(* requests run their own forward passes.                                  *)
(*                                                                         *)
(* task stands for task, prompt_name and max_tokens.  A vector is the text *)
(* it was computed from, <<r, i>>, the task, and its dimension.  The       *)
(* sub-batches of a forward pass, normalisation and the counters shown by  *)
(* /health are not modelled.                                               *)
(***************************************************************************)
EXTENDS Naturals, SequencesExt

CONSTANTS Requests,  \* bound: number of /embed requests
          MaxInputs, \* bound: inputs of one request
          Tasks,     \* the parameters a request may ask for
          Dims,      \* dimensions a request may ask for
          Steps,     \* MATRYOSHKA_DIMS
          MaxBatch,  \* JINA_DYN_BATCH_MAX_SIZE
          Settings,  \* values of JINA_DYN_BATCH to look at
          MaxMulti   \* bound: multi_vector requests at a time

ASSUME BatcherAssumption ==
    /\ Requests \in Nat /\ MaxInputs \in Nat \ {0} /\ MaxMulti \in Nat
    /\ MaxBatch \in Nat \ {0} /\ Settings \subseteq BOOLEAN
    /\ Dims \subseteq Nat /\ Steps \subseteq Nat
    /\ \A dim \in Dims : \E step \in Steps : step >= dim

VARIABLES DynBatch,  \* JINA_DYN_BATCH, never changed
          queue,     \* _queue
          event,     \* _flush_event
          worker,    \* where the worker thread is
          groups,    \* the groups of its batch that are not done, in order
          locked,    \* _gpu_lock
          forwards,  \* forward passes running
          multi,     \* multi_vector requests running
          asked,     \* what each request asked for, in the order they came
          future,    \* the future of each request
          client     \* what the thread of each request is at

gpu == <<locked, forwards>>
batching == <<DynBatch, queue, event, worker, groups>>
vars == <<batching, gpu, multi, asked, future, client>>

Items == [id : 1..Requests, size : 1..MaxInputs, task : Tasks, dim : Dims]

Pending == [status |-> "pending", vectors |-> <<>>]
Failed == [status |-> "error", vectors |-> <<>>]
Result(vectors) == [status |-> "ok", vectors |-> vectors]

\* snap_matryoshka: the smallest step that is not below dim.
Snap(dim) == CHOOSE step \in Steps :
                /\ step >= dim
                /\ \A other \in Steps : other >= dim => step <= other

Inputs(seq) == FoldLeft(LAMBDA sum, item : sum + item.size, 0, seq)
IdsOf(seq) == {seq[i].id : i \in DOMAIN seq}

Init ==
    /\ DynBatch \in Settings
    /\ queue = <<>> /\ event = FALSE /\ worker = "waiting" /\ groups = <<>>
    /\ locked = FALSE /\ forwards = 0 /\ multi = 0
    /\ asked = <<>>
    /\ future = [r \in 1..Requests |-> Pending]
    /\ client = [r \in 1..Requests |-> "none"]

----------------------------------------------------------------------------
(* The thread of a request *)

\* submit, under _lock: queue the request, and wake the worker when the queue has
\* become a full batch.
Submit(item) ==
    /\ DynBatch
    /\ queue' = Append(queue, item)
    /\ event' = (event \/ Inputs(queue') >= MaxBatch)
    /\ client' = [client EXCEPT ![item.id] = "waiting"]
    /\ UNCHANGED <<DynBatch, worker, groups>>

\* With batching off the thread goes for the lock itself.
Direct(item) ==
    /\ ~DynBatch
    /\ client' = [client EXCEPT ![item.id] = "blocked"]
    /\ UNCHANGED batching

\* embed: the next request comes.
Arrive ==
    /\ Len(asked) < Requests
    /\ \E item \in Items :
         /\ item.id = Len(asked) + 1
         /\ asked' = Append(asked, item)
         /\ Submit(item) \/ Direct(item)
    /\ UNCHANGED <<gpu, multi, future>>

\* fut.result returns, or raises what the future holds.
Answer(r) ==
    /\ client[r] = "waiting"
    /\ future[r] # Pending
    /\ client' = [client EXCEPT ![r] = IF future[r].status = "ok" THEN "200" ELSE "503"]
    /\ UNCHANGED <<batching, gpu, multi, asked, future>>

\* fut.result times out; the request stays where it is, and is served for nobody.
TimeOut(r) ==
    /\ client[r] = "waiting"
    /\ future[r] = Pending
    /\ client' = [client EXCEPT ![r] = "503"]
    /\ UNCHANGED <<batching, gpu, multi, asked, future>>

----------------------------------------------------------------------------
(* Forward passes outside the worker *)

\* Mutant: the direct path does not take the lock.
DirectStartUnlocked(r) ==
    /\ client[r] = "blocked"
    /\ locked' = TRUE
    /\ forwards' = forwards + 1
    /\ client' = [client EXCEPT ![r] = "encoding"]
    /\ UNCHANGED <<batching, multi, asked, future>>

\* _run_embed_direct: with _gpu_lock.
DirectStart(r) ==
    /\ client[r] = "blocked"
    /\ ~locked
    /\ locked' = TRUE
    /\ forwards' = forwards + 1
    /\ client' = [client EXCEPT ![r] = "encoding"]
    /\ UNCHANGED <<batching, multi, asked, future>>

\* It answers, or fails with the exception of the model.
DirectEnd(r) ==
    /\ client[r] = "encoding"
    /\ locked' = FALSE
    /\ forwards' = forwards - 1
    /\ \E answer \in {"200", "500"} : client' = [client EXCEPT ![r] = answer]
    /\ UNCHANGED <<batching, multi, asked, future>>

\* embed_multi_vector encodes without _gpu_lock.
MultiStart ==
    /\ multi < MaxMulti
    /\ multi' = multi + 1
    /\ forwards' = forwards + 1
    /\ UNCHANGED <<batching, locked, asked, future, client>>

MultiEnd ==
    /\ multi > 0
    /\ multi' = multi - 1
    /\ forwards' = forwards - 1
    /\ UNCHANGED <<batching, locked, asked, future, client>>

----------------------------------------------------------------------------
(* The worker thread *)

\* Mutant: the worker waits for a full batch, however long that takes.
WakeWhenFull ==
    /\ DynBatch
    /\ worker = "waiting"
    /\ event
    /\ worker' = "awake"
    /\ UNCHANGED <<DynBatch, queue, event, groups, gpu, multi, asked, future, client>>

\* _flush_event.wait returns: the event is set, or max_wait_ms are over.
Wake ==
    /\ DynBatch
    /\ worker = "waiting"
    /\ worker' = "awake"
    /\ UNCHANGED <<DynBatch, queue, event, groups, gpu, multi, asked, future, client>>

\* Mutant: the dimension does not count.
KeyOfTask(item) == item.task

\* Requests with the same key share a forward pass.
Key(item) == <<item.task, Snap(item.dim)>>

\* The requests of a batch by key, keys in the order they first appear.
WithItem(seq, item) ==
    LET SameKey(group) == Key(Head(group)) = Key(item)
        i == SelectInSeq(seq, SameKey)
    IN  IF i = 0 THEN Append(seq, <<item>>)
        ELSE [seq EXCEPT ![i] = Append(@, item)]
Grouped(batch) == FoldLeft(WithItem, <<>>, batch)

\* Mutant: the event is left set.
TakeKeepingEvent ==
    /\ worker = "awake"
    /\ IF queue = <<>> THEN worker' = "waiting" ELSE worker' = "starting"
    /\ groups' = Grouped(queue)
    /\ queue' = <<>>
    /\ UNCHANGED <<DynBatch, event, gpu, multi, asked, future, client>>

\* Under _lock: take the whole queue, if there is one, and clear the event.
Take ==
    /\ worker = "awake"
    /\ IF queue = <<>> THEN worker' = "waiting" ELSE worker' = "starting"
    /\ groups' = Grouped(queue)
    /\ queue' = <<>>
    /\ event' = FALSE
    /\ UNCHANGED <<DynBatch, gpu, multi, asked, future, client>>

\* The next group: with _gpu_lock, a forward pass.
Encode ==
    /\ worker = "starting"
    /\ ~locked
    /\ locked' = TRUE
    /\ forwards' = forwards + 1
    /\ worker' = "encoding"
    /\ UNCHANGED <<DynBatch, queue, event, groups, multi, asked, future, client>>

\* The worker is done with its first group.
NextGroup ==
    /\ groups' = Tail(groups)
    /\ worker' = IF Len(groups) = 1 THEN "waiting" ELSE "starting"

\* Mutant: an exception ends the batch, not the group.
FailBatch ==
    /\ worker = "encoding"
    /\ locked' = FALSE
    /\ forwards' = forwards - 1
    /\ future' = [r \in 1..Requests |->
                    IF \E i \in DOMAIN groups : r \in IdsOf(groups[i])
                    THEN Failed ELSE future[r]]
    /\ groups' = <<>>
    /\ worker' = "waiting"
    /\ UNCHANGED <<DynBatch, queue, event, multi, asked, client>>

\* Mutant: the worker survives the exception, and tells nobody.
DropGroup ==
    /\ worker = "encoding"
    /\ locked' = FALSE
    /\ forwards' = forwards - 1
    /\ NextGroup
    /\ UNCHANGED <<DynBatch, queue, event, multi, asked, future, client>>

\* The model raises, which frees the lock: on to the except of the group.
EncodeFails ==
    /\ worker = "encoding"
    /\ locked' = FALSE
    /\ forwards' = forwards - 1
    /\ worker' = "failing"
    /\ UNCHANGED <<DynBatch, queue, event, groups, multi, asked, future, client>>

\* The vectors of the group are there and the lock is free again.
EncodeEnds ==
    /\ worker = "encoding"
    /\ locked' = FALSE
    /\ forwards' = forwards - 1
    /\ worker' = "demuxing"
    /\ UNCHANGED <<DynBatch, queue, event, groups, multi, asked, future, client>>

Vector(text, task, dim) == [text |-> text, task |-> task, dim |-> dim]

\* The vectors of a group, one after the other, as its first request asked.
WithTexts(texts, item) == texts \o [i \in 1..item.size |-> <<item.id, i>>]
Embeddings(group) ==
    LET texts == FoldLeft(WithTexts, <<>>, group)
    IN  [j \in DOMAIN texts |-> Vector(texts[j], Head(group).task, Snap(Head(group).dim))]

\* What request i of a group is given: its slice, cut to the dimension it asked for.
Slice(group, i) ==
    LET offset == Inputs(SubSeq(group, 1, i - 1))
        Cut(vector) == IF group[i].dim < vector.dim
                       THEN Vector(vector.text, vector.task, group[i].dim) ELSE vector
    IN  [j \in 1..group[i].size |-> Cut(Embeddings(group)[offset + j])]

\* The next request of the group that has no result yet.
Served == {i \in DOMAIN Head(groups) : future[Head(groups)[i].id] # Pending}
NextToServe == Cardinality(Served) + 1

\* The future of the next request is set; the last one ends the group.
Settle(result) ==
    /\ future' = [future EXCEPT ![Head(groups)[NextToServe].id] = result]
    /\ IF NextToServe = Len(Head(groups)) THEN NextGroup ELSE UNCHANGED <<groups, worker>>
    /\ UNCHANGED <<DynBatch, queue, event, gpu, multi, asked, client>>

Demux == worker = "demuxing" /\ Settle(Result(Slice(Head(groups), NextToServe)))

\* Cutting or converting a result raises: on to the except, which passes over the
\* futures that are done.
DemuxFails ==
    /\ worker = "demuxing"
    /\ worker' = "failing"
    /\ UNCHANGED <<DynBatch, queue, event, groups, gpu, multi, asked, future, client>>

\* Mutant: the exception goes to those served, too.
FailAll ==
    /\ worker = "failing"
    /\ future' = [r \in 1..Requests |->
                    IF r \in IdsOf(Head(groups)) THEN Failed ELSE future[r]]
    /\ NextGroup
    /\ UNCHANGED <<DynBatch, queue, event, gpu, multi, asked, client>>

\* The next request of the group that has no result gets the exception.
Fail == worker = "failing" /\ Settle(Failed)

----------------------------------------------------------------------------

Worker ==
    \/ Wake \/ Take \/ Encode
    \/ EncodeFails \/ EncodeEnds
    \/ Demux \/ DemuxFails \/ Fail

Thread(r) == Answer(r) \/ TimeOut(r) \/ DirectStart(r) \/ DirectEnd(r)

Next ==
    \/ Arrive
    \/ Worker
    \/ \E r \in 1..Requests : Thread(r)
    \/ MultiStart \/ MultiEnd

Spec == Init /\ [][Next]_vars

\* The worker thread runs, and its forward passes end.
FairSpec == Spec /\ WF_vars(Worker)

----------------------------------------------------------------------------
(* Properties *)

\* The event says that the queue holds a full batch: it is neither missed nor left
\* over from a batch that was already taken.
EventMeansFullBatch == event <=> Inputs(queue) >= MaxBatch

\* Every unanswered request is in one place only: the queue, or a group that waits
\* for its forward pass or for its results.
OnePlace ==
    DynBatch =>
      \A r \in 1..Len(asked) :
         LET inQueue == {i \in DOMAIN queue : queue[i].id = r}
             inGroups == {i \in DOMAIN groups : r \in IdsOf(groups[i])}
         IN  future[r] = Pending => Cardinality(inQueue) + Cardinality(inGroups) = 1

\* A request is given the vectors of its own texts, all of them and in order,
\* computed as it asked and cut to its own dimension, whatever it shared its forward
\* pass with.
OwnResults ==
    \A r \in 1..Len(asked) : future[r].status = "ok" =>
        future[r].vectors =
            [i \in 1..asked[r].size |-> Vector(<<r, i>>, asked[r].task, asked[r].dim)]

\* The forward passes of /embed, batched or not, use the GPU one at a time.
EmbedSerialised == forwards - multi <= 1

\* A future is set once.
SetOnce ==
    [][\A r \in 1..Requests : future[r] # Pending => future'[r] = future[r]]_vars

\* A request that the worker has taken and not served.
StillToServe(q) == future[q] = Pending /\ \E i \in DOMAIN groups : q \in IdsOf(groups[i])

\* A failure hits the requests of one forward pass only: those with another key in
\* the same batch are still to be served.
FailureSpares ==
    \A r, q \in 1..Len(asked) :
        (future[r] = Pending /\ future'[r] = Failed /\ Key(asked[q]) # Key(asked[r]))
            => (StillToServe(q) => StillToServe(q)')
FailureStaysInGroup == [][FailureSpares]_vars

\* Every request that was queued gets a result or an exception, whether or not
\* its client still waits for it.
EveryFutureSet == \A r \in 1..Requests : client[r] = "waiting" ~> future[r] # Pending
=============================================================================
