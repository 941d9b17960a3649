------------------------------ MODULE InfoCache ------------------------------
(***************************************************************************)
(* GET /info of pool-router.mjs: the model a healthy backend serves, asked *)
(* for once and then told from infoCache for INFO_CACHE_TTL_MS.  Requests  *)
(* that miss the cache overlap: each asks a backend of its own, and the    *)
(* last answer to arrive is kept, stamped with the time its request came.  *)
(*                                                                         *)
(* Instants are kept as the ticks that have passed since, up to the number *)
(* after which nothing depends on them.                                    *)
(***************************************************************************)
EXTENDS Naturals

CONSTANTS Backends,
          Models,   \* what a backend may report of itself
          NoModel,  \* infoCache is null
          Callers,
          TTL,      \* INFO_CACHE_TTL_MS, in ticks
          Timeout   \* POOL_REQUEST_TIMEOUT_MS, in ticks

ASSUME InfoAssumption ==
    /\ TTL \in Nat \ {0} /\ Timeout \in Nat
    /\ NoModel \notin Models

VARIABLES healthy,   \* the nodes getHealthyNodes() returns
          serves,    \* the model each backend serves
          gone,      \* history: ticks since a backend last served a model
          infoCache,
          infoAge,   \* ticks since infoCacheAt
          ask,       \* the request of each client
          told       \* the last answer of each client

infoVars == <<healthy, serves, gone, infoCache, infoAge, ask, told>>

Capped(a, b) == IF a < b THEN a ELSE b
Horizon == TTL + Timeout

\* A request: age is the ticks since it came, model what its backend has answered.
Ask(phase, node, age, model) == [phase |-> phase, node |-> node, age |-> age, model |-> model]
Idle == Ask("idle", NoModel, 0, NoModel)

\* An answer; lag is history: how long ago the model told was last served.
Told(status, cached, lag) == [status |-> status, cached |-> cached, lag |-> lag]

InfoInit ==
    /\ healthy \in SUBSET Backends
    /\ serves \in [Backends -> Models]
    /\ gone = [m \in Models |-> IF \E b \in Backends : serves[b] = m THEN 0 ELSE Horizon]
    /\ infoCache = NoModel
    /\ infoAge = TTL
    /\ ask = [c \in Callers |-> Idle]
    /\ told = [c \in Callers |-> Told(0, FALSE, 0)]

----------------------------------------------------------------------------

\* Mutant: the cached model never expires.
FreshForever == infoCache # NoModel

\* The cache may answer.
Fresh == infoCache # NoModel /\ infoAge < TTL

\* A request the cache answers, whatever has become of the backends.
Hit(c) ==
    /\ ask[c].phase = "idle"
    /\ Fresh
    /\ told' = [told EXCEPT ![c] = Told(200, TRUE, gone[infoCache])]
    /\ UNCHANGED <<healthy, serves, gone, infoCache, infoAge, ask>>

\* A request it does not: 503 without a healthy backend, or a call to one.
Miss(c) ==
    /\ ask[c].phase = "idle"
    /\ ~Fresh
    /\ \/ /\ healthy = {}
          /\ told' = [told EXCEPT ![c] = Told(503, FALSE, 0)]
          /\ UNCHANGED ask
       \/ \E b \in healthy :
            /\ ask' = [ask EXCEPT ![c] = Ask("asked", b, 0, NoModel)]
            /\ UNCHANGED told
    /\ UNCHANGED <<healthy, serves, gone, infoCache, infoAge>>

\* The backend answers with the model it serves now; the answer travels.
Answer(c) ==
    /\ ask[c].phase = "asked"
    /\ ask' = [ask EXCEPT ![c] = Ask("answered", @.node, @.age, serves[@.node])]
    /\ UNCHANGED <<healthy, serves, gone, infoCache, infoAge, told>>

\* Mutant: the cache is stamped with the time the answer arrived.
StampOnArrival(age) == 0

\* infoCacheAt is the time the request came.
Stamp(age) == Capped(age, TTL)

\* The answer arrives: it is cached and passed on.
Arrive(c) ==
    /\ ask[c].phase = "answered"
    /\ infoCache' = ask[c].model
    /\ infoAge' = Stamp(ask[c].age)
    /\ told' = [told EXCEPT ![c] = Told(200, FALSE, gone[ask[c].model])]
    /\ ask' = [ask EXCEPT ![c] = Idle]
    /\ UNCHANGED <<healthy, serves, gone>>

\* No answer that can be cached: proxyTo throws (502), or the backend's own status
\* or body is passed on as it is.
Fail(c) ==
    /\ ask[c].phase = "asked"
    /\ told' = [told EXCEPT ![c] = Told(502, FALSE, 0)]
    /\ ask' = [ask EXCEPT ![c] = Idle]
    /\ UNCHANGED <<healthy, serves, gone, infoCache, infoAge>>

----------------------------------------------------------------------------
(* The world *)

\* A backend is restarted with a model.
Deploy(b, m) ==
    /\ serves' = [serves EXCEPT ![b] = m]
    /\ gone' = [gone EXCEPT ![m] = 0]
    /\ UNCHANGED <<healthy, infoCache, infoAge, ask, told>>

HealthChanges ==
    /\ healthy' \in SUBSET Backends
    /\ UNCHANGED <<serves, gone, infoCache, infoAge, ask, told>>

\* Time passes; a call is over by its timeout.
InfoTick ==
    /\ \A c \in Callers : ask[c].phase # "idle" => ask[c].age < Timeout
    /\ infoAge' = Capped(infoAge + 1, TTL)
    /\ gone' = [m \in Models |-> IF \E b \in Backends : serves[b] = m THEN 0
                                 ELSE Capped(gone[m] + 1, Horizon)]
    /\ ask' = [c \in Callers |-> IF ask[c].phase = "idle" THEN Idle
                                 ELSE [ask[c] EXCEPT !.age = @ + 1]]
    /\ UNCHANGED <<healthy, serves, infoCache, told>>

Settle(c) == Arrive(c) \/ Fail(c)

InfoNext ==
    \/ \E c \in Callers : Hit(c) \/ Miss(c) \/ Answer(c) \/ Settle(c)
    \/ \E b \in Backends, m \in Models : Deploy(b, m)
    \/ HealthChanges
    \/ InfoTick

InfoSpec == InfoInit /\ [][InfoNext]_infoVars

\* Time passes, and calls end.  Clients need not ask again.
FairInfoSpec == InfoSpec /\ WF_infoVars(InfoTick) /\ \A c \in Callers : WF_infoVars(Settle(c))

----------------------------------------------------------------------------
(* Properties *)

\* However misses overlap, and whichever of them fills the cache last: a model
\* told from the cache was served less than TTL ago, and one just asked for was
\* since the request came.
InfoFresh ==
    \A c \in Callers : told[c].status = 200 =>
        IF told[c].cached THEN told[c].lag < TTL ELSE told[c].lag <= Timeout

\* Once the backends stop changing, the cache soon tells of models that are served
\* and of no others, although older answers may replace newer ones.
Stops == <>[][UNCHANGED serves]_infoVars
TellsServedModels == Stops => <>[](Fresh => \E b \in Backends : serves[b] = infoCache)
=============================================================================
