----------------------------- MODULE ApiService -----------------------------
(***************************************************************************)
(* The REST service: the request middleware of api/middleware.py in front  *)
(* of the handlers of api/routes_*.py, with the rate limiter and the       *)
(* circuit breaker of the prediction path.  The middleware runs in the     *)
(* event loop, so that what it does between two awaits is one step; a      *)
(* handler runs on a thread of a pool and is not stopped when its request  *)
(* times out.  Time is a clock of whole seconds.                           *)
(***************************************************************************)
EXTENDS RateLimiter, FiniteSets, TLC

CONSTANTS
  Requests,        \* 1..n, numbered in the order they arrive
  Kinds,           \* what each request may be: a path, a key, whether its body is too large
  ApiKeys,         \* the keys configured; none means no authentication
  RequestTimeout,  \* HPCOPT_REQUEST_TIMEOUT_SEC
  PoolSize,        \* threads of the pool (external: the server's)
  FailureThreshold, \* of the circuit breaker
  MaxClock

ASSUME ServiceAssumption ==
  /\ Requests = 1..Cardinality(Requests)
  /\ PoolSize \in Nat \ {0}
  /\ RequestTimeout \in Nat
  /\ FailureThreshold \in Nat \ {0}
  /\ \A r \in Requests : \A kind \in Kinds[r] : Limits[kind.path] \in Int

VARIABLES
  clock,
  request,    \* each request: where its work is and what was answered
  limiter,
  breaker,
  shutdown,   \* app.state.shutdown_requested
  admitted,   \* history: <<bucket, time>> of the requests the limiter let through
  outcomes    \* history: successes and failures recorded, in their order

vars == <<clock, request, limiter, breaker, shutdown, admitted, outcomes>>

-----------------------------------------------------------------------------
(* The circuit breaker of utils/resilience.py: each method is one step     *)
(* under its lock.  The property `state`, which turns an open circuit      *)
(* half-open in time, is read by the decorator only, and the service does  *)
(* not use the decorator.                                                  *)
NewBreaker == [failures |-> 0, last_failure |-> 0, state |-> "closed"]

\* Bug form: a failure after the circuit closed again still counts.
Bug_SuccessKeepsCount(b) == [b EXCEPT !.state = "closed"]

RecordSuccess(b) == [b EXCEPT !.failures = 0, !.state = "closed"]

RecordFailure(b, now) ==
  [failures |-> b.failures + 1, last_failure |-> now,
   state |-> IF b.failures + 1 >= FailureThreshold THEN "open" ELSE b.state]

-----------------------------------------------------------------------------
ExemptPaths == {"health", "ready", "status"}
AdminPaths == {"admin"}
AdminKeys == {"admin-key"}
NotMade == [work |-> "none", answer |-> 0]
Answered(r) == request[r].answer # 0

Init ==
  /\ clock = 0
  /\ request = [r \in Requests |-> NotMade]
  /\ limiter = EmptyLimiter
  /\ breaker = NewBreaker
  /\ shutdown = FALSE
  /\ admitted = <<>> /\ outcomes = <<>>

CheckApiKeyAuth(kind) ==
  kind.path \in ExemptPaths \/ ApiKeys = {} \/ kind.key \in ApiKeys
CheckAdminAuth(kind) ==
  kind.path \notin AdminPaths \/ ApiKeys = {} \/ kind.key \in AdminKeys

Limited(kind) == kind.path \notin ExemptPaths

(* request_middleware up to call_next, and the body size limit inside it.  *)
(* An answer at once, or the work handed to the pool.                      *)
Closed(status) == [work |-> "done", answer |-> status]
Refuse(r, status) == request' = [request EXCEPT ![r] = Closed(status)]

Admit(r, kind) ==
  IF kind.large THEN Refuse(r, 413)
  ELSE request' = [request EXCEPT ![r] =
         [work |-> "queued", answer |-> 0, kind |-> kind, started |-> clock]]

Arrive(r, kind) ==
  /\ request[r] = NotMade /\ \A q \in 1..(r - 1) : request[q] # NotMade
  /\ LET check == CheckRateLimit(limiter, kind.key, kind.path, clock)
     IN IF shutdown /\ kind.path \notin ExemptPaths
        THEN Refuse(r, 503) /\ UNCHANGED <<limiter, admitted>>
        ELSE IF ~CheckApiKeyAuth(kind)
        THEN Refuse(r, 401) /\ UNCHANGED <<limiter, admitted>>
        ELSE IF ~CheckAdminAuth(kind)
        THEN Refuse(r, 403) /\ UNCHANGED <<limiter, admitted>>
        ELSE IF ~Limited(kind)
        THEN Admit(r, kind) /\ UNCHANGED <<limiter, admitted>>
        ELSE /\ limiter' = check.limiter
             /\ IF check.allowed
                THEN /\ Admit(r, kind)
                     /\ admitted' = Append(admitted, <<<<kind.key, kind.path>>, clock>>)
                ELSE Refuse(r, 429) /\ UNCHANGED admitted
  /\ UNCHANGED <<clock, breaker, shutdown, outcomes>>

-----------------------------------------------------------------------------
Working == {r \in Requests : request[r].work \in {"running", "model"}}

(* The work of r ends; whoever waits for it gets the answer, unless the    *)
(* middleware has answered 504 already.                                    *)
Finish(r, status) ==
  request' = [request EXCEPT ![r] = Closed(IF @.answer = 0 THEN status ELSE @.answer)]

TakeThread(r) ==
  /\ request[r].work = "queued"
  /\ Cardinality(Working) < PoolSize
  /\ request' = [request EXCEPT ![r].work = "running"]
  /\ UNCHANGED <<clock, limiter, breaker, shutdown, admitted, outcomes>>

(* Health, readiness, status, the recommendation of a run, the log level,  *)
(* the resource fit: an answer without a model.                            *)
PlainStatuses(path) ==
  CASE path = "ready" -> IF shutdown THEN {503} ELSE {200, 503}
    [] path = "recommendation" -> {200, 400, 404, 500}
    [] path = "admin" -> {200, 400}
    [] OTHER -> {200}

ServePlain(r) ==
  /\ request[r].work = "running"
  /\ request[r].kind.path # "predict"
  /\ \E status \in PlainStatuses(request[r].kind.path) : Finish(r, status)
  /\ UNCHANGED <<clock, limiter, breaker, shutdown, admitted, outcomes>>

(* predict_runtime without a predictor answers by the heuristic.           *)
ServeFallback(r) ==
  /\ request[r].work = "running"
  /\ request[r].kind.path = "predict"
  /\ Finish(r, 200)
  /\ UNCHANGED <<clock, limiter, breaker, shutdown, admitted, outcomes>>

(* The loader gives a predictor, or raises (a model that does not match    *)
(* its hashes): the latter is a 500 the circuit does not see.              *)
LoadPredictor(r) ==
  /\ request[r].work = "running"
  /\ request[r].kind.path = "predict"
  /\ request' = [request EXCEPT ![r].work = "model"] \/ Finish(r, 500)
  /\ UNCHANGED <<clock, limiter, breaker, shutdown, admitted, outcomes>>

(* predict_one returns or raises: the circuit counts it, answered or not.  *)
PredictOK(r) ==
  /\ request[r].work = "model"
  /\ Finish(r, 200)
  /\ breaker' = RecordSuccess(breaker)
  /\ outcomes' = Append(outcomes, "success")
  /\ UNCHANGED <<clock, limiter, shutdown, admitted>>

PredictFails(r) ==
  /\ request[r].work = "model"
  /\ Finish(r, 500)
  /\ breaker' = RecordFailure(breaker, clock)
  /\ outcomes' = Append(outcomes, "failure")
  /\ UNCHANGED <<clock, limiter, shutdown, admitted>>

-----------------------------------------------------------------------------
Due(r) ==
  /\ request[r].work \notin {"none", "done"} /\ ~Answered(r)
  /\ clock >= request[r].started + RequestTimeout

\* Bug form: only a request that has a thread times out.
Bug_TimesOutRunning(r) == Due(r) /\ request[r].work # "queued"

MayTimeOut(r) == Due(r)

(* asyncio.wait_for gives up: 504, and cancels call_next alone.  Whether   *)
(* what waits for a thread is then withdrawn, or gets one all the same, is *)
(* up to the framework that runs call_next; what has a thread goes on.     *)
TimeOut(r) ==
  /\ MayTimeOut(r)
  /\ \/ request[r].work = "queued" /\ Refuse(r, 504)
     \/ request' = [request EXCEPT ![r].answer = 504]
  /\ UNCHANGED <<clock, limiter, breaker, shutdown, admitted, outcomes>>

(* SIGTERM or SIGINT, or the end of the lifespan. *)
RequestShutdown ==
  /\ ~shutdown
  /\ shutdown' = TRUE
  /\ UNCHANGED <<clock, request, limiter, breaker, admitted, outcomes>>

Tick ==
  /\ clock < MaxClock
  /\ clock' = clock + 1
  /\ UNCHANGED <<request, limiter, breaker, shutdown, admitted, outcomes>>

Next ==
  \/ \E r \in Requests :
       \/ \E kind \in Kinds[r] : Arrive(r, kind)
       \/ TakeThread(r) \/ ServePlain(r) \/ ServeFallback(r) \/ LoadPredictor(r)
       \/ PredictOK(r) \/ PredictFails(r) \/ TimeOut(r)
  \/ RequestShutdown \/ Tick

Spec == Init /\ [][Next]_vars

(* Time goes by and the event loop runs its timers; nothing is asked of    *)
(* the handlers, which may never return.                                   *)
FairSpec == Spec /\ WF_vars(Tick) /\ \A r \in Requests : WF_vars(TimeOut(r))

-----------------------------------------------------------------------------
(* However the pruning of stale buckets falls, no more requests of one key *)
(* and path pass in any window than its limit.                             *)
WithinRate ==
  \A i \in DOMAIN admitted :
    LET bucket == admitted[i][1] IN
    Limits[bucket[2]] > 0 =>
      Cardinality({j \in 1..i : /\ admitted[j][1] = bucket
                                /\ admitted[j][2] > admitted[i][2] - RateWindow})
        <= Limits[bucket[2]]

(* A request made more than its own timeout before the clock stops is      *)
(* answered, even when every thread of the pool hangs for ever.            *)
EveryRequestAnswered ==
  \A r \in Requests :
    (request[r].work = "queued" /\ request[r].started + RequestTimeout <= MaxClock)
      ~> Answered(r)

(* The circuit is closed exactly while fewer failures than the threshold   *)
(* were recorded since the last success, late outcomes of requests that    *)
(* have timed out included.                                                *)
SinceSuccess ==
  Cardinality({i \in DOMAIN outcomes : \A j \in i..Len(outcomes) : outcomes[j] = "failure"})
CircuitFollowsOutcomes ==
  (breaker.state = "closed") <=> (SinceSuccess < FailureThreshold)
=============================================================================
