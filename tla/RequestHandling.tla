---------------------------- MODULE RequestHandling ---------------------------
(***************************************************************************)
(* An HTTP request on its goroutine, from PanicMiddleware down to the pool *)
(* and back: the middlewares, the deadline of its operation, the           *)
(* connections its calls take, a panic, and whether its answer reaches the *)
(* client.  What the calls do to the database is in ReviewService.         *)
(***************************************************************************)
EXTENDS ConnectionPool

CONSTANT MaxCalls   \* bound: calls of Storage in a request of each kind

\* The requests for /team/deactivate, and the others.
Kinds == {"long", "short"}

ASSUME MaxCallsType == MaxCalls \in [Kinds -> Nat] /\ MaxCalls["long"] >= 3

VARIABLES
  kind,      \* the kind of each request, "none" before it came
  at,        \* where it is
  calls,     \* the calls of Storage it has made, 0 again once they are over
  age,       \* the time since its header was read, 0 again once it is over
  outcome,   \* "none", then "answered", or "lost" when the connection was closed first
  hits,      \* counter hits of LoggerMiddleware
  served,    \* counter http_requests_total of MetricsMiddleware
  responses  \* counter hits_statuses of LoggerMiddleware

requestVars == <<held, kind, at, calls, age, outcome, hits, served, responses>>

\* unsent: not received yet; handling: running the service; waiting: for a connection
\* for a call; calling: in a call; beginning: trMgr.Do waits for its connection;
\* served: returned through MetricsMiddleware; logged: and through LoggerMiddleware;
\* recovered: unwound by a panic as far as PanicMiddleware.
Places == {"unsent", "handling", "waiting", "calling", "beginning", "served", "logged",
           "recovered"}

InFlight(r) == at[r] # "unsent" /\ outcome[r] = "none"

\* shortOperationContext and longOperationContext.
Deadline(r) == IF kind[r] = "long" THEN Setting("long") ELSE Setting("operation")

Expired(r) == age[r] >= Deadline(r)

RequestsInit ==
  /\ held = {}
  /\ kind = [r \in Requests |-> "none"]
  /\ at = [r \in Requests |-> "unsent"]
  /\ calls = [r \in Requests |-> 0]
  /\ age = [r \in Requests |-> 0]
  /\ outcome = [r \in Requests |-> "none"]
  /\ hits = 0 /\ served = 0 /\ responses = 0

Moves(r, place) == at' = [at EXCEPT ![r] = place]

------------------------------------------------------------------------------

\* LoggerMiddleware counts the request before it calls the next handler.
Receive(r) ==
  /\ at[r] = "unsent"
  /\ \E k \in Kinds : kind' = [kind EXCEPT ![r] = k]
  /\ Moves(r, "handling")
  /\ hits' = hits + 1
  /\ UNCHANGED <<held, calls, age, outcome, served, responses>>

\* MassDeactivate calls GetTeam, then trMgr.Do, then the others inside it.
InDo(r) == Holds(r, "manager")

\* DeactivateUsers and ListOpenPRsByReviewer are over as well.
InLoop(r) == InDo(r) /\ calls[r] >= 3

StartCall(r) ==
  /\ at[r] = "handling"
  /\ calls[r] < MaxCalls[kind[r]]
  /\ kind[r] = "long" /\ ~InDo(r) => calls[r] = 0
  /\ Moves(r, "waiting")
  /\ UNCHANGED <<kind, held, calls, age, outcome, hits, served, responses>>

StartDo(r) ==
  /\ at[r] = "handling"
  /\ kind[r] = "long" /\ ~InDo(r) /\ calls[r] = 1
  /\ Moves(r, "beginning")
  /\ UNCHANGED <<kind, held, calls, age, outcome, hits, served, responses>>

GetConnection(r) ==
  /\ \/ /\ at[r] = "waiting"
        /\ Acquire(r, "call")
        /\ Moves(r, "calling")
     \/ /\ at[r] = "beginning"
        /\ Acquire(r, "manager")
        /\ Moves(r, "handling")
  /\ ~Expired(r)
  /\ UNCHANGED <<kind, calls, age, outcome, hits, served, responses>>

CallReturns(r) ==
  /\ at[r] = "calling"
  /\ held' = held \ {<<r, "call">>}
  /\ calls' = [calls EXCEPT ![r] = @ + 1]
  /\ Moves(r, "handling")
  /\ UNCHANGED <<kind, age, outcome, hits, served, responses>>

\* The handler has written its answer in the buffer of the connection, the manager
\* has committed or rolled back, and MetricsMiddleware counts.
Finish(r) ==
  /\ ReleaseAll(r)
  /\ served' = served + 1
  /\ Moves(r, "served")
  /\ calls' = [calls EXCEPT ![r] = 0]
  /\ UNCHANGED <<kind, age, outcome, hits, responses>>

\* The service returns: it refuses the request before any call, or GetTeam found
\* nobody to deactivate, or its calls are over.
Return(r) ==
  /\ at[r] = "handling"
  /\ InDo(r) => InLoop(r)
  /\ Finish(r)

\* In the loop of MassDeactivate an error skips the user and the loop goes on.
SkipUser(r) ==
  /\ held' = held \ {<<r, "call">>}
  /\ calls' = [calls EXCEPT ![r] = @ + 1]
  /\ Moves(r, "handling")
  /\ UNCHANGED <<kind, age, outcome, hits, served, responses>>

\* Mutant: an error is answered without being counted.
CallFailsUncounted(r) ==
  IF InLoop(r) THEN SkipUser(r)
  ELSE /\ ReleaseAll(r)
       /\ Moves(r, "served")
       /\ calls' = [calls EXCEPT ![r] = 0]
       /\ UNCHANGED <<kind, age, outcome, hits, served, responses>>

CallFails(r) == IF InLoop(r) THEN SkipUser(r) ELSE Finish(r)

InCall(r) == at[r] \in {"waiting", "calling", "beginning"}

\* The server fails the call, no connection can be made, or the client hangs up.
CallError(r) == InCall(r) /\ CallFails(r)

\* Mutant: waiting for a connection does not look at the deadline.
CallExpiresOnServer(r) ==
  /\ at[r] = "calling" /\ Expired(r)
  /\ CallFails(r)

\* The deadline of the operation, or a closed pool.
CallExpires(r) ==
  /\ InCall(r)
  /\ Expired(r) \/ (at[r] # "calling" /\ AcquireRefused)
  /\ CallFails(r)

LogEnd(r) ==
  /\ at[r] = "served"
  /\ Moves(r, "logged")
  /\ responses' = responses + 1
  /\ UNCHANGED <<kind, held, calls, age, outcome, hits, served>>

\* A panic rolls the transactions back and unwinds the middlewares, which count
\* nothing; PanicMiddleware answers UNKNOWN with status 500.
Panic(r) ==
  /\ at[r] \in {"handling", "calling"}
  /\ ReleaseAll(r)
  /\ Moves(r, "recovered")
  /\ calls' = [calls EXCEPT ![r] = 0]
  /\ UNCHANGED <<kind, age, outcome, hits, served, responses>>

\* net/http flushes the buffer; past WriteTimeout the write fails.
Flush(r) ==
  /\ at[r] \in {"logged", "recovered"}
  /\ outcome[r] = "none"
  /\ outcome' = [outcome EXCEPT ![r] = IF age[r] < Setting("write") THEN "answered"
                                                                    ELSE "lost"]
  /\ age' = [age EXCEPT ![r] = 0]
  /\ UNCHANGED <<kind, held, at, calls, hits, served, responses>>

\* What the goroutine of r does, and what may happen to it.
Advance(r) ==
  \/ StartCall(r) \/ StartDo(r) \/ GetConnection(r) \/ CallReturns(r) \/ CallExpires(r)
  \/ Return(r) \/ LogEnd(r) \/ Flush(r)

Mishap(r) == CallError(r) \/ Panic(r)

\* Time passes; a call returns as soon as its deadline is over.  The age of a request
\* is not counted on once nothing depends on it.
AgesGrow ==
  /\ \A r \in Requests : ~(InCall(r) /\ Expired(r))
  /\ age' = [r \in Requests |->
       IF InFlight(r) /\ (~Expired(r) \/ age[r] < Setting("write"))
       THEN age[r] + 1 ELSE age[r]]
==============================================================================
