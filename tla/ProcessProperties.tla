-------------------------- MODULE ProcessProperties --------------------------
(***************************************************************************)
(* What the process promises of its requests, its pool and its end.        *)
(***************************************************************************)
EXTENDS AppProcess

\* The variables have their types.
TypeOK ==
  /\ held \subseteq Leases
  /\ poolClosed \in BOOLEAN
  /\ kind \in [Requests -> Kinds \cup {"none"}]
  /\ at \in [Requests -> Places]
  /\ calls \in [Requests -> Nat]
  /\ age \in [Requests -> Nat]
  /\ outcome \in [Requests -> {"none", "answered", "lost"}]
  /\ hits \in Nat /\ served \in Nat /\ responses \in Nat
  /\ stage \in Stages
  /\ attempt \in 1..Attempts
  /\ signalled \in BOOLEAN
  /\ listener \in {"off", "up", "refused", "failed", "closed"}
  /\ drain \in Nat
  /\ code \in {"none", "ok", "error"}

\* When the process exits with 0, every request it received has its answer behind it
\* and every connection was given back to a pool that is closed (App.Run).
CleanExit == code = "ok" => Idle /\ held = {} /\ poolClosed

\* A request is cut off by the exit of the process only after the whole of the
\* shutdown timeout, or because the listener failed.
CutOnlyAfterGrace ==
  stage = "exited" /\ ~Idle => drain = Setting("shutdown") \/ listener = "failed"

\* The pool is not closed under a request, unless the listener failed: whatever
\* arrives during the graceful shutdown still reaches the database.
PoolOutlivesRequests == poolClosed /\ ~Idle => listener = "failed"

\* No connection is being used for a call, and there is none for those who wait.
PoolDry == Exhausted /\ \A r \in Requests : at[r] # "calling"

\* The pool runs dry only under as many mass deactivations as it has connections,
\* all of them inside trMgr.Do: no error, deadline or panic leaves a connection taken.
StallNeedsManagers ==
  PoolDry => Cardinality({r \in Requests : InDo(r) /\ at[r] \in {"handling", "waiting"}})
               >= MaxConnections

\* The gap that EveryRequestCounted shows is all there is: a request that LoggerMiddleware
\* counted when it came and MetricsMiddleware did not when it went is on its way, or
\* panicked; no error, deadline or lost answer goes past the counters.
Counting(place) == Cardinality({r \in Requests : at[r] = place})

OnlyPanicsUncounted ==
  /\ served = responses + Counting("served")
  /\ hits = served + Counting("handling") + Counting("waiting") + Counting("calling")
              + Counting("beginning") + Counting("recovered")

------------------------------------------------------------------------------
\* The inductive invariant behind the theorems.

\* A connection is taken for a call exactly during the call, and for trMgr.Do only as
\* long as a mass deactivation is inside it.
PoolInv ==
  /\ Cardinality(held) <= MaxConnections
  /\ \A r \in Requests :
       /\ Holds(r, "call") <=> at[r] = "calling"
       /\ InDo(r) => at[r] \in {"handling", "waiting", "calling"}
       /\ outcome[r] # "none" => at[r] \in {"logged", "recovered"}

Nothing == \A r \in Requests : at[r] = "unsent"

\* What each stage of main has behind it.
StageInv ==
  /\ stage \in {"migrating", "sleeping", "connecting"} => listener = "off"
  /\ stage \notin {"closing", "exited"} => ~poolClosed
  /\ stage = "exited" \/ code = "none"
  /\ listener \in {"off", "refused"} => Nothing
  /\ drain <= Setting("shutdown")
  /\ stage = "closing" => poolClosed /\ (listener # "failed" => Idle)
  /\ listener = "failed" => stage \in {"serving", "closing", "exited"}
  /\ listener = "closed" => stage \in {"draining", "closing", "exited"}
  /\ poolClosed /\ ~Idle => listener = "failed"
  /\ stage = "exited" /\ ~Idle => drain = Setting("shutdown") \/ listener = "failed"
  /\ code = "ok" => Idle /\ held = {} /\ poolClosed

\* The types, and both.
ProcessInv == TypeOK /\ PoolInv /\ StageInv

------------------------------------------------------------------------------

\* Every request comes to its end, those that starve on an exhausted pool by their
\* deadline, or the process exits.
EveryRequestEnds == \A r \in Requests : InFlight(r) ~> (~InFlight(r) \/ stage = "exited")

\* A signal ends the process, whatever its requests wait for.
SignalEndsProcess == signalled ~> stage = "exited"

------------------------------------------------------------------------------

\* Where main is in the life of a GracefulServer.
Phase ==
  CASE stage = "draining" -> "stopping"
    [] stage \in {"closing", "exited"} -> stage
    [] OTHER -> "up"

Running == {r \in Requests : InFlight(r)}

Ended == {r \in Requests : outcome[r] # "none"}

Broken == listener \in {"refused", "failed"}

Server == INSTANCE GracefulServer
  WITH phase <- Phase, running <- Running, over <- Ended, broken <- Broken,
       waited <- drain, open <- ~poolClosed, Grace <- Setting("shutdown")

\* AppProcess implements GracefulServer: each step of main, of a request or of the clock
\* is one of its steps or changes nothing it knows.  Told to stop, the process closes
\* the pool behind the last request or gives up after the whole timeout, and the exit
\* code tells which (App.Run and main, with requests that arrive, starve or panic
\* meanwhile).
ServesGracefully == Server!Spec

------------------------------------------------------------------------------
\* What the comment on MetricsMiddleware and the help of its counter say beyond that.

\* http_requests_total counts all requests: once their answers are sent or lost, it is
\* no less than their number.
EveryRequestCounted == served >= Cardinality(Ended)
==============================================================================
