---------------------------- MODULE GracefulServer ----------------------------
(***************************************************************************)
(* What the process promises of its end, whatever its requests do: told to *)
(* stop, it gives those on their way Grace to come to their end, closes    *)
(* the pool behind them and exits with 0.  AppProcess implements it        *)
(* (ProcessProperties!ServesGracefully).                                   *)
(***************************************************************************)
EXTENDS Naturals

CONSTANTS Requests, Grace

VARIABLES
  phase,    \* "up", "stopping", "closing" the pool, "exited"
  running,  \* the requests on their way
  over,     \* the requests that have come to their end
  broken,   \* the server does not listen any more, and was not told to stop
  waited,   \* how long it has been stopping
  open,     \* the pool
  code      \* the exit code, "none" before

gvars == <<phase, running, over, broken, waited, open, code>>

Init ==
  /\ phase = "up" /\ running = {} /\ over = {}
  /\ broken = FALSE /\ waited = 0
  /\ open = TRUE /\ code = "none"

\* A request is received, and its calls find the pool open, unless the server is broken.
Receive(r) ==
  /\ phase # "exited" /\ r \notin running \cup over
  /\ open \/ broken
  /\ running' = running \cup {r}
  /\ UNCHANGED <<phase, over, broken, waited, open, code>>

End(r) ==
  /\ phase # "exited" /\ r \in running
  /\ running' = running \ {r} /\ over' = over \cup {r}
  /\ UNCHANGED <<phase, broken, waited, open, code>>

Break ==
  /\ phase = "up"
  /\ broken' = TRUE
  /\ UNCHANGED <<phase, running, over, waited, open, code>>

\* It is told to stop.  That it may be broken already is forgotten.
Stop ==
  /\ phase = "up"
  /\ phase' = "stopping" /\ broken' = FALSE
  /\ UNCHANGED <<running, over, waited, open, code>>

Wait ==
  /\ phase = "stopping" /\ waited < Grace
  /\ waited' = waited + 1
  /\ UNCHANGED <<phase, running, over, broken, open, code>>

\* The pool is closed when no request is on its way, or the server is broken.
Close ==
  /\ \/ phase = "stopping" /\ running = {}
     \/ phase = "up" /\ broken
  /\ phase' = "closing" /\ open' = FALSE
  /\ UNCHANGED <<running, over, broken, waited, code>>

\* It ends before it has served anybody, at the end of its patience, or with the pool
\* closed.
Exit ==
  /\ \/ phase = "up" /\ running \cup over = {} /\ code' = "error"
     \/ phase = "stopping" /\ waited = Grace /\ code' = "error"
     \/ phase = "closing" /\ code' = IF broken THEN "error" ELSE "ok"
  /\ phase' = "exited"
  /\ UNCHANGED <<running, over, broken, waited, open>>

Next ==
  \/ \E r \in Requests : Receive(r) \/ End(r)
  \/ Break \/ Stop \/ Wait \/ Close \/ Exit

Spec == Init /\ [][Next]_gvars
==============================================================================
