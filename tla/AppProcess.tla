------------------------------ MODULE AppProcess ------------------------------
(***************************************************************************)
(* The process: main, app.New (migrations, connection with retries) and    *)
(* App.Run (the listener, the signal, the graceful shutdown, the exit),    *)
(* with the requests it serves.                                            *)
(***************************************************************************)
EXTENDS RequestHandling

VARIABLES
  stage,      \* of main
  attempt,    \* the attempt of connectWithRetry
  signalled,  \* SIGINT or SIGTERM has arrived: the context of main is done
  listener,   \* "off", "up", "refused" or "failed" (before or after it was up), "closed"
  drain,      \* the time Shutdown has been waiting
  code        \* the exit code, "none" while the process runs

processVars == <<stage, attempt, signalled, listener, drain, code, poolClosed>>
vars == <<requestVars, processVars>>

Attempts == 4  \* backoff: 0, 1, 2 and 5 s

Stages == {"migrating", "sleeping", "connecting", "serving", "draining", "closing", "exited"}

Init ==
  /\ RequestsInit
  /\ stage = "migrating" /\ attempt = 1
  /\ signalled = FALSE
  /\ listener = "off" /\ drain = 0
  /\ code = "none" /\ poolClosed = FALSE

Exit(c) == stage' = "exited" /\ code' = c

------------------------------------------------------------------------------
\* app.New

\* signal.NotifyContext: the signal cancels the context of main, once.
Signal ==
  /\ ~signalled /\ stage # "exited"
  /\ signalled' = TRUE
  /\ UNCHANGED <<requestVars, stage, attempt, listener, drain, code, poolClosed>>

\* runMigrations does not look at the context; the first attempt has no delay.
Migrate ==
  /\ stage = "migrating"
  /\ \/ stage' = "connecting" /\ UNCHANGED code
     \/ Exit("error")
  /\ UNCHANGED <<requestVars, attempt, signalled, listener, drain, poolClosed>>

\* Mutant: one attempt too many.
ConnectOnceMore ==
  /\ stage = "connecting"
  /\ \/ /\ stage' = "serving" /\ attempt' = 1
        /\ UNCHANGED code
     \/ /\ attempt <= Attempts
        /\ stage' = "sleeping" /\ attempt' = attempt + 1
        /\ UNCHANGED code
     \/ /\ attempt > Attempts
        /\ Exit("error")
        /\ UNCHANGED attempt
  /\ UNCHANGED <<requestVars, signalled, listener, drain, poolClosed>>

\* ParseConfig and NewWithConfig succeed or not; the pool connects lazily.
Connect ==
  /\ stage = "connecting"
  /\ \/ /\ stage' = "serving" /\ attempt' = 1
        /\ UNCHANGED code
     \/ /\ attempt < Attempts
        /\ stage' = "sleeping" /\ attempt' = attempt + 1
        /\ UNCHANGED code
     \/ /\ attempt = Attempts
        /\ Exit("error")
        /\ UNCHANGED attempt
  /\ UNCHANGED <<requestVars, signalled, listener, drain, poolClosed>>

\* The delay before a retry ends, or the context is done.
WakeUp ==
  /\ stage = "sleeping"
  /\ \/ stage' = "connecting" /\ UNCHANGED code
     \/ signalled /\ Exit("error")
  /\ UNCHANGED <<requestVars, attempt, signalled, listener, drain, poolClosed>>

------------------------------------------------------------------------------
\* App.Run

\* The goroutine of ListenAndServe listens, or fails then or later.
Listen ==
  /\ stage = "serving" /\ listener = "off"
  /\ listener' \in {"up", "refused"}
  /\ UNCHANGED <<requestVars, stage, attempt, signalled, drain, code, poolClosed>>

ListenerFails ==
  /\ stage = "serving" /\ listener = "up"
  /\ listener' = "failed"
  /\ UNCHANGED <<requestVars, stage, attempt, signalled, drain, code, poolClosed>>

\* Mutant: the pool is closed before the server is shut down.
CloseThenShutdown ==
  /\ stage = "serving" /\ signalled
  /\ stage' = "draining"
  /\ listener' = IF listener \in {"up", "failed"} THEN "closed" ELSE "off"
  /\ poolClosed' = TRUE
  /\ UNCHANGED <<requestVars, attempt, signalled, drain, code>>

\* The select takes ctx.Done: Shutdown closes the listener and waits.
BeginShutdown ==
  /\ stage = "serving" /\ signalled
  /\ stage' = "draining"
  /\ listener' = IF listener \in {"up", "failed"} THEN "closed" ELSE "off"
  /\ UNCHANGED <<requestVars, attempt, signalled, drain, code, poolClosed>>

\* The select takes the error of the listener: Close waits for the connections in
\* use, while the requests that came before go on.
ListenerErrorSeen ==
  /\ stage = "serving" /\ listener \in {"refused", "failed"}
  /\ stage' = "closing" /\ poolClosed' = TRUE
  /\ UNCHANGED <<requestVars, attempt, signalled, listener, drain, code>>

Idle == \A r \in Requests : ~InFlight(r)

\* Mutant: a request counts as over when its handler has returned.
DrainedOfHandlers ==
  /\ stage = "draining"
  /\ \A r \in Requests : at[r] \in {"unsent", "logged", "recovered"}
  /\ stage' = "closing" /\ poolClosed' = TRUE
  /\ UNCHANGED <<requestVars, attempt, signalled, listener, drain, code>>

\* Shutdown returns nil once no connection is active; then Close.
Drained ==
  /\ stage = "draining"
  /\ Idle
  /\ stage' = "closing" /\ poolClosed' = TRUE
  /\ UNCHANGED <<requestVars, attempt, signalled, listener, drain, code>>

\* Mutant: the context of Shutdown is made from the one of main, which is done.
ShutdownCancelled ==
  /\ stage = "draining"
  /\ ~Idle
  /\ Exit("error")
  /\ UNCHANGED <<requestVars, attempt, signalled, listener, drain, poolClosed>>

\* Shutdown fails when its timeout is over: main exits with the pool open.
ShutdownTimesOut ==
  /\ stage = "draining"
  /\ ~Idle /\ drain >= Setting("shutdown")
  /\ Exit("error")
  /\ UNCHANGED <<requestVars, attempt, signalled, listener, drain, poolClosed>>

\* Mutant: Run does not return the error of the listener.
PoolDownForgets ==
  /\ stage = "closing"
  /\ held = {}
  /\ Exit("ok")
  /\ UNCHANGED <<requestVars, attempt, signalled, listener, drain, poolClosed>>

\* pool.Close returns when every connection has been given back, and Run with the
\* error of the listener, if that is why it stopped.
PoolDown ==
  /\ stage = "closing"
  /\ held = {}
  /\ Exit(IF listener \in {"refused", "failed"} THEN "error" ELSE "ok")
  /\ UNCHANGED <<requestVars, attempt, signalled, listener, drain, poolClosed>>

------------------------------------------------------------------------------

\* A request is read from a connection: new ones are accepted while the listener
\* is up; those accepted before are read from until Shutdown has found them idle.
Arrive(r) ==
  /\ \/ stage = "serving" /\ listener \in {"up", "failed"}
     \/ stage = "draining" /\ listener = "closed"
     \/ stage = "closing" /\ listener = "failed"
  /\ Receive(r)
  /\ UNCHANGED processVars

Work(r) == stage # "exited" /\ Advance(r) /\ UNCHANGED processVars

Trouble(r) == stage # "exited" /\ Mishap(r) /\ UNCHANGED processVars

\* Shutdown gives up when its timeout is over.
Tick ==
  /\ stage # "exited"
  /\ stage = "draining" => drain < Setting("shutdown")
  /\ AgesGrow
  /\ drain' = IF stage = "draining" THEN drain + 1 ELSE drain
  /\ UNCHANGED <<held, kind, at, calls, outcome, hits, served, responses,
                 stage, attempt, signalled, listener, code, poolClosed>>

\* The process has exited.
Over == stage = "exited" /\ UNCHANGED vars

Main ==
  \/ Migrate \/ Connect \/ WakeUp \/ Listen \/ BeginShutdown \/ ListenerErrorSeen
  \/ Drained \/ ShutdownTimesOut \/ PoolDown

Next ==
  \/ Signal \/ ListenerFails \/ Main \/ Tick \/ Over
  \/ \E r \in Requests : Arrive(r) \/ Work(r) \/ Trouble(r)

Spec == Init /\ [][Next]_vars

\* The scheduler runs every goroutine, calls return, and time passes.
Fairness == WF_vars(Main) /\ WF_vars(Tick) /\ \A r \in Requests : WF_vars(Work(r))

FairSpec == Spec /\ Fairness
==============================================================================
