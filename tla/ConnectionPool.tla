---------------------------- MODULE ConnectionPool ----------------------------
(***************************************************************************)
(* The pgxpool of the process, as the requests use it: a call of Storage   *)
(* takes a connection and gives it back, and trMgr.Do keeps one as long as *)
(* the function it runs, whose calls take others.                          *)
(***************************************************************************)
EXTENDS Naturals, Integers, FiniteSets

CONSTANTS Requests,    \* the requests of a behaviour
          Configured,  \* the settings of the file and the environment, 0 where absent
          Default      \* what normalize, service.New and pgxpool put in their place

Settings == {"write", "operation", "long", "shutdown", "maxConnections"}

ASSUME RequestsFinite == IsFiniteSet(Requests)

ASSUME SettingsType == /\ Configured \in [Settings -> Int]
                       /\ Default \in [Settings -> Nat \ {0}]

\* normalize: a setting that is not positive is replaced by the default.
Setting(name) == IF Configured[name] <= 0 THEN Default[name] ELSE Configured[name]

MaxConnections == Setting("maxConnections")

VARIABLES
  held,       \* the connections in use, by who uses them and for what
  poolClosed  \* Storage.Close has been called

Leases == Requests \X {"call", "manager"}

Holds(r, what) == <<r, what>> \in held

Exhausted == Cardinality(held) >= MaxConnections

\* pool.Acquire: waits as long as every connection is in use.
Acquire(r, what) ==
  /\ ~Exhausted /\ ~poolClosed
  /\ held' = held \cup {<<r, what>>}

\* A closed pool refuses, but only when a connection is returned: a call that is
\* waiting for one is not woken by Close.
AcquireRefused == ~Exhausted /\ poolClosed

\* Mutant: the connection of a transaction that fails is not given back.
ReleaseCallOnly(r) == held' = held \ {<<r, "call">>}

ReleaseAll(r) == held' = held \ {<<r, "call">>, <<r, "manager">>}
==============================================================================
