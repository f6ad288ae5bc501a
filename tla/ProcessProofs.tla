---------------------------- MODULE ProcessProofs ----------------------------
(***************************************************************************)
(* The process keeps its promises for any number of requests, connections  *)
(* and calls, and any setting of the timeouts.                             *)
(***************************************************************************)
EXTENDS ProcessProperties, FiniteSetTheorems, TLAPS

LEMMA SettingPositive == \A name \in Settings : Setting(name) \in Nat \ {0}
BY SettingsType DEF Setting

LEMMA HeldFinite == ASSUME held \subseteq Leases PROVE IsFiniteSet(held)
<1>1. IsFiniteSet({"call", "manager"})
  <2>1. {"call", "manager"} = {"call"} \cup {"manager"}
    OBVIOUS
  <2>2. IsFiniteSet({"call"})
    BY FS_Singleton
  <2>3. IsFiniteSet({"call"} \cup {"manager"})
    BY <2>2, FS_AddElement, Zenon
  <2> QED
    BY <2>1, <2>3
<1>2. IsFiniteSet(Leases)
  BY <1>1, RequestsFinite, FS_Product DEF Leases
<1> QED
  BY <1>2, FS_Subset

\* A request on its goroutine: received, advancing, or in trouble.
RequestStep(r) == Receive(r) \/ Advance(r) \/ Mishap(r)

\* Every step of the process is a step of one request, of main, or of the clock.
LEMMA StepKinds ==
  ASSUME Next
  PROVE  \/ \E r \in Requests : RequestStep(r) /\ UNCHANGED processVars
                                /\ (Receive(r) \/ stage # "exited")
         \/ (Signal \/ ListenerFails \/ Main \/ Over) /\ UNCHANGED requestVars
         \/ Tick
BY DEF Next, Arrive, Work, Trouble, RequestStep, Signal, ListenerFails, Main, Over, Migrate,
       Connect, WakeUp, Listen, BeginShutdown, ListenerErrorSeen, Drained, ShutdownTimesOut,
       PoolDown, vars

------------------------------------------------------------------------------
\* Types.

LEMMA InitTypes == Init => TypeOK
<1> SUFFICES ASSUME Init PROVE TypeOK
  OBVIOUS
<1>1. /\ held = {} /\ at = [r \in Requests |-> "unsent"]
      /\ kind = [r \in Requests |-> "none"] /\ calls = [r \in Requests |-> 0]
      /\ age = [r \in Requests |-> 0] /\ outcome = [r \in Requests |-> "none"]
      /\ hits = 0 /\ served = 0 /\ responses = 0
  BY DEF Init, RequestsInit
<1>2. /\ held \subseteq Leases /\ kind \in [Requests -> Kinds \cup {"none"}]
      /\ at \in [Requests -> Places] /\ outcome \in [Requests -> {"none", "answered", "lost"}]
  BY <1>1 DEF Places
<1>3. calls \in [Requests -> Nat] /\ age \in [Requests -> Nat]
  BY <1>1
<1>4. /\ stage \in Stages /\ code \in {"none", "ok", "error"}
      /\ listener \in {"off", "up", "refused", "failed", "closed"}
      /\ poolClosed \in BOOLEAN /\ signalled \in BOOLEAN
  BY DEF Init, Stages
<1>5. attempt \in 1..Attempts /\ drain \in Nat
  BY DEF Init, Attempts
<1> QED
  BY <1>1, <1>2, <1>3, <1>4, <1>5 DEF TypeOK

LEMMA RequestTypes ==
  ASSUME TypeOK, NEW r \in Requests, RequestStep(r), UNCHANGED processVars
  PROVE  TypeOK'
<1> USE DEF TypeOK, Places, Moves
<1>0. UNCHANGED <<stage, attempt, signalled, listener, drain, code, poolClosed>>
  BY DEF processVars
<1>1. CASE Receive(r)
  BY <1>0, <1>1 DEF Receive
<1>2. CASE StartCall(r) \/ StartDo(r) \/ LogEnd(r)
  BY <1>0, <1>2 DEF StartCall, StartDo, LogEnd
<1>3. CASE GetConnection(r)
  BY <1>0, <1>3 DEF GetConnection, Acquire, Leases
<1>4. CASE CallReturns(r)
  BY <1>0, <1>4 DEF CallReturns
<1>5. ASSUME Finish(r) \/ SkipUser(r) PROVE TypeOK'
  BY <1>0, <1>5 DEF Finish, SkipUser, ReleaseAll
<1>6. CASE CallError(r) \/ CallExpires(r) \/ Return(r)
  BY <1>5, <1>6 DEF CallError, CallExpires, Return, CallFails
<1>7. CASE Panic(r)
  BY <1>0, <1>7 DEF Panic, ReleaseAll
<1>8. CASE Flush(r)
  BY <1>0, <1>8 DEF Flush
<1> QED
  BY <1>1, <1>2, <1>3, <1>4, <1>6, <1>7, <1>8 DEF RequestStep, Advance, Mishap

LEMMA MainTypes ==
  ASSUME TypeOK, Signal \/ ListenerFails \/ Main \/ Over, UNCHANGED requestVars
  PROVE  TypeOK'
<1> USE DEF TypeOK, requestVars, Stages, Attempts, Exit
<1>1. CASE Signal \/ ListenerFails \/ Over
  BY <1>1 DEF Signal, ListenerFails, Over, vars, processVars
<1>2. CASE Migrate \/ Connect \/ WakeUp
  BY <1>2 DEF Migrate, Connect, WakeUp
<1>3. CASE Listen \/ BeginShutdown \/ ListenerErrorSeen
  BY <1>3 DEF Listen, BeginShutdown, ListenerErrorSeen
<1>4. CASE Drained \/ ShutdownTimesOut \/ PoolDown
  BY <1>4 DEF Drained, ShutdownTimesOut, PoolDown
<1> QED
  BY <1>1, <1>2, <1>3, <1>4 DEF Main

LEMMA TickTypes == ASSUME TypeOK, Tick PROVE TypeOK'
BY DEF TypeOK, Tick, AgesGrow

LEMMA TypesNext == ASSUME TypeOK, [Next]_vars PROVE TypeOK'
<1>1. CASE UNCHANGED vars
  BY <1>1 DEF vars, requestVars, processVars, TypeOK
<1> QED
  BY <1>1, StepKinds, RequestTypes, MainTypes, TickTypes

------------------------------------------------------------------------------
\* The pool.

LEMMA InitPool == Init => PoolInv
<1>1. Init => Cardinality(held) = 0
  BY FS_EmptySet DEF Init, RequestsInit
<1> QED
  BY <1>1, SettingPositive DEF Init, RequestsInit, PoolInv, MaxConnections, Settings, Holds, InDo

\* Whoever gives connections back takes none.
LEMMA LessHeld ==
  ASSUME TypeOK, PoolInv, held' \subseteq held
  PROVE  Cardinality(held') <= MaxConnections
<1>1. IsFiniteSet(held)
  BY HeldFinite DEF TypeOK
<1>2. /\ Cardinality(held') <= Cardinality(held)
      /\ Cardinality(held') \in Nat /\ Cardinality(held) \in Nat
  BY <1>1, FS_Subset, FS_CardinalityType
<1> QED
  BY <1>2, SettingPositive DEF PoolInv, MaxConnections, Settings

LEMMA RequestPool ==
  ASSUME TypeOK, PoolInv, NEW r \in Requests, RequestStep(r)
  PROVE  PoolInv'
<1> DEFINE Fits(s) == /\ Holds(s, "call") <=> at[s] = "calling"
                      /\ InDo(s) => at[s] \in {"handling", "waiting", "calling"}
                      /\ outcome[s] # "none" => at[s] \in {"logged", "recovered"}
<1>0. Cardinality(held) <= MaxConnections /\ \A s \in Requests : Fits(s)
  BY DEF PoolInv
<1>a. ASSUME held' \subseteq held, \A s \in Requests : Fits(s)' PROVE PoolInv'
  BY <1>a, LessHeld DEF PoolInv, MaxConnections, Setting
<1> USE DEF TypeOK, Moves, Holds, InDo
<1>1. CASE Receive(r)
  BY <1>0, <1>1, <1>a DEF Receive
<1>2. CASE StartCall(r) \/ StartDo(r) \/ LogEnd(r)
  BY <1>0, <1>2, <1>a DEF StartCall, StartDo, LogEnd
<1>3. CASE GetConnection(r)
  <2>1. \A s \in Requests : Fits(s)'
    <3>1. CASE at[r] = "waiting" /\ Acquire(r, "call") /\ Moves(r, "calling")
      BY <1>0, <1>3, <3>1 DEF GetConnection, Acquire
    <3>2. CASE at[r] = "beginning" /\ Acquire(r, "manager") /\ Moves(r, "handling")
      BY <1>0, <1>3, <3>2 DEF GetConnection, Acquire
    <3> QED
      BY <1>3, <3>1, <3>2 DEF GetConnection
  <2>2. PICK lease : held' = held \cup {lease} /\ ~Exhausted
    BY <1>3 DEF GetConnection, Acquire
  <2>3. IsFiniteSet(held)
    BY HeldFinite
  <2>4. Cardinality(held) \in Nat /\ Cardinality(held') <= Cardinality(held) + 1
    <3>1. Cardinality(held) \in Nat
      BY <2>3, FS_CardinalityType
    <3>2. Cardinality(held \cup {lease}) \in {Cardinality(held), Cardinality(held) + 1}
      BY <2>3, FS_AddElement
    <3> QED
      BY <2>2, <3>1, <3>2
  <2>5. Cardinality(held') \in Nat
    <3>1. IsFiniteSet(held \cup {lease})
      BY <2>3, FS_AddElement
    <3> QED
      BY <2>2, <3>1, FS_CardinalityType
  <2>6. MaxConnections \in Nat
    BY SettingPositive DEF MaxConnections, Settings
  <2> QED
    BY <2>1, <2>2, <2>4, <2>5, <2>6 DEF PoolInv, Exhausted, MaxConnections, Setting
<1>4. CASE CallReturns(r)
  BY <1>0, <1>4, <1>a DEF CallReturns
<1>5. ASSUME Finish(r), at[r] \notin {"logged", "recovered"} PROVE PoolInv'
  BY <1>0, <1>5, <1>a DEF Finish, ReleaseAll
<1>6. ASSUME SkipUser(r), at[r] \notin {"logged", "recovered"} PROVE PoolInv'
  BY <1>0, <1>6, <1>a DEF SkipUser
<1>7. CASE CallError(r) \/ CallExpires(r) \/ Return(r)
  BY <1>5, <1>6, <1>7 DEF CallError, CallExpires, Return, CallFails, InCall
<1>8. CASE Panic(r)
  BY <1>0, <1>8, <1>a DEF Panic, ReleaseAll
<1>9. CASE Flush(r)
  BY <1>0, <1>9, <1>a DEF Flush
<1> QED
  BY <1>1, <1>2, <1>3, <1>4, <1>7, <1>8, <1>9 DEF RequestStep, Advance, Mishap

LEMMA PoolNext == ASSUME TypeOK, PoolInv, [Next]_vars PROVE PoolInv'
<1>1. ASSUME UNCHANGED <<held, at, outcome>> PROVE PoolInv'
  BY <1>1 DEF PoolInv, Holds, InDo, MaxConnections, Setting
<1> QED
  BY <1>1, StepKinds, RequestPool DEF vars, requestVars, Tick

------------------------------------------------------------------------------
\* The stages of main.

LEMMA InitStage == Init => StageInv
BY SettingPositive DEF Init, RequestsInit, StageInv, Nothing, Settings

\* A request that is on its way when a step of it begins: none is, once main is idle.
LEMMA OnTheWay ==
  ASSUME TypeOK, PoolInv, NEW r \in Requests, Advance(r) \/ Mishap(r)
  PROVE  InFlight(r) /\ \A s \in Requests : s # r => UNCHANGED <<at[s], outcome[s]>>
<1>1. at[r] # "unsent"
  BY DEF Advance, Mishap, StartCall, StartDo, GetConnection, CallReturns, CallExpires,
         CallError, InCall, Return, LogEnd, Flush, Panic
<1>2. outcome[r] = "none"
  <2>1. at[r] \notin {"logged", "recovered"} \/ Flush(r)
    BY DEF Advance, Mishap, StartCall, StartDo, GetConnection, CallReturns, CallExpires,
           CallError, InCall, Return, LogEnd, Panic
  <2> QED
    BY <2>1 DEF PoolInv, Flush
<1>3. \A s \in Requests : s # r => UNCHANGED <<at[s], outcome[s]>>
  BY DEF Advance, Mishap, StartCall, StartDo, GetConnection, CallReturns, CallExpires,
         CallError, CallFails, Finish, SkipUser, Return, LogEnd, Flush, Panic, Moves, TypeOK
<1> QED
  BY <1>1, <1>2, <1>3 DEF InFlight

LEMMA RequestStage ==
  ASSUME TypeOK, PoolInv, StageInv, NEW r \in Requests, UNCHANGED processVars,
         Arrive(r) \/ (stage # "exited" /\ (Advance(r) \/ Mishap(r)))
  PROVE  StageInv'
<1>0. UNCHANGED <<stage, attempt, signalled, listener, drain, code, poolClosed>>
  BY DEF processVars
<1>1. stage # "exited" /\ listener \notin {"off", "refused"}
  <2>1. CASE Arrive(r)
    BY <2>1 DEF Arrive
  <2>2. CASE stage # "exited" /\ (Advance(r) \/ Mishap(r))
    BY <2>2, OnTheWay DEF StageInv, Nothing, InFlight
  <2> QED
    BY <2>1, <2>2
<1>2. stage = "closing" => listener = "failed"
  <2>1. CASE Arrive(r)
    BY <2>1 DEF Arrive
  <2>2. CASE Advance(r) \/ Mishap(r)
    BY <2>2, OnTheWay DEF StageInv, Idle
  <2> QED
    BY <2>1, <2>2
<1> QED
  BY <1>0, <1>1, <1>2 DEF StageInv, Setting, TypeOK, Stages

LEMMA MainStage ==
  ASSUME TypeOK, StageInv, Signal \/ ListenerFails \/ Main \/ Over, UNCHANGED requestVars
  PROVE  StageInv'
<1>0. /\ UNCHANGED <<held, at, outcome>>
      /\ Idle <=> Idle'
      /\ Nothing <=> Nothing'
  BY DEF requestVars, Idle, InFlight, Nothing
<1>1. Nothing => Idle
  BY DEF Nothing, Idle, InFlight
<1> USE DEF StageInv, Exit, Setting, TypeOK, Stages
<1> HIDE DEF Idle, Nothing
<1>2. CASE Signal \/ ListenerFails \/ Over
  BY <1>0, <1>1, <1>2 DEF Signal, ListenerFails, Over, vars, processVars
<1>3. CASE Migrate
  BY <1>0, <1>1, <1>3 DEF Migrate
<1>4. CASE Connect \/ WakeUp
  BY <1>0, <1>1, <1>4 DEF Connect, WakeUp
<1>5. CASE Listen
  BY <1>0, <1>1, <1>5 DEF Listen
<1>a. CASE BeginShutdown
  BY <1>0, <1>1, <1>a DEF BeginShutdown
<1>6. CASE ListenerErrorSeen \/ Drained
  BY <1>0, <1>1, <1>6 DEF ListenerErrorSeen, Drained
<1>7. CASE ShutdownTimesOut
  BY <1>0, <1>7, SettingPositive DEF ShutdownTimesOut, Settings
<1>8. CASE PoolDown
  BY <1>0, <1>1, <1>8 DEF PoolDown
<1> QED
  BY <1>2, <1>3, <1>4, <1>5, <1>6, <1>7, <1>8, <1>a DEF Main

LEMMA TickStage == ASSUME TypeOK, StageInv, Tick PROVE StageInv'
<1>0. UNCHANGED <<held, at, outcome, stage, listener, code, poolClosed>>
      /\ (Idle <=> Idle') /\ (Nothing <=> Nothing')
  BY DEF Tick, Idle, InFlight, Nothing
<1> QED
  BY <1>0, SettingPositive DEF Tick, StageInv, Setting, Settings, TypeOK

LEMMA StageNext == ASSUME TypeOK, PoolInv, StageInv, [Next]_vars PROVE StageInv'
<1>1. CASE UNCHANGED vars
  BY <1>1 DEF vars, requestVars, processVars, StageInv, Nothing, Idle, InFlight, Setting
<1>2. CASE \E r \in Requests : Arrive(r) \/ Work(r) \/ Trouble(r)
  BY <1>2, RequestStage DEF Arrive, Work, Trouble
<1>3. CASE Signal \/ ListenerFails \/ Main \/ Over
  <2>1. UNCHANGED requestVars
    BY <1>3
    DEF Signal, ListenerFails, Main, Over, Migrate, Connect, WakeUp, Listen, BeginShutdown,
        ListenerErrorSeen, Drained, ShutdownTimesOut, PoolDown, vars
  <2> QED
    BY <1>3, <2>1, MainStage
<1> QED
  BY <1>1, <1>2, <1>3, TickStage DEF Next

------------------------------------------------------------------------------

\* The inductive invariant of the process.
THEOREM ProcessInvariant == Spec => []ProcessInv
<1>1. Init => ProcessInv
  BY InitTypes, InitPool, InitStage DEF ProcessInv
<1>2. ProcessInv /\ [Next]_vars => ProcessInv'
  BY TypesNext, PoolNext, StageNext DEF ProcessInv
<1> QED
  BY <1>1, <1>2, PTL DEF Spec

\* Exit code 0 means that every request that was received has its answer behind it,
\* and that the pool was closed after the last connection came back.
THEOREM ExitsClean == Spec => []CleanExit
<1>1. ProcessInv => CleanExit
  BY DEF ProcessInv, StageInv, CleanExit
<1> QED
  BY <1>1, ProcessInvariant, PTL

\* No request is cut off before the shutdown timeout is over, unless the listener failed.
THEOREM GraceIsGranted == Spec => []CutOnlyAfterGrace
<1>1. ProcessInv => CutOnlyAfterGrace
  BY DEF ProcessInv, StageInv, CutOnlyAfterGrace
<1> QED
  BY <1>1, ProcessInvariant, PTL

\* The pool is open as long as a request may need it, unless the listener failed.
THEOREM PoolStaysOpen == Spec => []PoolOutlivesRequests
<1>1. ProcessInv => PoolOutlivesRequests
  BY DEF ProcessInv, StageInv, PoolOutlivesRequests
<1> QED
  BY <1>1, ProcessInvariant, PTL

\* Only as many mass deactivations as there are connections can exhaust the pool for
\* more than a call: nothing leaks.
THEOREM OnlyManagersStall == Spec => []StallNeedsManagers
<1>1. ASSUME ProcessInv, PoolDry
      PROVE  Cardinality({r \in Requests : InDo(r) /\ at[r] \in {"handling", "waiting"}})
               >= MaxConnections
  <2> DEFINE Inside == {r \in Requests : InDo(r) /\ at[r] \in {"handling", "waiting"}}
  <2>0. TypeOK /\ PoolInv
    BY <1>1 DEF ProcessInv
  <2>1. IsFiniteSet(Inside) /\ IsFiniteSet({"manager"}) /\ Cardinality({"manager"}) = 1
    BY RequestsFinite, FS_Subset, FS_Singleton
  <2>2. held = Inside \X {"manager"}
    <3>1. ASSUME NEW lease \in held PROVE lease \in Inside \X {"manager"}
      <4>1. PICK r \in Requests, what \in {"call", "manager"} : lease = <<r, what>>
        BY <2>0, <3>1 DEF TypeOK, Leases
      <4>2. what = "manager"
        BY <1>1, <2>0, <3>1, <4>1 DEF PoolInv, Holds, PoolDry
      <4>3. r \in Inside
        BY <1>1, <2>0, <3>1, <4>1, <4>2 DEF PoolInv, Holds, InDo, PoolDry
      <4> QED
        BY <4>1, <4>2, <4>3
    <3>2. ASSUME NEW lease \in Inside \X {"manager"} PROVE lease \in held
      BY <3>2 DEF InDo, Holds
    <3> QED
      BY <3>1, <3>2
  <2>3. Cardinality(held) = Cardinality(Inside) * 1
    BY <2>1, <2>2, FS_Product
  <2>4. Cardinality(Inside) \in Nat
    BY <2>1, FS_CardinalityType
  <2> HIDE DEF Inside
  <2>5. Cardinality(Inside) >= MaxConnections
    BY <1>1, <2>3, <2>4 DEF PoolDry, Exhausted
  <2> QED
    BY <2>5 DEF Inside
<1>2. ProcessInv => StallNeedsManagers
  BY <1>1 DEF StallNeedsManagers
<1> QED
  BY <1>2, ProcessInvariant, PTL

------------------------------------------------------------------------------
\* The counters.

LEMMA CountsAreNat == ASSUME NEW place PROVE Counting(place) \in Nat
<1>1. IsFiniteSet({r \in Requests : at[r] = place})
  BY RequestsFinite, FS_Subset
<1> QED
  BY <1>1, FS_CardinalityType DEF Counting

\* A request that moves is counted where it goes and no longer where it was.
LEMMA OneMoves ==
  ASSUME TypeOK, NEW r \in Requests, NEW to, at' = [at EXCEPT ![r] = to], at[r] # to,
         NEW place
  PROVE  Counting(place)' = IF place = at[r] THEN Counting(place) - 1
                            ELSE IF place = to THEN Counting(place) + 1
                            ELSE Counting(place)
<1> DEFINE There  == {s \in Requests : at[s] = place}
           There2 == {s \in Requests : at'[s] = place}
<1>1. IsFiniteSet(There)
  BY RequestsFinite, FS_Subset
<1>2. Counting(place) = Cardinality(There) /\ Counting(place)' = Cardinality(There2)
  BY DEF Counting
<1>3. CASE place = at[r]
  <2>1. There2 = There \ {r} /\ r \in There
    BY <1>3 DEF TypeOK
  <2> QED
    BY <1>1, <1>2, <1>3, <2>1, FS_RemoveElement
<1>4. CASE place = to
  <2>1. There2 = There \cup {r} /\ r \notin There
    BY <1>4 DEF TypeOK
  <2> QED
    BY <1>1, <1>2, <1>4, <2>1, FS_AddElement
<1>5. CASE place # at[r] /\ place # to
  <2>1. There2 = There
    BY <1>5 DEF TypeOK
  <2> QED
    BY <1>2, <1>5, <2>1
<1> QED
  BY <1>3, <1>4, <1>5

InService == {"handling", "waiting", "calling", "beginning"}

\* How the steps of a request move it, and what they count.
LEMMA MovesCount ==
  ASSUME TypeOK, NEW r \in Requests, RequestStep(r)
  PROVE  \E to \in Places :
           /\ at' = [at EXCEPT ![r] = to]
           /\ \/ /\ at[r] = "unsent" /\ to = "handling"
                 /\ hits' = hits + 1 /\ UNCHANGED <<served, responses>>
              \/ at[r] \in InService /\ to \in InService \cup {"recovered"}
                 /\ UNCHANGED <<hits, served, responses>>
              \/ /\ at[r] \in InService /\ to = "served"
                 /\ served' = served + 1 /\ UNCHANGED <<hits, responses>>
              \/ /\ at[r] = "served" /\ to = "logged"
                 /\ responses' = responses + 1 /\ UNCHANGED <<hits, served>>
              \/ to = at[r] /\ UNCHANGED <<hits, served, responses>>
<1> USE DEF Moves, Places, InService
<1>1. CASE Receive(r)
  BY <1>1 DEF Receive
<1>2. CASE StartCall(r) \/ StartDo(r) \/ LogEnd(r) \/ GetConnection(r) \/ CallReturns(r)
  BY <1>2 DEF StartCall, StartDo, LogEnd, GetConnection, CallReturns
<1>3. CASE CallError(r) \/ CallExpires(r) \/ Return(r)
  BY <1>3 DEF CallError, CallExpires, Return, CallFails, InCall, Finish, SkipUser
<1>4. CASE Panic(r)
  BY <1>4 DEF Panic
<1>5. CASE Flush(r)
  BY <1>5 DEF Flush, TypeOK
<1> QED
  BY <1>1, <1>2, <1>3, <1>4, <1>5 DEF RequestStep, Advance, Mishap

LEMMA MetricsRequest ==
  ASSUME TypeOK, OnlyPanicsUncounted, NEW r \in Requests, RequestStep(r)
  PROVE  OnlyPanicsUncounted'
<1>1. PICK to \in Places :
           /\ at' = [at EXCEPT ![r] = to]
           /\ \/ /\ at[r] = "unsent" /\ to = "handling"
                 /\ hits' = hits + 1 /\ UNCHANGED <<served, responses>>
              \/ at[r] \in InService /\ to \in InService \cup {"recovered"}
                 /\ UNCHANGED <<hits, served, responses>>
              \/ /\ at[r] \in InService /\ to = "served"
                 /\ served' = served + 1 /\ UNCHANGED <<hits, responses>>
              \/ /\ at[r] = "served" /\ to = "logged"
                 /\ responses' = responses + 1 /\ UNCHANGED <<hits, served>>
              \/ to = at[r] /\ UNCHANGED <<hits, served, responses>>
  BY MovesCount
<1>2. CASE to = at[r]
  <2>1. at' = at
    BY <1>1, <1>2 DEF TypeOK
  <2>2. UNCHANGED <<hits, served, responses>>
    BY <1>1, <1>2 DEF InService
  <2> QED
    BY <2>1, <2>2 DEF OnlyPanicsUncounted, Counting
<1>3. CASE to # at[r]
  <2>1. \A place \in Places :
          /\ Counting(place) \in Nat
          /\ Counting(place)' = IF place = at[r] THEN Counting(place) - 1
                                ELSE IF place = to THEN Counting(place) + 1
                                ELSE Counting(place)
    BY <1>1, <1>3, OneMoves, CountsAreNat
  <2> QED
    BY <1>1, <1>3, <2>1 DEF OnlyPanicsUncounted, TypeOK, Places, InService
<1> QED
  BY <1>2, <1>3

\* Every request counted when it came is counted when it goes, is on its way, or has
\* panicked (LoggerMiddleware, MetricsMiddleware, PanicMiddleware).
THEOREM MetricsAgree == Spec => []OnlyPanicsUncounted
<1>1. Init => OnlyPanicsUncounted
  <2>1. ASSUME Init, NEW place, place # "unsent" PROVE Counting(place) = 0
    <3>1. {r \in Requests : at[r] = place} = {}
      BY <2>1 DEF Init, RequestsInit
    <3> QED
      BY <3>1, FS_EmptySet DEF Counting
  <2>2. ASSUME Init PROVE OnlyPanicsUncounted
    <3>1. /\ Counting("served") = 0 /\ Counting("handling") = 0
          /\ Counting("waiting") = 0 /\ Counting("calling") = 0
          /\ Counting("beginning") = 0 /\ Counting("recovered") = 0
      BY <2>1, <2>2
    <3> QED
      BY <2>2, <3>1 DEF OnlyPanicsUncounted, Init, RequestsInit
  <2> QED
    BY <2>2
<1>2. ASSUME TypeOK, OnlyPanicsUncounted, [Next]_vars PROVE OnlyPanicsUncounted'
  <2>1. ASSUME UNCHANGED <<at, hits, served, responses>> PROVE OnlyPanicsUncounted'
    BY <1>2, <2>1 DEF OnlyPanicsUncounted, Counting
  <2> QED
    BY <1>2, <2>1, StepKinds, MetricsRequest DEF vars, requestVars, Tick
<1>3. Spec => []TypeOK
  BY ProcessInvariant, PTL DEF ProcessInv
<1> QED
  BY <1>1, <1>2, <1>3, PTL DEF Spec

------------------------------------------------------------------------------
\* The process implements GracefulServer.

LEMMA ServerInit == Init => Server!Init
<1>1. Init => Running = {} /\ Ended = {}
  BY DEF Init, RequestsInit, Running, Ended, InFlight
<1> QED
  BY <1>1 DEF Init, Server!Init, Phase, Broken

\* A request is received, comes to its end, or stays on its way.
LEMMA RequestServes ==
  ASSUME ProcessInv, NEW r \in Requests, UNCHANGED processVars,
         Arrive(r) \/ (stage # "exited" /\ (Advance(r) \/ Mishap(r)))
  PROVE  Server!Receive(r) \/ Server!End(r) \/ UNCHANGED Server!gvars
<1>0. /\ TypeOK /\ PoolInv /\ StageInv
      /\ UNCHANGED <<stage, attempt, signalled, listener, drain, code, poolClosed>>
  BY DEF ProcessInv, processVars
<1>1. UNCHANGED <<Phase, Broken, drain, poolClosed, code>>
  BY <1>0 DEF Phase, Broken
<1>2. Phase # "exited"
  BY DEF Arrive, Phase
<1>3. CASE Arrive(r)
  <2>1. at[r] = "unsent" /\ at' = [at EXCEPT ![r] = "handling"] /\ UNCHANGED outcome
    BY <1>3 DEF Arrive, Receive, Moves
  <2>2. outcome[r] = "none"
    BY <1>0, <2>1 DEF PoolInv, TypeOK
  <2>3. r \notin Running \cup Ended /\ Running' = Running \cup {r} /\ Ended' = Ended
    BY <1>0, <2>1, <2>2 DEF Running, Ended, InFlight, TypeOK
  <2>4. ~poolClosed \/ Broken
    BY <1>0, <1>3 DEF Arrive, StageInv, Broken
  <2> QED
    BY <1>1, <1>2, <2>3, <2>4 DEF Server!Receive
<1>4. CASE Flush(r)
  <2>1. /\ at[r] # "unsent" /\ outcome[r] = "none" /\ UNCHANGED at
        /\ \E end \in {"answered", "lost"} : outcome' = [outcome EXCEPT ![r] = end]
    BY <1>4 DEF Flush
  <2>2. r \in Running /\ Running' = Running \ {r} /\ Ended' = Ended \cup {r}
    BY <1>0, <2>1 DEF Running, Ended, InFlight, TypeOK
  <2> QED
    BY <1>1, <1>2, <2>2 DEF Server!End
<1>5. CASE (Advance(r) \/ Mishap(r)) /\ ~Flush(r)
  <2>1. UNCHANGED outcome /\ \E to \in Places \ {"unsent"} : at' = [at EXCEPT ![r] = to]
    BY <1>5
    DEF Advance, Mishap, StartCall, StartDo, GetConnection, CallReturns, CallExpires,
        CallError, CallFails, Finish, SkipUser, Return, LogEnd, Panic, Moves, Places
  <2>2. at[r] # "unsent"
    BY <1>0, <1>5, OnTheWay DEF InFlight
  <2>3. Running' = Running /\ Ended' = Ended
    BY <1>0, <2>1, <2>2 DEF Running, Ended, InFlight, TypeOK
  <2> QED
    BY <1>1, <2>3 DEF Server!gvars
<1> QED
  BY <1>3, <1>4, <1>5

\* What the steps of main are in the life of a server.
LEMMA MainServes ==
  ASSUME ProcessInv, Signal \/ ListenerFails \/ Main \/ Over, UNCHANGED requestVars
  PROVE  [Server!Next]_(Server!gvars)
<1>0. TypeOK /\ PoolInv /\ StageInv
  BY DEF ProcessInv
<1>a. UNCHANGED <<held, at, outcome>>
  BY DEF requestVars
<1>b. Running' = Running /\ Ended' = Ended
  BY <1>a DEF Running, Ended, InFlight
<1>c. Nothing => Running \cup Ended = {}
  BY <1>0 DEF Nothing, Running, Ended, InFlight, PoolInv
<1>d. Idle => Running = {}
  BY DEF Idle, Running
<1> USE DEF Phase, Broken, Server!gvars, Server!Next
<1>1. CASE Signal \/ Over
  BY <1>1, <1>b DEF Signal, Over, vars, processVars
<1>2. CASE Listen \/ ListenerFails
  <2>1. UNCHANGED Server!gvars \/ Server!Break
    BY <1>2, <1>b DEF Listen, ListenerFails, Server!Break
  <2> QED
    BY <2>1
<1>3. CASE Migrate \/ Connect \/ WakeUp
  <2>1. listener = "off" /\ Nothing
    BY <1>0, <1>3 DEF StageInv, Migrate, Connect, WakeUp
  <2>2. UNCHANGED Server!gvars \/ Server!Exit
    BY <1>3, <1>b, <1>c, <2>1 DEF Migrate, Connect, WakeUp, Exit, Server!Exit
  <2> QED
    BY <2>2
<1>4. CASE BeginShutdown
  <2>1. Server!Stop
    BY <1>4, <1>b DEF BeginShutdown, Server!Stop
  <2> QED
    BY <2>1
<1>5. CASE ListenerErrorSeen \/ Drained
  <2>1. Server!Close
    BY <1>5, <1>b, <1>d DEF ListenerErrorSeen, Drained, Server!Close
  <2> QED
    BY <2>1
<1>6. CASE ShutdownTimesOut
  <2>1. drain = Setting("shutdown")
    BY <1>0, <1>6, SettingPositive DEF ShutdownTimesOut, StageInv, TypeOK, Settings
  <2>2. Server!Exit
    BY <1>6, <1>b, <2>1 DEF ShutdownTimesOut, Exit, Server!Exit
  <2> QED
    BY <2>2
<1>7. CASE PoolDown
  <2>1. Server!Exit
    BY <1>7, <1>b DEF PoolDown, Exit, Server!Exit
  <2> QED
    BY <2>1
<1> QED
  BY <1>1, <1>2, <1>3, <1>4, <1>5, <1>6, <1>7 DEF Main

\* The clock is the patience of the server while it is stopping.
LEMMA TickServes == ASSUME Tick PROVE Server!Wait \/ UNCHANGED Server!gvars
<1>1. Running' = Running /\ Ended' = Ended
  BY DEF Tick, Running, Ended, InFlight
<1> QED
  BY <1>1 DEF Tick, Phase, Broken, Server!Wait, Server!gvars

LEMMA ServerStep == ProcessInv /\ [Next]_vars => [Server!Next]_(Server!gvars)
<1> SUFFICES ASSUME ProcessInv, [Next]_vars PROVE [Server!Next]_(Server!gvars)
  OBVIOUS
<1>1. CASE UNCHANGED vars
  BY <1>1
  DEF vars, requestVars, processVars, Server!gvars, Phase, Running, Ended, Broken, InFlight
<1>2. CASE \E r \in Requests : Arrive(r) \/ Work(r) \/ Trouble(r)
  BY <1>2, RequestServes DEF Arrive, Work, Trouble, Server!Next
<1>3. CASE Signal \/ ListenerFails \/ Main \/ Over
  <2>1. UNCHANGED requestVars
    BY <1>3
    DEF Signal, ListenerFails, Main, Over, Migrate, Connect, WakeUp, Listen, BeginShutdown,
        ListenerErrorSeen, Drained, ShutdownTimesOut, PoolDown, vars
  <2> QED
    BY <1>3, <2>1, MainServes
<1>4. CASE Tick
  BY <1>4, TickServes DEF Server!Next
<1> QED
  BY <1>1, <1>2, <1>3, <1>4 DEF Next

\* The process implements GracefulServer: told to stop it lets its requests come to
\* their end or waits the whole timeout, closes the pool behind them, and its exit code
\* says which (App.Run, main).
THEOREM RefinesGracefulServer == Spec => ServesGracefully
<1> QED
  BY ServerInit, ServerStep, ProcessInvariant, PTL DEF Spec, ServesGracefully, Server!Spec
==============================================================================
