SPECIFICATION FairSpec
CONSTANTS
  r1 = r1
  r2 = r2
  Requests = {r1, r2}
  MaxCalls <- FewCalls
  Configured <- TwoConnections
  Default <- Defaults
INVARIANTS
  ProcessInv
  CleanExit
  CutOnlyAfterGrace
  PoolOutlivesRequests
  StallNeedsManagers
  OnlyPanicsUncounted
PROPERTIES
  EveryRequestEnds
  SignalEndsProcess
  ServesGracefully
