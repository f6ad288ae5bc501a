SPECIFICATION Spec
CONSTANTS
  r1 = r1
  r2 = r2
  Requests = {r1, r2}
  MaxCalls <- FewCalls
  Configured <- TwoConnections
  Default <- Defaults
INVARIANTS
  EveryRequestCounted
