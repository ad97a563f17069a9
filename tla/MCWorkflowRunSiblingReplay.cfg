SPECIFICATION Spec
CONSTANTS
  Node <- PairNodes
  Deps <- PairDeps
  Kind <- PairKind
  Retried = {"sum"}
  MaxAttempts = 2
  NoNode = NoNode
  MaxClaims = 3
  MaxFaults = 1
  MaxStops = 0
INVARIANT NoBlindReplay
CHECK_DEADLOCK FALSE
