SPECIFICATION Spec
CONSTANTS
  Node <- ForkNodes
  Deps <- ForkDeps
  Kind <- ForkKind
  Retried = {"sum"}
  MaxAttempts = 2
  NoNode = NoNode
  MaxClaims = 2
  MaxFaults = 1
  MaxStops = 1
INVARIANTS AbortIsDelivered
PROPERTIES CancellationSticks
CHECK_DEADLOCK FALSE
