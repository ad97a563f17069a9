SPECIFICATION FairSpec
CONSTANTS
  Node <- ChainNodes
  Deps <- ChainDeps
  Kind <- ChainKind
  Retried = {"push", "tool"}
  MaxAttempts = 2
  NoNode = NoNode
  MaxClaims = 3
  MaxFaults = 2
  MaxStops = 0
INVARIANTS RunningIsOwned NoBlindReplay CallsAreJournalled UncertainIsMarked
PROPERTIES DurableSpec CompletionIsSaved RunComesToRest
CHECK_DEADLOCK FALSE
