SPECIFICATION Spec
CONSTANTS
  Context = {normal, safe}
  Normal = normal
  Unsaid = unsaid
  PortRetries = 1
  MaxSpawns = 4
  MaxCalls = 5
INVARIANTS NoStrayProcess ReadyIsServed StopTakesEffect StartTakesEffect
PROPERTIES CallsSettle
CHECK_DEADLOCK FALSE
