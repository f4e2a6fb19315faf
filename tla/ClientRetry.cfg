SPECIFICATION Spec
CONSTANTS
  Thread = {t1}
  Old = {}
  Nowhere = nowhere
  MaxEntry = 2
  MaxId = 3
  MaxVersion = 0
  MaxWire = 1
  Scopes <- Retries
CHECK_DEADLOCK FALSE
INVARIANTS RunsOnce
