SPECIFICATION Spec
CONSTANTS
  x = x
  y = y
  z = z
  Encoders = {e1, e2}
  Names <- MCNames
  Payloads <- DistinctPayloads
  MaxEncodes = 2
  MaxResets = 0
  MaxRecords = 0
  QuiescentReset = FALSE
INVARIANT DeclaredIdsDistinct
CHECK_DEADLOCK FALSE
