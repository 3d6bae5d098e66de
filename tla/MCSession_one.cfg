SPECIFICATION FairSpec
CONSTANTS
  x = x
  y = y
  z = z
  Encoders = {e1}
  Names <- MCNames
  Payloads <- SequentialPayloads
  MaxEncodes = 3
  MaxResets = 1
  MaxRecords = 0
  QuiescentReset = TRUE
INVARIANTS
  WireIdsAreSessionIds
  DeclaredIdsDistinct
  BareReferencesResolve
PROPERTY ImplementsPromised
CHECK_DEADLOCK FALSE
