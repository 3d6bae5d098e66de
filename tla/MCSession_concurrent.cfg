SPECIFICATION FairSpec
CONSTANTS
  x = x
  y = y
  z = z
  Encoders = {e1, e2}
  Names <- MCNames
  Payloads <- MixedPayloads
  MaxEncodes = 2
  MaxResets = 1
  MaxRecords = 1
  QuiescentReset = FALSE
INVARIANTS
  TypeOK
  TableDense
  RecordedWasDeclared
  DeliveredIsRecorded
  KnownKeepTheirId
PROPERTIES
  IdsStable
  EventuallyRecorded
CHECK_DEADLOCK FALSE
