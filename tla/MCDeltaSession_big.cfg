SPECIFICATION Spec
CONSTANTS
  idCol = idCol
  valCol = valCol
  noteCol = noteCol
  x = x
  y = y
  big = big
  bigger = bigger
  unsigned = unsigned
  digits = digits
  Null = Null
  NoKey = NoKey
  Columns <- MCColumns
  Values <- MCValues
  Canon <- MCCanon
  OnWire <- MCOnWire
  Sets <- BigSets
  Policies <- EverySecond
  Period = 2
  FullHead = 3
  DeltaHead = 4
  SectionHead = 1
  RowLen = 2
  IdLen = 1
  MaxCum = 24
  MaxInFlight = 1
  MaxFaults = 0
  MayLose = FALSE
  MayDuplicate = FALSE
  MayReorder = FALSE
INVARIANT InSync
