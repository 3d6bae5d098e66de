SPECIFICATION Spec
CONSTANTS
  KindAbbrev <- MCKindAbbrev
  Printed <- MCPrinted
  Graphs <- AllGraphs
  MaxInFlight = 2
  MaxFaults = 1
INVARIANTS TypeOK FullReadsBack NeverRefused InSync
PROPERTY AppliesWhole
