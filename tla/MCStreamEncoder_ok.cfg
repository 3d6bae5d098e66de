SPECIFICATION Spec
CONSTANTS
  Names = {a, b}
  Distances = {0, 1, 3}
  MaxSymbols = 3
  MaxEdges = 2
  MaxBare = 1
  SymbolsFirst = TRUE
INVARIANTS TypeOK TrailerTellsTotals TablesAgree DecodeAccepts ReaderKeepsUp
CHECK_DEADLOCK FALSE
