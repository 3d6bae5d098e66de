SPECIFICATION Spec
CONSTANTS
  BareKeys = {a, b}
  OtherKeys = {q}
  Values = {v}
  Text = text
  MaxWidth = 2
  MaxCalls = 5
SYMMETRY Symmetry
INVARIANTS TypeOK ReadBack AcceptedIsFaithful
CHECK_DEADLOCK FALSE
