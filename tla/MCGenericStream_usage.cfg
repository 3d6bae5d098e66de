SPECIFICATION Spec
CONSTANTS
  BareKeys = {a, b}
  OtherKeys = {q}
  Values = {v}
  Text = text
  MaxWidth = 2
  MaxCalls = 5
SYMMETRY Symmetry
INVARIANT UsageReadsBack
CHECK_DEADLOCK FALSE
