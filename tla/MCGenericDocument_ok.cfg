SPECIFICATION Spec
CONSTANTS
  one = one
  two = two
  three = three
  four = four
  Text = Text
  Spelt <- MCSpelt
  Records <- MCRecords
  MaxRows <- MCMaxRows
  KeyName <- MCKeyName
  GroupName <- MCGroupName
  MemberNames <- MCMemberNames
  Other <- MCOther
INVARIANTS
  ArraysReadBack
  AttachmentsReadBack
  MapsReadBack
  KeysKeepOrder
  GroupedReadsBack
  GroupedCountsProtect
  CountsProtect
CHECK_DEADLOCK FALSE
