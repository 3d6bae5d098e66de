SPECIFICATION Spec
CONSTANTS
  one = one
  two = two
  three = three
  four = four
  Text = Text
  Spelt <- MCSpelt
  Records <- MCRecords
  MaxRows <- MCMaxRows
  KeyName <- MCKeyName
  GroupName <- MCGroupName
  MemberNames <- MCMemberNames
  Other <- MCOther
INVARIANT SharedSchemasReadBack
CHECK_DEADLOCK FALSE
