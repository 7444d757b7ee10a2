CONSTANTS
  OtherNames = {"verdict"}
  Literals <- MCLiterals
  Odd = {"2.0", "3.0"}
  Fold <- MCFold
  Documents <- MCDocuments
  MaxMembers = 3
SPECIFICATION Spec
CHECK_DEADLOCK FALSE
INVARIANTS
  TypeOK
  OneVersion
  NoDowngrade
  RoutedByEveryReading
  HonestIsRead
