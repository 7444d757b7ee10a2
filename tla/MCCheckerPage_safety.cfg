CONSTANTS
  Texts = {"empty", "example", "forged", "bypassed", "opaque",
           "spine", "protect", "noise", "huge"}
  Keys = {"blank", "signer"}
  NoText = "empty"
  NoKey = "blank"
  Example = "example"
  Oversized = {"huge"}
  Family <- MCFamily
  Grade <- MCGrade
  SignerOf <- MCSigner
  MaxVersion = 3
SPECIFICATION FairSpec
INVARIANTS
  TypeOK
  ShownResultIsOfFields
  PassIsEarned
  SignerControlsFollowResult
  EditStands
PROPERTIES
  SupersededIsInert
  ImplementsPromise
  EveryRequestAnswered
CHECK_DEADLOCK FALSE
