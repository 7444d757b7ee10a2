CONSTANTS
  Texts = {"empty", "example", "spine", "noise"}
  Keys = {"blank", "signer"}
  NoText = "empty"
  NoKey = "blank"
  Example = "example"
  Oversized = {}
  Family <- MCFamily
  Grade <- MCGrade
  SignerOf <- MCSigner
  MaxVersion = 3
SPECIFICATION Spec
INVARIANTS
  BannerIsOfFields
CHECK_DEADLOCK FALSE
