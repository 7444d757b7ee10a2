CONSTANTS
  a = a  b = b  c1 = c1  c2 = c2  s1 = s1  s2 = s2
  None = None
  Malformed = Malformed
  Values = {a, b}
  Configs = {c1, c2}
  Loadable = {c1}
  Verdicts = {"ALLOW", "BLOCK", "ERROR"}
  Ruling <- MCRuling
  Signers = {s1, s2}
  Inputs <- MCInputs
  Uses <- MCUses
SPECIFICATION Spec
CHECK_DEADLOCK FALSE
INVARIANTS
  TypeOK
  SignedIsExact
  BlameIsRight
  ShownAsJudged
