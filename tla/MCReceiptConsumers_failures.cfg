CONSTANTS
  None = None
  p1 = p1  p2 = p2  p3 = p3  p4 = p4
  c1 = c1  c2 = c2  c3 = c3  l1 = l1  l2 = l2  w = w
  s1 = s1  s2 = s2
  k1 = k1  k2 = k2  t1 = t1  g1 = g1  x = x
  Policies <- MCPolicies
  Calls <- MCCalls
  Lines = {l1, l2, w}
  Line <- MCLine
  Signers = {s1, s2}
  Kernels = {k1, k2}
  Audited = k1
  Targets = {t1}
  GrantNames = {g1}
  Verdicts = {"ALLOW", "BLOCK"}
  Certs = {x, l1, w}
  Epoch <- MCEpoch
  Loadable = {p1, p2, p3}
  Ragged <- MCRagged
  Resolve <- MCResolve
  Ruling <- MCRuling
  Inputs <- MCInputs
  Uses <- MCUses
SPECIFICATION ConsumersSpec
CHECK_DEADLOCK FALSE
INVARIANTS
  ListedFailuresFailed
