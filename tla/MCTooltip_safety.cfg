CONSTANTS
  Tips = {t1, t2, t3}
  Away = away
SPECIFICATION Spec
SYMMETRY Symmetry
INVARIANTS
  TypeOK
  NoneStuck
PROPERTIES
  PinStands
