\* Everything may fail between the document and COMMIT.
SPECIFICATION Spec
CONSTANTS
  Contents = {c1, c2}
  None = None
  Sessions = {w1, w2, w3}
  MaxId = 2
  MaxCalls = 6
  MaxFaults = 2
SYMMETRY MCSymmetry
INVARIANTS TypeOK IInv DeletedIsUnsearchable InStep
PROPERTIES NeverRevived
CHECK_DEADLOCK FALSE
