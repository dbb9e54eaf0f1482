\* Calls one after the other or overlapping, with failing statements.
SPECIFICATION Spec
CONSTANTS
  Goods = {a, b}
  Sessions = {w1, w2}
  Nums = {0, 1, 2}
  None = None
  MaxCalls = 5
  MaxFaults = 1
SYMMETRY MCSymmetry
INVARIANTS CartInv NeverMoreThanAsked
PROPERTIES ImplementsBasket
CHECK_DEADLOCK FALSE
