\* A CreateCartItem that read its row before it was deleted.
SPECIFICATION Spec
CONSTANTS
  Goods = {a, b}
  Sessions = {w1, w2}
  Nums = {1}
  None = None
  MaxCalls = 4
  MaxFaults = 0
SYMMETRY MCSymmetry
PROPERTIES NewItemIsNew
CHECK_DEADLOCK FALSE
