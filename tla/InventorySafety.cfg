\* Three connections, two products: lock waits, faults, connections used up.
SPECIFICATION Spec
CONSTANTS
  a = a
  b = b
  Goods = {a, b}
  Orders = {o1, o2}
  Sessions = {w1, w2, w3}
  None = None
  Requests <- MCRequests
  Levels = {3}
  MaxCalls = 4
  MaxFaults = 2
SYMMETRY MCSymmetry
INVARIANTS TypeOK CheckedStaysTrue ReadStaysTrue NeverNegative IInv
PROPERTIES SalesConserve ImplementsLedger
CHECK_DEADLOCK FALSE
