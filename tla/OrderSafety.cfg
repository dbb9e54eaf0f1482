\* Two orders of one user, with faults at every step.
SPECIFICATION Spec
CONSTANTS
  u1 = u1
  a = a
  b = b
  Goods = {a, b}
  Orders = {o1, o2}
  Users = {u1}
  UserOf <- MCOneUser
  Carts <- MCMixedCarts
  Catalog = {a}
  Levels = {3}
  Statuses = {"TRADE_SUCCESS"}
  None = None
  MaxRetry = 1
  MaxFaults = 2
  MaxOps = 1
SYMMETRY MCSymmetry
INVARIANTS TransactionAtomicity OrderHoldsStock
INVARIANTS ClosedGivesBack CartBoughtOnce IInv
CHECK_DEADLOCK FALSE
