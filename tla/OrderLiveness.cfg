\* Every deduction is resolved and every unpaid order closed.
SPECIFICATION FairSpec
CONSTANTS
  u1 = u1
  a = a
  b = b
  Goods = {a, b}
  Orders = {o1}
  Users = {u1}
  UserOf <- MCOneUser
  Carts <- MCMixedCarts
  Catalog = {a}
  Levels = {0, 2}
  Statuses = {"TRADE_SUCCESS"}
  None = None
  MaxRetry = 3
  MaxFaults = 3
  MaxOps = 2
INVARIANTS StrandedIsUnseen
PROPERTIES  UnpaidIsClosed
CHECK_DEADLOCK FALSE
