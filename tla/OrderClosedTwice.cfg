\* The timeout message of a closed order comes back.
SPECIFICATION Spec
CONSTANTS
  u1 = u1
  a = a
  b = b
  Goods = {a}
  Orders = {o1}
  Users = {u1}
  UserOf <- MCOneUser
  Carts <- MCSmallCarts
  Catalog = {a}
  Levels = {3}
  Statuses = {"TRADE_SUCCESS"}
  None = None
  MaxRetry = 1
  MaxFaults = 0
  MaxOps = 0
PROPERTIES ClosedOnce
CHECK_DEADLOCK FALSE
