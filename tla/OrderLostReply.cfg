\* A Sell whose reply is lost: stock held for no order.
SPECIFICATION Spec
CONSTANTS
  u1 = u1
  a = a
  b = b
  Goods = {a}
  Orders = {o1}
  Users = {u1}
  UserOf <- MCOneUser
  Carts <- MCSmallCarts
  Catalog = {a}
  Levels = {3}
  Statuses = {"TRADE_SUCCESS"}
  None = None
  MaxRetry = 1
  MaxFaults = 1
  MaxOps = 1
INVARIANTS NoStockStranded
CHECK_DEADLOCK FALSE
