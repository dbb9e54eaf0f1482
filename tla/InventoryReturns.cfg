\* Two connections, which may be used up: transactions end, stock returns.
SPECIFICATION FairSpec
CONSTANTS
  a = a
  b = b
  Goods = {a, b}
  Orders = {o1, o2}
  Sessions = {w1, w2}
  None = None
  Requests <- MCOneRequest
  Levels = {3}
  MaxCalls = 4
  MaxFaults = 1
PROPERTIES AckMeansReturned TransactionsEnd ReturnedInTheEnd
CHECK_DEADLOCK FALSE
