CONSTANTS
  Callers = {c1, c2}
  Values = {v1, v2}
  Empty = Empty
  InitialRows <- MCInitialRows
  MaxRequests = 3
  MaxFailures = 1
  PageCap = 3
  PageDefault = 2
  WalkSizes = {0, 5}
  Users = {u1, u2}
  Mobiles = {m1, m2}
  FavGoods = {g1}
  StockGoods = {g1}
  Amounts = {1, 3}
  Instances = {1, 2}
  Ports = {7, 8}
  PortFlag <- MCPortFlag
  WithConsumer = {1}
  DropAfter = 2
  MaxMishaps = 2
  Streams = {s1}
SPECIFICATION MCSpec
INVARIANTS ServicesInv NameOnce WalkExact MobileOnce RowsWhole FavAsAsked StockAsCounted ListedIsOwn FinishedOnce
PROPERTIES DeletedStays PairsOfLive ListSettles SpansEnd
CHECK_DEADLOCK FALSE
