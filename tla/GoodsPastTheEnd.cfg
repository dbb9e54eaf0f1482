\* One product, and pages around the end of a list of at most two.
SPECIFICATION SearchSpec
CONSTANTS
  Contents = {c1}
  None = None
  Sessions = {w1}
  MaxId = 2
  MaxCalls = 3
  MaxFaults = 0
  PageCap = 2
  PageDefault = 1
  Pages = {0, 1, 2}
  Sizes = {0, 2}
PROPERTIES ShowsOnlyHits
CHECK_DEADLOCK FALSE
