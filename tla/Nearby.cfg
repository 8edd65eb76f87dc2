SPECIFICATION Spec

CONSTANTS
  x1 = x1
  x2 = x2
  y = y
  cx = cx
  cy = cy
  None = None
  Workers = {w1}
  Places = {x1, x2, y}
  Cells = {cx, cy}
  CellOf <- MCCellOf
  Reach <- MCReach
  Reports = {g1}
  Queries = {q1, q2}
  Count = 1
  Ttl = 2
  CacheMax = 1
  SearchMax = 1
  MaxTime = 4


INVARIANTS
  TypeOK
  StandingWorkersAreFound
  CacheBounded

SYMMETRY Symmetry

CHECK_DEADLOCK FALSE
