SPECIFICATION FairSpec

CONSTANTS
  Phones = {h1}
  Asks = {a1, a2, a3, a4, a5}
  Logins = {v1}
  Codes = {k1}
  Limit = 3
  MaxRate = 4
  None = None

PROPERTIES
  RefusalEnds

CHECK_DEADLOCK FALSE
