SPECIFICATION Spec

CONSTANTS
  Phones = {h1}
  Asks = {a1}
  Logins = {v1, v2}
  Codes = {k1, k2}
  Limit = 3
  MaxRate = 3
  None = None

INVARIANTS
  OtpOpensOneSession

CHECK_DEADLOCK FALSE
