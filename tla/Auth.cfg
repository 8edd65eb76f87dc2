SPECIFICATION AccessSpec

CONSTANTS
  Phones = {h1, h2}
  Asks = {a1, a2}
  Logins = {v1, v2}
  Codes = {k1, k2}
  Calls = {c1}
  Benchmark = Benchmark
  Limit = 1
  MaxRate = 2
  None = None

INVARIANTS
  AccessTypeOK
  OtpGone
  ConsumedRows
  SessionsAreEarned
  TokensAreHonoured

CHECK_DEADLOCK FALSE
