SPECIFICATION FairSpec

CONSTANTS
  t1 = t1
  p1 = p1
  p2 = p2
  None = None
  Triggers = {t1}
  Procs = {p1, p2}
  Sockets = {s1}
  Home <- MCHome
  MaxSends = 2
  MaxCrashes = 2

INVARIANTS
  TypeOK
  AlertsAreBacked
  CopiesBounded
  AudienceHears
PROPERTIES
  RelayRecovers

CHECK_DEADLOCK FALSE
