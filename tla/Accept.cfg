SPECIFICATION FairSpec

CONSTANTS
  a1 = a1
  a2 = a2
  a3 = a3
  p1 = p1
  p2 = p2
  j1 = j1
  u1 = u1
  u2 = u2
  NoRow = NoRow
  NoWorker = NoWorker
  NoBid = NoBid
  NoActor = NoActor
  Clients = {a1, a2, a3}
  Accepts = {a1, a2, a3}
  Procs = {p1, p2}
  JobIds = {j1}
  Users = {u1, u2}
  Workers = {u1}
  Keys = {}
  PoolMax = 1
  Home <- MCHome
  SeedJobs <- MCSeedJobs
  Bids <- MCBids

INVARIANTS
  TypeOK
  AcceptedByOne
  AuditMatchesJob
  ClientsAccounted
PROPERTIES
  EveryAcceptEnds
