SPECIFICATION FairSpec

CONSTANTS
  r1 = r1
  r2 = r2
  a1 = a1
  a2 = a2
  c1 = c1
  p1 = p1
  p2 = p2
  j1 = j1
  j2 = j2
  u1 = u1
  u2 = u2
  k1 = k1
  k2 = k2
  NoRow = NoRow
  NoWorker = NoWorker
  NoDto = NoDto
  NoBid = NoBid
  NoActor = NoActor
  Clients = {r1, r2, a1, a2, c1}
  Requests = {r1, r2}
  Accepts = {a1}
  Creates = {c1}
  Procs = {p1, p2}
  JobIds = {j1, j2}
  Users = {u1, u2}
  Workers = {u1, u2}
  Keys = {k1, k2}
  PoolMax = 1
  QueueMax = 1
  Home <- MCHome
  SeedJobs <- MCSeedJobs
  NewJob <- MCNewJob
  Notifications <- NewJobBodies
  Bids <- NewJobBids

INVARIANTS
  TypeOK
  ClientsAccounted
  QueuedJobExists
  CreatedIsDurable
PROPERTIES
  EveryRequestEnds
