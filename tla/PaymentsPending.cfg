SPECIFICATION Spec

CONSTANTS
  r1 = r1
  r2 = r2
  r3 = r3
  p1 = p1
  p2 = p2
  j1 = j1
  j2 = j2
  u1 = u1
  k1 = k1
  k2 = k2
  k3 = k3
  NoRow = NoRow
  NoWorker = NoWorker
  NoDto = NoDto
  Clients = {r1, r2, r3}
  Requests = {r1, r2, r3}
  Procs = {p1, p2}
  JobIds = {j1, j2}
  Users = {u1}
  Workers = {u1}
  Keys = {k1, k2, k3}
  PoolMax = 1
  Home <- MCHome
  SeedJobs <- MCSeedJobs
  Notifications <- OneKey

INVARIANTS
  DuplicateOfSuccessIsSettled
