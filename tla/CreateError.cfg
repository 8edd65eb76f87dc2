SPECIFICATION Spec

CONSTANTS
  c1 = c1
  c2 = c2
  c3 = c3
  p1 = p1
  p2 = p2
  j1 = j1
  j2 = j2
  j3 = j3
  NoRow = NoRow
  NoWorker = NoWorker
  Clients = {c1, c2, c3}
  Creates = {c1, c2, c3}
  Procs = {p1, p2}
  JobIds = {j1, j2, j3}
  Users = {}
  Workers = {}
  Keys = {}
  PoolMax = 1
  QueueMax = 2
  Home <- MCHome
  SeedJobs <- MCSeedJobs
  NewJob <- MCNewJob

INVARIANTS
  ErrorMeansNoJob
