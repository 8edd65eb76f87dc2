SPECIFICATION Spec

CONSTANTS
  Phones = {h1, h2, h3}
  BatchSize = 2
  GeoBatch = 2
  JobBatches = 2
  Draws <- MCDraws
  MaxRuns = 2

SYMMETRY Symmetry

INVARIANTS
  TypeOK
  LedgerMatchesJobs
  CompleteMeansUsable

CHECK_DEADLOCK FALSE
