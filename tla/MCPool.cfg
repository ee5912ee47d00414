SPECIFICATION Safety
CONSTANTS
  Jobs = {j1, j2}
  Workers = {w1, w2}
  NoJob = NoJob
  NoWorker = NoWorker
  Concurrency = 2
  MaxJobs = 2
SYMMETRY Symmetry
CONSTRAINT InService
INVARIANTS
  CountedOnce
  NoStrayWork
  HonestOutcome
PROPERTIES
  RefinesLifecycle
