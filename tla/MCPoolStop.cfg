SPECIFICATION Marked
CONSTANTS
  Jobs = {j1}
  Workers = {w1, w2}
  NoJob = NoJob
  NoWorker = NoWorker
  Concurrency = 1
  MaxJobs = 1
INVARIANTS
  TypeOK
  AtMostOnce
  PipeOwnership
  DrainedQueue
  NothingOutlivesClose
PROPERTIES
  DrainSparesBegun
