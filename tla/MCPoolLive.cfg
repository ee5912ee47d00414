SPECIFICATION Spec
CONSTANTS
  Jobs = {j1}
  Workers = {w1}
  NoJob = NoJob
  NoWorker = NoWorker
  Concurrency = 1
  MaxJobs = 1
PROPERTIES
  EveryJobEnds
  CloseReturns
  RetiredGo
