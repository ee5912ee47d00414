SPECIFICATION Spec
CONSTANTS
  Lines <- MCLines
  End = End
  QueueLines = 2
  Drainers = {d1, d2}
  MaxSignals = 2
  NoLine = NoLine
INVARIANTS DrainLineOnce HonestDrainLine 
PROPERTIES SecondSignalStops WriterEnds
CHECK_DEADLOCK FALSE
