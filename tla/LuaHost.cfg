SPECIFICATION Spec
CONSTANTS
  MaxOut = 2
  MaxBuffered = 2
  MaxTimers = 2
  Budget = 1
  Every = 1
  WorksAtLoad = FALSE
  MaxRecords = 3
  MaxData = 2
  MaxSequence = 2
  MaxEvents = 2
  Horizon = 1
INVARIANTS
  RecordsInOrder
PROPERTIES
  DispatchesAreApart
  RecordsAreHandled
  DueTimersRun
