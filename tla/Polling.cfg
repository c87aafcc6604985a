SPECIFICATION MCSpec
CONSTANTS
  Intervals <- MCIntervals
  HttpTimeouts <- MCHttpTimeouts
  RetryCounts <- MCRetryCounts
  Sources = {"feed", "forecast"}
  Kinds = {"liveness", "health", "verdict"}
  Interval = 1
  Day = 3
  Window = 2
  KeepDays = 3
  FetchWait = 1
  MaxVerdictAge = 2
  MaxNow = 12
  MaxFaults = 2
INVARIANTS
  
  
  PastDaysStand
  
PROPERTIES
  LoopForever
