CONSTANTS
  turn = turn
  timer = timer
  summary = summary
  r1 = r1
  r2 = r2
  Jobs <- AllJobs
  Timers <- OneTimer
  Transient <- OneSummary
  Relays <- TwoRelays
  Batch = 2
  MaxRows = 3
  MaxErrors = 1
  MaxSwallowed = 1
  MaxCrashes = 1
SPECIFICATION FairSpec
CHECK_DEADLOCK FALSE
INVARIANTS
  RowsAreHeldOnce
  
PROPERTY PromisesAreKept
