CONSTANTS
  Parts = 1
  Channel = "messenger"
  ReplyToken = FALSE
  MaxAttempts = 2
  MaxStalledCount = 1
  MaxStalls = 2
  Zombies = FALSE
  LateHook = FALSE
  MaxResends = 2
SPECIFICATION FairSpec
CHECK_DEADLOCK FALSE
INVARIANTS
  FailedIsFinal
  OneDeliveryAtATime
PROPERTIES
  ClosedForGood
  
