CONSTANTS
  Parts = 2
  Channel = "line"
  ReplyToken = FALSE
  MaxAttempts = 2
  MaxStalledCount = 1
  MaxStalls = 1
  Zombies = TRUE
  LateHook = TRUE
  MaxResends = 1
SPECIFICATION Spec
CHECK_DEADLOCK FALSE
INVARIANTS
  SentIsReceived
  
