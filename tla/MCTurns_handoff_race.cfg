CONSTANTS
  e1 = e1
  e2 = e2
  q1 = q1
  q2 = q2
  Now = Now
  Agent = Agent
  NoUser = NoUser
  NoInstant = NoInstant
  Users <- MCUsers
  Instants <- MCInstants
  Events <- OneEvent
  MediaEvents <- NoMedia
  DefaultMode = "ai"
  Requests <- OneRequest
  Operations <- TakeOver
  Answers <- MayHandOff
  MaxAttempts = 1
  MaxStalledCount = 1
  MaxStalls = 0
  MaxRedeliveries = 0
SPECIFICATION Spec
CHECK_DEADLOCK FALSE
PROPERTY NoHoldingMessageOverHuman
