CONSTANTS
  e1 = e1
  e2 = e2
  q1 = q1
  q2 = q2
  Now = Now
  Agent = Agent
  NoUser = NoUser
  NoInstant = NoInstant
  Users <- MCUsers
  Instants <- MCInstants
  Events <- OneEvent
  MediaEvents <- NoMedia
  DefaultMode = "ai"
  Requests <- OneRequest
  Operations <- TakeOver
  Answers <- WithLink
  MaxAttempts = 2
  MaxStalledCount = 1
  MaxStalls = 2
  MaxRedeliveries = 1
SPECIFICATION Spec
CHECK_DEADLOCK FALSE
INVARIANTS
  OneReplyPerTurn
  StoredMeansPromised
