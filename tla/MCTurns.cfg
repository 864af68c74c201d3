CONSTANTS
  e1 = e1
  e2 = e2
  q1 = q1
  q2 = q2
  Now = Now
  Agent = Agent
  NoUser = NoUser
  NoInstant = NoInstant
  Users <- MCUsers
  Instants <- MCInstants
  Events <- TwoEvents
  MediaEvents <- Media2
  DefaultMode = "ai"
  Requests <- TwoRequests
  Operations <- Anything
  Answers <- Most
  MaxAttempts = 1
  MaxStalledCount = 1
  MaxStalls = 0
  MaxRedeliveries = 0
SPECIFICATION Spec
CHECK_DEADLOCK FALSE
SYMMETRY Symmetry
INVARIANTS
  TypeOK
  WaitIsDescribed
  
PROPERTIES
  AiSpeaksOnlyAsOwner
  RepliesToTheNewest
