CONSTANTS
  u1 = u1
  u2 = u2
  t1 = t1
  t2 = t2
  NoUser = NoUser
  NoInstant = NoInstant
  Users <- MCUsers
  Instants <- MCInstants
  DefaultMode = "ai"
  Fallback = TRUE
SPECIFICATION Spec
PROPERTIES
  HumanIsNeverSpokenOver
  
