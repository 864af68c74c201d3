SPECIFICATION Spec
CONSTANTS
  a = a  n1 = n1  n2 = n2  n3 = n3  u1 = u1
  Listed = {n1, n2, n3}
  MaxKey = 4
  PageSize = 1
  MaxMoves = 2
  MessagePage = 2
  MaxWritten = 6
  MaxFailures = 1
  Tabs = {a}
  MaxSockets = 2
  MaxCommits = 1
  MaxTurns = 2
  Kinds = {"qa", "file"}
  MaxJobs = 3
  Editors = {u1}
  Changes = {"text", "disable"}
  MaxTries = 2
INVARIANTS ConsoleTypeOK StillRowsAreSeenOnce ThreadIsInOrder
PROPERTIES LostAccessClosesSockets OldTextStaysOut 
CHECK_DEADLOCK FALSE
