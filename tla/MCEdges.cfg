SPECIFICATION Spec
CONSTANTS
  p1 = p1  p2 = p2  c1 = c1  f1 = f1  f2 = f2  t1 = t1  n1 = n1
  w1 = w1  w2 = w2  w3 = w3  a1 = a1  a2 = a2  d1 = d1  d2 = d2  s1 = s1
  t2 = t2  n2 = n2  m1 = m1  m2 = m2  g1 = g1  g2 = g2
  People = {p1, p2}
  Customers = {c1}
  Roles = {"admin", "agent"}
  MaxLinks = 1
  MaxChanges = 3
  MaxRequests = 2
  Pages = {p1, p2}
  Fields = {f1, f2}
  MaxEdits = 3
  MaxLosses = 1
  Callers = {t1, f1}
  Fetches = {f1}
  Names = {n1}
  MaxTokens = 2
  MaxSignIns = 2
  MaxUrls = 2
  MaxLists = 1
  MaxFaults = 1
  HttpWrites = {w1, w2}
  McpWrites = {w3}
  SubjectBound = {w3}
  HasFallback = TRUE
  MaxSteps = 3
  MaxRuns = 3
  MaxRefusals = 2
  Agents = {a1}
  Devices = {d1, d2}
  Spaces = {s1}
  Home = s1
  Assignee = a1
  MaxTurns = 1
  MaxReports = 1
  MaxAttempts = 2
  Cards = {c1}
  Providers = {p1, p2}
  Models = {m1, m2}
  Served <- ServedBy
  NoOne = NoOne
  MaxSaves = 2
  MaxProviderChanges = 2
  Consoles = {a1}
  Ids = {t1, t2}
  Titles = {n1, n2}
  Configs = {g1, g2}
  Nil = Nil
  MaxAsks = 2
  Panels = {a1}
  Listed = {t1}
  MaxCalls = 3
  MaxNews = 1
INVARIANTS EdgesTypeOK RefreshTokensAreSpentOnce RepliesKeepTheirWord OneBuzzPerOccasion ChoicesStand
PROPERTIES AnAdminRemains SavesReplaceOnlyWhatWasShown
CHECK_DEADLOCK FALSE
