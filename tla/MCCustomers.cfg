SPECIFICATION Spec
CONSTANTS
  a = a  b = b  m1 = m1  m2 = m2  m3 = m3  k1 = k1
  t1 = t1  t2 = t2  u1 = u1  d1 = d1  w1 = w1  w2 = w2  r1 = r1  r2 = r2  x1 = x1  q1 = q1
  g1 = g1  g2 = g2  wa = wa  wb = wb  wc = wc  wd = wd
  Who = {a, b}
  Messages = {m1, m2, m3}
  Writer <- WroteWhat
  Colleagues = {k1}
  MaxCustomers = 4
  MaxThreads = 3
  MaxErasures = 1
  Threads = {t1, t2}
  Batch = 2
  MaxMessages = 3
  MaxAttempts = 2
  MaxStops = 1
  Media = {m1}
  Uploads = {u1}
  Documents = {d1}
  Conversations = {t1}
  In <- SentWhere
  MaxErasing = 2
  Words = {w1, w2}
  Masked = {w2}
  MaxSends = 2
  MaxReplies = 1
  MaxPolls = 1
  MaxDrops = 2
  Limit = 2
  Levels = {0, 1, 2}
  MaxEdits = 1
  Replies = {r1, r2}
  Rated = r1
  MaxPresses = 2
  Texts = {x1}
  Suggestions = {q1}
  Picked = {u1}
  None = None
  MaxMounts = 2
  MaxSent = 1
  Tagged = {g1, g2}
  Strip = g1
  TagWords = {wa, wb, wc, wd}
  Mask <- MaskedTo
  NoWord = NoWord
  MaxTags = 2
  MaxAsks = 2
  c1 = c1  c2 = c2  i1 = i1  i2 = i2
  Splits = {c1, c2}
  Things = {i1, i2}
  TableOf <- OneInEach
  Repointed <- Cascading
  MaxRejoins = 2
  MaxPurges = 1
INVARIANTS CustomersTypeOK LaterRepliesAreRead   ConversationFollowsIdentity   SaidIsShownOnce
CHECK_DEADLOCK FALSE
