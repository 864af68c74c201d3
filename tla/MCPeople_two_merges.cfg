SPECIFICATION PeopleSpec
CONSTANTS
  a = a  b = b  c = c
  m1 = m1  m2 = m2  m3 = m3
  Who = {a, b, c}
  Messages = {m1, m2, m3}
  Writer <- ThreePeople
  k1 = k1  k2 = k2
  Colleagues = {k1, k2}
  MaxCustomers = 3
  MaxThreads = 3
  MaxErasures = 0
PROPERTIES HistoryIsKept
CHECK_DEADLOCK FALSE
