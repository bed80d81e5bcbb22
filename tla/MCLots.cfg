SPECIFICATION Spec
CONSTANTS
  w1 = w1  w2 = w2  s1 = s1  k1 = k1  k2 = k2  A = A
  Warehouses = {w1, w2}
  Codes = {A, R}
  ReturnCode = R
  Loose = Loose
  None = None
  Never = 9
  LastDay = 1
  Sales = {s1}
  HomeOf <- MCHomeOf
  MaxUnits = 2
  Keys = {k1, k2}
  Procs = {p1, p2}
  Requests <- MCRequests
  Stock0 <- MCStock0
INVARIANTS LotsOK AvailableIsSellable HistoryIsTrue
PROPERTY NothingBecomesFitAgain
SYMMETRY Perms
