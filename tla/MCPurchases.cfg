SPECIFICATION MCSpec
CONSTANTS
  u1 = u1  u2 = u2  k1 = k1  k2 = k2
  Purchases = {u1, u2}
  Products <- MCProducts
  Orders <- MCOrders
  Keys = {k1, k2}
  Procs = {p1, p2}
  Requests <- MCRequests
  None = None
  Stock0 <- MCStock0
  MaxCash = 2
  ManualKeys = {k1}
INVARIANTS PurchasesOK AnswersAreTrue NoDeadlock
SYMMETRY Perms
