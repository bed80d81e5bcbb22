SPECIFICATION MCSpec
CONSTANTS
  ana = ana
  bea = bea
  leo = leo
  k1 = k1
  k2 = k2
  k3 = k3
  Cooks = {ana, bea}
  Bakers = {leo}
  Keys = {k1, k2, k3}
  Calls = {c1, c2}
  Recipes <- BothOrders
  Products = {1, 2, 3}
  Raw = 1
  Prepared = 3
  Stock0 <- AtFirst
  Amounts = {1, 2}
  MaxRevision = 2
  None = None
INVARIANTS StockIsItsJobs EachVersionFollowsTheLast NoticesAreTrue NoDeadlock
SYMMETRY Perms
CHECK_DEADLOCK FALSE
