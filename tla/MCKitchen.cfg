SPECIFICATION Spec
CONSTANTS
  o1 = o1  o2 = o2  grill = grill  bar = bar
  Accounts = {1, 2}
  Orders = {o1, o2}
  Stations = {grill, bar}
  StationsOf <- MCStationsOf
  Procs = {p1, p2}
  Requests <- MCRequests
  None = None
INVARIANTS BoardOK StockFollowsTheKitchen BoardIsOwed ClosedAccountsSettled NoDeadlock
SYMMETRY Perms
