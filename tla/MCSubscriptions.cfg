SPECIFICATION MCSpec
CONSTANTS
  u1 = u1  u2 = u2  u3 = u3  b1 = b1  b2 = b2  b3 = b3  free = free  basic = basic
  Users = {u1, u2, u3}
  Founder = u1
  Branches = {b1, b2, b3}
  MainBranch = b1
  Products = {}
  Plans = {free, basic}
  FreePlan = free
  Limit <- MCLimit
  Sessions = {p1, p2}
  Requests <- MCRequests
  Null = Null
  Period = 2
  LastDay = 3
  LastEnd = 6
INVARIANTS GrowthKeepsLimits ActiveMeansPaid
PROPERTY CancelledBlocks
SYMMETRY Perms
