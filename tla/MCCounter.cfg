SPECIFICATION MCSpec
CONSTANTS
  ana = ana
  bea = bea
  g1 = g1
  k1 = k1
  Cashiers = {ana, bea}
  Waiters = {leo}
  Clerks = {eva}
  Guests = {g1, g2}
  RequestKeys = {k1, k2}
  PayKeys = {p1, p2}
  Calls = {c1, c2}
  Units = {1, 2, 3}
  Stock0 = 2
  Null = Null
INVARIANTS MoneyFollowsGoods OneOrderEach
SYMMETRY Perms
CHECK_DEADLOCK FALSE
