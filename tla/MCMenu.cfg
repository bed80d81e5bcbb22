SPECIFICATION MenuSpec
CONSTANTS
  Articles = {"chicken", "potato", "rice"}
  Entries = {"e1", "e2"}
  Stations = {"grill", "fryer"}
  Orders = {o1, o2}
  Forms <- MCForms
  Pausable = {"potato", "rice"}
  Tickets <- MCTickets
  Goods0 <- MCGoods0
  Nil = Nil
INVARIANTS PagesForesee OrdersKeepTheirMenu
SYMMETRY Perms
