------------------------------ MODULE MCKitchen ------------------------------
(* A small instance of Kitchen: an order of two stations, one of one. *)
EXTENDS Kitchen, TLC

CONSTANTS o1, o2, grill, bar

Perms == Permutations(Procs)

MCStationsOf == [o \in Orders |-> IF o = o1 THEN {grill, bar} ELSE {grill}]

For(op, a, o) == [op |-> op, account |-> a, order |-> o]

MCRequests ==
    { For("checkout", None, o1), For("cancel", None, o1), For("return", None, o1),
      For("dispatch", 1, o1), For("dispatch", 1, o2), For("close", 1, None),
      [op |-> "merge", account |-> 1, from |-> 2], [op |-> "merge", account |-> 2, from |-> 1],
      [op |-> "split", account |-> 1, to |-> 2, orders |-> {o1}] }
=============================================================================
