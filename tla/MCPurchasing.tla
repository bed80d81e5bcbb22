----------------------------- MODULE MCPurchasing -----------------------------
(* Small instances of Purchasing: orders whose prices divide and do not. *)
EXTENDS Purchasing, TLC

CONSTANTS u1, u2, k1, k2

Perms == Permutations(Procs)

MCProducts == {1, 2}
Units(a, b) == [x \in MCProducts |-> IF x = 1 THEN a ELSE b]

Item(quantity, cost, discount) == [quantity |-> quantity, cost |-> cost, discount |-> discount]
NotOrdered == Item(0, 0, 0)
Draft(first, second, discount) == [items |-> <<first, second>>, discount |-> discount]

\* 3 units for 10 less 1 of discount: a unit is worth 3 centavos.  2 units for 3:
\* a unit is worth 1.50, rounded up to 2.  1 unit of each product.  And two that are
\* refused: a discount larger than its line, and one larger than the order.
Drafts == { Draft(Item(3, 4, 2), NotOrdered, 1), Draft(Item(2, 2, 1), NotOrdered, 0),
            Draft(Item(1, 2, 0), Item(1, 1, 0), 0),
            Draft(Item(1, 2, 3), Item(1, 5, 0), 0), Draft(Item(1, 2, 0), NotOrdered, 3) }

MCOrders == {BuildItems(d.items, d.discount) : d \in {e \in Drafts : MayOrder(e.items, e.discount)}}
OneOfEach == BuildItems(<<Item(1, 2, 0), Item(1, 1, 0)>>, 0)

MCStock0 == Units(0, 1)

Receive1(u, k, lines) == [op |-> "receive", purchase |-> u, key |-> k, lines |-> lines,
                          amount |-> 0, cash |-> FALSE]
Return1(u, k, lines) == [op |-> "return", purchase |-> u, key |-> k, lines |-> lines,
                         amount |-> 0, cash |-> FALSE]
Pay1(u, k, amount, cash) == [op |-> "pay", purchase |-> u, key |-> k, lines |-> Units(0, 0),
                             amount |-> amount, cash |-> cash]

\* One order delivered in parts, given back in part and paid meanwhile.
OneOrder ==
    { Receive1(u1, k1, Units(1, 0)), Receive1(u1, k2, Units(2, 0)),
      Receive1(u1, k2, Units(1, 0)),
      Return1(u1, k1, Units(1, 0)),
      Pay1(u1, k1, 2, TRUE), Pay1(u1, k2, 3, FALSE) }

\* Two orders with the same products and till, that use each other's keys.
SharedKeys ==
    { Receive1(u1, k1, Units(1, 1)), Receive1(u2, k1, Units(1, 1)),
      Receive1(u2, k2, Units(1, 1)), Return1(u1, k1, Units(1, 1)),
      Pay1(u1, k1, 1, FALSE), Pay1(u2, k1, 1, TRUE) }

MCRequests == OneOrder \cup SharedKeys

\* Each behaviour is one of two scenes: one order with its deliveries, returns
\* and payments, or two orders that use each other's keys, as the till does too.
VARIABLE scene

InScene ==
    /\ order[u2] = OneOfEach
    /\ \/ /\ scene = "one"
          /\ \A p \in Procs : tx[p].req \in OneOrder \cup {None}
          /\ order[u1] # OneOfEach /\ status[u2] = "NONE" /\ movements[k1] # "CASH_IN"
       \/ /\ scene = "two"
          /\ \A p \in Procs : tx[p].req \in SharedKeys \cup {None}
          /\ order[u1] = OneOfEach /\ drawer.cash <= 1

MCInit == Init /\ scene \in {"one", "two"} /\ InScene
MCSpec == MCInit /\ [][Next /\ scene' = scene /\ InScene']_<<vars, scene>>
=============================================================================
