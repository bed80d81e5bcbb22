------------------------------- MODULE MCSales -------------------------------
(* A small instance of Sales: three sales of a terminal, two products, and a till. *)
EXTENDS Sales

CONSTANTS s1, s2, s3, r1, t1, t2, k1, k2, m1

MCProducts == {1, 2}
MCTotal == [s \in Sales |-> 2]
\* There is enough for s1 and s2, and not for s1 and s3.
MCItems == [s \in Sales |-> [x \in MCProducts |-> IF s = s3 /\ x = 2 THEN 2 ELSE 1]]
MCTerminalOf == [s \in Sales |-> t1]
MCStock0 == [x \in MCProducts |-> 2]

Pay(k, method, amount) == [key |-> k, method |-> method, amount |-> amount]
Ask(op, s, pays) == [op |-> op, sale |-> s, pays |-> pays, at |-> None]
ReturnAt(s, t) == [op |-> "return", sale |-> s, pays |-> << >>, at |-> t]

\* One sale paid in cash and by card, against a till that opens and closes, or
\* belongs to another terminal; another sale wants the last goods.
OneSale ==
    { Ask("confirm", s1, <<Pay(k1, "CASH", 1), Pay(k2, "CARD", 1)>>),
      Ask("confirm", s3, << >>), Ask("return", s1, << >>), ReturnAt(s1, t2),
      Ask("cancel", s1, << >>) }

\* Two sales that share the goods, the till and a payment key, so that one can
\* hold the till and wait for the key while the other does the reverse, and a payment
\* that is too much for a sale paid in part.
TwoSales ==
    { Ask("confirm", s1, <<Pay(k1, "CASH", 1), Pay(k2, "CASH", 1)>>),
      Ask("confirm", s1, << >>), Ask("confirm", s2, << >>),
      Ask("pay", s2, <<Pay(k2, "CASH", 1)>>), Ask("pay", s2, <<Pay(k1, "CASH", 2)>>),
      Ask("return", s2, << >>) }

MCRequests == OneSale \cup TwoSales

\* Each behaviour is one of two scenes: one sale and a till that others use too,
\* or two sales that use each other's keys.
VARIABLE scene

InScene ==
    \/ /\ scene = "one" /\ sale[s2] = "NONE"
       /\ \A p \in Procs : tx[p].req \in OneSale \cup {None}
    \/ /\ scene = "two" /\ sale[s3] = "NONE" /\ WithKey(m1, movements) = {}
       /\ \A p \in Procs : tx[p].req \in TwoSales \cup {None}

MCInit == Init /\ scene \in {"one", "two"} /\ InScene
MCSpec == /\ MCInit
          /\ [][Next /\ scene' = scene /\ InScene']_<<vars, scene>>
          /\ Fairness
=============================================================================
