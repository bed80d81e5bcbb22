--------------------------- MODULE MCCashRegister ---------------------------
(* Small instances of CashRegister. *)
EXTENDS CashRegister

CONSTANTS r1, r2, t1, t9, kOpen1, kOpen2, kIn, kExp, kClose1,
          kSale, kPay, kRefund

At(type, k, at, amount) == [type |-> type, key |-> k, at |-> at, amount |-> amount]

MCAmounts == 0..2

\* One terminal and two openings.
Shift == { At("open", kOpen1, t1, 1), At("open", kOpen2, t1, 0), At("close", kClose1, r1, 2) }

\* The cashier's own movements, and keys used twice with other data: of a movement, of
\* a close with another count, of an opening at a terminal that is not there.
ByHand == Shift \cup { At("CASH_IN", kIn, r1, 1), At("CASH_OUT", kIn, r1, 1),
                       At("EXPENSE", kExp, r1, 1),
                       At("close", kClose1, r1, 1), At("open", kOpen1, t9, 1) }

\* What other services bring to the till and take out of it, open or not.
ByHook == Shift \cup { At("CASH_IN", kIn, r1, 1), At("SALE_PAYMENT", kSale, t1, 1),
                       At("PAYABLE_PAYMENT", kPay, t1, 2),
                       At("SALE_REFUND", kRefund, t1, 1) }

TillRequests == ByHand \cup ByHook

\* Each behaviour takes its requests from one of the two.
VARIABLE scene
InScene == LET asked == IF scene = "hand" THEN ByHand ELSE ByHook
           IN  \A p \in Procs : req[p] \in asked \cup {None}

MCInit == Init /\ scene \in {"hand", "hook"}
MCSpec == MCInit /\ [][Next /\ scene' = scene /\ InScene']_<<vars, scene>> /\ Fairness
=============================================================================
