----------------------------- MODULE SaleLedger -----------------------------
(***************************************************************************)
(* What a sale promises, one whole operation at a time: goods leave the    *)
(* warehouse once and come back once, nobody pays more than the total, the *)
(* status says how much was paid, and a return gives back what was paid.   *)
(***************************************************************************)
EXTENDS Integers

CONSTANTS Sales, Products, Total, Items, Credit, Stock0

VARIABLES sale, paid, refunded, receivable, stock

vars == <<sale, paid, refunded, receivable, stock>>

Init == /\ sale = [s \in Sales |-> "NONE"]
        /\ paid = [s \in Sales |-> 0]
        /\ refunded = [s \in Sales |-> 0]
        /\ receivable = [s \in Sales |-> "NONE"]
        /\ stock = Stock0

StatusFor(s, amount) == CASE amount >= Total[s] -> "PAID"
                          [] amount = 0 /\ Total[s] > 0 -> "CONFIRMED"
                          [] OTHER -> "PARTIALLY_PAID"

Create(s) == /\ sale[s] = "NONE"
             /\ sale' = [sale EXCEPT ![s] = "DRAFT"]
             /\ UNCHANGED <<paid, refunded, receivable, stock>>

Confirm(s, amount) ==
    /\ sale[s] = "DRAFT"
    /\ amount <= Total[s]
    /\ \A x \in Products : Items[s][x] <= stock[x]
    /\ stock' = [x \in Products |-> stock[x] - Items[s][x]]
    /\ paid' = [paid EXCEPT ![s] = amount]
    /\ sale' = [sale EXCEPT ![s] = StatusFor(s, amount)]
    /\ receivable' = [receivable EXCEPT ![s] =
                        IF s \in Credit /\ amount < Total[s] THEN "PENDING" ELSE @]
    /\ UNCHANGED refunded

Pay(s, amount) ==
    /\ sale[s] \in {"CONFIRMED", "PARTIALLY_PAID"}
    /\ amount > 0 /\ paid[s] + amount <= Total[s]
    /\ paid' = [paid EXCEPT ![s] = @ + amount]
    /\ sale' = [sale EXCEPT ![s] = StatusFor(s, paid[s] + amount)]
    /\ receivable' = [receivable EXCEPT ![s] =
                        IF @ # "NONE" /\ paid[s] + amount = Total[s] THEN "PAID" ELSE @]
    /\ UNCHANGED <<refunded, stock>>

Cancel(s) == /\ sale[s] = "DRAFT"
             /\ sale' = [sale EXCEPT ![s] = "CANCELLED"]
             /\ UNCHANGED <<paid, refunded, receivable, stock>>

Return(s) ==
    /\ sale[s] \in {"CONFIRMED", "PARTIALLY_PAID", "PAID"}
    /\ sale' = [sale EXCEPT ![s] = "REFUNDED"]
    /\ refunded' = [refunded EXCEPT ![s] = paid[s]]
    /\ receivable' = [receivable EXCEPT ![s] = IF @ = "NONE" THEN @ ELSE "CANCELLED"]
    /\ stock' = [x \in Products |-> stock[x] + Items[s][x]]
    /\ UNCHANGED paid

Next == \E s \in Sales : \/ Create(s) \/ Cancel(s) \/ Return(s)
                         \/ \E amount \in 0..Total[s] : Confirm(s, amount) \/ Pay(s, amount)

Spec == Init /\ [][Next]_vars
=============================================================================
