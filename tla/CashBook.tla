------------------------------ MODULE CashBook ------------------------------
(***************************************************************************)
(* The rows of a till (cash_registers, cash_movements) and its balance, as *)
(* cash.service.ts reads them.  The sign of a movement is in its type, the *)
(* amount is never negative.  Amounts are whole numbers of centavos: the   *)
(* code adds and subtracts Decimals and never divides one here.            *)
(***************************************************************************)
EXTENDS Integers, Functions

IncreaseTypes == {"CASH_IN", "SALE_PAYMENT"}

DecreaseTypes == {"CASH_OUT", "EXPENSE", "PAYABLE_PAYMENT", "SALE_REFUND"}

Signed(m) == IF m.type \in IncreaseTypes THEN m.amount ELSE -m.amount

RowsOf(r, rows) == {m \in rows : m.reg = r}

\* opening amount plus the signed movements of the till
ComputeBalance(opening, ofTill) == opening + SumFunction([m \in ofTill |-> Signed(m)])
=============================================================================
