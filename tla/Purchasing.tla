------------------------------ MODULE Purchasing ------------------------------
(***************************************************************************)
(* purchases.service.ts and payables.service.ts under concurrent requests: *)
(* an order of goods from draft to received, deliveries and returns to the *)
(* supplier, the debt they make grow and shrink, and the payments of it,   *)
(* some of them in cash out of a till.                                     *)
(*                                                                         *)
(* A transaction keeps the row locks it takes until it ends, and all it    *)
(* writes shows at its commit.  Amounts are centavos, quantities whole     *)
(* units; a quotient is exact here, the code keeps 20 digits of it.        *)
(***************************************************************************)
EXTENDS Waiting, Functions

CONSTANTS Purchases, Products,   \* products are numbers: stock is moved in their order
          Orders,                \* what may be ordered: units, net value by product, total
          Keys, Procs, Requests, None, Stock0, MaxCash,
          ManualKeys             \* which keys manual movements at the till come with

Lines == [Products -> Nat]

Request == [op : {"receive", "return", "pay"}, purchase : Purchases, key : Keys,
            lines : Lines, amount : Nat, cash : BOOLEAN]

ASSUME OrdersAssumption ==
    \A o \in Orders : /\ o.quantity \in Lines /\ o.subtotal \in Lines /\ o.total \in Nat
                      /\ o.total <= SumFunction(o.subtotal)
                      /\ SumFunction(o.subtotal) > 0
                      /\ \A x \in Products : o.quantity[x] = 0 => o.subtotal[x] = 0
ASSUME RequestsAssumption == Requests \subseteq Request
ASSUME ProductsAssumption == Products \subseteq Nat /\ IsFiniteSet(Products)
ASSUME StockAssumption == Stock0 \in Lines /\ MaxCash \in Nat /\ ManualKeys \subseteq Keys

VARIABLES status, order, received, returned,   \* of each purchase
          receipts, returns,                   \* purchase_receipts, purchase_returns
          payable, payments,
          stock,
          drawer,      \* the till named by the requests paid in cash
          movements,   \* of each key, the type of its row in cash_movements
          tx           \* the transaction each process runs

documents == <<receipts, returns, payments>>
tables == <<status, order, received, returned, documents, payable, stock, drawer,
            movements>>
vars == <<tables, tx>>

IdleTx == [pc |-> "idle", req |-> None, held |-> {}, inserted |-> FALSE, paidOut |-> 0,
           ans |-> "none"]

Nothing == [x \in Products |-> 0]

Init ==
    /\ status = [u \in Purchases |-> "NONE"]
    /\ order \in [Purchases -> Orders]
    /\ received = [u \in Purchases |-> Nothing]
    /\ returned = [u \in Purchases |-> Nothing]
    /\ receipts = {} /\ returns = {} /\ payments = {}
    /\ payable = [u \in Purchases |-> [status |-> "NONE", amount |-> 0]]
    /\ stock = Stock0
    /\ drawer = [open |-> FALSE, cash |-> 0]
    /\ movements = [k \in Keys |-> "NONE"]
    /\ tx = [p \in Procs |-> IdleTx]

-----------------------------------------------------------------------------
(* Reads.                                                                  *)

Receivable == {"CONFIRMED", "PARTIALLY_RECEIVED"}
Returnable == {"PARTIALLY_RECEIVED", "RECEIVED"}

WithKey(k, rows) == {row \in rows : row.key = k}

PaidFor(u) == SumFunction([y \in {z \in payments : z.purchase = u} |-> y.amount])

Plus(a, b) == [x \in Products |-> a[x] + b[x]]

\* buildItems: what is ordered, of how many units of each product at what cost
\* and discount, and with what discount on the whole.
Gross(item) == item.quantity * item.cost

NetOf(items) == [x \in Products |-> Gross(items[x]) - items[x].discount]

MayOrder(items, discount) ==
    /\ \A x \in Products : items[x].discount <= Gross(items[x])
    /\ discount <= SumFunction(NetOf(items))

BuildItems(items, discount) ==
    [quantity |-> [x \in Products |-> items[x].quantity], subtotal |-> NetOf(items),
     total |-> SumFunction(NetOf(items)) - discount]

\* ROUND_HALF_UP to the centavo
HalfUp(n, d) == (2 * n + d) \div (2 * d)

\* What some units of an order are worth: each at its net unit cost, then the
\* discount of the order spread over all of them.
Worth(o, units) ==
    LET ordered == {x \in Products : o.quantity[x] > 0}
        scale == FoldFunction(LAMBDA a, b : a * b, 1, [x \in ordered |-> o.quantity[x]])
        net == SumFunction([x \in ordered |->
                   units[x] * o.subtotal[x] * (scale \div o.quantity[x])])
    IN  HalfUp(net * o.total, scale * SumFunction(o.subtotal))

-----------------------------------------------------------------------------
(* Locks, and how a transaction goes on or ends.                           *)

PurchaseRow(u) == <<"purchases", u>>
PayableRow(u) == <<"payables", u>>
StockLock(x) == <<"stock", x>>
TillRow == <<"till", 0>>

HeldByOther(p, x) == \E q \in Procs \ {p} : x \in tx[q].held

GoTo(p, step) == tx' = [tx EXCEPT ![p].pc = step]

Hold(p, x, step) == tx' = [tx EXCEPT ![p].pc = step, ![p].held = @ \cup {x}]

\* Commit or rollback: all locks go, the answer is known.
Done(p, answer) == tx' = [tx EXCEPT ![p] =
    [IdleTx EXCEPT !.pc = "done", !.req = tx[p].req, !.ans = answer]]

Begin(p, q) ==
    /\ tx[p].pc = "idle"
    /\ tx' = [tx EXCEPT ![p] = [IdleTx EXCEPT !.pc = "lock", !.req = q]]
    /\ UNCHANGED tables

\* The answer goes out, or is lost on the way: the client may ask again.
Finish(p) == /\ tx[p].pc = "done"
             /\ tx' = [tx EXCEPT ![p] = IdleTx]
             /\ UNCHANGED tables

\* The process dies, or its transaction times out: all of it is undone.
Abort(p) == /\ tx[p].pc \notin {"idle", "done"}
            /\ tx' = [tx EXCEPT ![p] = IdleTx]
            /\ UNCHANGED tables

-----------------------------------------------------------------------------
(* The order itself: single statements under the lock of the purchase.     *)

Unlocked(x) == \A p \in Procs : x \notin tx[p].held

SetStatus(u, s) ==
    /\ status' = [status EXCEPT ![u] = s]
    /\ UNCHANGED <<received, returned, documents, payable, stock, drawer, movements, tx>>

Create(u, o) == /\ status[u] = "NONE"
                /\ order' = [order EXCEPT ![u] = o]
                /\ SetStatus(u, "DRAFT")

Update(u, o) == /\ status[u] = "DRAFT" /\ Unlocked(PurchaseRow(u))
                /\ order' = [order EXCEPT ![u] = o]
                /\ SetStatus(u, "DRAFT")

Confirm(u) == /\ status[u] = "DRAFT" /\ Unlocked(PurchaseRow(u))
              /\ SetStatus(u, "CONFIRMED")
              /\ UNCHANGED order

Cancel(u) == /\ status[u] \in {"DRAFT", "CONFIRMED"} /\ Unlocked(PurchaseRow(u))
             /\ SetStatus(u, "CANCELLED")
             /\ UNCHANGED order

-----------------------------------------------------------------------------
(* receive and returnToSupplier: the purchase is locked and the lines are  *)
(* checked before anything is written.                                     *)

\* requestHash: the lines are those of the receipt
SameReceipt(row, q) == row.purchase = q.purchase /\ row.lines = q.lines

\* FAULT: what is ordered is compared, not what is pending
FitsOrder(u, lines) == \A x \in Products : lines[x] <= order[u].quantity[x]

FitsPending(u, lines) ==
    \A x \in Products : lines[x] <= order[u].quantity[x] - received[u][x]

FitsReturnable(u, lines) ==
    \A x \in Products : lines[x] <= received[u][x] - returned[u][x]

ReceiveBegin(p) ==
    LET q == tx[p].req
        u == q.purchase
        found == WithKey(q.key, receipts)
    IN  /\ tx[p].pc = "lock" /\ q.op = "receive"
        /\ ~HeldByOther(p, PurchaseRow(u))
        /\ \/ status[u] = "NONE" /\ Done(p, "missing")
           \/ /\ status[u] # "NONE"
              /\ \E row \in found : Done(p, IF SameReceipt(row, q) THEN "ok" ELSE "conflict")
           \/ /\ status[u] # "NONE" /\ found = {}
              /\ \/ status[u] \notin Receivable /\ Done(p, "conflict")
                 \/ /\ status[u] \in Receivable
                    /\ IF FitsPending(u, q.lines) THEN Hold(p, PurchaseRow(u), "insert")
                       ELSE Done(p, "refused")
        /\ UNCHANGED tables

ReturnBegin(p) ==
    LET q == tx[p].req
        u == q.purchase
        found == WithKey(q.key, returns)
    IN  /\ tx[p].pc = "lock" /\ q.op = "return"
        /\ ~HeldByOther(p, PurchaseRow(u))
        /\ \/ status[u] = "NONE" /\ Done(p, "missing")
           \/ /\ status[u] # "NONE"
              /\ \E row \in found : Done(p, IF row.purchase = u THEN "ok" ELSE "conflict")
           \/ /\ status[u] # "NONE" /\ found = {}
              /\ \/ status[u] \notin Returnable /\ Done(p, "conflict")
                 \/ /\ status[u] \in Returnable
                    /\ IF FitsReturnable(u, q.lines) THEN Hold(p, PurchaseRow(u), "payable")
                       ELSE Done(p, "refused")
        /\ UNCHANGED tables

-----------------------------------------------------------------------------
(* addPayment of a payable: it is locked, and what is left to pay read.    *)

LeftToPay(u) == payable[u].amount - PaidFor(u)

\* FAULT: a payment is checked against the whole debt
FitsDebt(u, amount) == amount <= payable[u].amount

FitsBalance(u, amount) == amount <= LeftToPay(u)

PayBegin(p) ==
    LET q == tx[p].req
        u == q.purchase
        found == WithKey(q.key, payments)
    IN  /\ tx[p].pc = "lock" /\ q.op = "pay"
        /\ ~HeldByOther(p, PayableRow(u))
        /\ \/ payable[u].status = "NONE" /\ Done(p, "missing")
           \/ /\ payable[u].status # "NONE"
              /\ \E row \in found : Done(p, IF row.purchase = u THEN "ok" ELSE "conflict")
           \/ /\ payable[u].status # "NONE" /\ found = {}
              /\ IF FitsBalance(u, q.amount) THEN Hold(p, PayableRow(u), "insert")
                 ELSE Done(p, "refused")
        /\ UNCHANGED tables

-----------------------------------------------------------------------------
(* The row of the receipt, the return or the payment, unique by its key.   *)

DocumentsOf(op) == CASE op = "receive" -> receipts
                     [] op = "return" -> returns
                     [] op = "pay" -> payments

\* Another transaction has inserted this key and has not ended.
KeyTakenBy(p) ==
    {q \in Procs \ {p} : /\ tx[q].inserted
                         /\ tx[q].req.op = tx[p].req.op /\ tx[q].req.key = tx[p].req.key}

AfterInsert(q) == CASE q.op = "pay" /\ q.cash -> "find"
                    [] q.op = "pay" /\ ~q.cash -> "commit"
                    [] OTHER -> "stock"

InsertDocument(p) ==
    LET q == tx[p].req
    IN  /\ tx[p].pc = "insert"
        /\ KeyTakenBy(p) = {}
        /\ tx' = IF WithKey(q.key, DocumentsOf(q.op)) = {}
                  THEN [tx EXCEPT ![p].inserted = TRUE, ![p].pc = AfterInsert(q)]
                  ELSE [tx EXCEPT ![p] = [IdleTx EXCEPT !.pc = "resolve", !.req = q]]
        /\ UNCHANGED tables

\* FAULT: the conflict is taken for a repetition
AnotherPurchaseNever(row, u) == row.purchase # u /\ u \notin Purchases

AnotherPurchase(row, u) == row.purchase # u

\* runOrResolve...Conflict: the key of another purchase is a conflict, the
\* purchase's own is answered as it is.
ResolveConflict(p) ==
    LET q == tx[p].req
    IN  /\ tx[p].pc = "resolve"
        /\ Done(p, IF \E row \in WithKey(q.key, DocumentsOf(q.op)) :
                         AnotherPurchase(row, q.purchase)
                   THEN "conflict" ELSE "ok")
        /\ UNCHANGED tables

-----------------------------------------------------------------------------
(* The goods, product by product, each under its lock until the end.       *)

ProductsLeft(p) ==
    {x \in Products : tx[p].req.lines[x] > 0 /\ StockLock(x) \notin tx[p].held}

\* FAULT: lines are taken in the order of the request
NextProductsAnyOrder(left) == left

NextProducts(left) == {x \in left : \A y \in left : x <= y}

MoveStock(p) ==
    LET q == tx[p].req
        left == ProductsLeft(p)
    IN  /\ tx[p].pc = "stock"
        /\ \/ left = {} /\ GoTo(p, IF q.op = "receive" THEN "payable" ELSE "commit")
           \/ \E x \in NextProducts(left) :
                 /\ ~HeldByOther(p, StockLock(x))
                 /\ IF q.op = "return" /\ stock[x] < q.lines[x] THEN Done(p, "conflict")
                    ELSE Hold(p, StockLock(x), "stock")
        /\ UNCHANGED tables

-----------------------------------------------------------------------------
(* The debt.                                                               *)

\* A return may not bring the debt below what is paid already.
LeavesPaidCovered(p) ==
    LET u == tx[p].req.purchase
    IN  payable[u].amount - Worth(order[u], tx[p].req.lines) >= PaidFor(u)

\* lockPayableByPurchase: a delivery just takes the lock, if there is a row.
LockPayable(p) ==
    LET q == tx[p].req
        row == PayableRow(q.purchase)
    IN  /\ tx[p].pc = "payable"
        /\ ~HeldByOther(p, row)
        /\ \/ q.op = "receive" /\ Hold(p, row, "commit")
           \/ /\ q.op = "return"
              /\ IF payable[q.purchase].status # "NONE" /\ LeavesPaidCovered(p)
                 THEN Hold(p, row, "insert") ELSE Done(p, "conflict")
        /\ UNCHANGED tables

\* growOrCreatePayable: the debt is worth all that was received until now.
AmountAfterDelivery(u, lines) == Worth(order[u], Plus(received[u], lines))

DebtAfterDelivery(u, amount) ==
    [status |-> IF payable[u].status # "NONE" /\ amount <= PaidFor(u) THEN "PAID" ELSE "PENDING",
     amount |-> amount]

CommitReceive(p) ==
    LET q == tx[p].req
        u == q.purchase
        now == Plus(received[u], q.lines)
    IN  /\ tx[p].pc = "commit" /\ q.op = "receive"
        /\ received' = [received EXCEPT ![u] = now]
        /\ receipts' = receipts \cup {[key |-> q.key, purchase |-> u, lines |-> q.lines]}
        /\ stock' = Plus(stock, q.lines)
        /\ status' = [status EXCEPT ![u] =
               IF \A x \in Products : now[x] >= order[u].quantity[x]
               THEN "RECEIVED" ELSE "PARTIALLY_RECEIVED"]
        /\ payable' = [payable EXCEPT ![u] =
               DebtAfterDelivery(u, AmountAfterDelivery(u, q.lines))]
        /\ Done(p, "ok")
        /\ UNCHANGED <<order, returned, returns, payments, drawer, movements>>

\* The status of a debt of this amount.
DebtStatus(u, amount) == IF amount <= PaidFor(u) THEN "PAID" ELSE "PENDING"

CommitReturn(p) ==
    LET q == tx[p].req
        u == q.purchase
        amount == payable[u].amount - Worth(order[u], q.lines)
    IN  /\ tx[p].pc = "commit" /\ q.op = "return"
        /\ returned' = [returned EXCEPT ![u] = Plus(@, q.lines)]
        /\ returns' = returns \cup {[key |-> q.key, purchase |-> u, lines |-> q.lines]}
        /\ stock' = [x \in Products |-> stock[x] - q.lines[x]]
        /\ payable' = [payable EXCEPT ![u] =
               [status |-> DebtStatus(u, amount), amount |-> amount]]
        /\ Done(p, "ok")
        /\ UNCHANGED <<status, order, received, receipts, payments, drawer, movements>>

-----------------------------------------------------------------------------
(* Paying, in cash from a till or otherwise.                               *)

\* The open till of the terminal, as last committed.
FindTill(p) ==
    /\ tx[p].pc = "find"
    /\ GoTo(p, IF drawer.open THEN "till" ELSE "commit")
    /\ UNCHANGED tables

TillHolds(amount) == amount <= drawer.cash

\* The movement is under the key of the payment.  If a manual movement has that
\* key the insert fails, the payment is rolled back with it, and what the client
\* is told is looked up among the payments.
UseTill(p) ==
    LET q == tx[p].req
        amount == q.amount
    IN  /\ tx[p].pc = "till"
        /\ ~HeldByOther(p, TillRow)
        /\ \/ ~drawer.open /\ GoTo(p, "commit")
           \/ drawer.open /\ ~TillHolds(amount) /\ Done(p, "refused")
           \/ /\ drawer.open /\ TillHolds(amount) /\ movements[q.key] # "NONE"
              /\ tx' = [tx EXCEPT ![p] = [IdleTx EXCEPT !.pc = "resolve", !.req = q]]
           \/ /\ drawer.open /\ TillHolds(amount) /\ movements[q.key] = "NONE"
              /\ tx' = [tx EXCEPT ![p].pc = "commit", ![p].paidOut = amount,
                                  ![p].held = @ \cup {TillRow}]
        /\ UNCHANGED tables

CommitPayment(p) ==
    LET q == tx[p].req
        u == q.purchase
    IN  /\ tx[p].pc = "commit" /\ q.op = "pay"
        /\ payments' = payments \cup {[key |-> q.key, purchase |-> u, amount |-> q.amount]}
        /\ payable' = [payable EXCEPT ![u].status =
               IF PaidFor(u) + q.amount >= payable[u].amount THEN "PAID" ELSE "PENDING"]
        /\ drawer' = [drawer EXCEPT !.cash = @ - tx[p].paidOut]
        /\ movements' = IF TillRow \in tx[p].held
                        THEN [movements EXCEPT ![q.key] = "PAYABLE_PAYMENT"] ELSE movements
        /\ Done(p, "ok")
        /\ UNCHANGED <<status, order, received, returned, receipts, returns, stock>>

-----------------------------------------------------------------------------
(* What others do with the stock and with the till, under the same locks.  *)

Sell(x) ==
    /\ stock[x] > 0 /\ Unlocked(StockLock(x))
    /\ stock' = [stock EXCEPT ![x] = @ - 1]
    /\ UNCHANGED <<status, order, received, returned, documents, payable, drawer, movements, tx>>

UseDrawer(open, cash) ==
    /\ Unlocked(TillRow)
    /\ drawer' = [open |-> open, cash |-> cash]
    /\ UNCHANGED <<status, order, received, returned, documents, payable, stock, tx>>

OpenTill(cash) == ~drawer.open /\ UseDrawer(TRUE, cash) /\ UNCHANGED movements

\* A manual CASH_IN, under the key k or, if that is None, under one of no payment.
TakeIn(k) == /\ drawer.open /\ drawer.cash < MaxCash
             /\ UseDrawer(TRUE, drawer.cash + 1)
             /\ \/ k = None /\ UNCHANGED movements
                \/ /\ k \in ManualKeys /\ movements[k] = "NONE"
                   /\ movements' = [movements EXCEPT ![k] = "CASH_IN"]

CloseTill == drawer.open /\ UseDrawer(FALSE, 0) /\ UNCHANGED movements

Others ==
    \/ \E u \in Purchases : \/ \E o \in Orders : Create(u, o) \/ Update(u, o)
                            \/ Confirm(u) \/ Cancel(u)
    \/ \E x \in Products : Sell(x)
    \/ \E cash \in 0..MaxCash : OpenTill(cash)
    \/ \E k \in ManualKeys \cup {None} : TakeIn(k)
    \/ CloseTill

-----------------------------------------------------------------------------
Receive(p) == ReceiveBegin(p) \/ CommitReceive(p)
ReturnToSupplier(p) == ReturnBegin(p) \/ CommitReturn(p)
AddPayment(p) == PayBegin(p) \/ FindTill(p) \/ UseTill(p) \/ CommitPayment(p)

Step(p) == \/ Receive(p) \/ ReturnToSupplier(p) \/ AddPayment(p)
           \/ InsertDocument(p) \/ ResolveConflict(p) \/ MoveStock(p) \/ LockPayable(p)

Next == \/ \E p \in Procs : \/ \E q \in Requests : Begin(p, q)
                            \/ Step(p) \/ Finish(p) \/ Abort(p)
        \/ Others

Spec == Init /\ [][Next]_vars

(* The locks a transaction waits for, and what it waits for to insert a key. *)
Wanted(p) ==
    LET q == tx[p].req
    IN  CASE tx[p].pc = "lock" -> {IF q.op = "pay" THEN PayableRow(q.purchase)
                                   ELSE PurchaseRow(q.purchase)}
          [] tx[p].pc = "stock" -> {StockLock(x) : x \in NextProducts(ProductsLeft(p))}
          [] tx[p].pc = "payable" -> {PayableRow(q.purchase)}
          [] tx[p].pc = "till" -> {TillRow}
          [] OTHER -> {}

WaitsFor(p) == {o \in Procs \ {p} : Wanted(p) \cap tx[o].held # {}}
               \cup (IF tx[p].pc = "insert" THEN KeyTakenBy(p) ELSE {})

-----------------------------------------------------------------------------
(* Properties.                                                             *)

Steps == {"idle", "lock", "insert", "stock", "payable", "find", "till", "commit",
          "resolve", "done"}
Locks == ({"purchases", "payables"} \X Purchases) \cup ({"stock"} \X Products) \cup {TillRow}

\* Every variable has its type; stock and till never go below zero, and what a
\* transaction is going to write it writes under the lock of its row.
TypeOK ==
    /\ status \in [Purchases -> {"NONE", "DRAFT", "CONFIRMED", "PARTIALLY_RECEIVED",
                                 "RECEIVED", "CANCELLED"}]
    /\ order \in [Purchases -> Orders]
    /\ received \in [Purchases -> Lines] /\ returned \in [Purchases -> Lines]
    /\ receipts \cup returns \subseteq [key : Keys, purchase : Purchases, lines : Lines]
    /\ payments \subseteq [key : Keys, purchase : Purchases, amount : Nat]
    /\ payable \in [Purchases -> [status : {"NONE", "PENDING", "PAID"}, amount : Nat]]
    /\ stock \in Lines
    /\ drawer \in [open : BOOLEAN, cash : Nat]
    /\ movements \in [Keys -> {"NONE", "CASH_IN", "PAYABLE_PAYMENT"}]
    /\ tx \in [Procs -> [pc : Steps, req : Requests \cup {None}, held : SUBSET Locks,
                         inserted : BOOLEAN, paidOut : Nat,
                         ans : {"none", "ok", "conflict", "refused", "missing"}]]
    /\ \A p \in Procs : tx[p].pc \in {"insert", "commit"} =>
          \/ PurchaseRow(tx[p].req.purchase) \in tx[p].held
          \/ tx[p].req.op = "pay" /\ PayableRow(tx[p].req.purchase) \in tx[p].held

LinesOf(u, rows, x) == SumFunction([row \in {d \in rows : d.purchase = u} |-> row.lines[x]])

\* What an order says it received and gave back is what its receipts and
\* returns say, each counted once; more is never received than ordered, nor
\* given back than received, nor anything received of a cancelled order.
GoodsAccounted ==
    \A u \in Purchases, x \in Products :
        /\ received[u][x] = LinesOf(u, receipts, x)
        /\ returned[u][x] = LinesOf(u, returns, x)
        /\ returned[u][x] <= received[u][x]
        /\ received[u][x] <= order[u].quantity[x]
        /\ status[u] = "CANCELLED" => received[u][x] = 0

\* The supplier is never paid more than is owed, whatever payments, deliveries
\* and returns run at once.
NeverOverpaid == \A u \in Purchases : PaidFor(u) <= payable[u].amount

\* A debt says PAID when nothing is left to pay and PENDING otherwise; a debt
\* of nothing may say either.
DebtStatusTrue ==
    \A u \in Purchases : payable[u].amount > 0 =>
        (payable[u].status = "PAID" <=> PaidFor(u) = payable[u].amount)

\* An order received in full, nothing given back, owes exactly its total:
\* deliveries in parts lose no centavo to rounding.
ReceivedInFullOwesTotal ==
    \A u \in Purchases : status[u] = "RECEIVED" /\ returned[u] = Nothing =>
        payable[u].amount = order[u].total

\* No cash leaves the till for a payment that is not on record.
CashOutIsPaid ==
    \A k \in Keys : movements[k] = "PAYABLE_PAYMENT" => WithKey(k, payments) # {}

\* However deliveries, returns and payments meet, the orders, their documents, the
\* debts and the till agree, with the types of all tables (receive,
\* returnToSupplier, growOrCreatePayable, addPayment).
PurchasesOK ==
    /\ TypeOK /\ GoodsAccounted /\ NeverOverpaid /\ DebtStatusTrue
    /\ ReceivedInFullOwesTotal /\ CashOutIsPaid

\* A payment in cash whose key a manual movement of the till has.
KeyOfManualMovement(q) == q.op = "pay" /\ q.cash /\ movements[q.key] = "CASH_IN"

\* A client told ok has the receipt, return or payment of its key on record for
\* the purchase it named, and a receipt has the lines it gave.  The code fails
\* this for a payment in cash under the key of a manual movement, which is rolled
\* back and answered ok (runOrResolveConflict), so those are left out.
AnswersAreTrue ==
    \A p \in Procs : tx[p].ans = "ok" =>
        \/ KeyOfManualMovement(tx[p].req)
        \/ \E row \in WithKey(tx[p].req.key, DocumentsOf(tx[p].req.op)) :
              /\ row.purchase = tx[p].req.purchase
              /\ tx[p].req.op = "receive" => row.lines = tx[p].req.lines

\* Deliveries, returns and payments of several orders never wait for each other
\* in a circle: each takes the purchase, the products in order, then the debt.
NoDeadlock == InACircle([p \in Procs |-> WaitsFor(p)]) = {}
=============================================================================
