------------------------------- MODULE Sales -------------------------------
(***************************************************************************)
(* sales.service.ts under concurrent requests: a sale from draft to paid,  *)
(* cancelled or returned, the stock it takes, the payments under their     *)
(* idempotency keys, the receivable of a sale on credit, and the cash it   *)
(* moves through tills that other people open, use and close meanwhile.    *)
(*                                                                         *)
(* A transaction gathers what it writes and the locks it holds; both show  *)
(* to the others only at its commit, except that a payment row it has      *)
(* inserted makes whoever inserts the same key wait (unique index).        *)
(* Sales of the shop only: a sale with a restaurant order is not modelled  *)
(* here.                                                                   *)
(***************************************************************************)
EXTENDS CashBook, FiniteSets, Sequences, Waiting

CONSTANTS Sales, Products,     \* products are numbers: stock is taken in their order
          Registers, Terminals, Keys, ManualKeys, Procs, Requests, None,
          Total,               \* of each sale
          Items,               \* of each sale, the quantity of each product
          Credit,              \* the sales with a customer
          TerminalOf,          \* the point of sale of each sale
          Stock0

Payment == [key : Keys, method : {"CASH", "CARD"}, amount : Nat \ {0}]

\* at: where a return is paid out, if the client says so
Request == [op : {"confirm", "pay", "cancel", "return"}, sale : Sales, pays : Seq(Payment),
            at : Terminals \cup {None}]

ASSUME TotalAssumption == Total \in [Sales -> Nat]
ASSUME ItemsAssumption == Items \in [Sales -> [Products -> Nat]]
ASSUME ProductsAssumption == Products \subseteq Nat
ASSUME StockAssumption == Stock0 \in [Products -> Nat]
ASSUME CreditAssumption == Credit \subseteq Sales
ASSUME TerminalAssumption == TerminalOf \in [Sales -> Terminals]
ASSUME RequestsAssumption ==
    /\ Requests \subseteq Request
    /\ \A q \in Requests : q.op = "pay" => Len(q.pays) = 1
    /\ None \notin Requests
\* A lock has the name of its row, and a product's is no other row's.
ASSUME NamesAssumption == Products \cap (Sales \cup Registers) = {}

VARIABLES sale,        \* status of each row of sales
          payments, refunds, receivable, stock,
          register, movements,   \* the tills
          tx           \* the transaction each process runs

tables == <<sale, payments, refunds, receivable, stock, register, movements>>
vars == <<tables, tx>>

IdleTx == [pc |-> "idle", req |-> None, i |-> 1, held |-> {}, pays |-> {},
           moves |-> {}, till |-> None, ans |-> "none"]

NoTill == [status |-> "NONE", terminal |-> None, expected |-> 0]

Init ==
    /\ sale = [s \in Sales |-> "NONE"]
    /\ payments = {} /\ refunds = {}
    /\ receivable = [s \in Sales |-> "NONE"]
    /\ stock = Stock0
    /\ register = [r \in Registers |-> NoTill]
    /\ movements = {}
    /\ tx = [p \in Procs |-> IdleTx]

-----------------------------------------------------------------------------
(* Reads.                                                                  *)

OpenForPayment == {"CONFIRMED", "PARTIALLY_PAID", "PAID"}
Returnable == {"CONFIRMED", "PARTIALLY_PAID", "PAID"}

SumOf(set) == SumFunction([row \in set |-> row.amount])

PaymentsOf(s) == {y \in payments : y.sale = s}
CashOf(set) == {y \in set : y.method = "CASH"}

WithKey(k, set) == {y \in set : y.key = k}

\* FAULT: a key is recognised whatever sale it paid
SamePaymentAnySale(row, s, pay) ==
    s \in Sales /\ row.method = pay.method /\ row.amount = pay.amount

\* The row says what the request says.
SamePayment(row, s, pay) ==
    row.sale = s /\ row.method = pay.method /\ row.amount = pay.amount

OpenAt(t) == {r \in Registers : register[r].status = "OPEN" /\ register[r].terminal = t}

Balance(r) == ComputeBalance(0, RowsOf(r, movements))

StatusFor(s, amount) == CASE amount >= Total[s] -> "PAID"
                          [] amount > 0 /\ amount < Total[s] -> "PARTIALLY_PAID"
                          [] OTHER -> "CONFIRMED"

-----------------------------------------------------------------------------
(* Locks, and how a transaction goes on or ends.                           *)

\* FAULT: a row read without FOR UPDATE
HeldByNobody(p, x) == p # p \/ x # x

HeldByOther(p, x) == \E q \in Procs \ {p} : x \in tx[q].held

At(p, step, op) == tx[p].pc = step /\ tx[p].req.op = op

GoTo(p, step) == tx' = [tx EXCEPT ![p].pc = step]

Hold(p, x, step) == tx' = [tx EXCEPT ![p].pc = step, ![p].held = @ \cup {x}]

\* Commit or rollback: everything held is released, the answer is known.
Done(p, answer) == tx' = [tx EXCEPT ![p] =
    [IdleTx EXCEPT !.pc = "done", !.req = tx[p].req, !.ans = answer]]

\* P2002 aborts the transaction; a new one decides what to answer.
Undone(p) == tx' = [tx EXCEPT ![p] =
    IF tx[p].req.op = "return"
    THEN [IdleTx EXCEPT !.pc = "done", !.req = tx[p].req, !.ans = "error"]
    ELSE [IdleTx EXCEPT !.pc = "resolve", !.req = tx[p].req]]

Begin(p, q) ==
    /\ tx[p].pc = "idle"
    /\ tx' = [tx EXCEPT ![p] = [IdleTx EXCEPT !.pc = "lock", !.req = q]]
    /\ UNCHANGED tables

\* The answer goes out, or is lost on the way: the client may ask again.
Finish(p) == /\ tx[p].pc = "done"
             /\ tx' = [tx EXCEPT ![p] = IdleTx]
             /\ UNCHANGED tables

\* The process dies, or its transaction times out: all of it is undone.
Abort(p) == /\ tx[p].pc \notin {"idle", "done"}
            /\ tx' = [tx EXCEPT ![p] = IdleTx]
            /\ UNCHANGED tables

-----------------------------------------------------------------------------
(* The sale row is locked, and its status decides.                         *)

Create(s) == /\ sale[s] = "NONE"
             /\ sale' = [sale EXCEPT ![s] = "DRAFT"]
             /\ UNCHANGED <<payments, refunds, receivable, stock, register, movements, tx>>

\* A confirmation of a confirmed sale repeats nothing, whatever payments it carries.
ConfirmReplay(s, pays) ==
    \A n \in 1..Len(pays) : \A row \in WithKey(pays[n].key, payments) :
        SamePayment(row, s, pays[n])

ConfirmBegin(p) ==
    LET s == tx[p].req.sale
    IN  /\ At(p, "lock", "confirm")
        /\ ~HeldByOther(p, s)
        /\ \/ sale[s] = "NONE" /\ Done(p, "missing")
           \/ sale[s] \in {"CANCELLED", "REFUNDED"} /\ Done(p, "conflict")
           \/ /\ sale[s] \in OpenForPayment
              /\ Done(p, IF ConfirmReplay(s, tx[p].req.pays) THEN "ok" ELSE "conflict")
           \/ sale[s] = "DRAFT" /\ Hold(p, s, "stock")
        /\ UNCHANGED tables

AddPaymentBegin(p) ==
    LET s == tx[p].req.sale
        pay == tx[p].req.pays[1]
        found == WithKey(pay.key, payments)
    IN  /\ At(p, "lock", "pay")
        /\ ~HeldByOther(p, s)
        /\ \/ sale[s] = "NONE" /\ Done(p, "missing")
           \/ /\ sale[s] # "NONE"
              /\ \E row \in found :
                    Done(p, IF SamePayment(row, s, pay) THEN "ok" ELSE "conflict")
           \/ /\ sale[s] # "NONE" /\ found = {}
              /\ IF sale[s] \in OpenForPayment THEN Hold(p, s, "pay")
                 ELSE Done(p, "conflict")
        /\ UNCHANGED tables

Cancel(p) ==
    LET s == tx[p].req.sale
    IN  /\ At(p, "lock", "cancel")
        /\ ~HeldByOther(p, s)
        /\ \/ /\ sale[s] = "DRAFT"
              /\ sale' = [sale EXCEPT ![s] = "CANCELLED"]
              /\ Done(p, "ok")
           \/ /\ sale[s] # "DRAFT"
              /\ Done(p, CASE sale[s] = "NONE" -> "missing"
                           [] sale[s] = "CANCELLED" -> "ok"
                           [] OTHER -> "conflict")
              /\ UNCHANGED sale
        /\ UNCHANGED <<payments, refunds, receivable, stock, register, movements>>

ReturnBegin(p) ==
    LET s == tx[p].req.sale
    IN  /\ At(p, "lock", "return")
        /\ ~HeldByOther(p, s)
        /\ \/ sale[s] \in Returnable /\ Hold(p, s, "stock")
           \/ /\ sale[s] \notin Returnable
              /\ Done(p, CASE sale[s] = "NONE" -> "missing"
                           [] sale[s] = "REFUNDED" -> "ok"
                           [] OTHER -> "conflict")
        /\ UNCHANGED tables

-----------------------------------------------------------------------------
(* Stock, one product after the other, each under its lock until the end.  *)

ProductsLeft(p) ==
    {x \in Products : Items[tx[p].req.sale][x] > 0} \ tx[p].held

\* components are sorted by product, so that two sales never cross
NextProducts(left) == {x \in left : \A y \in left : x <= y}

EnoughStock(s, x) == stock[x] >= Items[s][x]

MoveStock(p) ==
    LET left == ProductsLeft(p)
        goesOut == tx[p].req.op = "confirm"
    IN  /\ tx[p].pc = "stock"
        /\ \/ left = {} /\ GoTo(p, IF goesOut THEN "pay" ELSE "refund")
           \/ \E x \in NextProducts(left) :
                 /\ ~HeldByOther(p, x)
                 /\ IF goesOut /\ ~EnoughStock(tx[p].req.sale, x)
                    THEN Done(p, "conflict")
                    ELSE Hold(p, x, "stock")
        /\ UNCHANGED tables

-----------------------------------------------------------------------------
(* applyPayment, once per payment of the request.                          *)

PaidBefore(p) == IF tx[p].req.op = "confirm" THEN 0 ELSE SumOf(PaymentsOf(tx[p].req.sale))

\* Within what is left to pay.
FitsBalance(p, amount) ==
    amount <= Total[tx[p].req.sale] - PaidBefore(p) - SumOf(tx[p].pays)

\* FAULT: the loop stays at its payment
NextPaymentStuck(p) == tx' = [tx EXCEPT ![p].pc = "pay", ![p].till = None]

NextPayment(p) == tx' = [tx EXCEPT ![p].pc = "pay", ![p].i = @ + 1, ![p].till = None]

CheckPayment(p) ==
    LET q == tx[p].req
        pay == q.pays[tx[p].i]
        found == WithKey(pay.key, payments \cup tx[p].pays)
    IN  /\ tx[p].pc = "pay"
        /\ \/ tx[p].i > Len(q.pays) /\ GoTo(p, "commit")
           \/ /\ tx[p].i <= Len(q.pays)
              /\ \/ \E row \in found :
                       IF SamePayment(row, q.sale, pay) THEN NextPayment(p)
                       ELSE Done(p, "conflict")
                 \/ /\ found = {}
                    /\ IF FitsBalance(p, pay.amount) THEN GoTo(p, "insert")
                       ELSE Done(p, "refused")
        /\ UNCHANGED tables

\* Another transaction has inserted this key and has not ended.
KeyTakenBy(p, k) == {q \in Procs \ {p} : WithKey(k, tx[q].pays) # {}}

InsertPayment(p) ==
    LET q == tx[p].req
        pay == q.pays[tx[p].i]
        row == [key |-> pay.key, sale |-> q.sale, method |-> pay.method,
                amount |-> pay.amount]
    IN  /\ tx[p].pc = "insert"
        /\ KeyTakenBy(p, pay.key) = {}
        /\ \/ WithKey(pay.key, payments) # {} /\ Undone(p)
           \/ /\ WithKey(pay.key, payments) = {}
              /\ tx' = IF pay.method = "CASH"
                        THEN [tx EXCEPT ![p].pays = @ \cup {row}, ![p].pc = "find"]
                        ELSE [tx EXCEPT ![p].pays = @ \cup {row}, ![p].pc = "pay",
                                        ![p].i = @ + 1]
        /\ UNCHANGED tables

-----------------------------------------------------------------------------
(* Cash: the hooks of the cash service, inside the transaction of the sale.*)

\* After a payment comes the next one; after the refund, the commit.
CashDone(p) == IF tx[p].req.op = "return" THEN GoTo(p, "commit") ELSE NextPayment(p)

\* FAULT: card payments leave the till as well
CashToRefundAll(s) == SumOf(PaymentsOf(s))

CashToRefund(s) == SumOf(CashOf(PaymentsOf(s)))

\* What the hook inserts: the cash paid now, or all the cash paid back.
\* A refund has the key sale-refund-<sale>: here, the sale itself.
MovementOf(p) ==
    LET q == tx[p].req
    IN  IF q.op = "return"
        THEN [key |-> q.sale, reg |-> tx[p].till, type |-> "SALE_REFUND",
              amount |-> CashToRefund(q.sale)]
        ELSE [key |-> q.pays[tx[p].i].key, reg |-> tx[p].till, type |-> "SALE_PAYMENT",
              amount |-> q.pays[tx[p].i].amount]

TerminalFor(q) == IF q.op = "return" /\ q.at # None THEN q.at ELSE TerminalOf[q.sale]

\* The open till of the terminal, as last committed.
FindTill(p) ==
    LET open == OpenAt(TerminalFor(tx[p].req))
    IN  /\ tx[p].pc = "find"
        /\ \/ open = {} /\ CashDone(p)
           \/ \E r \in open : tx' = [tx EXCEPT ![p].pc = "till", ![p].till = r]
        /\ UNCHANGED tables

\* Under the lock of the till: is it still open, and can it pay a refund?
TillTakes(p) ==
    LET r == tx[p].till
    IN  /\ register[r].status = "OPEN"
        /\ tx[p].req.op = "return" => MovementOf(p).amount <= Balance(r)

UseTill(p) ==
    LET r == tx[p].till
        row == MovementOf(p)
    IN  /\ tx[p].pc = "till"
        /\ ~HeldByOther(p, r)
        /\ \/ ~TillTakes(p) /\ CashDone(p)
           \/ TillTakes(p) /\ WithKey(row.key, movements) # {} /\ Undone(p)
           \/ /\ TillTakes(p) /\ WithKey(row.key, movements) = {}
              /\ tx' = [tx EXCEPT ![p].moves = @ \cup {row},
                                  ![p].held = @ \cup {r},
                                  ![p].till = None,
                                  ![p].pc = IF tx[p].req.op = "return" THEN "commit" ELSE "pay",
                                  ![p].i = @ + 1]
        /\ UNCHANGED tables

Refund(p) ==
    /\ tx[p].pc = "refund"
    /\ GoTo(p, IF CashToRefund(tx[p].req.sale) = 0 THEN "commit" ELSE "find")
    /\ UNCHANGED tables

-----------------------------------------------------------------------------
(* Commits.                                                                *)

\* A sale to a customer that is not paid in full makes a debt.
ReceivableMade(s, status) ==
    IF s \in Credit /\ status # "PAID" THEN "PENDING" ELSE receivable[s]

CommitConfirm(p) ==
    LET s == tx[p].req.sale
        status == StatusFor(s, SumOf(tx[p].pays))
    IN  /\ At(p, "commit", "confirm")
        /\ sale' = [sale EXCEPT ![s] = status]
        /\ stock' = [x \in Products |-> stock[x] - Items[s][x]]
        /\ payments' = payments \cup tx[p].pays
        /\ movements' = movements \cup tx[p].moves
        /\ receivable' = [receivable EXCEPT ![s] = ReceivableMade(s, status)]
        /\ Done(p, "ok")
        /\ UNCHANGED <<refunds, register>>

\* The receivable follows the status the sale gets.
ReceivableAfter(s, status) ==
    IF receivable[s] = "NONE" THEN "NONE"
    ELSE IF status = "PAID" THEN "PAID" ELSE "PENDING"

CommitPayment(p) ==
    LET s == tx[p].req.sale
        status == IF PaidBefore(p) + tx[p].req.pays[1].amount >= Total[s]
                  THEN "PAID" ELSE "PARTIALLY_PAID"
    IN  /\ At(p, "commit", "pay")
        /\ sale' = [sale EXCEPT ![s] = status]
        /\ payments' = payments \cup tx[p].pays
        /\ movements' = movements \cup tx[p].moves
        /\ receivable' = [receivable EXCEPT ![s] = ReceivableAfter(s, status)]
        /\ Done(p, "ok")
        /\ UNCHANGED <<refunds, stock, register>>

\* What a returned sale still owed is owed no more.
ReceivableDropped(s) == IF receivable[s] = "NONE" THEN "NONE" ELSE "CANCELLED"

RefundOf(s, amount) == [id |-> Cardinality(refunds), sale |-> s, amount |-> amount]

\* FAULT: the debt of a returned sale stays as it was
CommitReturnKeepsDebt(p) ==
    LET s == tx[p].req.sale
        paid == SumOf(PaymentsOf(s))
    IN  /\ At(p, "commit", "return")
        /\ sale' = [sale EXCEPT ![s] = "REFUNDED"]
        /\ stock' = [x \in Products |-> stock[x] + Items[s][x]]
        /\ refunds' = IF paid > 0 THEN refunds \cup {RefundOf(s, paid)}
                      ELSE refunds
        /\ movements' = movements \cup tx[p].moves
        /\ Done(p, "ok")
        /\ UNCHANGED <<payments, receivable, register>>

CommitReturn(p) ==
    LET s == tx[p].req.sale
        paid == SumOf(PaymentsOf(s))
    IN  /\ At(p, "commit", "return")
        /\ sale' = [sale EXCEPT ![s] = "REFUNDED"]
        /\ stock' = [x \in Products |-> stock[x] + Items[s][x]]
        /\ refunds' = IF paid > 0 THEN refunds \cup {RefundOf(s, paid)}
                      ELSE refunds
        /\ movements' = movements \cup tx[p].moves
        /\ receivable' = [receivable EXCEPT ![s] = ReceivableDropped(s)]
        /\ Done(p, "ok")
        /\ UNCHANGED <<payments, register>>

PaidElsewhere(k, s) == \E row \in WithKey(k, payments) : row.sale # s

\* runOrResolvePaymentConflict: a payment of another sale under one of the
\* keys is a conflict; anything else is answered with the sale as it is.
ResolveConflict(p) ==
    LET q == tx[p].req
    IN  /\ tx[p].pc = "resolve"
        /\ Done(p, IF \E n \in 1..Len(q.pays) : PaidElsewhere(q.pays[n].key, q.sale)
                   THEN "conflict" ELSE "ok")
        /\ UNCHANGED tables

-----------------------------------------------------------------------------
(* The tills, used by others: each operation takes effect at once under    *)
(* the lock of the till, as CashRegister shows.                            *)

OpenTill(r, t) ==
    /\ register[r].status = "NONE" /\ OpenAt(t) = {}
    /\ register' = [register EXCEPT ![r] = [NoTill EXCEPT !.status = "OPEN", !.terminal = t]]
    /\ UNCHANGED <<sale, payments, refunds, receivable, stock, movements, tx>>

CloseTill(r) ==
    /\ register[r].status = "OPEN"
    /\ \A p \in Procs : r \notin tx[p].held
    /\ register' = [register EXCEPT ![r].status = "CLOSED", ![r].expected = Balance(r)]
    /\ UNCHANGED <<sale, payments, refunds, receivable, stock, movements, tx>>

ManualMovement(r, k, type) ==
    /\ register[r].status = "OPEN"
    /\ \A p \in Procs : r \notin tx[p].held
    /\ WithKey(k, movements) = {}
    /\ type = "CASH_OUT" => Balance(r) >= 1
    /\ movements' = movements \cup {[key |-> k, reg |-> r, type |-> type, amount |-> 1]}
    /\ UNCHANGED <<sale, payments, refunds, receivable, stock, register, tx>>

Others == \/ \E s \in Sales : Create(s)
          \/ \E r \in Registers : \/ \E t \in Terminals : OpenTill(r, t)
                                  \/ CloseTill(r)
                                  \/ \E k \in ManualKeys, type \in {"CASH_IN", "CASH_OUT"} :
                                        ManualMovement(r, k, type)

-----------------------------------------------------------------------------
(* Waiting.                                                                *)

Wanted(p) == CASE tx[p].pc = "lock" -> {tx[p].req.sale}
               [] tx[p].pc = "stock" -> NextProducts(ProductsLeft(p))
               [] tx[p].pc = "till" -> {tx[p].till}
               [] OTHER -> {}

WaitsForRow(p) == {q \in Procs \ {p} : Wanted(p) \cap tx[q].held # {}}

WaitsForKey(p) ==
    IF tx[p].pc = "insert" THEN KeyTakenBy(p, tx[p].req.pays[tx[p].i].key) ELSE {}

Deadlocked == InACircle([p \in Procs |-> WaitsForRow(p) \cup WaitsForKey(p)])

\* PostgreSQL aborts one transaction of a cycle (deadlock_timeout).
BreakDeadlock == \E p \in Deadlocked : Abort(p)

-----------------------------------------------------------------------------
Confirm(p) == ConfirmBegin(p) \/ CommitConfirm(p)
AddPayment(p) == AddPaymentBegin(p) \/ CommitPayment(p)
ReturnSale(p) == ReturnBegin(p) \/ Refund(p) \/ CommitReturn(p)
ApplyPayment(p) == CheckPayment(p) \/ InsertPayment(p)
CashHook(p) == FindTill(p) \/ UseTill(p)

Step(p) == \/ Confirm(p) \/ AddPayment(p) \/ Cancel(p) \/ ReturnSale(p)
           \/ MoveStock(p) \/ ApplyPayment(p) \/ CashHook(p) \/ ResolveConflict(p)

Next == \/ \E p \in Procs : \/ \E q \in Requests : Begin(p, q)
                            \/ Step(p) \/ Finish(p) \/ Abort(p)
        \/ Others

Spec == Init /\ [][Next]_vars

(* Row locks are granted in the order they are asked for, a server that is *)
(* up runs its steps, and PostgreSQL finds deadlocks.                      *)
Fairness == /\ WF_vars(BreakDeadlock)
            /\ \A p \in Procs : SF_vars(Step(p)) /\ WF_vars(Finish(p))

-----------------------------------------------------------------------------
(* Properties.                                                             *)

Row == [key : Keys, sale : Sales, method : {"CASH", "CARD"}, amount : Nat]
Steps == {"idle", "lock", "stock", "pay", "insert", "find", "till", "refund", "commit",
          "resolve", "done"}
Answers == {"none", "ok", "conflict", "refused", "missing", "error"}
Statuses == {"NONE", "DRAFT", "CONFIRMED", "PARTIALLY_PAID", "PAID", "CANCELLED", "REFUNDED"}

\* Every variable has its type; no quantity in stock goes below zero, and a
\* transaction past its first step holds the row of its sale.
TypeOK ==
    /\ sale \in [Sales -> Statuses]
    /\ payments \subseteq Row
    /\ refunds \subseteq [id : Nat, sale : Sales, amount : Nat]
    /\ receivable \in [Sales -> {"NONE", "PENDING", "PAID", "CANCELLED"}]
    /\ stock \in [Products -> Nat]
    /\ register \in [Registers -> [status : {"NONE", "OPEN", "CLOSED"},
                                   terminal : Terminals \cup {None}, expected : Int]]
    /\ movements \subseteq [key : Keys \cup ManualKeys \cup Sales, reg : Registers,
                            type : IncreaseTypes \cup DecreaseTypes, amount : Nat]
    /\ tx \in [Procs -> [pc : Steps, req : Requests \cup {None}, i : Nat,
                         held : SUBSET (Sales \cup Products \cup Registers),
                         pays : SUBSET Row, moves : SUBSET [key : Keys \cup Sales,
                             reg : Registers, type : {"SALE_PAYMENT", "SALE_REFUND"},
                             amount : Nat],
                         till : Registers \cup {None}, ans : Answers]]
    /\ \A p \in Procs :
          /\ tx[p].pc # "idle" => tx[p].req # None
          /\ tx[p].pc \notin {"idle", "lock", "resolve", "done"} => tx[p].req.sale \in tx[p].held

SoldSales == {s \in Sales : sale[s] \in OpenForPayment}

\* What was in stock is in stock or in a sale that stands: no sale takes its
\* goods twice, none is returned twice, a failed one takes nothing.
StockConserved ==
    \A x \in Products :
        stock[x] + SumFunction([s \in SoldSales |-> Items[s][x]]) = Stock0[x]

\* The cash ledger and the payments tell one story: every cash movement of a
\* sale is a cash payment of that sale at its terminal, every refund movement
\* gives back exactly the cash a returned sale had taken, once.
CashTrailMatches ==
    \A m \in movements :
        /\ m.type = "SALE_PAYMENT" =>
              \E y \in payments : /\ y.key = m.key /\ y.method = "CASH"
                                  /\ y.amount = m.amount
                                  /\ register[m.reg].terminal = TerminalOf[y.sale]
        /\ m.type = "SALE_REFUND" =>
              /\ sale[m.key] = "REFUNDED"
              /\ m.amount = SumOf({y \in payments : y.sale = m.key /\ y.method = "CASH"})

\* A sale is refunded at most once, and only when it is REFUNDED.
RefundedOnce ==
    /\ \A a, b \in refunds : a.sale = b.sale => a = b
    /\ \A a \in refunds : sale[a.sale] = "REFUNDED"

Paid(s) == SumOf(PaymentsOf(s))

\* A returned sale that was paid has its refund, and a refund is all that was paid.
RefundedInFull ==
    /\ \A a \in refunds : a.amount = Paid(a.sale)
    /\ \A s \in Sales : sale[s] = "REFUNDED" /\ Paid(s) > 0 => \E a \in refunds : a.sale = s

\* The status of a sale says how much of it is paid, and nobody paid more.
StatusTells ==
    \A s \in Sales :
        /\ sale[s] \in {"NONE", "DRAFT", "CANCELLED"} => PaymentsOf(s) = {}
        /\ sale[s] \in OpenForPayment => sale[s] = StatusFor(s, Paid(s))
        /\ Paid(s) <= Total[s]

\* A receivable is pending exactly while a customer owes part of a sale in force; it is
\* paid with the sale, and gone with a return.
DebtTells ==
    \A s \in Sales :
        /\ receivable[s] = "PENDING" <=>
              s \in Credit /\ sale[s] \in OpenForPayment /\ Paid(s) < Total[s]
        /\ receivable[s] = "PAID" => s \in Credit /\ sale[s] = "PAID"
        /\ receivable[s] = "CANCELLED" => s \in Credit /\ sale[s] = "REFUNDED"

\* The tables of sales, payments, refunds, receivables and cash movements say the same
\* (confirm, addPayment, returnSale), whatever requests and tills run beside each other.
RecordsAgree == /\ TypeOK /\ CashTrailMatches /\ RefundedOnce /\ RefundedInFull
                /\ StatusTells /\ DebtTells

\* A client told that its payment went through has it on record, on the sale it
\* named, with the method and the amount it gave; one told that its confirmation
\* did has a sale that is no draft any more.
AnswersAreTrue ==
    \A p \in Procs : tx[p].pc = "done" /\ tx[p].ans = "ok" =>
        LET q == tx[p].req
        IN  /\ q.op = "pay" => [key |-> q.pays[1].key, sale |-> q.sale, method |-> q.pays[1].method,
                                amount |-> q.pays[1].amount] \in payments
            /\ q.op = "confirm" => sale[q.sale] \notin {"NONE", "DRAFT"}

\* Every transaction that starts comes to an answer, or is aborted.
EveryRequestEnds == \A p \in Procs : tx[p].pc # "idle" ~> tx[p].pc \in {"idle", "done"}

\* Whatever runs at once, each sale behaves as if its operations came one by
\* one: the concurrent service implements SaleLedger.
PaidOf == [s \in Sales |-> SumOf(PaymentsOf(s))]
RefundedOf == [s \in Sales |-> SumOf({f \in refunds : f.sale = s})]

Ledger == INSTANCE SaleLedger WITH paid <- PaidOf, refunded <- RefundedOf

KeepsTheLedger == Ledger!Spec
=============================================================================
