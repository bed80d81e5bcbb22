------------------------------- MODULE Kitchen -------------------------------
(***************************************************************************)
(* The restaurant: restaurant.service.ts and dining.service.ts, and what   *)
(* returnSale does to an order.  An order has a sale, one kitchen task for *)
(* each of its stations and, in the dining room, an account.               *)
(*                                                                         *)
(* Checkout and cancel are several transactions, between which anything    *)
(* may happen.  A transaction on one row is one step, taken while nobody   *)
(* holds that row; those that lock several take them one at a time and     *)
(* wait.  The sale follows SaleLedger, which Sales implements; stock and   *)
(* till come after all these locks and are not waited for here.  A request *)
(* with a stale version is refused: it changes nothing and is not a step.  *)
(* Totals are positive; tables, waiters, tips and prints are left out.     *)
(***************************************************************************)
EXTENDS Integers, FiniteSets, Waiting

CONSTANTS Accounts,              \* dining accounts: numbers, for their order
          Orders, Stations,
          StationsOf,            \* the stations of the lines of each order
          Procs, Requests, None

Request == [op : {"checkout", "cancel", "dispatch", "return", "close"},
            account : Accounts \cup {None}, order : Orders \cup {None}]
           \cup [op : {"merge"}, account : Accounts, from : Accounts]
           \cup [op : {"split"}, account : Accounts, to : Accounts, orders : SUBSET Orders]

ASSUME AccountsAssumption == Accounts \subseteq Nat /\ None \notin Accounts
ASSUME StationsAssumption == StationsOf \in [Orders -> (SUBSET Stations) \ {{}}]
ASSUME RequestsAssumption ==
    /\ Requests \subseteq Request
    /\ \A q \in Requests : /\ q.op \in {"checkout", "cancel", "return", "dispatch"} => q.order # None
                           /\ q.op \in {"dispatch", "close"} => q.account # None

VARIABLES account,   \* dining_accounts.status
          home,      \* restaurant_orders.accountId
          order,     \* restaurant_orders.status
          task,      \* kitchen_tasks.status, by order and station
          cooked,    \* the tasks that have a startedAt
          sale,      \* sales.status of each order
          out,       \* the stations of each order whose goods have left the stock
          tx         \* per process: its request, its step, the rows it holds

tables == <<account, home, order, task, cooked, sale, out>>
vars == <<tables, tx>>

IdleTx == [pc |-> "idle", req |-> None, held |-> {}]

Init ==
    /\ account = [a \in Accounts |-> "NONE"]
    /\ home = [o \in Orders |-> None]
    /\ order = [o \in Orders |-> "NONE"]
    /\ task = [o \in Orders |-> [s \in Stations |-> "NONE"]]
    /\ cooked = [o \in Orders |-> {}]
    /\ sale = [o \in Orders |-> "NONE"]
    /\ out = [o \in Orders |-> {}]
    /\ tx = [p \in Procs |-> IdleTx]

-----------------------------------------------------------------------------
(* Rows and their locks.                                                   *)

AccountRow(a) == <<"dining_accounts", a>>
OrderRow(o) == <<"restaurant_orders", o>>
SaleRow(o) == <<"sales", o>>

Free(row) == \A p \in Procs : row \notin tx[p].held

OrdersOf(a) == {o \in Orders : home[o] = a}

\* FAULT: the account of the request first
MergeFirstNamed(q) == q.account

MergeFirst(q) == IF q.account < q.from THEN q.account ELSE q.from

\* The rows a transaction locks, in their order: those of a set in any order.
Levels(q) ==
    CASE q.op = "dispatch" -> << {AccountRow(q.account)}, {SaleRow(q.order)}, {OrderRow(q.order)} >>
      [] q.op = "return" -> << {SaleRow(q.order)}, {OrderRow(q.order)} >>
      [] q.op = "close" -> << {AccountRow(q.account)} >>
      [] q.op = "split" -> << {AccountRow(q.account)}, {OrderRow(o) : o \in q.orders \cap OrdersOf(q.account)} >>
      [] q.op = "merge" -> << {AccountRow(MergeFirst(q))}, {AccountRow(q.account), AccountRow(q.from)},
                              {OrderRow(o) : o \in OrdersOf(q.from)} >>

Wanted(p) ==
    LET levels == Levels(tx[p].req)
        reached == {i \in DOMAIN levels : \A j \in 1..(i - 1) : levels[j] \subseteq tx[p].held}
    IN  IF tx[p].pc = "locks" THEN UNION {levels[i] \ tx[p].held : i \in reached} ELSE {}

Begin(p, q) ==
    /\ tx[p].pc = "idle"
    /\ tx' = [tx EXCEPT ![p] = [IdleTx EXCEPT !.req = q,
                 !.pc = IF q.op \in {"checkout", "cancel"} THEN "look" ELSE "locks"]]
    /\ UNCHANGED tables

TakeLock(p) == /\ \E row \in Wanted(p) : /\ Free(row)
                                         /\ tx' = [tx EXCEPT ![p].held = @ \cup {row}]
               /\ UNCHANGED tables

HasLocks(p, op) ==
    /\ tx[p].pc = "locks" /\ tx[p].req.op = op
    /\ \A i \in DOMAIN Levels(tx[p].req) : Levels(tx[p].req)[i] \subseteq tx[p].held

GoTo(p, pc) == tx' = [tx EXCEPT ![p].pc = pc]

\* Committed or rolled back; the answer may never arrive.
End(p) == tx' = [tx EXCEPT ![p] = IdleTx]

\* Refused, or the process dies, or its time is over: the transaction it was in
\* leaves nothing behind, those before stay.
Abort(p) == tx[p].pc # "idle" /\ End(p) /\ UNCHANGED tables

-----------------------------------------------------------------------------
(* The sale of an order, by the operations of sales.service.ts.            *)

Open == {"CONFIRMED", "PARTIALLY_PAID"}

\* Goods leave when the sale is confirmed, paid in full, in part or not.
Confirm(o, paid) ==
    /\ sale[o] = "DRAFT"
    /\ sale' = [sale EXCEPT ![o] = paid]
    /\ out' = [out EXCEPT ![o] = StationsOf[o]]

\* POST /sales/:id/confirm, as the till screen may do with any draft
ConfirmSale(o) == /\ Free(SaleRow(o))
                  /\ \E paid \in Open \cup {"PAID"} : Confirm(o, paid)
                  /\ UNCHANGED <<account, home, order, task, cooked, tx>>

\* addPayment, of a sale with something left to pay; of dining.pay too, whose look
\* at the account decides nothing
Pay(o) == /\ Free(SaleRow(o))
          /\ sale[o] \in Open
          /\ \E paid \in {"PARTIALLY_PAID", "PAID"} : sale' = [sale EXCEPT ![o] = paid]
          /\ UNCHANGED <<account, home, order, task, cooked, out, tx>>

\* POST /sales/:id/cancel
CancelSale(o) == /\ Free(SaleRow(o))
                 /\ sale[o] = "DRAFT"
                 /\ sale' = [sale EXCEPT ![o] = "CANCELLED"]
                 /\ UNCHANGED <<account, home, order, task, cooked, out, tx>>

\* FAULT: what nobody has finished goes back to the stock
UnstartedUnfinished(o) == {s \in StationsOf[o] : task[o][s] # "READY"}

Unstarted(o) == {s \in StationsOf[o] : task[o][s] = "QUEUED" /\ s \notin cooked[o]}

\* returnSale
Return(p) ==
    LET o == tx[p].req.order
        back == IF order[o] \in {"DRAFT", "QUEUED"} THEN StationsOf[o] ELSE Unstarted(o)
    IN  /\ HasLocks(p, "return")
        /\ sale[o] \in Open \cup {"PAID"}
        /\ sale' = [sale EXCEPT ![o] = "REFUNDED"]
        /\ out' = [out EXCEPT ![o] = @ \ back]
        /\ task' = [task EXCEPT ![o] = [s \in Stations |-> IF @[s] = "NONE" THEN @[s] ELSE "CANCELLED"]]
        /\ order' = [order EXCEPT ![o] = "CANCELLED"]
        /\ End(p)
        /\ UNCHANGED <<account, home, cooked>>

-----------------------------------------------------------------------------
(* Orders.                                                                 *)

\* FAULT: an order is added to an account somebody is closing
MayAddAnyTime(a) == account[a] = "OPEN"

MayAdd(a) == Free(AccountRow(a)) /\ account[a] = "OPEN"

Create(o, a) ==
    /\ order[o] = "NONE"
    /\ a # None => MayAdd(a)
    /\ order' = [order EXCEPT ![o] = "DRAFT"]
    /\ home' = [home EXCEPT ![o] = a]
    /\ sale' = [sale EXCEPT ![o] = "DRAFT"]
    /\ UNCHANGED <<account, task, cooked, out, tx>>

Queued(o) == /\ order' = [order EXCEPT ![o] = "QUEUED"]
             /\ task' = [task EXCEPT ![o] = [s \in Stations |-> IF s \in StationsOf[o] THEN "QUEUED" ELSE "NONE"]]

\* checkout: an unlocked look, the sale confirmed and paid in full in its own
\* transaction, and the kitchen in a third.
CheckoutLook(p) ==
    /\ tx[p].pc = "look" /\ tx[p].req.op = "checkout"
    /\ order[tx[p].req.order] \notin {"NONE", "CANCELLED"}
    /\ GoTo(p, "sale")
    /\ UNCHANGED tables

CheckoutConfirm(p) ==
    LET o == tx[p].req.order
    IN  /\ tx[p].pc = "sale" /\ tx[p].req.op = "checkout" /\ Free(SaleRow(o))
        /\ \/ Confirm(o, "PAID")
           \/ sale[o] = "PAID" /\ UNCHANGED <<sale, out>>
        /\ GoTo(p, "queue")
        /\ UNCHANGED <<account, home, order, task, cooked>>

CheckoutQueue(p) ==
    LET o == tx[p].req.order
    IN  /\ tx[p].pc = "queue" /\ Free(OrderRow(o))
        /\ sale[o] = "PAID"
        /\ IF order[o] = "DRAFT" THEN Queued(o) ELSE UNCHANGED <<order, task>>
        /\ End(p)
        /\ UNCHANGED <<account, home, cooked, sale, out>>

\* cancel, the same way; cancelling a cancelled sale succeeds.
CancelLook(p) ==
    /\ tx[p].pc = "look" /\ tx[p].req.op = "cancel"
    /\ order[tx[p].req.order] = "DRAFT"
    /\ GoTo(p, "sale")
    /\ UNCHANGED tables

CancelSaleOf(p) ==
    LET o == tx[p].req.order
    IN  /\ tx[p].pc = "sale" /\ tx[p].req.op = "cancel" /\ Free(SaleRow(o))
        /\ sale[o] \in {"DRAFT", "CANCELLED"}
        /\ sale' = [sale EXCEPT ![o] = "CANCELLED"]
        /\ GoTo(p, "drop")
        /\ UNCHANGED <<account, home, order, task, cooked, out>>

CancelOrder(p) ==
    LET o == tx[p].req.order
    IN  /\ tx[p].pc = "drop" /\ Free(OrderRow(o))
        /\ order' = [order EXCEPT ![o] = IF @ = "DRAFT" THEN "CANCELLED" ELSE @]
        /\ End(p)
        /\ UNCHANGED <<account, home, task, cooked, sale, out>>

-----------------------------------------------------------------------------
(* The kitchen board: transition, of one station or of the whole order.    *)

Live(o) == order[o] \notin {"NONE", "DRAFT", "CANCELLED"}

Enabled(o) == sale[o] = "PAID" \/ (home[o] # None /\ sale[o] \in Open)

\* FAULT: an order is ready with its first station
AggregateAny(tasks, set) ==
    IF \E s \in set : tasks[s] = "READY" THEN "READY"
    ELSE IF \E s \in set : tasks[s] # "QUEUED" THEN "PREPARING" ELSE "QUEUED"

Aggregate(tasks, set) ==
    IF \A s \in set : tasks[s] = "READY" THEN "READY"
    ELSE IF \E s \in set : tasks[s] # "QUEUED" THEN "PREPARING" ELSE "QUEUED"

\* The named stations go to a status.
Advance(o, set, status) ==
    LET tasks == [s \in Stations |-> IF s \in set THEN status ELSE task[o][s]]
    IN  /\ task' = [task EXCEPT ![o] = tasks]
        /\ cooked' = [cooked EXCEPT ![o] = IF status = "PREPARING" THEN @ \cup set ELSE @]
        /\ order' = [order EXCEPT ![o] = Aggregate(tasks, StationsOf[o])]
        /\ UNCHANGED <<account, home, sale, out, tx>>

MayMove(o) == Free(OrderRow(o)) /\ Live(o) /\ Enabled(o)

TransitionStation(o, s) ==
    /\ MayMove(o) /\ order[o] # "DELIVERED"
    /\ \/ task[o][s] = "QUEUED" /\ Advance(o, {s}, "PREPARING")
       \/ task[o][s] = "PREPARING" /\ Advance(o, {s}, "READY")

TransitionOrder(o) ==
    LET unready == {s \in StationsOf[o] : task[o][s] # "READY"}
    IN  /\ MayMove(o)
        /\ \/ order[o] = "QUEUED" /\ Advance(o, unready, "PREPARING")
           \/ /\ order[o] = "PREPARING"
              /\ \A s \in StationsOf[o] : task[o][s] # "QUEUED"
              /\ Advance(o, unready, "READY")

Deliver(o) ==
    /\ MayMove(o) /\ order[o] = "READY"
    /\ \A s \in StationsOf[o] : task[o][s] = "READY"
    /\ order' = [order EXCEPT ![o] = "DELIVERED"]
    /\ UNCHANGED <<account, home, task, cooked, sale, out, tx>>

-----------------------------------------------------------------------------
(* Accounts.                                                               *)

OpenAccount(a) ==
    /\ account[a] = "NONE"
    /\ account' = [account EXCEPT ![a] = "OPEN"]
    /\ UNCHANGED <<home, order, task, cooked, sale, out, tx>>

\* FAULT: only returned sales are refused
StandsNotReturned(o) == sale[o] \notin {"DRAFT", "REFUNDED"}

Stands(o) == sale[o] \in Open \cup {"PAID"}

Dispatch(p) ==
    LET o == tx[p].req.order
        a == tx[p].req.account
    IN  /\ HasLocks(p, "dispatch")
        /\ account[a] = "OPEN" /\ home[o] = a
        /\ order[o] = "DRAFT"
        /\ \/ Confirm(o, "CONFIRMED")
           \/ Stands(o) /\ UNCHANGED <<sale, out>>
        /\ Queued(o)
        /\ End(p)
        /\ UNCHANGED <<account, home, cooked>>

Split(p) ==
    LET q == tx[p].req
    IN  /\ HasLocks(p, "split")
        /\ account[q.account] = "OPEN" /\ account[q.to] = "NONE"
        /\ q.orders \subseteq OrdersOf(q.account) /\ q.orders # OrdersOf(q.account)
        /\ account' = [account EXCEPT ![q.to] = "OPEN"]
        /\ home' = [o \in Orders |-> IF o \in q.orders THEN q.to ELSE home[o]]
        /\ End(p)
        /\ UNCHANGED <<order, task, cooked, sale, out>>

Merge(p) ==
    LET q == tx[p].req
    IN  /\ HasLocks(p, "merge")
        /\ q.account # q.from
        /\ account[q.account] = "OPEN" /\ account[q.from] = "OPEN"
        /\ home' = [o \in Orders |-> IF home[o] = q.from THEN q.account ELSE home[o]]
        /\ account' = [account EXCEPT ![q.from] = "MERGED"]
        /\ End(p)
        /\ UNCHANGED <<order, task, cooked, sale, out>>

SettledOrder(o) ==
    sale[o] \in {"CANCELLED", "REFUNDED", "PAID"} /\ order[o] \in {"DELIVERED", "CANCELLED"}

\* The account is read under its lock, its orders without theirs: what is settled
\* once stays settled.
CloseLook(p) ==
    LET a == tx[p].req.account
    IN  /\ HasLocks(p, "close")
        /\ account[a] = "OPEN"
        /\ \A o \in OrdersOf(a) : SettledOrder(o)
        /\ GoTo(p, "close")
        /\ UNCHANGED tables

CloseWrite(p) ==
    /\ tx[p].pc = "close"
    /\ account' = [account EXCEPT ![tx[p].req.account] = "CLOSED"]
    /\ End(p)
    /\ UNCHANGED <<home, order, task, cooked, sale, out>>

-----------------------------------------------------------------------------
Step(p) == \/ TakeLock(p) \/ Return(p) \/ Dispatch(p) \/ Split(p) \/ Merge(p)
           \/ CheckoutLook(p) \/ CheckoutConfirm(p) \/ CheckoutQueue(p)
           \/ CancelLook(p) \/ CancelSaleOf(p) \/ CancelOrder(p)
           \/ CloseLook(p) \/ CloseWrite(p)

Board(o) == \/ TransitionOrder(o) \/ Deliver(o)
            \/ \E s \in StationsOf[o] : TransitionStation(o, s)

Others == \/ \E a \in Accounts : OpenAccount(a)
          \/ \E o \in Orders : \/ \E a \in Accounts \cup {None} : Create(o, a)
                               \/ ConfirmSale(o) \/ Pay(o) \/ CancelSale(o) \/ Board(o)

Next == \/ \E p \in Procs : Step(p) \/ Abort(p) \/ \E q \in Requests : Begin(p, q)
        \/ Others

Spec == Init /\ [][Next]_vars

-----------------------------------------------------------------------------
(* Properties.                                                             *)

Rows == {AccountRow(a) : a \in Accounts} \cup {OrderRow(o) : o \in Orders}
        \cup {SaleRow(o) : o \in Orders}

\* Every variable has its type, and a row has at most one holder.
TypeOK ==
    /\ account \in [Accounts -> {"NONE", "OPEN", "MERGED", "CLOSED"}]
    /\ home \in [Orders -> Accounts \cup {None}]
    /\ order \in [Orders -> {"NONE", "DRAFT", "QUEUED", "PREPARING", "READY", "DELIVERED",
                             "CANCELLED"}]
    /\ task \in [Orders -> [Stations -> {"NONE", "QUEUED", "PREPARING", "READY", "CANCELLED"}]]
    /\ cooked \in [Orders -> SUBSET Stations] /\ out \in [Orders -> SUBSET Stations]
    /\ sale \in [Orders -> {"NONE", "DRAFT", "CANCELLED", "REFUNDED", "PAID"} \cup Open]
    /\ tx \in [Procs -> [pc : {"idle", "look", "locks", "sale", "queue", "drop", "close"},
                         req : Requests \cup {None}, held : SUBSET Rows]]
    /\ \A p, q \in Procs : p # q => tx[p].held \cap tx[q].held = {}

Mirrors(o) ==
    LET All(set) == \A s \in StationsOf[o] : task[o][s] \in set
    IN  /\ order[o] \in {"NONE", "DRAFT"} => All({"NONE"})
        /\ order[o] = "QUEUED" => All({"QUEUED"})
        /\ order[o] = "PREPARING" => /\ All({"QUEUED", "PREPARING", "READY"})
                                     /\ ~All({"QUEUED"}) /\ ~All({"READY"})
        /\ order[o] \in {"READY", "DELIVERED"} => All({"READY"})
        /\ order[o] = "CANCELLED" => All({"NONE"}) \/ All({"CANCELLED"})

\* The status of an order is that of its stations: cooks who press buttons at
\* once, a checkout that queues it, a dispatch and a return never part them.
StatusMirrorsTasks == \A o \in Orders : Mirrors(o)

\* Whoever presses, pays, cancels and returns at once, no row has two holders and
\* the board shows each order as its stations are (lock, transition, checkout).
BoardOK == TypeOK /\ StatusMirrorsTasks

GoodsAt(o) ==
    /\ sale[o] \in Open \cup {"PAID"} => out[o] = StationsOf[o]
    /\ sale[o] = "REFUNDED" => out[o] = cooked[o]
    /\ sale[o] \in {"NONE", "DRAFT", "CANCELLED"} => out[o] = {}

\* Goods leave the stock once, when the sale is confirmed by whoever comes first;
\* after a return exactly what a station had begun to cook stays out.
StockFollowsTheKitchen == \A o \in Orders : GoodsAt(o)

\* The kitchen works on nothing that is not paid or on the account of a table:
\* no return or cancellation leaves an order on the board.
BoardIsOwed == \A o \in Orders : Live(o) => Enabled(o)

\* A closed account owes nothing and nothing is being cooked for it, and a merged
\* one has no orders, whatever was added, moved or returned meanwhile.
ClosedAccountsSettled ==
    \A a \in Accounts : /\ account[a] = "CLOSED" => \A o \in OrdersOf(a) : SettledOrder(o)
                        /\ account[a] = "MERGED" => OrdersOf(a) = {}

\* Merges, splits, dispatches and returns never wait for each other in a circle.
NoDeadlock ==
    InACircle([p \in Procs |-> {q \in Procs \ {p} : Wanted(p) \cap tx[q].held # {}}]) = {}
=============================================================================
