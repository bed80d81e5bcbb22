---------------------------- MODULE KitchenProofs ----------------------------
(***************************************************************************)
(* The safety of Kitchen, for any number of accounts, orders, stations and *)
(* transactions, and then of Reports, for any sales, lots and pages.  The  *)
(* two share no name.                                                      *)
(*                                                                         *)
(* Three arguments. What concerns one order (OrderOK) rests on no lock but *)
(* on the life of its sale: a paid sale is never cancelled and a returned  *)
(* order never queued again. What concerns accounts (Closing) rests on the *)
(* row of the account: who is about to close it holds it, so nobody adds,  *)
(* moves or merges orders, and an order once settled stays settled. That   *)
(* nobody waits in a circle rests on the order in which rows are taken,    *)
(* and on merges and splits that take orders only under the row of their   *)
(* account (Keeps).                                                        *)
(***************************************************************************)
EXTENDS Kitchen, Reports, FiniteTheorems

\* What the statuses of an order and of its sale exclude.
Life(o) == /\ order[o] = "NONE" => sale[o] = "NONE"
           /\ order[o] = "CANCELLED" => sale[o] \in {"CANCELLED", "REFUNDED"}

\* The stations that began are those that are not queued any more.
Fires(o) ==
    /\ cooked[o] \subseteq StationsOf[o]
    /\ order[o] \in {"NONE", "DRAFT", "QUEUED"} => cooked[o] = {}
    /\ Live(o) => \A s \in StationsOf[o] : s \in cooked[o] <=> task[o][s] # "QUEUED"

OrderOK(o) == /\ Life(o) /\ Fires(o) /\ Mirrors(o) /\ GoodsAt(o)
              /\ Live(o) => Enabled(o)

OrdersFine == \A o \in Orders : OrderOK(o)

\* Where a transaction is, by what it was asked.
Works ==
    \A p \in Procs :
        /\ tx[p].pc # "idle" => tx[p].req \in Requests
        /\ tx[p].pc \in {"look", "sale", "queue", "drop"} => tx[p].req.op \in {"checkout", "cancel"}
        /\ tx[p].pc = "locks" => tx[p].req.op \notin {"checkout", "cancel"}
        /\ tx[p].pc = "close" => tx[p].req.op = "close"

\* A cancellation comes to the order after its sale.
Dropped == \A p \in Procs : tx[p].pc = "drop" => sale[tx[p].req.order] = "CANCELLED"

\* Who is about to close an account holds its row, and its orders are settled.
Closing ==
    \A p \in Procs : tx[p].pc = "close" =>
        LET a == tx[p].req.account
        IN  /\ AccountRow(a) \in tx[p].held
            /\ account[a] = "OPEN"
            /\ \A o \in OrdersOf(a) : SettledOrder(o)

Sound == TypeOK /\ Works

IInv == /\ Sound
        /\ OrdersFine /\ Dropped
        /\ Closing /\ ClosedAccountsSettled

-----------------------------------------------------------------------------
(* Facts about the data.                                                   *)

\* A request names the accounts and orders that its operation needs.
LEMMA RequestFields ==
    ASSUME NEW q \in Requests
    PROVE  /\ q.op \in {"checkout", "cancel", "dispatch", "return", "close", "merge", "split"}
           /\ q.op \in {"checkout", "cancel", "return", "dispatch"} => q.order \in Orders
           /\ q.op \in {"dispatch", "close", "merge", "split"} => q.account \in Accounts
           /\ q.op = "merge" => q.from \in Accounts
           /\ q.op = "split" => q.to \in Accounts /\ q.orders \subseteq Orders
BY RequestsAssumption DEF Request

\* Rows are locked only where there are rows.
LEMMA LevelRows ==
    ASSUME NEW q \in Requests, home \in [Orders -> Accounts \cup {None}],
           q.op \notin {"checkout", "cancel"},
           NEW i \in DOMAIN Levels(q)
    PROVE  Levels(q)[i] \subseteq Rows
BY RequestFields, AccountsAssumption DEF Levels, Rows, MergeFirst, OrdersOf

\* Who has all the locks of a merge, a split, a dispatch or a close holds the rows
\* of its accounts.
LEMMA AccountsHeld ==
    ASSUME NEW p \in Procs, tx[p].req \in Requests
    PROVE  /\ HasLocks(p, "merge") => /\ AccountRow(tx[p].req.account) \in tx[p].held
                                      /\ AccountRow(tx[p].req.from) \in tx[p].held
           /\ HasLocks(p, "split") => AccountRow(tx[p].req.account) \in tx[p].held
           /\ HasLocks(p, "close") => AccountRow(tx[p].req.account) \in tx[p].held
<1> DEFINE q == tx[p].req
<1>1. CASE q.op = "merge"
  <2>1. Levels(q) = << {AccountRow(MergeFirst(q))}, {AccountRow(q.account), AccountRow(q.from)},
                       {OrderRow(o) : o \in OrdersOf(q.from)} >>
    BY <1>1 DEF Levels
  <2>2. 2 \in DOMAIN Levels(q) /\ Levels(q)[2] = {AccountRow(q.account), AccountRow(q.from)}
    BY <2>1
  <2> QED  BY <1>1, <2>2 DEF HasLocks
<1>2. CASE q.op = "split"
  <2>1. Levels(q) = << {AccountRow(q.account)}, {OrderRow(o) : o \in q.orders \cap OrdersOf(q.account)} >>
    BY <1>2 DEF Levels
  <2>2. 1 \in DOMAIN Levels(q) /\ Levels(q)[1] = {AccountRow(q.account)}
    BY <2>1
  <2> QED  BY <1>2, <2>2 DEF HasLocks
<1>3. CASE q.op = "close"
  <2>1. Levels(q) = << {AccountRow(q.account)} >>
    BY <1>3 DEF Levels
  <2>2. 1 \in DOMAIN Levels(q) /\ Levels(q)[1] = {AccountRow(q.account)}
    BY <2>1
  <2> QED  BY <1>3, <2>2 DEF HasLocks
<1> QED  BY <1>1, <1>2, <1>3 DEF HasLocks

-----------------------------------------------------------------------------
(* Steps.                                                                  *)

\* Every step is one of these.
LEMMA NextCases ==
    ASSUME [Next]_vars
    PROVE  \/ \E p \in Procs : \/ TakeLock(p) \/ Return(p) \/ Dispatch(p) \/ Split(p) \/ Merge(p)
                               \/ CheckoutLook(p) \/ CheckoutConfirm(p) \/ CheckoutQueue(p)
                               \/ CancelLook(p) \/ CancelSaleOf(p) \/ CancelOrder(p)
                               \/ CloseLook(p) \/ CloseWrite(p) \/ Abort(p)
                               \/ \E q \in Requests : Begin(p, q)
           \/ \E a \in Accounts : OpenAccount(a)
           \/ \E o \in Orders : \/ \E a \in Accounts \cup {None} : Create(o, a)
                                \/ ConfirmSale(o) \/ Pay(o) \/ CancelSale(o)
                                \/ TransitionOrder(o) \/ Deliver(o)
                                \/ \E s \in StationsOf[o] : TransitionStation(o, s)
           \/ UNCHANGED vars
BY DEF Next, Step, Others, Board

Steps == {"idle", "look", "locks", "sale", "queue", "drop", "close"}
Tx == [pc : Steps, req : Requests \cup {None}, held : SUBSET Rows]

\* What a step leaves of a transaction, once it ends or goes on.
LEMMA TxEnds ==
    ASSUME Sound, NEW p \in Procs, End(p)
    PROVE  /\ tx' \in [Procs -> Tx] /\ Works'
           /\ \A q, r \in Procs : q # r => tx'[q].held \cap tx'[r].held = {}
<1>1. tx' = [tx EXCEPT ![p] = IdleTx] /\ tx \in [Procs -> Tx]
  BY DEF End, Sound, TypeOK, Tx, Steps
<1>2. IdleTx \in Tx /\ IdleTx.pc = "idle" /\ IdleTx.held = {}
  BY DEF IdleTx, Tx, Steps
<1>3. tx' \in [Procs -> Tx]
  BY <1>1, <1>2
<1>4. \A q \in Procs : tx'[q] = IF q = p THEN IdleTx ELSE tx[q]
  BY <1>1
<1>5. Works'
  BY <1>2, <1>4 DEF Sound, Works
<1>6. \A q, r \in Procs : q # r => tx'[q].held \cap tx'[r].held = {}
  BY <1>2, <1>4 DEF Sound, TypeOK
<1> QED  BY <1>3, <1>5, <1>6

LEMMA TxGoes ==
    ASSUME Sound, NEW p \in Procs, NEW pc \in Steps \ {"idle", "locks"}, GoTo(p, pc),
           tx[p].pc # "idle",
           pc \in {"look", "sale", "queue", "drop"} => tx[p].req.op \in {"checkout", "cancel"},
           pc = "close" => tx[p].req.op = "close"
    PROVE  /\ tx' \in [Procs -> Tx] /\ Works'
           /\ \A q, r \in Procs : q # r => tx'[q].held \cap tx'[r].held = {}
<1>1. tx' = [tx EXCEPT ![p].pc = pc] /\ tx \in [Procs -> Tx]
  BY DEF GoTo, Sound, TypeOK, Tx, Steps
<1>2. tx' \in [Procs -> Tx]
  BY <1>1 DEF Tx
<1>3. /\ \A q \in Procs : q # p => tx'[q] = tx[q]
      /\ tx'[p].pc = pc /\ tx'[p].req = tx[p].req /\ tx'[p].held = tx[p].held
  BY <1>1 DEF Tx
<1>4. Works'
  BY <1>3 DEF Sound, Works
<1>5. \A q, r \in Procs : q # r => tx'[q].held \cap tx'[r].held = {}
  BY <1>3 DEF Sound, TypeOK
<1> QED  BY <1>2, <1>4, <1>5

Tables ==
    /\ account \in [Accounts -> {"NONE", "OPEN", "MERGED", "CLOSED"}]
    /\ home \in [Orders -> Accounts \cup {None}]
    /\ order \in [Orders -> {"NONE", "DRAFT", "QUEUED", "PREPARING", "READY", "DELIVERED",
                             "CANCELLED"}]
    /\ task \in [Orders -> [Stations -> {"NONE", "QUEUED", "PREPARING", "READY", "CANCELLED"}]]
    /\ cooked \in [Orders -> SUBSET Stations] /\ out \in [Orders -> SUBSET Stations]
    /\ sale \in [Orders -> {"NONE", "DRAFT", "CANCELLED", "REFUNDED", "PAID"} \cup Open]

\* The tables and the transactions apart.
LEMMA SoundParts ==
    Sound <=> /\ Tables /\ Works /\ tx \in [Procs -> Tx]
              /\ \A p, q \in Procs : p # q => tx[p].held \cap tx[q].held = {}
BY DEF Sound, TypeOK, Tables, Tx, Steps

LEMMA SoundPartsNext ==
    Sound' <=> /\ Tables' /\ Works' /\ tx' \in [Procs -> Tx]
               /\ \A p, q \in Procs : p # q => tx'[p].held \cap tx'[q].held = {}
BY DEF Sound, TypeOK, Tables, Tx, Steps, Works, Rows

\* No step puts a value of another type in a table.
LEMMA TablesStep ==
    ASSUME Sound, [Next]_vars
    PROVE  Tables'
<1>t. Tables /\ Works
  BY SoundParts
<1> USE StationsAssumption
<1>1. ASSUME UNCHANGED tables
      PROVE  Tables'
  BY <1>t, <1>1 DEF tables, Tables
<1>2. ASSUME NEW p \in Procs, Return(p)
      PROVE  Tables'
  <2>1. tx[p].req \in Requests /\ tx[p].req.order \in Orders
    BY <1>t, <1>2, RequestFields DEF Return, HasLocks, Works
  <2> QED  BY <1>t, <1>2, <2>1 DEF Return, Tables
<1>q. ASSUME NEW o \in Orders, Queued(o)
      PROVE  /\ order' \in [Orders -> {"NONE", "DRAFT", "QUEUED", "PREPARING", "READY",
                                       "DELIVERED", "CANCELLED"}]
             /\ task' \in [Orders -> [Stations -> {"NONE", "QUEUED", "PREPARING", "READY",
                                                   "CANCELLED"}]]
  BY <1>t, <1>q DEF Queued, Tables
<1>c. ASSUME NEW o \in Orders, NEW paid \in Open \cup {"PAID"},
             Confirm(o, paid) \/ UNCHANGED <<sale, out>>
      PROVE  /\ sale' \in [Orders -> {"NONE", "DRAFT", "CANCELLED", "REFUNDED", "PAID"} \cup Open]
             /\ out' \in [Orders -> SUBSET Stations]
  <2>1. CASE Confirm(o, paid)
    <3>1. StationsOf[o] \in SUBSET Stations
      OBVIOUS
    <3>2. sale' = [sale EXCEPT ![o] = paid] /\ out' = [out EXCEPT ![o] = StationsOf[o]]
      BY <2>1 DEF Confirm
    <3> QED  BY <1>t, <3>1, <3>2 DEF Tables
  <2>2. CASE UNCHANGED <<sale, out>>
    BY <1>t, <2>2 DEF Tables
  <2> QED  BY <1>c, <2>1, <2>2
<1>3. ASSUME NEW p \in Procs, Dispatch(p)
      PROVE  Tables'
  <2> DEFINE o == tx[p].req.order
  <2>1. tx[p].req \in Requests /\ o \in Orders
    BY <1>t, <1>3, RequestFields DEF Dispatch, HasLocks, Works
  <2>2. /\ Queued(o) /\ (Confirm(o, "CONFIRMED") \/ UNCHANGED <<sale, out>>)
        /\ UNCHANGED <<account, home, cooked>>
    BY <1>3 DEF Dispatch
  <2>3. "CONFIRMED" \in Open \cup {"PAID"}
    BY DEF Open
  <2> HIDE DEF o
  <2>4. \E paid \in Open \cup {"PAID"} : Confirm(o, paid) \/ UNCHANGED <<sale, out>>
    BY <2>2, <2>3
  <2> QED  BY <1>t, <1>q, <1>c, <2>1, <2>2, <2>4 DEF Tables
<1>4. ASSUME NEW p \in Procs, Split(p) \/ Merge(p)
      PROVE  Tables'
  <2>1. tx[p].req \in Requests
    BY <1>t, <1>4 DEF Split, Merge, HasLocks, Works
  <2>2. CASE Split(p)
    BY <1>t, <2>2, <2>1, RequestFields DEF Split, HasLocks, Tables
  <2>3. CASE Merge(p)
    BY <1>t, <2>3, <2>1, RequestFields DEF Merge, HasLocks, Tables
  <2> QED  BY <1>4, <2>2, <2>3
<1>5. ASSUME NEW p \in Procs, CheckoutConfirm(p) \/ CheckoutQueue(p) \/ CancelSaleOf(p) \/ CancelOrder(p)
      PROVE  Tables'
  <2> DEFINE o == tx[p].req.order
  <2>1. o \in Orders
    BY <1>t, <1>5, RequestFields DEF CheckoutConfirm, CheckoutQueue, CancelSaleOf, CancelOrder, Works
  <2>2. CASE CheckoutConfirm(p)
    <3>1. (Confirm(o, "PAID") \/ UNCHANGED <<sale, out>>) /\ UNCHANGED <<account, home, order, task, cooked>>
      BY <2>2 DEF CheckoutConfirm
    <3> HIDE DEF o
    <3>2. \E paid \in Open \cup {"PAID"} : Confirm(o, paid) \/ UNCHANGED <<sale, out>>
      BY <3>1
    <3> QED  BY <1>t, <1>c, <2>1, <3>1, <3>2 DEF Tables
  <2>3. CASE CheckoutQueue(p)
    <3>1. Queued(o) \/ UNCHANGED <<order, task>>
      BY <2>3 DEF CheckoutQueue
    <3>2. UNCHANGED <<account, home, cooked, sale, out>>
      BY <2>3 DEF CheckoutQueue
    <3> HIDE DEF o
    <3> QED  BY <1>t, <1>q, <2>1, <3>1, <3>2 DEF Tables
  <2>4. CASE CancelSaleOf(p)
    BY <1>t, <2>1, <2>4 DEF CancelSaleOf, Tables
  <2>5. CASE CancelOrder(p)
    BY <1>t, <2>1, <2>5 DEF CancelOrder, Tables
  <2> QED  BY <1>5, <2>2, <2>3, <2>4, <2>5
<1>6. ASSUME NEW p \in Procs, CloseWrite(p)
      PROVE  Tables'
  BY <1>t, <1>6 DEF CloseWrite, Tables
<1>7. ASSUME NEW a \in Accounts, OpenAccount(a)
      PROVE  Tables'
  BY <1>t, <1>7 DEF OpenAccount, Tables
<1>8. ASSUME NEW o \in Orders, \E a \in Accounts \cup {None} : Create(o, a)
      PROVE  Tables'
  BY <1>t, <1>8 DEF Create, Tables
<1>9. ASSUME NEW o \in Orders, ConfirmSale(o) \/ Pay(o) \/ CancelSale(o)
      PROVE  Tables'
  <2>1. CASE ConfirmSale(o)
    BY <1>t, <1>c, <2>1 DEF ConfirmSale, Tables
  <2>2. CASE Pay(o)
    BY <1>t, <2>2 DEF Pay, Tables, Open
  <2>3. CASE CancelSale(o)
    BY <1>t, <2>3 DEF CancelSale, Tables
  <2> QED  BY <1>9, <2>1, <2>2, <2>3
<1>10. ASSUME NEW o \in Orders, NEW set \in SUBSET StationsOf[o],
              NEW status \in {"PREPARING", "READY"}, Advance(o, set, status)
       PROVE  Tables'
  <2> DEFINE tasks == [s \in Stations |-> IF s \in set THEN status ELSE task[o][s]]
             state == Aggregate(tasks, StationsOf[o])
             fires == IF status = "PREPARING" THEN cooked[o] \cup set ELSE cooked[o]
  <2>1. tasks \in [Stations -> {"NONE", "QUEUED", "PREPARING", "READY", "CANCELLED"}]
    BY <1>t DEF Tables
  <2>2. state \in {"QUEUED", "PREPARING", "READY"}
    BY DEF Aggregate
  <2>3. fires \in SUBSET Stations
    BY <1>t DEF Tables
  <2>4. /\ task' = [task EXCEPT ![o] = tasks] /\ order' = [order EXCEPT ![o] = state]
        /\ cooked' = [cooked EXCEPT ![o] = fires]
        /\ UNCHANGED <<account, home, sale, out>>
    BY <1>t, <1>10 DEF Advance, Tables
  <2> HIDE DEF tasks, state, fires
  <2> QED  BY <1>t, <2>1, <2>2, <2>3, <2>4 DEF Tables
<1>11. ASSUME NEW o \in Orders, TransitionOrder(o)
       PROVE  Tables'
  <2> DEFINE unready == {s \in StationsOf[o] : task[o][s] # "READY"}
  <2>1. unready \in SUBSET StationsOf[o]
    OBVIOUS
  <2>2. Advance(o, unready, "PREPARING") \/ Advance(o, unready, "READY")
    BY <1>11 DEF TransitionOrder
  <2> HIDE DEF unready
  <2> QED  BY <1>10, <2>1, <2>2
<1>12. ASSUME NEW o \in Orders, NEW s \in StationsOf[o], TransitionStation(o, s)
       PROVE  Tables'
  <2>1. {s} \in SUBSET StationsOf[o]
    OBVIOUS
  <2> QED  BY <1>10, <1>12, <2>1 DEF TransitionStation
<1>13. ASSUME NEW o \in Orders, Deliver(o)
       PROVE  Tables'
  BY <1>t, <1>13 DEF Deliver, Tables
<1>14. ASSUME NEW p \in Procs, TakeLock(p) \/ CheckoutLook(p) \/ CancelLook(p) \/ CloseLook(p) \/ Abort(p)
                              \/ \E q \in Requests : Begin(p, q)
      PROVE  Tables'
  BY <1>1, <1>14 DEF TakeLock, CheckoutLook, CancelLook, CloseLook, Abort, Begin
<1>15. CASE UNCHANGED vars
  BY <1>1, <1>15 DEF vars
<1> QED
  BY NextCases, <1>2, <1>3, <1>4, <1>5, <1>6, <1>7, <1>8, <1>9, <1>11, <1>12, <1>13, <1>14, <1>15

Apart == \A p, q \in Procs : p # q => tx[p].held \cap tx[q].held = {}

\* Nor loses track of a transaction, or gives a row to two.
LEMMA TxStep ==
    ASSUME Sound, [Next]_vars
    PROVE  tx' \in [Procs -> Tx] /\ Works' /\ Apart'
<1>t. Tables /\ Works /\ tx \in [Procs -> Tx] /\ Apart
  BY SoundParts DEF Apart
<1> DEFINE Fine == tx' \in [Procs -> Tx] /\ Works' /\ Apart'
<1>1. ASSUME NEW p \in Procs, End(p)
      PROVE  Fine
  BY <1>1, TxEnds DEF Apart
<1>2. ASSUME NEW p \in Procs, CheckoutLook(p) \/ CheckoutConfirm(p) \/ CancelLook(p)
                              \/ CancelSaleOf(p) \/ CloseLook(p)
      PROVE  Fine
  <2>1. CASE CheckoutLook(p) \/ CancelLook(p)
    BY <2>1, TxGoes DEF CheckoutLook, CancelLook, Apart, Steps
  <2>2. CASE CheckoutConfirm(p)
    BY <2>2, TxGoes DEF CheckoutConfirm, Apart, Steps
  <2>3. CASE CancelSaleOf(p)
    BY <2>3, TxGoes DEF CancelSaleOf, Apart, Steps
  <2>4. CASE CloseLook(p)
    BY <2>4, TxGoes DEF CloseLook, HasLocks, Apart, Steps
  <2> QED  BY <1>2, <2>1, <2>2, <2>3, <2>4
<1>3. ASSUME NEW p \in Procs, NEW q \in Requests, Begin(p, q)
      PROVE  Fine
  <2> DEFINE begun == [IdleTx EXCEPT !.req = q,
                         !.pc = IF q.op \in {"checkout", "cancel"} THEN "look" ELSE "locks"]
  <2>1. tx' = [tx EXCEPT ![p] = begun]
    BY <1>3 DEF Begin
  <2>2. /\ begun \in Tx /\ begun.held = {} /\ begun.req = q
        /\ begun.pc = IF q.op \in {"checkout", "cancel"} THEN "look" ELSE "locks"
    BY DEF IdleTx, Tx, Steps
  <2> HIDE DEF begun
  <2>3. \A r \in Procs : tx'[r] = IF r = p THEN begun ELSE tx[r]
    BY <1>t, <2>1
  <2>4. tx' \in [Procs -> Tx]
    BY <1>t, <2>1, <2>2
  <2>5. Works'
    BY <1>t, <2>2, <2>3 DEF Works
  <2>6. Apart'
    BY <1>t, <2>2, <2>3 DEF Apart
  <2> QED  BY <2>4, <2>5, <2>6
<1>4. ASSUME NEW p \in Procs, TakeLock(p)
      PROVE  Fine
  <2>1. PICK row \in Wanted(p) : Free(row) /\ tx' = [tx EXCEPT ![p].held = @ \cup {row}]
    BY <1>4 DEF TakeLock
  <2>2. tx[p].pc = "locks" /\ tx[p].req \in Requests /\ tx[p].req.op \notin {"checkout", "cancel"}
    BY <1>t, <2>1 DEF Wanted, Works
  <2>3. PICK i \in DOMAIN Levels(tx[p].req) : row \in Levels(tx[p].req)[i]
    BY <2>1 DEF Wanted
  <2>4. row \in Rows
    BY <1>t, <2>2, <2>3, LevelRows DEF Tables
  <2>5. /\ \A r \in Procs \ {p} : tx'[r] = tx[r]
        /\ tx'[p].pc = tx[p].pc /\ tx'[p].req = tx[p].req /\ tx'[p].held = tx[p].held \cup {row}
    BY <1>t, <2>1 DEF Tx
  <2>6. tx' \in [Procs -> Tx]
    BY <1>t, <2>1, <2>4 DEF Tx
  <2>7. Works'
    BY <1>t, <2>5 DEF Works
  <2>8. Apart'
    BY <1>t, <2>1, <2>5 DEF Apart, Free
  <2> QED  BY <2>6, <2>7, <2>8
<1>5. ASSUME UNCHANGED tx
      PROVE  Fine
  BY <1>t, <1>5 DEF Works, Apart
<1>6. ASSUME NEW p \in Procs, Return(p) \/ Dispatch(p) \/ Split(p) \/ Merge(p) \/ CheckoutQueue(p)
                              \/ CancelOrder(p) \/ CloseWrite(p) \/ Abort(p)
      PROVE  Fine
  BY <1>1, <1>6 DEF Return, Dispatch, Split, Merge, CheckoutQueue, CancelOrder, CloseWrite, Abort
<1>7. ASSUME NEW o \in Orders, \/ \E a \in Accounts \cup {None} : Create(o, a)
                               \/ ConfirmSale(o) \/ Pay(o) \/ CancelSale(o)
                               \/ TransitionOrder(o) \/ Deliver(o)
                               \/ \E s \in StationsOf[o] : TransitionStation(o, s)
      PROVE  Fine
  BY <1>5, <1>7 DEF Create, ConfirmSale, Pay, CancelSale, TransitionOrder, TransitionStation, Deliver, Advance
<1>8. ASSUME NEW a \in Accounts, OpenAccount(a)
      PROVE  Fine
  BY <1>5, <1>8 DEF OpenAccount
<1>9. CASE UNCHANGED vars
  BY <1>5, <1>9 DEF vars
<1> QED  BY NextCases, <1>2, <1>3, <1>4, <1>6, <1>7, <1>8, <1>9

\* A step keeps the types.
LEMMA SoundStep ==
    ASSUME Sound, [Next]_vars
    PROVE  Sound'
BY TablesStep, TxStep, SoundPartsNext DEF Apart

-----------------------------------------------------------------------------
(* One order.                                                              *)

\* An order that a step leaves alone, or moves from table to table.
Kept(o) == /\ order'[o] = order[o] /\ task'[o] = task[o] /\ cooked'[o] = cooked[o]
           /\ sale'[o] = sale[o] /\ out'[o] = out[o]
           /\ home[o] # None => home'[o] # None

LEMMA KeptFine ==
    ASSUME NEW o \in Orders, OrderOK(o), Kept(o)
    PROVE  OrderOK(o)'
BY DEF OrderOK, Kept, Life, Fires, Mirrors, GoodsAt, Live, Enabled

\* A step on one order.
Only(x) == \A o \in Orders \ {x} : Kept(o)

LEMMA OnlyFine ==
    ASSUME OrdersFine, NEW x \in Orders, Only(x), OrderOK(x)'
    PROVE  OrdersFine'
BY KeptFine DEF OrdersFine, Only

\* The operations on the sale alone.
LEMMA ConfirmFine ==
    ASSUME Tables, OrdersFine, NEW o \in Orders, NEW paid \in Open \cup {"PAID"}, Confirm(o, paid),
           UNCHANGED <<home, order, task, cooked>>
    PROVE  OrdersFine'
<1>1. Only(o)
  BY DEF Only, Kept, Confirm, Tables
<1>2. /\ sale[o] = "DRAFT" /\ sale'[o] = paid /\ out'[o] = StationsOf[o]
      /\ order'[o] = order[o] /\ task'[o] = task[o] /\ cooked'[o] = cooked[o] /\ home'[o] = home[o]
  BY DEF Confirm, Tables
<1>3. OrderOK(o)
  BY DEF OrdersFine
<1>4. order[o] \notin {"NONE", "CANCELLED"}
  BY <1>2, <1>3 DEF OrderOK, Life
<1>5. ~Live(o)
  BY <1>2, <1>3 DEF OrderOK, Enabled, Open
<1>6. Life(o)' /\ Fires(o)' /\ Mirrors(o)'
  BY <1>2, <1>3, <1>4 DEF OrderOK, Life, Fires, Mirrors, Live
<1>7. GoodsAt(o)'
  BY <1>2 DEF GoodsAt, Open
<1>8. ~Live(o)'
  BY <1>2, <1>5 DEF Live
<1>9. OrderOK(o)'
  BY <1>6, <1>7, <1>8 DEF OrderOK
<1> QED  BY <1>1, <1>9, OnlyFine

LEMMA PayFine ==
    ASSUME Tables, OrdersFine, NEW o \in Orders, Pay(o)
    PROVE  OrdersFine'
<1>1. Only(o)
  BY DEF Only, Kept, Pay, Tables
<1>2. /\ sale[o] \in Open /\ sale'[o] \in {"PARTIALLY_PAID", "PAID"} /\ out'[o] = out[o]
      /\ order'[o] = order[o] /\ task'[o] = task[o] /\ cooked'[o] = cooked[o] /\ home'[o] = home[o]
  BY DEF Pay, Tables
<1>3. OrderOK(o)
  BY DEF OrdersFine
<1>4. Life(o)' /\ Fires(o)' /\ Mirrors(o)'
  BY <1>2, <1>3 DEF OrderOK, Life, Fires, Mirrors, Live, Open
<1>5. GoodsAt(o)'
  BY <1>2, <1>3 DEF OrderOK, GoodsAt, Open
<1>6. Live(o)' => Enabled(o)'
  BY <1>2, <1>3 DEF OrderOK, Live, Enabled, Open
<1>7. OrderOK(o)'
  BY <1>4, <1>5, <1>6 DEF OrderOK
<1> QED  BY <1>1, <1>7, OnlyFine

\* cancel of the sale, and of its order before the order itself.
LEMMA CancelSaleFine ==
    ASSUME Tables, OrdersFine, NEW o \in Orders, sale[o] \in {"DRAFT", "CANCELLED"},
           sale' = [sale EXCEPT ![o] = "CANCELLED"],
           UNCHANGED <<home, order, task, cooked, out>>
    PROVE  OrdersFine'
<1>1. Only(o)
  BY DEF Only, Kept, Tables
<1>2. /\ sale'[o] = "CANCELLED" /\ out'[o] = out[o]
      /\ order'[o] = order[o] /\ task'[o] = task[o] /\ cooked'[o] = cooked[o] /\ home'[o] = home[o]
  BY DEF Tables
<1>3. OrderOK(o)
  BY DEF OrdersFine
<1>4. order[o] # "NONE" /\ ~Live(o)
  BY <1>3 DEF OrderOK, Life, Enabled, Open
<1>5. Life(o)' /\ Fires(o)' /\ Mirrors(o)'
  BY <1>2, <1>3, <1>4 DEF OrderOK, Life, Fires, Mirrors, Live
<1>6. GoodsAt(o)'
  BY <1>2, <1>3 DEF OrderOK, GoodsAt, Open
<1>7. ~Live(o)'
  BY <1>2, <1>4 DEF Live
<1>8. OrderOK(o)'
  BY <1>5, <1>6, <1>7 DEF OrderOK
<1> QED  BY <1>1, <1>8, OnlyFine

\* An order that is dropped: its sale was cancelled before.
LEMMA DropFine ==
    ASSUME Tables, OrdersFine, NEW o \in Orders, sale[o] = "CANCELLED",
           order' = [order EXCEPT ![o] = IF @ = "DRAFT" THEN "CANCELLED" ELSE @],
           UNCHANGED <<home, task, cooked, sale, out>>
    PROVE  OrdersFine'
<1>1. Only(o)
  BY DEF Only, Kept, Tables
<1>2. /\ order'[o] = (IF order[o] = "DRAFT" THEN "CANCELLED" ELSE order[o]) /\ sale'[o] = sale[o]
      /\ out'[o] = out[o] /\ task'[o] = task[o] /\ cooked'[o] = cooked[o] /\ home'[o] = home[o]
  BY DEF Tables
<1>3. OrderOK(o)
  BY DEF OrdersFine
<1>4. OrderOK(o)'
  BY <1>2, <1>3 DEF OrderOK, Life, Fires, Mirrors, GoodsAt, Live, Enabled
<1> QED  BY <1>1, <1>4, OnlyFine

LEMMA ReturnFine ==
    ASSUME Tables, OrdersFine, NEW p \in Procs, Return(p),
           NEW o \in Orders, o = tx[p].req.order
    PROVE  OrdersFine'
<1> DEFINE back == IF order[o] \in {"DRAFT", "QUEUED"} THEN StationsOf[o] ELSE Unstarted(o)
<1>1. o \in Orders
  OBVIOUS
<1>2. /\ sale[o] \in Open \cup {"PAID"}
      /\ sale' = [sale EXCEPT ![o] = "REFUNDED"] /\ out' = [out EXCEPT ![o] = @ \ back]
      /\ order' = [order EXCEPT ![o] = "CANCELLED"]
      /\ task' = [task EXCEPT ![o] = [s \in Stations |-> IF @[s] = "NONE" THEN @[s] ELSE "CANCELLED"]]
      /\ UNCHANGED <<home, cooked>>
  BY DEF Return
<1>3. Only(o)
  BY <1>1, <1>2 DEF Only, Kept, Tables
<1>4. OrderOK(o)
  BY <1>1 DEF OrdersFine
<1>5. /\ sale'[o] = "REFUNDED" /\ order'[o] = "CANCELLED" /\ cooked'[o] = cooked[o]
      /\ out'[o] = out[o] \ back
      /\ \A s \in Stations : task'[o][s] = IF task[o][s] = "NONE" THEN "NONE" ELSE "CANCELLED"
  BY <1>1, <1>2 DEF Tables
<1>6. StationsOf[o] \subseteq Stations
  BY <1>1, StationsAssumption
<1>7. out[o] = StationsOf[o] /\ cooked[o] \subseteq StationsOf[o]
  BY <1>2, <1>4 DEF OrderOK, GoodsAt, Fires
<1>8. order[o] \notin {"NONE", "CANCELLED"}
  BY <1>2, <1>4 DEF OrderOK, Life, Open
<1>9. out'[o] = cooked[o]
  <2>1. CASE order[o] \in {"DRAFT", "QUEUED"}
    <3>1. cooked[o] = {}
      BY <1>4, <2>1 DEF OrderOK, Fires
    <3> QED  BY <1>5, <1>7, <2>1, <3>1
  <2>2. CASE order[o] \notin {"DRAFT", "QUEUED"}
    <3>1. \A s \in StationsOf[o] : s \in cooked[o] <=> task[o][s] # "QUEUED"
      BY <1>4, <1>8, <2>2 DEF OrderOK, Fires, Live
    <3>2. back = StationsOf[o] \ cooked[o]
      BY <2>2, <3>1 DEF Unstarted
    <3> HIDE DEF back
    <3> QED  BY <1>5, <1>7, <3>2
  <2> QED  BY <2>1, <2>2
<1>10. Mirrors(o)'
  <2>1. CASE order[o] = "DRAFT"
    <3>1. \A s \in StationsOf[o] : task[o][s] = "NONE"
      BY <1>4, <2>1 DEF OrderOK, Mirrors
    <3> QED  BY <1>5, <1>6, <3>1 DEF Mirrors
  <2>2. CASE order[o] # "DRAFT"
    <3>1. \A s \in StationsOf[o] : task[o][s] # "NONE"
      BY <1>1, <1>4, <1>8, <2>2 DEF OrderOK, Mirrors, Tables
    <3> QED  BY <1>5, <1>6, <3>1 DEF Mirrors
  <2> QED  BY <2>1, <2>2
<1>11. OrderOK(o)'
  <2>1. Life(o)'
    BY <1>5 DEF Life
  <2>2. Fires(o)'
    BY <1>5, <1>7 DEF Fires, Live
  <2>3. GoodsAt(o)'
    BY <1>5, <1>9 DEF GoodsAt, Open
  <2>4. ~Live(o)'
    BY <1>5 DEF Live
  <2> QED  BY <1>10, <2>1, <2>2, <2>3, <2>4 DEF OrderOK
<1> QED  BY <1>1, <1>3, <1>11, OnlyFine

LEMMA CreateFine ==
    ASSUME Tables, OrdersFine, NEW o \in Orders, NEW a \in Accounts \cup {None}, Create(o, a)
    PROVE  OrdersFine'
<1>1. Only(o)
  BY DEF Only, Kept, Create, Tables
<1>2. /\ order[o] = "NONE" /\ order'[o] = "DRAFT" /\ sale'[o] = "DRAFT"
      /\ out'[o] = out[o] /\ task'[o] = task[o] /\ cooked'[o] = cooked[o]
  BY DEF Create, Tables
<1>3. OrderOK(o)
  BY DEF OrdersFine
<1>4. sale[o] = "NONE"
  BY <1>2, <1>3 DEF OrderOK, Life
<1>5. OrderOK(o)'
  BY <1>2, <1>3, <1>4 DEF OrderOK, Life, Fires, Mirrors, GoodsAt, Live, Open
<1> QED  BY <1>1, <1>5, OnlyFine

\* An order queued by a checkout or a dispatch, its sale owed or paid by then.
LEMMA QueueFine ==
    ASSUME Tables, OrdersFine, NEW o \in Orders, order[o] = "DRAFT", Queued(o),
           UNCHANGED <<home, cooked>>,
           \A x \in Orders \ {o} : sale'[x] = sale[x] /\ out'[x] = out[x],
           sale'[o] \in Open \cup {"PAID"}, out'[o] = StationsOf[o],
           sale'[o] = "PAID" \/ home[o] # None
    PROVE  OrdersFine'
<1>1. Only(o)
  BY DEF Only, Kept, Queued, Tables
<1>2. StationsOf[o] \subseteq Stations /\ StationsOf[o] # {}
  BY StationsAssumption
<1>3. /\ order'[o] = "QUEUED" /\ cooked'[o] = cooked[o] /\ home'[o] = home[o]
      /\ \A s \in StationsOf[o] : task'[o][s] = "QUEUED"
  BY <1>2 DEF Queued, Tables
<1>4. OrderOK(o)
  BY DEF OrdersFine
<1>5. cooked[o] = {}
  BY <1>4 DEF OrderOK, Fires
<1>6. Life(o)' /\ Fires(o)' /\ Mirrors(o)'
  BY <1>3, <1>5 DEF Life, Fires, Mirrors, Live
<1>7. GoodsAt(o)'
  BY DEF GoodsAt, Open
<1>8. Enabled(o)'
  BY <1>3 DEF Enabled
<1>9. OrderOK(o)'
  BY <1>6, <1>7, <1>8 DEF OrderOK
<1> QED  BY <1>1, <1>9, OnlyFine

\* Stations that begin, or that are done.
LEMMA AdvanceFine ==
    ASSUME Tables, OrdersFine, NEW o \in Orders, NEW set \in SUBSET StationsOf[o], set # {},
           NEW status \in {"PREPARING", "READY"}, Advance(o, set, status),
           Live(o), order[o] # "DELIVERED",
           \A s \in set : task[o][s] = "QUEUED" <=> status = "PREPARING"
    PROVE  OrdersFine'
<1> DEFINE tasks == [s \in Stations |-> IF s \in set THEN status ELSE task[o][s]]
<1>1. Only(o)
  BY DEF Only, Kept, Advance, Tables
<1>2. StationsOf[o] \subseteq Stations
  BY StationsAssumption
<1>3. /\ \A s \in StationsOf[o] : task'[o][s] = tasks[s]
      /\ \A s \in StationsOf[o] : tasks[s] = IF s \in set THEN status ELSE task[o][s]
      /\ cooked'[o] = IF status = "PREPARING" THEN cooked[o] \cup set ELSE cooked[o]
      /\ order'[o] = Aggregate(tasks, StationsOf[o])
      /\ sale'[o] = sale[o] /\ out'[o] = out[o] /\ home'[o] = home[o]
  BY <1>2 DEF Advance, Tables
<1> HIDE DEF tasks
<1>4. OrderOK(o)
  BY DEF OrdersFine
<1>5. /\ cooked[o] \subseteq StationsOf[o]
      /\ \A s \in StationsOf[o] : s \in cooked[o] <=> task[o][s] # "QUEUED"
  BY <1>4 DEF OrderOK, Fires
<1>6. \A s \in StationsOf[o] : task[o][s] \in {"QUEUED", "PREPARING", "READY"}
  BY <1>4 DEF OrderOK, Mirrors, Live, Tables
<1>7. \A s \in StationsOf[o] : tasks[s] \in {"QUEUED", "PREPARING", "READY"}
  BY <1>3, <1>6
<1>8. \E s \in StationsOf[o] : tasks[s] # "QUEUED"
  BY <1>3
<1>9. Mirrors(o)'
  <2>1. CASE \A s \in StationsOf[o] : tasks[s] = "READY"
    BY <1>3, <2>1 DEF Mirrors, Aggregate
  <2>2. CASE ~ \A s \in StationsOf[o] : tasks[s] = "READY"
    <3>1. order'[o] = "PREPARING"
      BY <1>3, <1>8, <2>2 DEF Aggregate
    <3> QED  BY <1>3, <1>7, <1>8, <2>2, <3>1 DEF Mirrors
  <2> QED  BY <2>1, <2>2
<1>10. order'[o] \in {"PREPARING", "READY"}
  BY <1>3, <1>8 DEF Aggregate
<1>11. Fires(o)'
  <2>1. \A s \in StationsOf[o] : s \in cooked'[o] <=> tasks[s] # "QUEUED"
    BY <1>3, <1>5
  <2> QED  BY <1>3, <1>5, <1>10, <2>1 DEF Fires
<1>12. Life(o)' /\ GoodsAt(o)'
  BY <1>3, <1>4, <1>10 DEF OrderOK, Life, GoodsAt, Enabled, Open
<1>13. Enabled(o)'
  BY <1>3, <1>4 DEF OrderOK, Enabled
<1>14. OrderOK(o)'
  BY <1>9, <1>11, <1>12, <1>13 DEF OrderOK
<1> QED  BY <1>1, <1>14, OnlyFine

LEMMA BoardFine ==
    ASSUME Tables, OrdersFine, NEW o \in Orders,
           \/ TransitionOrder(o) \/ Deliver(o)
           \/ \E s \in StationsOf[o] : TransitionStation(o, s)
    PROVE  OrdersFine'
<1>1. OrderOK(o)
  BY DEF OrdersFine
<1>2. CASE TransitionOrder(o)
  <2> DEFINE unready == {s \in StationsOf[o] : task[o][s] # "READY"}
  <2>1. unready \in SUBSET StationsOf[o] /\ Live(o)
    BY <1>2 DEF TransitionOrder, MayMove
  <2>2. CASE order[o] = "QUEUED" /\ Advance(o, unready, "PREPARING")
    <3>1. \A s \in StationsOf[o] : task[o][s] = "QUEUED"
      BY <1>1, <2>2 DEF OrderOK, Mirrors
    <3>2. unready # {}
      BY <3>1, StationsAssumption
    <3>3. \A s \in unready : task[o][s] = "QUEUED"
      BY <3>1
    <3> HIDE DEF unready
    <3> QED  BY <2>1, <2>2, <3>2, <3>3, AdvanceFine
  <2>3. CASE /\ order[o] = "PREPARING" /\ \A s \in StationsOf[o] : task[o][s] # "QUEUED"
             /\ Advance(o, unready, "READY")
    <3>1. unready # {}
      BY <1>1, <2>3 DEF OrderOK, Mirrors
    <3>2. \A s \in unready : task[o][s] # "QUEUED"
      BY <2>3
    <3> HIDE DEF unready
    <3> QED  BY <2>1, <2>3, <3>1, <3>2, AdvanceFine
  <2> QED  BY <1>2, <2>2, <2>3 DEF TransitionOrder
<1>3. CASE Deliver(o)
  <2>1. Only(o)
    BY <1>3 DEF Only, Kept, Deliver, Tables
  <2>2. /\ order[o] = "READY" /\ order'[o] = "DELIVERED" /\ task'[o] = task[o]
        /\ cooked'[o] = cooked[o] /\ sale'[o] = sale[o] /\ out'[o] = out[o] /\ home'[o] = home[o]
    BY <1>3 DEF Deliver, Tables
  <2>3. OrderOK(o)'
    BY <1>1, <2>2 DEF OrderOK, Life, Fires, Mirrors, GoodsAt, Live, Enabled
  <2> QED  BY <2>1, <2>3, OnlyFine
<1>4. ASSUME NEW s \in StationsOf[o], TransitionStation(o, s)
      PROVE  OrdersFine'
  <2>1. {s} \in SUBSET StationsOf[o] /\ {s} # {} /\ Live(o) /\ order[o] # "DELIVERED"
    BY <1>4 DEF TransitionStation, MayMove
  <2>2. CASE task[o][s] = "QUEUED" /\ Advance(o, {s}, "PREPARING")
    BY <2>1, <2>2, AdvanceFine
  <2>3. CASE task[o][s] = "PREPARING" /\ Advance(o, {s}, "READY")
    BY <2>1, <2>3, AdvanceFine
  <2> QED  BY <1>4, <2>2, <2>3 DEF TransitionStation
<1> QED  BY <1>2, <1>3, <1>4

\* Orders that change tables stay on one.
LEMMA MovedFine ==
    ASSUME Tables, Works, OrdersFine, NEW p \in Procs, Split(p) \/ Merge(p)
    PROVE  OrdersFine'
<1>1. tx[p].req \in Requests
  BY DEF Split, Merge, HasLocks, Works
<1>2. UNCHANGED <<order, task, cooked, sale, out>>
  BY DEF Split, Merge
<1>3. \A o \in Orders : home[o] # None => home'[o] # None
  BY <1>1, RequestFields, AccountsAssumption DEF Split, Merge, HasLocks
<1>4. \A o \in Orders : Kept(o)
  BY <1>2, <1>3 DEF Kept
<1> QED  BY <1>4, KeptFine DEF OrdersFine

\* Every step leaves every order fine.
LEMMA OrdersStep ==
    ASSUME Sound, OrdersFine, Dropped, [Next]_vars
    PROVE  OrdersFine'
<1>t. Tables /\ Works
  BY SoundParts
<1>0. ASSUME UNCHANGED tables
      PROVE  OrdersFine'
  <2>1. \A o \in Orders : Kept(o)
    BY <1>0 DEF Kept, tables
  <2> QED  BY <2>1, KeptFine DEF OrdersFine
<1>1. ASSUME NEW p \in Procs, \/ TakeLock(p) \/ CheckoutLook(p) \/ CancelLook(p) \/ CloseLook(p) \/ Abort(p)
                              \/ \E q \in Requests : Begin(p, q)
      PROVE  OrdersFine'
  BY <1>0, <1>1 DEF TakeLock, CheckoutLook, CancelLook, CloseLook, Abort, Begin
<1>2. ASSUME NEW p \in Procs, Return(p)
      PROVE  OrdersFine'
  <2>1. tx[p].req.order \in Orders
    BY <1>t, <1>2, RequestFields DEF Return, HasLocks, Works
  <2> QED  BY <1>t, <1>2, <2>1, ReturnFine
<1>3. ASSUME NEW p \in Procs, Dispatch(p), NEW o \in Orders, o = tx[p].req.order
      PROVE  OrdersFine'
  <2>1. /\ order[o] = "DRAFT" /\ Queued(o) /\ UNCHANGED <<home, cooked>>
        /\ Confirm(o, "CONFIRMED") \/ (Stands(o) /\ UNCHANGED <<sale, out>>)
    BY <1>3 DEF Dispatch
  <2>2. OrderOK(o)
    BY DEF OrdersFine
  <2>3. home[o] = tx[p].req.account /\ tx[p].req \in Requests /\ tx[p].req.op = "dispatch"
    BY <1>t, <1>3 DEF Dispatch, HasLocks, Works
  <2>4. home[o] # None
    BY <2>3, RequestFields, AccountsAssumption
  <2>5. CASE Confirm(o, "CONFIRMED")
    <3>1. /\ sale'[o] = "CONFIRMED" /\ out'[o] = StationsOf[o]
          /\ \A x \in Orders \ {o} : sale'[x] = sale[x] /\ out'[x] = out[x]
      BY <1>t, <2>5 DEF Confirm, Tables
    <3> QED  BY <1>t, <2>1, <2>4, <3>1, QueueFine DEF Open
  <2>6. CASE Stands(o) /\ UNCHANGED <<sale, out>>
    <3>1. /\ sale'[o] \in Open \cup {"PAID"} /\ out'[o] = StationsOf[o]
          /\ \A x \in Orders \ {o} : sale'[x] = sale[x] /\ out'[x] = out[x]
      BY <2>2, <2>6 DEF Stands, OrderOK, GoodsAt
    <3> QED  BY <1>t, <2>1, <2>4, <3>1, QueueFine
  <2> QED  BY <2>1, <2>5, <2>6
<1>4. ASSUME NEW p \in Procs, CheckoutConfirm(p), NEW o \in Orders, o = tx[p].req.order
      PROVE  OrdersFine'
  <2>1. CASE Confirm(o, "PAID")
    BY <1>t, <1>4, <2>1, ConfirmFine DEF CheckoutConfirm
  <2>2. CASE UNCHANGED <<sale, out>>
    BY <1>0, <1>4, <2>2 DEF CheckoutConfirm, tables
  <2> QED  BY <1>4, <2>1, <2>2 DEF CheckoutConfirm
<1>5. ASSUME NEW p \in Procs, CheckoutQueue(p), NEW o \in Orders, o = tx[p].req.order
      PROVE  OrdersFine'
  <2>1. OrderOK(o) /\ sale[o] = "PAID" /\ UNCHANGED <<account, home, cooked, sale, out>>
    BY <1>5 DEF OrdersFine, CheckoutQueue
  <2>2. CASE order[o] = "DRAFT" /\ Queued(o)
    <3>1. out[o] = StationsOf[o]
      BY <2>1 DEF OrderOK, GoodsAt
    <3> QED  BY <1>t, <2>1, <2>2, <3>1, QueueFine
  <2>3. CASE UNCHANGED <<order, task>>
    BY <1>0, <2>1, <2>3 DEF tables
  <2> QED  BY <1>5, <2>2, <2>3 DEF CheckoutQueue
<1>6. ASSUME NEW p \in Procs, CancelSaleOf(p), NEW o \in Orders, o = tx[p].req.order
      PROVE  OrdersFine'
  BY <1>t, <1>6, CancelSaleFine DEF CancelSaleOf
<1>7. ASSUME NEW p \in Procs, CancelOrder(p), NEW o \in Orders, o = tx[p].req.order
      PROVE  OrdersFine'
  BY <1>t, <1>7, DropFine DEF CancelOrder, Dropped
<1>8. ASSUME NEW p \in Procs,
             Dispatch(p) \/ CheckoutConfirm(p) \/ CheckoutQueue(p) \/ CancelSaleOf(p) \/ CancelOrder(p)
      PROVE  OrdersFine'
  <2>1. tx[p].req.order \in Orders
    BY <1>t, <1>8, RequestFields
       DEF Dispatch, HasLocks, CheckoutConfirm, CheckoutQueue, CancelSaleOf, CancelOrder, Works
  <2> QED  BY <1>3, <1>4, <1>5, <1>6, <1>7, <1>8, <2>1
<1>9. ASSUME NEW p \in Procs, Split(p) \/ Merge(p)
      PROVE  OrdersFine'
  BY <1>t, <1>9, MovedFine
<1>10. ASSUME NEW p \in Procs, CloseWrite(p)
       PROVE  OrdersFine'
  <2>1. \A o \in Orders : Kept(o)
    BY <1>10 DEF CloseWrite, Kept
  <2> QED  BY <2>1, KeptFine DEF OrdersFine
<1>11. ASSUME NEW a \in Accounts, OpenAccount(a)
       PROVE  OrdersFine'
  <2>1. \A o \in Orders : Kept(o)
    BY <1>11 DEF OpenAccount, Kept
  <2> QED  BY <2>1, KeptFine DEF OrdersFine
<1>12. ASSUME NEW o \in Orders, \/ \E a \in Accounts \cup {None} : Create(o, a)
                                \/ ConfirmSale(o) \/ Pay(o) \/ CancelSale(o)
       PROVE  OrdersFine'
  <2>1. CASE \E a \in Accounts \cup {None} : Create(o, a)
    BY <1>t, <2>1, CreateFine
  <2>2. CASE ConfirmSale(o)
    BY <1>t, <2>2, ConfirmFine DEF ConfirmSale
  <2>3. CASE Pay(o)
    BY <1>t, <2>3, PayFine
  <2>4. CASE CancelSale(o)
    BY <1>t, <2>4, CancelSaleFine DEF CancelSale
  <2> QED  BY <1>12, <2>1, <2>2, <2>3, <2>4
<1>13. ASSUME NEW o \in Orders, \/ TransitionOrder(o) \/ Deliver(o)
                                \/ \E s \in StationsOf[o] : TransitionStation(o, s)
       PROVE  OrdersFine'
  BY <1>t, <1>13, BoardFine
<1>14. CASE UNCHANGED vars
  BY <1>0, <1>14 DEF vars
<1> QED
  BY NextCases, <1>1, <1>2, <1>8, <1>9, <1>10, <1>11, <1>12, <1>13, <1>14

-----------------------------------------------------------------------------
(* Transactions between their steps.                                       *)

\* Nobody is closing or dropping who was not, but by these two steps.
LEMMA TxCases ==
    ASSUME Sound, [Next]_vars, NEW p \in Procs, tx'[p].pc \in {"close", "drop"}
    PROVE  tx'[p] = tx[p] \/ CloseLook(p) \/ CancelSaleOf(p)
<1>t. Tables /\ Works /\ tx \in [Procs -> Tx]
  BY SoundParts
<1>1. ASSUME NEW r \in Procs, End(r)
      PROVE  tx'[p] = tx[p]
  BY <1>t, <1>1 DEF End, IdleTx
<1>2. ASSUME NEW r \in Procs, NEW pc \in {"sale", "queue"}, GoTo(r, pc)
      PROVE  tx'[p] = tx[p]
  BY <1>t, <1>2 DEF GoTo, Tx
<1>3. ASSUME NEW r \in Procs, CheckoutLook(r) \/ CheckoutConfirm(r) \/ CancelLook(r)
      PROVE  tx'[p] = tx[p]
  BY <1>2, <1>3 DEF CheckoutLook, CheckoutConfirm, CancelLook
<1>4. ASSUME NEW r \in Procs, Return(r) \/ Dispatch(r) \/ Split(r) \/ Merge(r) \/ CheckoutQueue(r)
                              \/ CancelOrder(r) \/ CloseWrite(r) \/ Abort(r)
      PROVE  tx'[p] = tx[p]
  BY <1>1, <1>4 DEF Return, Dispatch, Split, Merge, CheckoutQueue, CancelOrder, CloseWrite, Abort
<1>5. ASSUME NEW r \in Procs, NEW q \in Requests, Begin(r, q)
      PROVE  tx'[p] = tx[p]
  BY <1>t, <1>5 DEF Begin, IdleTx
<1>6. ASSUME NEW r \in Procs, TakeLock(r)
      PROVE  tx'[p] = tx[p]
  <2>1. tx[r].pc = "locks" /\ \E row \in Wanted(r) : tx' = [tx EXCEPT ![r].held = @ \cup {row}]
    BY <1>6 DEF TakeLock, Wanted
  <2>2. r # p
    BY <1>t, <2>1 DEF Tx
  <2> QED  BY <1>t, <2>1, <2>2
<1>7. ASSUME NEW r \in Procs, CloseLook(r) \/ CancelSaleOf(r)
      PROVE  tx'[p] = tx[p] \/ CloseLook(p) \/ CancelSaleOf(p)
  <2>1. CASE r = p
    BY <1>7, <2>1
  <2>2. CASE r # p
    BY <1>t, <1>7, <2>2 DEF CloseLook, CancelSaleOf, GoTo
  <2> QED  BY <2>1, <2>2
<1>8. ASSUME UNCHANGED tx
      PROVE  tx'[p] = tx[p]
  BY <1>8
<1>9. ASSUME NEW o \in Orders, \/ \E a \in Accounts \cup {None} : Create(o, a)
                               \/ ConfirmSale(o) \/ Pay(o) \/ CancelSale(o)
                               \/ TransitionOrder(o) \/ Deliver(o)
                               \/ \E s \in StationsOf[o] : TransitionStation(o, s)
      PROVE  tx'[p] = tx[p]
  BY <1>8, <1>9 DEF Create, ConfirmSale, Pay, CancelSale, TransitionOrder, TransitionStation, Deliver, Advance
<1>10. ASSUME NEW a \in Accounts, OpenAccount(a)
       PROVE  tx'[p] = tx[p]
  BY <1>10 DEF OpenAccount
<1>11. CASE UNCHANGED vars
  BY <1>11 DEF vars
<1> QED
  BY NextCases, <1>3, <1>4, <1>5, <1>6, <1>7, <1>9, <1>10, <1>11

\* A cancelled sale stays cancelled, and what is settled stays settled.
LEMMA Final ==
    ASSUME Sound, OrdersFine, [Next]_vars, NEW o \in Orders
    PROVE  /\ sale[o] = "CANCELLED" => sale'[o] = "CANCELLED"
           /\ SettledOrder(o) => SettledOrder(o)'
<1>t. Tables /\ Works /\ OrderOK(o)
  BY SoundParts DEF OrdersFine
<1> DEFINE Goal == /\ sale[o] = "CANCELLED" => sale'[o] = "CANCELLED"
                   /\ SettledOrder(o) => SettledOrder(o)'
<1>0. ASSUME order'[o] = order[o], sale'[o] = sale[o]
      PROVE  Goal
  BY <1>0 DEF SettledOrder
<1>1. ASSUME NEW p \in Procs, \/ TakeLock(p) \/ CheckoutLook(p) \/ CancelLook(p) \/ CloseLook(p) \/ Abort(p)
                              \/ Split(p) \/ Merge(p) \/ CloseWrite(p)
                              \/ \E q \in Requests : Begin(p, q)
      PROVE  Goal
  BY <1>0, <1>1
     DEF TakeLock, CheckoutLook, CancelLook, CloseLook, Abort, Begin, Split, Merge, CloseWrite, tables
<1>2. ASSUME NEW p \in Procs, Return(p)
      PROVE  Goal
  BY <1>t, <1>2 DEF Return, Tables, SettledOrder, Open
<1>3. ASSUME NEW p \in Procs, Dispatch(p)
      PROVE  Goal
  <2>1. sale[o] = "CANCELLED" => sale'[o] = "CANCELLED"
    BY <1>t, <1>3 DEF Dispatch, Confirm, Tables
  <2>2. SettledOrder(o) => o # tx[p].req.order
    BY <1>3 DEF Dispatch, SettledOrder
  <2>3. o # tx[p].req.order => order'[o] = order[o] /\ sale'[o] = sale[o]
    BY <1>t, <1>3 DEF Dispatch, Confirm, Queued, Tables
  <2> QED  BY <2>1, <2>2, <2>3 DEF SettledOrder
<1>4. ASSUME NEW p \in Procs, CheckoutConfirm(p)
      PROVE  Goal
  BY <1>t, <1>4 DEF CheckoutConfirm, Confirm, Tables, SettledOrder
<1>5. ASSUME NEW p \in Procs, CheckoutQueue(p)
      PROVE  Goal
  BY <1>t, <1>5 DEF CheckoutQueue, Queued, Tables, SettledOrder
<1>6. ASSUME NEW p \in Procs, CancelSaleOf(p)
      PROVE  Goal
  BY <1>t, <1>6 DEF CancelSaleOf, Tables, SettledOrder
<1>7. ASSUME NEW p \in Procs, CancelOrder(p)
      PROVE  Goal
  BY <1>t, <1>7 DEF CancelOrder, Tables, SettledOrder
<1>8. ASSUME NEW a \in Accounts, OpenAccount(a)
      PROVE  Goal
  BY <1>0, <1>8 DEF OpenAccount
<1>9. ASSUME NEW x \in Orders, NEW a \in Accounts \cup {None}, Create(x, a)
      PROVE  Goal
  BY <1>t, <1>9 DEF Create, Tables, OrderOK, Life, SettledOrder
<1>10. ASSUME NEW x \in Orders, ConfirmSale(x) \/ Pay(x) \/ CancelSale(x)
       PROVE  Goal
  BY <1>t, <1>10 DEF ConfirmSale, Confirm, Pay, CancelSale, Tables, SettledOrder, Open
<1>11. ASSUME NEW x \in Orders, \/ TransitionOrder(x) \/ Deliver(x)
                                \/ \E s \in StationsOf[x] : TransitionStation(x, s)
       PROVE  Goal
  <2>1. sale' = sale /\ (x # o => order'[o] = order[o])
    BY <1>t, <1>11 DEF TransitionOrder, TransitionStation, Advance, Deliver, Tables
  <2>2. order[x] \notin {"DELIVERED", "CANCELLED"}
    BY <1>11 DEF TransitionOrder, TransitionStation, Deliver, MayMove, Live
  <2> QED  BY <2>1, <2>2 DEF SettledOrder
<1>12. CASE UNCHANGED vars
  BY <1>0, <1>12 DEF vars, tables
<1> QED
  BY NextCases, <1>1, <1>2, <1>3, <1>4, <1>5, <1>6, <1>7, <1>8, <1>9, <1>10, <1>11, <1>12

LEMMA DroppedStep ==
    ASSUME Sound, OrdersFine, Dropped, [Next]_vars
    PROVE  Dropped'
<1> SUFFICES ASSUME NEW p \in Procs, tx'[p].pc = "drop"
             PROVE  sale'[tx'[p].req.order] = "CANCELLED"
  BY DEF Dropped
<1>t. Tables /\ Works /\ tx \in [Procs -> Tx]
  BY SoundParts
<1>1. CASE tx'[p] = tx[p]
  <2>1. tx[p].req.order \in Orders /\ sale[tx[p].req.order] = "CANCELLED"
    BY <1>t, <1>1, RequestFields DEF Works, Dropped
  <2> QED  BY <1>1, <2>1, Final
<1>2. CASE CancelSaleOf(p)
  <2>1. tx[p].req.order \in Orders /\ tx'[p].req = tx[p].req
    BY <1>t, <1>2, RequestFields DEF CancelSaleOf, GoTo, Works, Tx
  <2> QED  BY <1>t, <1>2, <2>1 DEF CancelSaleOf, Tables
<1>3. ~CloseLook(p)
  BY <1>t DEF CloseLook, GoTo, Tx
<1> QED  BY <1>1, <1>2, <1>3, TxCases

-----------------------------------------------------------------------------
(* Accounts.                                                               *)

Settled(a) == \A o \in OrdersOf(a) : SettledOrder(o)

\* The steps that write an account, or where an order belongs.
LEMMA AccountCases ==
    ASSUME [Next]_vars
    PROVE  \/ UNCHANGED <<account, home>>
           \/ \E a \in Accounts : OpenAccount(a)
           \/ \E o \in Orders, a \in Accounts : Create(o, a)
           \/ \E o \in Orders : Create(o, None)
           \/ \E p \in Procs : Split(p) \/ Merge(p) \/ CloseWrite(p)
<1>1. ASSUME NEW p \in Procs, \/ TakeLock(p) \/ Return(p) \/ Dispatch(p) \/ CheckoutLook(p)
                              \/ CheckoutConfirm(p) \/ CheckoutQueue(p) \/ CancelLook(p)
                              \/ CancelSaleOf(p) \/ CancelOrder(p) \/ CloseLook(p) \/ Abort(p)
                              \/ \E q \in Requests : Begin(p, q)
      PROVE  UNCHANGED <<account, home>>
  BY <1>1 DEF TakeLock, Return, Dispatch, CheckoutLook, CheckoutConfirm, CheckoutQueue, CancelLook,
              CancelSaleOf, CancelOrder, CloseLook, Abort, Begin, tables
<1>2. ASSUME NEW o \in Orders, \/ ConfirmSale(o) \/ Pay(o) \/ CancelSale(o)
                               \/ TransitionOrder(o) \/ Deliver(o)
                               \/ \E s \in StationsOf[o] : TransitionStation(o, s)
      PROVE  UNCHANGED <<account, home>>
  BY <1>2 DEF ConfirmSale, Pay, CancelSale, TransitionOrder, TransitionStation, Deliver, Advance
<1>3. UNCHANGED vars => UNCHANGED <<account, home>>
  BY DEF vars, tables
<1> QED  BY NextCases, <1>1, <1>2, <1>3

\* What a step does to an account and its orders, given that the one who closes it
\* is not disturbed.
Undisturbed(a) ==
    /\ OrdersOf(a)' \subseteq OrdersOf(a)
    /\ account'[a] = account[a]

LEMMA AccountSteps ==
    ASSUME Sound, Closing, [Next]_vars, NEW a \in Accounts
    PROVE  /\ account[a] \in {"CLOSED", "MERGED"} => Undisturbed(a)
           /\ account'[a] = "CLOSED" /\ account[a] # "CLOSED" =>
                 UNCHANGED home /\ \E p \in Procs : tx[p].pc = "close" /\ tx[p].req.account = a
           /\ account'[a] = "MERGED" /\ account[a] # "MERGED" => OrdersOf(a)' = {}
<1>t. Tables /\ Works
  BY SoundParts
<1>1. CASE UNCHANGED <<account, home>>
  BY <1>1 DEF Undisturbed, OrdersOf
<1>2. ASSUME NEW b \in Accounts, OpenAccount(b)
      PROVE  /\ account[a] \in {"CLOSED", "MERGED"} => account'[a] = account[a]
             /\ account'[a] \in {"CLOSED", "MERGED"} => account'[a] = account[a]
             /\ UNCHANGED home
  BY <1>t, <1>2 DEF OpenAccount, Tables
<1>3. ASSUME NEW o \in Orders, NEW b \in Accounts \cup {None}, Create(o, b)
      PROVE  UNCHANGED account /\ (account[a] \in {"CLOSED", "MERGED"} => OrdersOf(a)' \subseteq OrdersOf(a))
  <2>1. UNCHANGED account /\ home' = [home EXCEPT ![o] = b] /\ (b = a => account[a] = "OPEN")
    BY <1>3, AccountsAssumption DEF Create, MayAdd
  <2>2. b # a => OrdersOf(a)' \subseteq OrdersOf(a)
    BY <1>t, <2>1 DEF OrdersOf, Tables
  <2> QED  BY <2>1, <2>2
<1>4. ASSUME NEW p \in Procs, Split(p)
      PROVE  /\ account[a] \in {"CLOSED", "MERGED"} => Undisturbed(a)
             /\ account'[a] \in {"CLOSED", "MERGED"} => account'[a] = account[a]
  <2> DEFINE to == tx[p].req.to
  <2>1. /\ account[to] = "NONE" /\ account' = [account EXCEPT ![to] = "OPEN"]
        /\ home' = [o \in Orders |-> IF o \in tx[p].req.orders THEN to ELSE home[o]]
    BY <1>4 DEF Split
  <2> HIDE DEF to
  <2>2. a # to => account'[a] = account[a] /\ OrdersOf(a)' \subseteq OrdersOf(a)
    BY <1>t, <2>1 DEF OrdersOf, Tables
  <2>3. a = to => account[a] = "NONE" /\ account'[a] = "OPEN"
    BY <1>t, <2>1 DEF Tables
  <2> QED  BY <2>2, <2>3 DEF Undisturbed
<1>5. ASSUME NEW p \in Procs, Merge(p)
      PROVE  /\ account[a] \in {"CLOSED", "MERGED"} => Undisturbed(a)
             /\ account'[a] = "CLOSED" => account[a] = "CLOSED"
             /\ account'[a] = "MERGED" /\ account[a] # "MERGED" => OrdersOf(a)' = {}
  <2> DEFINE into == tx[p].req.account
             from == tx[p].req.from
  <2>1. /\ account[into] = "OPEN" /\ account[from] = "OPEN" /\ into # from
        /\ account' = [account EXCEPT ![from] = "MERGED"]
        /\ home' = [o \in Orders |-> IF home[o] = from THEN into ELSE home[o]]
    BY <1>5 DEF Merge
  <2> HIDE DEF into, from
  <2>2. a \notin {into, from} => account'[a] = account[a] /\ OrdersOf(a)' \subseteq OrdersOf(a)
    BY <1>t, <2>1 DEF OrdersOf, Tables
  <2>3. a = into => account[a] = "OPEN" /\ account'[a] = "OPEN"
    BY <1>t, <2>1 DEF Tables
  <2>4. a = from => account[a] = "OPEN" /\ account'[a] = "MERGED" /\ OrdersOf(a)' = {}
    <3>1. a = from => \A o \in Orders : home'[o] # a
      BY <2>1
    <3> QED  BY <1>t, <2>1, <3>1 DEF OrdersOf, Tables
  <2> QED  BY <2>2, <2>3, <2>4 DEF Undisturbed
<1>6. ASSUME NEW p \in Procs, CloseWrite(p)
      PROVE  /\ account[a] \in {"CLOSED", "MERGED"} => Undisturbed(a)
             /\ account'[a] = "CLOSED" /\ account[a] # "CLOSED" =>
                   UNCHANGED home /\ tx[p].pc = "close" /\ tx[p].req.account = a
             /\ account'[a] = "MERGED" => account[a] = "MERGED"
  <2>1. /\ tx[p].pc = "close" /\ account' = [account EXCEPT ![tx[p].req.account] = "CLOSED"]
        /\ UNCHANGED home
    BY <1>6 DEF CloseWrite
  <2>2. account[tx[p].req.account] = "OPEN"
    BY <2>1 DEF Closing
  <2> QED  BY <1>t, <2>1, <2>2 DEF Undisturbed, OrdersOf, Tables
<1>7. CASE \E b \in Accounts : OpenAccount(b)
  BY <1>2, <1>7 DEF Undisturbed, OrdersOf
<1>8. CASE \/ \E o \in Orders, b \in Accounts : Create(o, b)
           \/ \E o \in Orders : Create(o, None)
  BY <1>3, <1>8 DEF Undisturbed
<1>9. CASE \E p \in Procs : Split(p) \/ Merge(p) \/ CloseWrite(p)
  BY <1>4, <1>5, <1>6, <1>9
<1> QED  BY AccountCases, <1>1, <1>7, <1>8, <1>9

\* Who holds the row of an account is not disturbed by the others.
LEMMA HolderUndisturbed ==
    ASSUME Sound, Closing, [Next]_vars, NEW p \in Procs, NEW a \in Accounts,
           AccountRow(a) \in tx[p].held, account[a] = "OPEN",
           tx[p].pc = "close", tx'[p] = tx[p]
    PROVE  Undisturbed(a)
<1>t. Tables /\ Works /\ Apart /\ tx \in [Procs -> Tx]
  BY SoundParts DEF Apart
<1>1. CASE UNCHANGED <<account, home>>
  BY <1>1 DEF Undisturbed, OrdersOf
<1>2. ASSUME NEW b \in Accounts, OpenAccount(b)
      PROVE  Undisturbed(a)
  BY <1>t, <1>2 DEF OpenAccount, Undisturbed, OrdersOf, Tables
<1>3. ASSUME NEW o \in Orders, NEW b \in Accounts \cup {None}, Create(o, b)
      PROVE  Undisturbed(a)
  <2>1. UNCHANGED account /\ home' = [home EXCEPT ![o] = b] /\ b # a
    BY <1>3, AccountsAssumption DEF Create, MayAdd, Free
  <2> QED  BY <1>t, <2>1 DEF Undisturbed, OrdersOf, Tables
<1>4. ASSUME NEW r \in Procs, Split(r)
      PROVE  Undisturbed(a)
  <2> DEFINE to == tx[r].req.to
  <2>1. /\ account[to] = "NONE" /\ account' = [account EXCEPT ![to] = "OPEN"]
        /\ home' = [o \in Orders |-> IF o \in tx[r].req.orders THEN to ELSE home[o]]
    BY <1>4 DEF Split
  <2>2. a # to
    BY <2>1
  <2> HIDE DEF to
  <2> QED  BY <1>t, <2>1, <2>2 DEF Undisturbed, OrdersOf, Tables
<1>5. ASSUME NEW r \in Procs, Merge(r)
      PROVE  Undisturbed(a)
  <2> DEFINE into == tx[r].req.account
             from == tx[r].req.from
  <2>1. /\ HasLocks(r, "merge") /\ tx[r].pc = "locks" /\ tx[r].req \in Requests
        /\ account' = [account EXCEPT ![from] = "MERGED"]
        /\ home' = [o \in Orders |-> IF home[o] = from THEN into ELSE home[o]]
    BY <1>t, <1>5 DEF Merge, HasLocks, Works
  <2>2. AccountRow(into) \in tx[r].held /\ AccountRow(from) \in tx[r].held
    BY <2>1, AccountsHeld
  <2>3. r # p
    BY <2>1
  <2>4. a # into /\ a # from
    BY <1>t, <2>2, <2>3 DEF Apart
  <2> HIDE DEF into, from
  <2> QED  BY <1>t, <2>1, <2>4 DEF Undisturbed, OrdersOf, Tables
<1>6. ASSUME NEW r \in Procs, CloseWrite(r)
      PROVE  Undisturbed(a)
  <2>1. /\ tx[r].pc = "close" /\ account' = [account EXCEPT ![tx[r].req.account] = "CLOSED"]
        /\ UNCHANGED home /\ tx'[r] = IdleTx
    BY <1>t, <1>6 DEF CloseWrite, End
  <2>2. r # p
    BY <2>1 DEF IdleTx
  <2>3. AccountRow(tx[r].req.account) \in tx[r].held
    BY <2>1 DEF Closing
  <2>4. tx[r].req.account # a
    BY <1>t, <2>2, <2>3 DEF Apart
  <2> QED  BY <1>t, <2>1, <2>4 DEF Undisturbed, OrdersOf, Tables
<1>7. CASE \E b \in Accounts : OpenAccount(b)
  BY <1>2, <1>7
<1>8. CASE \/ \E o \in Orders, b \in Accounts : Create(o, b)
           \/ \E o \in Orders : Create(o, None)
  BY <1>3, <1>8
<1>9. CASE \E r \in Procs : Split(r) \/ Merge(r) \/ CloseWrite(r)
  BY <1>4, <1>5, <1>6, <1>9
<1> QED  BY AccountCases, <1>1, <1>7, <1>8, <1>9

\* Orders that leave nothing to settle leave nothing to settle.
LEMMA SettledStep ==
    ASSUME Sound, OrdersFine, [Next]_vars, NEW a \in Accounts, Settled(a),
           OrdersOf(a)' \subseteq OrdersOf(a)
    PROVE  Settled(a)'
<1>1. \A o \in OrdersOf(a) : SettledOrder(o)'
  BY Final DEF Settled, OrdersOf
<1> QED  BY <1>1 DEF Settled

LEMMA ClosingStep ==
    ASSUME Sound, OrdersFine, Closing, [Next]_vars
    PROVE  Closing'
<1> SUFFICES ASSUME NEW p \in Procs, tx'[p].pc = "close"
             PROVE  /\ AccountRow(tx'[p].req.account) \in tx'[p].held
                    /\ account'[tx'[p].req.account] = "OPEN"
                    /\ (\A o \in OrdersOf(tx[p].req.account) : SettledOrder(o))'
  BY DEF Closing
<1> DEFINE a == tx[p].req.account
<1>t. Tables /\ Works /\ tx \in [Procs -> Tx]
  BY SoundParts
<1>1. CASE tx'[p] = tx[p]
  <2>1. AccountRow(a) \in tx[p].held /\ account[a] = "OPEN" /\ Settled(a)
    BY <1>1 DEF Closing, Settled
  <2>2. a \in Accounts
    BY <1>t, <1>1, RequestFields DEF Works
  <2>3. OrdersOf(a)' \subseteq OrdersOf(a) /\ account'[a] = account[a]
    BY <1>1, <2>1, <2>2, HolderUndisturbed DEF Undisturbed
  <2> QED  BY <1>1, <2>1, <2>2, <2>3, SettledStep DEF Settled
<1>2. CASE CloseLook(p)
  <2>1. tx'[p].req = tx[p].req /\ tx'[p].held = tx[p].held
    BY <1>t, <1>2 DEF CloseLook, GoTo, Tx
  <2>2. AccountRow(a) \in tx[p].held
    BY <1>t, <1>2, AccountsHeld DEF CloseLook, HasLocks, Works
  <2>3. account'[a] = "OPEN" /\ (\A o \in OrdersOf(a) : SettledOrder(o))'
    BY <1>2, <2>1 DEF CloseLook, tables, OrdersOf, SettledOrder
  <2> QED  BY <2>1, <2>2, <2>3
<1>3. ~CancelSaleOf(p)
  BY <1>t DEF CancelSaleOf, GoTo, Tx
<1> QED  BY <1>1, <1>2, <1>3, TxCases

LEMMA ClosedStep ==
    ASSUME Sound, OrdersFine, Closing, ClosedAccountsSettled, [Next]_vars
    PROVE  ClosedAccountsSettled'
<1> SUFFICES ASSUME NEW a \in Accounts
             PROVE  /\ account'[a] = "CLOSED" => Settled(a)'
                    /\ account'[a] = "MERGED" => OrdersOf(a)' = {}
  BY DEF ClosedAccountsSettled, Settled
<1>1. ASSUME account'[a] = "CLOSED"
      PROVE  Settled(a)'
  <2>1. CASE account[a] = "CLOSED"
    BY <2>1, AccountSteps, SettledStep DEF Undisturbed, ClosedAccountsSettled, Settled
  <2>2. CASE account[a] # "CLOSED"
    <3>1. UNCHANGED home /\ \E p \in Procs : tx[p].pc = "close" /\ tx[p].req.account = a
      BY <1>1, <2>2, AccountSteps
    <3>2. Settled(a) /\ OrdersOf(a)' \subseteq OrdersOf(a)
      BY <3>1 DEF Closing, Settled, OrdersOf
    <3> QED  BY <3>2, SettledStep
  <2> QED  BY <2>1, <2>2
<1>2. ASSUME account'[a] = "MERGED"
      PROVE  OrdersOf(a)' = {}
  BY <1>2, AccountSteps DEF Undisturbed, ClosedAccountsSettled
<1> QED  BY <1>1, <1>2

-----------------------------------------------------------------------------
(* The theorems.                                                           *)

LEMMA InitInv == Init => IInv
<1> SUFFICES ASSUME Init
             PROVE  IInv
  OBVIOUS
<1> USE DEF Init
<1>1. Tables
  BY DEF Tables
<1>2. tx \in [Procs -> Tx] /\ \A p \in Procs : tx[p].pc = "idle" /\ tx[p].held = {}
  BY DEF IdleTx, Tx, Steps
<1>3. Works /\ Apart /\ Dropped /\ Closing
  BY <1>2 DEF Works, Apart, Dropped, Closing
<1>4. Sound
  BY <1>1, <1>2, <1>3, SoundParts DEF Apart
<1>5. OrdersFine
  BY StationsAssumption DEF OrdersFine, OrderOK, Life, Fires, Mirrors, GoodsAt, Live, Open
<1>6. ClosedAccountsSettled
  BY DEF ClosedAccountsSettled
<1> QED  BY <1>3, <1>4, <1>5, <1>6 DEF IInv

LEMMA StepInv == IInv /\ [Next]_vars => IInv'
BY SoundStep, OrdersStep, DroppedStep, ClosingStep, ClosedStep DEF IInv

\* Whatever number of tables, orders and stations, and however the transactions of
\* the restaurant meet, the invariant holds.
THEOREM Invariance == Spec => []IInv
BY InitInv, StepInv, PTL DEF Spec

\* Every variable has its type, and a row has at most one holder.
THEOREM Typing == Spec => []TypeOK
<1>1. IInv => TypeOK
  BY DEF IInv, Sound
<1> QED  BY <1>1, Invariance, PTL

\* The status of an order is always that of its stations.
THEOREM Mirroring == Spec => []StatusMirrorsTasks
<1>1. IInv => StatusMirrorsTasks
  BY DEF IInv, OrdersFine, OrderOK, StatusMirrorsTasks
<1> QED  BY <1>1, Invariance, PTL

\* Both together: what the board shows is what the stations do.
THEOREM BoardTrue == Spec => []BoardOK
<1>1. TypeOK /\ StatusMirrorsTasks => BoardOK
  BY DEF BoardOK
<1> QED  BY <1>1, Typing, Mirroring, PTL

\* Stock follows what was confirmed, and after a return what was cooked.
THEOREM Stocking == Spec => []StockFollowsTheKitchen
<1>1. IInv => StockFollowsTheKitchen
  BY DEF IInv, OrdersFine, OrderOK, StockFollowsTheKitchen
<1> QED  BY <1>1, Invariance, PTL

\* The kitchen works on nothing that is neither paid nor on the account of a table.
THEOREM Owing == Spec => []BoardIsOwed
<1>1. IInv => BoardIsOwed
  BY DEF IInv, OrdersFine, OrderOK, BoardIsOwed
<1> QED  BY <1>1, Invariance, PTL

\* A closed account is settled and stays so.
THEOREM Closed == Spec => []ClosedAccountsSettled
<1>1. IInv => ClosedAccountsSettled
  BY DEF IInv
<1> QED  BY <1>1, Invariance, PTL

-----------------------------------------------------------------------------
(* Waiting.  Rows are taken in one order: those of accounts, the lower     *)
(* first; then a sale; then orders, which a dispatch and a return take     *)
(* last of all and a merge and a split only under the row of their account.*)

\* The account whose orders a merge or a split locks.
Source(q) == IF q.op = "merge" THEN q.from ELSE q.account

\* The rows of accounts a transaction takes before any other.
AccountRows(q) == IF q.op = "merge" THEN {AccountRow(q.account), AccountRow(q.from)}
                  ELSE {AccountRow(q.account)}

\* What a transaction may hold, and what it holds by then.
AccountKept(p, a) ==
    LET q == tx[p].req
    IN  /\ q.op \in {"dispatch", "close", "split", "merge"}
        /\ AccountRow(a) \in AccountRows(q)
        /\ q.op = "merge" => AccountRow(MergeFirst(q)) \in tx[p].held

SaleKept(p, o) ==
    LET q == tx[p].req
    IN  /\ q.op \in {"dispatch", "return"} /\ o = q.order
        /\ q.op = "dispatch" => AccountRow(q.account) \in tx[p].held

OrderKept(p, o) ==
    LET q == tx[p].req
    IN  \/ /\ q.op \in {"dispatch", "return"} /\ o = q.order
           /\ SaleRow(o) \in tx[p].held
           /\ q.op = "dispatch" => AccountRow(q.account) \in tx[p].held
        \/ /\ q.op \in {"split", "merge"}
           /\ home[o] = Source(q)
           /\ AccountRows(q) \subseteq tx[p].held

Keeps(p) ==
    /\ tx[p].pc \notin {"locks", "close"} => tx[p].held = {}
    /\ \A a \in Accounts : AccountRow(a) \in tx[p].held => AccountKept(p, a)
    /\ \A o \in Orders : SaleRow(o) \in tx[p].held => SaleKept(p, o)
    /\ \A o \in Orders : OrderRow(o) \in tx[p].held => OrderKept(p, o)

\* An order that is not there belongs to no account.
Homeless == \A o \in Orders : order[o] = "NONE" => home[o] = None

LInv == IInv /\ Homeless /\ \A p \in Procs : Keeps(p)

\* Rows of different tables, or of different things, are different.
LEMMA RowsApart ==
    /\ \A a, b : AccountRow(a) = AccountRow(b) => a = b
    /\ \A a, b : OrderRow(a) = OrderRow(b) => a = b
    /\ \A a, b : SaleRow(a) = SaleRow(b) => a = b
    /\ \A a, b : /\ AccountRow(a) # OrderRow(b) /\ AccountRow(a) # SaleRow(b)
                 /\ OrderRow(a) # SaleRow(b)
BY DEF AccountRow, OrderRow, SaleRow

\* What a transaction waits for, by what it was asked.
LEMMA WantedRows ==
    ASSUME NEW p \in Procs, tx[p].req \in Requests, NEW row \in Wanted(p),
           tx[p].req.op \notin {"checkout", "cancel"}
    PROVE  LET q == tx[p].req
               held == tx[p].held
           IN  /\ tx[p].pc = "locks" /\ row \notin held
               /\ \/ /\ q.op \in {"dispatch", "close", "split"} /\ row = AccountRow(q.account)
                  \/ /\ q.op = "merge" /\ row = AccountRow(MergeFirst(q))
                  \/ /\ q.op = "merge" /\ row \in AccountRows(q) /\ AccountRow(MergeFirst(q)) \in held
                  \/ /\ q.op \in {"dispatch", "return"} /\ row = SaleRow(q.order)
                     /\ q.op = "dispatch" => AccountRow(q.account) \in held
                  \/ /\ q.op \in {"dispatch", "return"} /\ row = OrderRow(q.order)
                     /\ SaleRow(q.order) \in held
                     /\ q.op = "dispatch" => AccountRow(q.account) \in held
                  \/ /\ q.op \in {"split", "merge"} /\ AccountRows(q) \subseteq held
                     /\ \E o \in Orders : home[o] = Source(q) /\ row = OrderRow(o)
<1> DEFINE q == tx[p].req
           held == tx[p].held
           levels == Levels(q)
<1>0. q.op \in {"dispatch", "return", "close", "merge", "split"}
  BY RequestFields
<1>1. tx[p].pc = "locks"
  BY DEF Wanted
<1>2. PICK i \in DOMAIN levels : /\ row \in levels[i] \ held
                                 /\ \A j \in 1..(i - 1) : levels[j] \subseteq held
  BY <1>1 DEF Wanted
<1>3. CASE q.op = "dispatch"
  <2>1. levels = << {AccountRow(q.account)}, {SaleRow(q.order)}, {OrderRow(q.order)} >>
    BY <1>3 DEF Levels
  <2>2. i \in {1, 2, 3}
    BY <2>1
  <2> QED  BY <1>1, <1>2, <1>3, <2>1, <2>2
<1>4. CASE q.op = "return"
  <2>1. levels = << {SaleRow(q.order)}, {OrderRow(q.order)} >>
    BY <1>4 DEF Levels
  <2>2. i \in {1, 2}
    BY <2>1
  <2> QED  BY <1>1, <1>2, <1>4, <2>1, <2>2
<1>5. CASE q.op = "close"
  <2>1. levels = << {AccountRow(q.account)} >>
    BY <1>5 DEF Levels
  <2>2. i = 1
    BY <2>1
  <2> QED  BY <1>1, <1>2, <1>5, <2>1, <2>2
<1>6. CASE q.op = "split"
  <2>1. levels = << {AccountRow(q.account)}, {OrderRow(o) : o \in q.orders \cap OrdersOf(q.account)} >>
    BY <1>6 DEF Levels
  <2>2. i \in {1, 2}
    BY <2>1
  <2>3. i = 2 => \E o \in Orders : home[o] = Source(q) /\ row = OrderRow(o)
    BY <1>2, <1>6, <2>1 DEF OrdersOf, Source
  <2> QED  BY <1>1, <1>2, <1>6, <2>1, <2>2, <2>3 DEF AccountRows
<1>7. CASE q.op = "merge"
  <2>1. levels = << {AccountRow(MergeFirst(q))}, {AccountRow(q.account), AccountRow(q.from)},
                    {OrderRow(o) : o \in OrdersOf(q.from)} >>
    BY <1>7 DEF Levels
  <2>2. i \in {1, 2, 3}
    BY <2>1
  <2>3. i = 3 => \E o \in Orders : home[o] = Source(q) /\ row = OrderRow(o)
    BY <1>2, <1>7, <2>1 DEF OrdersOf, Source
  <2> QED  BY <1>1, <1>2, <1>7, <2>1, <2>2, <2>3 DEF AccountRows
<1> QED  BY <1>0, <1>3, <1>4, <1>5, <1>6, <1>7

\* What a step does to a transaction: nothing, end it or begin it, move it on, or
\* give it a row it waits for.
LEMMA HeldCases ==
    ASSUME Sound, [Next]_vars, NEW p \in Procs
    PROVE  \/ tx'[p] = tx[p]
           \/ tx'[p].held = {}
           \/ /\ tx'[p].held = tx[p].held
              /\ \/ tx[p].pc \notin {"locks", "close"}
                 \/ tx[p].pc = "locks" /\ tx'[p].pc = "close" /\ tx'[p].req = tx[p].req
           \/ /\ UNCHANGED tables
              /\ \E row \in Wanted(p) : /\ tx'[p].held = tx[p].held \cup {row}
                                        /\ tx'[p].req = tx[p].req /\ tx'[p].pc = tx[p].pc
<1>t. Tables /\ Works /\ tx \in [Procs -> Tx]
  BY SoundParts
<1> DEFINE Fine == \/ tx'[p] = tx[p]
                   \/ tx'[p].held = {}
                   \/ /\ tx'[p].held = tx[p].held
                      /\ \/ tx[p].pc \notin {"locks", "close"}
                         \/ tx[p].pc = "locks" /\ tx'[p].pc = "close" /\ tx'[p].req = tx[p].req
                   \/ /\ UNCHANGED tables
                      /\ \E row \in Wanted(p) : /\ tx'[p].held = tx[p].held \cup {row}
                                                /\ tx'[p].req = tx[p].req /\ tx'[p].pc = tx[p].pc
<1>1. ASSUME NEW r \in Procs, End(r)
      PROVE  Fine
  BY <1>t, <1>1 DEF End, IdleTx
<1>2. ASSUME NEW r \in Procs, CheckoutLook(r) \/ CheckoutConfirm(r) \/ CancelLook(r) \/ CancelSaleOf(r)
      PROVE  Fine
  <2>1. tx[r].pc \notin {"locks", "close"} /\ \E pc \in {"sale", "queue", "drop"} : GoTo(r, pc)
    BY <1>2 DEF CheckoutLook, CheckoutConfirm, CancelLook, CancelSaleOf
  <2> QED  BY <1>t, <2>1 DEF GoTo, Tx
<1>3. ASSUME NEW r \in Procs, CloseLook(r)
      PROVE  Fine
  BY <1>t, <1>3 DEF CloseLook, HasLocks, GoTo, Tx
<1>4. ASSUME NEW r \in Procs, Return(r) \/ Dispatch(r) \/ Split(r) \/ Merge(r) \/ CheckoutQueue(r)
                              \/ CancelOrder(r) \/ CloseWrite(r) \/ Abort(r)
      PROVE  Fine
  BY <1>1, <1>4 DEF Return, Dispatch, Split, Merge, CheckoutQueue, CancelOrder, CloseWrite, Abort
<1>5. ASSUME NEW r \in Procs, NEW q \in Requests, Begin(r, q)
      PROVE  Fine
  BY <1>t, <1>5 DEF Begin, IdleTx
<1>6. ASSUME NEW r \in Procs, TakeLock(r)
      PROVE  Fine
  <2>1. PICK row \in Wanted(r) : tx' = [tx EXCEPT ![r].held = @ \cup {row}]
    BY <1>6 DEF TakeLock
  <2>2. UNCHANGED tables
    BY <1>6 DEF TakeLock
  <2>3. CASE r = p
    <3>1. tx'[p].held = tx[p].held \cup {row} /\ tx'[p].req = tx[p].req /\ tx'[p].pc = tx[p].pc
      BY <1>t, <2>1, <2>3 DEF Tx
    <3> QED  BY <2>2, <2>3, <3>1
  <2>4. CASE r # p
    BY <1>t, <2>1, <2>4
  <2> QED  BY <2>3, <2>4
<1>7. ASSUME UNCHANGED tx
      PROVE  Fine
  BY <1>7
<1>8. ASSUME NEW o \in Orders, \/ \E a \in Accounts \cup {None} : Create(o, a)
                               \/ ConfirmSale(o) \/ Pay(o) \/ CancelSale(o)
                               \/ TransitionOrder(o) \/ Deliver(o)
                               \/ \E s \in StationsOf[o] : TransitionStation(o, s)
      PROVE  Fine
  BY <1>7, <1>8 DEF Create, ConfirmSale, Pay, CancelSale, TransitionOrder, TransitionStation, Deliver, Advance
<1>9. ASSUME NEW a \in Accounts, OpenAccount(a)
      PROVE  Fine
  BY <1>7, <1>9 DEF OpenAccount
<1>10. CASE UNCHANGED vars
  BY <1>7, <1>10 DEF vars
<1> QED  BY NextCases, <1>2, <1>3, <1>4, <1>5, <1>6, <1>8, <1>9, <1>10

\* Nobody forgets an order.
LEMMA HomelessStep ==
    ASSUME Sound, Homeless, [Next]_vars
    PROVE  Homeless'
<1>t. Tables /\ Works
  BY SoundParts
<1> SUFFICES ASSUME NEW o \in Orders, order'[o] = "NONE"
             PROVE  home'[o] = None
  BY DEF Homeless
<1>1. ASSUME NEW p \in Procs, Split(p) \/ Merge(p)
      PROVE  order'[o] = order[o] /\ (home[o] = None => home'[o] = None)
  <2>1. /\ tx[p].req \in Requests /\ order' = order
    BY <1>t, <1>1 DEF Split, Merge, HasLocks, Works
  <2>2. CASE Split(p)
    <3>1. /\ tx[p].req.op = "split" /\ tx[p].req.orders \subseteq OrdersOf(tx[p].req.account)
          /\ home'[o] = IF o \in tx[p].req.orders THEN tx[p].req.to ELSE home[o]
      BY <2>2 DEF Split, HasLocks
    <3> QED  BY <2>1, <3>1, RequestFields, AccountsAssumption DEF OrdersOf
  <2>3. CASE Merge(p)
    <3>1. /\ tx[p].req.op = "merge"
          /\ home'[o] = IF home[o] = tx[p].req.from THEN tx[p].req.account ELSE home[o]
      BY <2>3 DEF Merge, HasLocks
    <3> QED  BY <2>1, <3>1, RequestFields, AccountsAssumption
  <2> QED  BY <1>1, <2>2, <2>3
<1>2. ASSUME NEW x \in Orders, \E a \in Accounts \cup {None} : Create(x, a)
      PROVE  order'[o] = order[o] /\ home'[o] = home[o]
  BY <1>t, <1>2 DEF Create, Tables
<1>3. ASSUME NEW x \in Orders, \/ ConfirmSale(x) \/ Pay(x) \/ CancelSale(x)
      PROVE  order'[o] = order[o] /\ home'[o] = home[o]
  BY <1>3 DEF ConfirmSale, Pay, CancelSale
<1>4. ASSUME NEW x \in Orders, \/ TransitionOrder(x) \/ Deliver(x)
                               \/ \E s \in StationsOf[x] : TransitionStation(x, s)
      PROVE  order'[o] = order[o] /\ home'[o] = home[o]
  <2>1. UNCHANGED home /\ \E status \in {"QUEUED", "PREPARING", "READY", "DELIVERED"} :
           order' = [order EXCEPT ![x] = status]
    BY <1>4 DEF TransitionOrder, TransitionStation, Deliver, Advance, Aggregate
  <2> QED  BY <1>t, <2>1 DEF Tables
<1>5. ASSUME NEW p \in Procs, \/ CheckoutLook(p) \/ CheckoutConfirm(p) \/ CancelLook(p)
                              \/ CancelSaleOf(p) \/ CloseLook(p) \/ CloseWrite(p) \/ Abort(p)
                              \/ TakeLock(p) \/ \E q \in Requests : Begin(p, q)
      PROVE  order'[o] = order[o] /\ home'[o] = home[o]
  BY <1>5 DEF CheckoutLook, CheckoutConfirm, CancelLook, CancelSaleOf, CloseLook, CloseWrite,
              Abort, TakeLock, Begin, tables
<1>6. ASSUME NEW p \in Procs, Return(p) \/ Dispatch(p) \/ CheckoutQueue(p) \/ CancelOrder(p)
      PROVE  order'[o] = order[o] /\ home'[o] = home[o]
  <2> DEFINE x == tx[p].req.order
  <2>1. /\ UNCHANGED home
        /\ \/ UNCHANGED order
           \/ order' = [order EXCEPT ![x] = "CANCELLED"]
           \/ order' = [order EXCEPT ![x] = "QUEUED"]
           \/ order' = [order EXCEPT ![x] = IF @ = "DRAFT" THEN "CANCELLED" ELSE @]
    BY <1>6 DEF Return, Dispatch, CheckoutQueue, CancelOrder, Queued
  <2> HIDE DEF x
  <2> QED  BY <1>t, <2>1 DEF Tables
<1>7. ASSUME NEW a \in Accounts, OpenAccount(a)
      PROVE  order'[o] = order[o] /\ home'[o] = home[o]
  BY <1>7 DEF OpenAccount
<1>8. CASE UNCHANGED vars
  BY <1>8 DEF vars, tables, Homeless
<1> QED
  BY NextCases, <1>1, <1>2, <1>3, <1>4, <1>5, <1>6, <1>7, <1>8 DEF Homeless

\* An order whose account somebody else holds stays on it.
LEMMA HomeHeld ==
    ASSUME Sound, Homeless, [Next]_vars, NEW p \in Procs, NEW o \in Orders, NEW a \in Accounts,
           home[o] = a, AccountRow(a) \in tx[p].held, tx'[p] = tx[p]
    PROVE  home'[o] = a
<1>t. Tables /\ Works /\ Apart /\ tx \in [Procs -> Tx]
  BY SoundParts DEF Apart
<1>1. ASSUME NEW r \in Procs, Split(r) \/ Merge(r)
      PROVE  home'[o] = a
  <2>1. tx[r].req \in Requests /\ tx[r].pc = "locks" /\ tx'[r].pc = "idle"
    BY <1>t, <1>1 DEF Split, Merge, HasLocks, Works, End, IdleTx
  <2>2. r # p
    BY <2>1
  <2>3. CASE Split(r)
    <3>1. HasLocks(r, "split") /\ tx[r].req.orders \subseteq OrdersOf(tx[r].req.account)
          /\ home'[o] = IF o \in tx[r].req.orders THEN tx[r].req.to ELSE home[o]
      BY <2>3 DEF Split
    <3>2. AccountRow(tx[r].req.account) \in tx[r].held
      BY <2>1, <3>1, AccountsHeld
    <3>3. tx[r].req.account # a
      BY <1>t, <2>2, <3>2 DEF Apart
    <3> QED  BY <3>1, <3>3 DEF OrdersOf
  <2>4. CASE Merge(r)
    <3>1. HasLocks(r, "merge")
          /\ home'[o] = IF home[o] = tx[r].req.from THEN tx[r].req.account ELSE home[o]
      BY <2>4 DEF Merge
    <3>2. AccountRow(tx[r].req.from) \in tx[r].held
      BY <2>1, <3>1, AccountsHeld
    <3>3. tx[r].req.from # a
      BY <1>t, <2>2, <3>2 DEF Apart
    <3> QED  BY <3>1, <3>3
  <2> QED  BY <1>1, <2>3, <2>4
<1>2. ASSUME NEW x \in Orders, \E b \in Accounts \cup {None} : Create(x, b)
      PROVE  home'[o] = a
  <2>1. order[x] = "NONE" /\ \E b \in Accounts \cup {None} : home' = [home EXCEPT ![x] = b]
    BY <1>2 DEF Create
  <2>2. x # o
    BY <2>1, AccountsAssumption DEF Homeless
  <2> QED  BY <1>t, <2>1, <2>2 DEF Tables
<1>3. ASSUME UNCHANGED <<account, home>>
      PROVE  home'[o] = a
  BY <1>3
<1>4. ASSUME NEW b \in Accounts, OpenAccount(b)
      PROVE  home'[o] = a
  BY <1>4 DEF OpenAccount
<1>5. ASSUME NEW r \in Procs, CloseWrite(r)
      PROVE  home'[o] = a
  BY <1>5 DEF CloseWrite
<1> QED
  BY AccountCases, <1>1, <1>2, <1>3, <1>4, <1>5

\* Who has taken rows has taken those before them.
LEMMA KeepsStep ==
    ASSUME Sound, Homeless, [Next]_vars, NEW p \in Procs, Keeps(p)
    PROVE  Keeps(p)'
<1>t. Tables /\ Works /\ tx \in [Procs -> Tx]
  BY SoundParts
<1>1. CASE tx'[p].held = {}
  BY <1>1 DEF Keeps
<1>2. CASE tx'[p] = tx[p] /\ tx[p].held # {}
  <2>1. tx[p].pc \in {"locks", "close"} /\ tx[p].req \in Requests
    BY <1>t, <1>2 DEF Keeps, Works
  <2>2. ASSUME NEW o \in Orders, OrderRow(o) \in tx[p].held
        PROVE  OrderKept(p, o)'
    <3>1. OrderKept(p, o)
      BY <2>2 DEF Keeps
    <3>2. CASE tx[p].req.op \in {"split", "merge"}
      <4>1. home[o] = Source(tx[p].req) /\ AccountRows(tx[p].req) \subseteq tx[p].held
        BY <3>1, <3>2 DEF OrderKept
      <4>2. /\ Source(tx[p].req) \in Accounts
            /\ AccountRow(Source(tx[p].req)) \in tx[p].held
        BY <2>1, <3>2, <4>1, RequestFields DEF Source, AccountRows
      <4>3. home'[o] = Source(tx[p].req)
        BY <1>2, <4>1, <4>2, HomeHeld
      <4> QED  BY <1>2, <3>2, <4>1, <4>3 DEF OrderKept
    <3>3. CASE tx[p].req.op \notin {"split", "merge"}
      BY <1>2, <3>1, <3>3 DEF OrderKept
    <3> QED  BY <3>2, <3>3
  <2>3. ASSUME NEW a \in Accounts, AccountRow(a) \in tx[p].held
        PROVE  AccountKept(p, a)'
    BY <1>2, <2>3 DEF Keeps, AccountKept
  <2>4. ASSUME NEW o \in Orders, SaleRow(o) \in tx[p].held
        PROVE  SaleKept(p, o)'
    BY <1>2, <2>4 DEF Keeps, SaleKept
  <2> QED  BY <1>2, <2>1, <2>2, <2>3, <2>4 DEF Keeps
<1>3. CASE tx'[p].held = tx[p].held /\ tx[p].pc \notin {"locks", "close"}
  BY <1>1, <1>3 DEF Keeps
<1>4. CASE /\ tx'[p].held = tx[p].held /\ tx'[p].req = tx[p].req
           /\ tx[p].pc = "locks" /\ tx'[p].pc = "close"
  <2>1. Works'
    BY TxStep
  <2>2. tx'[p].req.op = "close"
    BY <1>4, <2>1 DEF Works
  <2>3. /\ \A o \in Orders : SaleRow(o) \notin tx[p].held
        /\ \A o \in Orders : OrderRow(o) \notin tx[p].held
        /\ \A a \in Accounts : AccountRow(a) \in tx[p].held => AccountKept(p, a)
    BY <1>4, <2>2 DEF Keeps, SaleKept, OrderKept
  <2>4. \A a \in Accounts : AccountKept(p, a) => AccountKept(p, a)'
    BY <1>4 DEF AccountKept
  <2> QED  BY <1>4, <2>3, <2>4 DEF Keeps
<1>5. ASSUME NEW row \in Wanted(p), UNCHANGED tables,
             tx'[p].held = tx[p].held \cup {row}, tx'[p].req = tx[p].req, tx'[p].pc = tx[p].pc
      PROVE  Keeps(p)'
  <2> DEFINE q == tx[p].req
  <2>1. tx[p].pc = "locks" /\ q \in Requests /\ q.op \notin {"checkout", "cancel"}
    BY <1>t, <1>5 DEF Wanted, Works
  <2>2. UNCHANGED home
    BY <1>5 DEF tables
  <2>3. ASSUME NEW a \in Accounts, AccountRow(a) \in tx'[p].held
        PROVE  AccountKept(p, a)'
    <3>1. CASE AccountRow(a) \in tx[p].held
      BY <1>5, <3>1 DEF Keeps, AccountKept
    <3>2. CASE row = AccountRow(a)
      <4>1. /\ q.op \in {"dispatch", "close", "split", "merge"}
            /\ AccountRow(a) \in AccountRows(q)
            /\ q.op = "merge" => AccountRow(MergeFirst(q)) \in tx[p].held \cup {row}
        BY <2>1, <3>2, WantedRows, RowsApart DEF AccountRows, MergeFirst
      <4> QED  BY <1>5, <4>1 DEF AccountKept
    <3> QED  BY <1>5, <2>3, <3>1, <3>2
  <2>4. ASSUME NEW o \in Orders, SaleRow(o) \in tx'[p].held
        PROVE  SaleKept(p, o)'
    <3>1. CASE SaleRow(o) \in tx[p].held
      BY <1>5, <3>1 DEF Keeps, SaleKept
    <3>2. CASE row = SaleRow(o)
      <4>1. /\ q.op \in {"dispatch", "return"} /\ o = q.order
            /\ q.op = "dispatch" => AccountRow(q.account) \in tx[p].held
        BY <2>1, <3>2, WantedRows, RowsApart DEF AccountRows
      <4> QED  BY <1>5, <4>1 DEF SaleKept
    <3> QED  BY <1>5, <2>4, <3>1, <3>2
  <2>5. ASSUME NEW o \in Orders, OrderRow(o) \in tx'[p].held
        PROVE  OrderKept(p, o)'
    <3>1. CASE OrderRow(o) \in tx[p].held
      <4>1. OrderKept(p, o)
        BY <3>1 DEF Keeps
      <4> QED  BY <1>5, <2>2, <4>1 DEF OrderKept
    <3>2. CASE row = OrderRow(o)
      <4>1. \/ /\ q.op \in {"dispatch", "return"} /\ o = q.order
               /\ SaleRow(o) \in tx[p].held
               /\ q.op = "dispatch" => AccountRow(q.account) \in tx[p].held
            \/ /\ q.op \in {"split", "merge"}
               /\ home[o] = Source(q)
               /\ AccountRows(q) \subseteq tx[p].held
        BY <2>1, <3>2, WantedRows, RowsApart DEF AccountRows
      <4> QED  BY <1>5, <2>2, <4>1 DEF OrderKept
    <3> QED  BY <1>5, <2>5, <3>1, <3>2
  <2> QED  BY <1>5, <2>1, <2>3, <2>4, <2>5 DEF Keeps
<1> QED  BY HeldCases, <1>1, <1>2, <1>3, <1>4, <1>5

LEMMA InitKeeps == Init => Homeless /\ \A p \in Procs : Keeps(p)
BY DEF Init, IdleTx, Homeless, Keeps

\* The higher account of a merge.
MergeLast(q) == IF q.account < q.from THEN q.from ELSE q.account

\* How far a transaction has come: it waits for an account, for a sale, for its last
\* row, or for the orders of an account.
Level(p) ==
    LET q == tx[p].req
    IN  IF q.op # "return" /\ ~(AccountRows(q) \subseteq tx[p].held) THEN 0
        ELSE IF q.op \in {"split", "merge", "close"} THEN 3
        ELSE IF SaleRow(q.order) \notin tx[p].held THEN 1 ELSE 2

\* The account it waits for.
Number(p) ==
    LET q == tx[p].req
    IN  IF Level(p) # 0 \/ tx[p].pc # "locks" THEN 0
        ELSE IF q.op = "merge" /\ AccountRow(MergeFirst(q)) \in tx[p].held THEN MergeLast(q)
        ELSE IF q.op = "merge" THEN MergeFirst(q)
        ELSE q.account

\* Who waits comes earlier than the one it waits for, if that one waits too.
LEMMA WaitsUp ==
    ASSUME Sound, NEW p \in Procs, NEW r \in Procs \ {p}, Keeps(r),
           NEW row \in Wanted(p), row \in tx[r].held, NEW other \in Wanted(r)
    PROVE  \/ Level(p) < Level(r)
           \/ Level(p) = Level(r) /\ Number(p) < Number(r)
<1> DEFINE q == tx[p].req
           s == tx[r].req
<1>t. Works /\ Apart /\ tx \in [Procs -> Tx]
  BY SoundParts DEF Apart
<1>1. /\ tx[p].pc = "locks" /\ q \in Requests /\ q.op \notin {"checkout", "cancel"}
      /\ tx[r].pc = "locks" /\ s \in Requests /\ s.op \notin {"checkout", "cancel"}
      /\ row \notin tx[p].held /\ other \notin tx[r].held
  BY <1>t DEF Works, Wanted
<1>2. /\ q.op \in {"dispatch", "return", "close", "merge", "split"}
      /\ s.op \in {"dispatch", "return", "close", "merge", "split"}
  BY <1>1, RequestFields
<1>3. ASSUME NEW a \in Accounts, row = AccountRow(a)
      PROVE  \/ Level(p) < Level(r)
             \/ Level(p) = Level(r) /\ Number(p) < Number(r)
  <2>1. /\ q.op \in {"dispatch", "close", "split", "merge"} /\ AccountRow(a) \in AccountRows(q)
    BY <1>1, <1>3, WantedRows, RowsApart DEF AccountRows, MergeFirst
  <2>2. Level(p) = 0
    BY <1>1, <1>3, <2>1 DEF Level
  <2>3. Number(p) = a
    <3>1. CASE q.op # "merge"
      BY <1>1, <2>1, <2>2, <3>1, RowsApart DEF Number, AccountRows
    <3>2. CASE q.op = "merge" /\ AccountRow(MergeFirst(q)) \in tx[p].held
      <4>1. a # MergeFirst(q) /\ a \in {q.account, q.from}
        BY <1>1, <1>3, <2>1, <3>2, RowsApart DEF AccountRows
      <4>2. a = MergeLast(q)
        BY <4>1 DEF MergeFirst, MergeLast
      <4> QED  BY <1>1, <2>2, <3>2, <4>2 DEF Number
    <3>3. CASE q.op = "merge" /\ AccountRow(MergeFirst(q)) \notin tx[p].held
      <4>1. a = MergeFirst(q)
        BY <1>1, <1>3, <3>3, WantedRows, RowsApart
      <4> QED  BY <1>1, <2>2, <3>3, <4>1 DEF Number
    <3> QED  BY <3>1, <3>2, <3>3
  <2>4. AccountKept(r, a)
    BY <1>3 DEF Keeps
  <2>5. CASE AccountRows(s) \subseteq tx[r].held
    <3>1. Level(r) \in {1, 2, 3}
      BY <2>5 DEF Level
    <3> QED  BY <2>2, <3>1
  <2>6. CASE ~(AccountRows(s) \subseteq tx[r].held)
    <3>1. s.op = "merge" /\ AccountRow(MergeFirst(s)) \in tx[r].held /\ AccountRow(a) \in AccountRows(s)
      BY <1>3, <2>4, <2>6 DEF AccountKept, AccountRows
    <3>2. s.account \in Int /\ s.from \in Int
      BY <1>1, <3>1, RequestFields, AccountsAssumption
    <3>3. AccountRows(s) = {AccountRow(MergeFirst(s)), AccountRow(MergeLast(s))}
      BY <3>1, <3>2 DEF AccountRows, MergeFirst, MergeLast
    <3>4. AccountRow(MergeLast(s)) \notin tx[r].held
      BY <2>6, <3>1, <3>3
    <3>5. a = MergeFirst(s) /\ MergeFirst(s) # MergeLast(s)
      BY <1>3, <3>1, <3>3, <3>4, RowsApart
    <3>6. a < MergeLast(s)
      BY <3>2, <3>5 DEF MergeFirst, MergeLast
    <3>7. Level(r) = 0
      BY <2>6, <3>1 DEF Level
    <3>8. Number(r) = MergeLast(s)
      BY <1>1, <3>1, <3>7 DEF Number
    <3> QED  BY <2>2, <2>3, <3>6, <3>7, <3>8
  <2> QED  BY <2>5, <2>6
\* Who holds an order for a dispatch or a return waits for nothing more.
<1>4. ASSUME NEW o \in Orders, row = OrderRow(o)
      PROVE  /\ s.op \in {"split", "merge"} /\ home[o] = Source(s)
             /\ AccountRows(s) \subseteq tx[r].held
  <2>1. OrderKept(r, o)
    BY <1>4 DEF Keeps
  <2>2. ASSUME s.op \in {"dispatch", "return"}
        PROVE  FALSE
    <3>1. /\ s.order = o /\ SaleRow(s.order) \in tx[r].held /\ OrderRow(s.order) \in tx[r].held
          /\ s.op = "dispatch" => AccountRow(s.account) \in tx[r].held
      BY <1>4, <2>1, <2>2 DEF OrderKept
    <3>2. \/ other = AccountRow(s.account) /\ s.op = "dispatch"
          \/ other = SaleRow(s.order) \/ other = OrderRow(s.order)
      BY <1>1, <2>2, WantedRows
    <3> QED  BY <1>1, <3>1, <3>2
  <2> QED  BY <2>1, <2>2 DEF OrderKept
<1>5. CASE row = AccountRow(q.account) /\ q.op \in {"dispatch", "close", "split"}
  BY <1>1, <1>3, <1>5, RequestFields
<1>6. CASE q.op = "merge" /\ (row = AccountRow(MergeFirst(q)) \/ row \in AccountRows(q))
  <2>1. \E a \in Accounts : row = AccountRow(a)
    BY <1>1, <1>6, RequestFields DEF MergeFirst, AccountRows
  <2> QED  BY <1>3, <2>1
<1>7. CASE /\ q.op \in {"dispatch", "return"} /\ row = SaleRow(q.order)
           /\ q.op = "dispatch" => AccountRow(q.account) \in tx[p].held
  <2>1. q.order \in Orders
    BY <1>1, <1>7, RequestFields
  <2>2. SaleKept(r, q.order)
    BY <1>7, <2>1 DEF Keeps
  <2>3. Level(r) = 2
    BY <1>7, <2>2 DEF SaleKept, Level, AccountRows
  <2>4. Level(p) = 1
    BY <1>1, <1>7 DEF Level, AccountRows
  <2> QED  BY <2>3, <2>4
<1>8. CASE /\ q.op \in {"dispatch", "return"} /\ row = OrderRow(q.order)
           /\ SaleRow(q.order) \in tx[p].held
           /\ q.op = "dispatch" => AccountRow(q.account) \in tx[p].held
  <2>1. q.order \in Orders
    BY <1>1, <1>8, RequestFields
  <2>2. Level(r) = 3
    BY <1>4, <1>8, <2>1 DEF Level
  <2>3. Level(p) = 2
    BY <1>8 DEF Level, AccountRows
  <2> QED  BY <2>2, <2>3
<1>9. ASSUME NEW o \in Orders, q.op \in {"split", "merge"}, AccountRows(q) \subseteq tx[p].held,
             home[o] = Source(q), row = OrderRow(o)
      PROVE  FALSE
  <2>1. AccountRow(home[o]) \in tx[p].held
    BY <1>9 DEF Source, AccountRows
  <2>2. AccountRow(home[o]) \in tx[r].held
    BY <1>4, <1>9 DEF Source, AccountRows
  <2> QED  BY <1>t, <2>1, <2>2 DEF Apart
<1> QED  BY <1>1, <1>5, <1>6, <1>7, <1>8, <1>9, WantedRows

\* The invariant of the locks holds with that of the tables.
THEOREM Locking == Spec => []LInv
<1>1. Init => LInv
  BY InitInv, InitKeeps DEF LInv
<1>2. LInv /\ [Next]_vars => LInv'
  BY StepInv, HomelessStep, KeepsStep DEF LInv, IInv
<1> QED  BY <1>1, <1>2, PTL DEF Spec

\* However many merges, splits, dispatches, returns and closings meet, they never wait
\* for each other in a circle.
THEOREM NeverInACircle == Spec => []NoDeadlock
<1>1. ASSUME LInv
      PROVE  NoDeadlock
  <2> DEFINE waits == [p \in Procs |-> {q \in Procs \ {p} : Wanted(p) \cap tx[q].held # {}}]
             level == [p \in Procs |-> Level(p)]
             number == [p \in Procs |-> IF Number(p) \in Int THEN Number(p) ELSE 0]
  <2>1. Sound /\ Works /\ \A p \in Procs : Keeps(p)
    BY <1>1 DEF LInv, IInv, Sound
  <2>2. \A p \in DOMAIN waits : level[p] \in Int /\ number[p] \in Int
    BY DEF Level
  <2>3. ASSUME NEW p \in Procs, Wanted(p) # {}
        PROVE  Number(p) \in Int
    <3> DEFINE q == tx[p].req
    <3>1. q \in Requests /\ q.op \in {"dispatch", "return", "close", "merge", "split"}
      BY <2>1, <2>3, RequestFields DEF Works, Wanted
    <3>2. /\ q.op # "return" => q.account \in Int
          /\ q.op = "merge" => q.from \in Int
      BY <3>1, RequestFields, AccountsAssumption
    <3>3. q.op = "return" => Level(p) # 0
      BY DEF Level
    <3> QED  BY <3>1, <3>2, <3>3 DEF Number, MergeFirst, MergeLast
  <2>4. ASSUME NEW p \in DOMAIN waits, NEW q \in waits[p]
        PROVE  /\ q \in DOMAIN waits
               /\ waits[q] # {} => \/ level[p] < level[q]
                                   \/ level[p] = level[q] /\ number[p] < number[q]
    <3>1. p \in Procs /\ q \in Procs \ {p} /\ Wanted(p) \cap tx[q].held # {}
      OBVIOUS
    <3>2. PICK row \in Wanted(p) : row \in tx[q].held
      BY <3>1
    <3>3. ASSUME waits[q] # {}
          PROVE  \/ level[p] < level[q]
                 \/ level[p] = level[q] /\ number[p] < number[q]
      <4>1. Wanted(q) # {}
        BY <3>1, <3>3
      <4>2. \/ Level(p) < Level(q)
            \/ Level(p) = Level(q) /\ Number(p) < Number(q)
        BY <2>1, <3>1, <3>2, <4>1, WaitsUp
      <4>3. number[p] = Number(p) /\ number[q] = Number(q)
        BY <2>3, <3>1, <3>2, <4>1
      <4>4. level[p] = Level(p) /\ level[q] = Level(q)
        BY <3>1
      <4> QED  BY <4>2, <4>3, <4>4
    <3> QED  BY <3>1, <3>3
  <2> HIDE DEF level, number
  <2>5. NoDeadlock <=> InACircle(waits) = {}
    BY DEF NoDeadlock
  <2> HIDE DEF waits
  <2> QED  BY <2>2, <2>4, <2>5, NoCircle
<1> QED  BY <1>1, Locking, PTL

(***************************************************************************)
(* Reports.  A sale only grows older, so who has left a list never comes   *)
(* back, and a step adds to a list or takes from it one sale at most: what *)
(* a scan or a page has passed moves by one place at most (ReadInv).  That *)
(* the reports of one moment agree is about the tables alone: each step    *)
(* keeps debts, cash and goods in step with the sales (TablesInv), and the *)
(* queries add up the same amounts in different groups.                    *)
(***************************************************************************)

-----------------------------------------------------------------------------
(* Sales in the order of their ids.                                        *)

\* The place of a sale in a list, the one made last in the first place.
Place(S, s) == Cardinality({o \in S : o >= s})

\* And in a lot, the one made first in the first place.
Rank(S, s) == Cardinality({o \in S : o <= s})

\* One member more.
LEMMA OneMore ==
    ASSUME NEW S, IsFiniteSet(S), NEW x
    PROVE  /\ IsFiniteSet(S \union {x}) /\ Cardinality(S \union {x}) \in Nat /\ Cardinality(S) \in Nat
           /\ Cardinality(S \union {x}) <= Cardinality(S) + 1
           /\ x \notin S => Cardinality(S \union {x}) = Cardinality(S) + 1
<1>1. IsFiniteSet(S \union {x})
      /\ Cardinality(S \union {x}) = IF x \in S THEN Cardinality(S) ELSE Cardinality(S) + 1
  BY FS_AddElement
<1>2. Cardinality(S \union {x}) \in Nat /\ Cardinality(S) \in Nat
  BY <1>1, FS_CardinalityType
<1> QED  BY <1>1, <1>2

\* The k that come after the first a.
Lot(S, a, k) == {s \in S : Rank(S, s) \in a + 1 .. a + k}

\* Two sales of a list have different places, in the order of their ids.
LEMMA PlacesInOrder ==
    ASSUME NEW S, S \subseteq Nat, IsFiniteSet(S)
    PROVE  /\ \A a \in Nat : Place(S, a) \in Nat /\ Place(S, a) <= Cardinality(S)
           /\ \A a, b \in S : a < b => Place(S, b) < Place(S, a)
           /\ \A a \in S : Place(S, a) >= 1
<1> DEFINE From(a) == {o \in S : o >= a}
<1>1. ASSUME NEW a \in Nat
      PROVE  /\ IsFiniteSet(From(a)) /\ Cardinality(From(a)) \in Nat
             /\ Cardinality(From(a)) <= Cardinality(S)
  BY FS_Subset, FS_CardinalityType
<1>2. ASSUME NEW a \in S, NEW b \in S, a < b
      PROVE  Cardinality(From(b)) < Cardinality(From(a))
  <2>0. a \in Nat /\ b \in Nat /\ \A o \in S : o \in Nat
    OBVIOUS
  <2>1. From(b) \in SUBSET From(a) /\ a \in From(a) /\ a \notin From(b)
    <3>1. \A o \in S : o >= b => o >= a
      BY <1>2, <2>0
    <3>2. a >= a /\ ~(a >= b)
      BY <1>2, <2>0
    <3> QED  BY <3>1, <3>2
  <2>2. Cardinality(From(b)) <= Cardinality(From(a)) /\ Cardinality(From(b)) # Cardinality(From(a))
    <3> HIDE DEF From
    <3> QED  BY <1>1, <2>1, FS_Subset
  <2> HIDE DEF From
  <2> QED  BY <1>1, <2>0, <2>2
<1>3. ASSUME NEW a \in S
      PROVE  Cardinality(From(a)) >= 1
  <2>1. From(a) # {}
    <3>1. a \in From(a)
      OBVIOUS
    <3> QED  BY <3>1
  <2> HIDE DEF From
  <2> QED  BY <1>1, <2>1, FS_EmptySet
<1> QED  BY <1>1, <1>2, <1>3 DEF Place

\* The same of lots.
LEMMA RanksInOrder ==
    ASSUME NEW S, S \subseteq Nat, IsFiniteSet(S)
    PROVE  /\ \A a \in Nat : Rank(S, a) \in Nat /\ Rank(S, a) <= Cardinality(S)
           /\ \A a, b \in S : a < b => Rank(S, a) < Rank(S, b)
           /\ \A a \in S : Rank(S, a) \in 1 .. Cardinality(S)
           /\ Cardinality(S) \in Nat
<1> DEFINE UpTo(a) == {o \in S : o <= a}
<1>0. Cardinality(S) \in Nat
  BY FS_CardinalityType
<1>1. ASSUME NEW a \in Nat
      PROVE  /\ IsFiniteSet(UpTo(a)) /\ Cardinality(UpTo(a)) \in Nat
             /\ Cardinality(UpTo(a)) <= Cardinality(S)
  BY FS_Subset, FS_CardinalityType
<1>2. ASSUME NEW a \in S, NEW b \in S, a < b
      PROVE  Cardinality(UpTo(a)) < Cardinality(UpTo(b))
  <2>0. a \in Nat /\ b \in Nat /\ \A o \in S : o \in Nat
    OBVIOUS
  <2>1. UpTo(a) \in SUBSET UpTo(b) /\ b \in UpTo(b) /\ b \notin UpTo(a)
    <3>1. \A o \in S : o <= a => o <= b
      BY <1>2, <2>0
    <3>2. b <= b /\ ~(b <= a)
      BY <1>2, <2>0
    <3> QED  BY <3>1, <3>2
  <2>2. Cardinality(UpTo(a)) <= Cardinality(UpTo(b)) /\ Cardinality(UpTo(a)) # Cardinality(UpTo(b))
    <3> HIDE DEF UpTo
    <3> QED  BY <1>1, <2>1, FS_Subset
  <2> HIDE DEF UpTo
  <2> QED  BY <1>1, <2>0, <2>2
<1>3. ASSUME NEW a \in S
      PROVE  Cardinality(UpTo(a)) >= 1
  <2>1. UpTo(a) # {}
    <3>1. a \in UpTo(a)
      OBVIOUS
    <3> QED  BY <3>1
  <2> HIDE DEF UpTo
  <2> QED  BY <1>1, <2>1, FS_EmptySet
<1>4. ASSUME NEW a \in S
      PROVE  Cardinality(UpTo(a)) \in 1 .. Cardinality(S)
  <2> HIDE DEF UpTo
  <2> QED  BY <1>0, <1>1, <1>3
<1> QED  BY <1>0, <1>1, <1>2, <1>4 DEF Rank

\* A list has a sale at each rank, so a lot is whole unless the list ends.
LEMMA RanksAreAll ==
    ASSUME NEW S, S \subseteq Nat, IsFiniteSet(S), NEW a \in Nat, NEW k \in Nat,
           a + k <= Cardinality(S)
    PROVE  Cardinality(Lot(S, a, k)) = k
<1> DEFINE rank == [s \in S |-> Rank(S, s)]
           n == Cardinality(S)
           lot == {s \in S : Rank(S, s) \in a + 1 .. a + k}
           part == [s \in lot |-> Rank(S, s)]
<1>1. n \in Nat /\ \A s \in S : Rank(S, s) \in 1 .. n
  BY RanksInOrder
<1>2. \A s, o \in S : Rank(S, s) = Rank(S, o) => s = o
  <2>1. \A s, o \in S : s < o => Rank(S, s) # Rank(S, o)
    <3>1. \A s \in S : Rank(S, s) \in Nat
      BY <1>1
    <3>2. \A s, o \in S : s < o => Rank(S, s) < Rank(S, o)
      BY RanksInOrder
    <3> QED  BY <3>1, <3>2
  <2>2. \A s, o \in S : s \in Nat /\ o \in Nat
    OBVIOUS
  <2> QED  BY <2>1, <2>2
<1>3. rank \in Injection(S, 1 .. n)
  <2> HIDE DEF n
  <2> QED  BY <1>1, <1>2 DEF Injection, IsInjective
<1>4. IsFiniteSet(1 .. n) /\ Cardinality(1 .. n) = n
  <2>1. 1 \in Int /\ n \in Int /\ (IF 1 > n THEN 0 ELSE n - 1 + 1) = n
    <3> HIDE DEF n
    <3> QED  BY <1>1
  <2> QED  BY <2>1, FS_Interval
<1>5. rank \in Surjection(S, 1 .. n)
  <2> HIDE DEF rank
  <2> QED  BY <1>3, <1>4, FS_Injection
<1>6. \A i \in 1 .. n : \E s \in S : Rank(S, s) = i
  BY <1>5 DEF Surjection
<1>7. a + 1 .. a + k \subseteq 1 .. n
  <2>1. a + k <= n
    OBVIOUS
  <2> HIDE DEF n
  <2> QED  BY <1>1, <2>1
<1>8. part \in Bijection(lot, a + 1 .. a + k)
  <2>1. part \in Injection(lot, a + 1 .. a + k)
    BY <1>2 DEF Injection, IsInjective
  <2>2. part \in Surjection(lot, a + 1 .. a + k)
    <3>1. part \in [lot -> a + 1 .. a + k]
      OBVIOUS
    <3>2. ASSUME NEW i \in a + 1 .. a + k
          PROVE  \E s \in lot : part[s] = i
      BY <1>6, <1>7
    <3> QED  BY <3>1, <3>2 DEF Surjection
  <2> QED  BY <2>1, <2>2 DEF Bijection
<1>9. IsFiniteSet(a + 1 .. a + k) /\ Cardinality(a + 1 .. a + k) = k
  <2>1. a + 1 \in Int /\ a + k \in Int
        /\ (IF a + 1 > a + k THEN 0 ELSE a + k - (a + 1) + 1) = k
    OBVIOUS
  <2> QED  BY <2>1, FS_Interval
<1>10. IsFiniteSet(lot)
  BY FS_Subset
<1>11. ExistsBijection(lot, a + 1 .. a + k)
  <2> HIDE DEF lot, part
  <2> QED  BY <1>8 DEF ExistsBijection
<1>12. Cardinality(lot) = k
  <2> HIDE DEF lot
  <2> QED  BY <1>9, <1>10, <1>11, FS_Bijection
<1> QED  BY <1>12 DEF Lot

-----------------------------------------------------------------------------
(* The tables.                                                             *)

Books == [IncreaseTypes \union DecreaseTypes -> Nat]
TableSet == [status : [Sales -> SaleStatuses],
             paid : [Sales -> [Methods -> Nat]],
             debt : [Sales -> {"NONE", "PENDING", "PAID", "CANCELLED"}],
             book : [Terminals -> Books],
             stock : [Warehouses -> [Products -> Nat]]]

\* A sum of whole numbers is one.
LEMMA SumOfInt ==
    ASSUME NEW g, IsFiniteSet(DOMAIN g), \A x \in DOMAIN g : g[x] \in Int
    PROVE  SumFunction(g) \in Int
BY SumInt DEF SumFunction

\* And of natural numbers.
LEMMA SumOfNat ==
    ASSUME NEW g, IsFiniteSet(DOMAIN g), \A x \in DOMAIN g : g[x] \in Nat
    PROVE  SumFunction(g) \in Nat
BY SumNat DEF SumFunction

\* What a sale costs before its discount, and what it costs.
LEMMA TotalsAreNat ==
    \A s \in Sales :
        /\ SumFunction([x \in Products |-> SaleData[s].items[x] * Price[x]]) \in Nat
        /\ TotalOf(s) = SumFunction([x \in Products |-> SaleData[s].items[x] * Price[x]])
                        - SaleData[s].discount
        /\ TotalOf(s) \in Nat
<1>1. SUFFICES ASSUME NEW s \in Sales
      PROVE  /\ SumFunction([x \in Products |-> SaleData[s].items[x] * Price[x]]) \in Nat
             /\ TotalOf(s) = SumFunction([x \in Products |-> SaleData[s].items[x] * Price[x]])
                             - SaleData[s].discount
             /\ TotalOf(s) \in Nat
  OBVIOUS
<1> DEFINE gross == [x \in Products |-> SaleData[s].items[x] * Price[x]]
<1>2. SaleData[s].items \in [Products -> Nat] /\ SaleData[s].discount \in Nat
  BY SalesAssumption
<1>3. DOMAIN gross = Products /\ \A x \in Products : gross[x] \in Nat
  BY <1>2, PlacesAssumption
<1>4. SumFunction(gross) \in Nat
  <2> HIDE DEF gross
  <2> QED  BY <1>3, SumOfNat, PlacesAssumption
<1>5. TotalOf(s) = SumFunction(gross) - SaleData[s].discount
  BY DEF TotalOf, TotalOfSale, SumOver
<1>6. TotalOf(s) >= 0
  BY DiscountAssumption
<1> HIDE DEF gross
<1>7. TotalOf(s) \in Nat
  BY <1>2, <1>4, <1>5, <1>6
<1> QED  BY <1>4, <1>5, <1>7 DEF gross

\* What a sale was paid.
LEMMA PaidIsNat ==
    ASSUME NEW moment \in TableSet, NEW s \in Sales
    PROVE  PaidOf(moment, s) \in Nat
<1> DEFINE paid == [m \in Methods |-> moment.paid[s][m]]
<1>1. DOMAIN paid = Methods /\ \A m \in Methods : paid[m] \in Nat
  BY DEF TableSet
<1>2. PaidOf(moment, s) = SumFunction(paid)
  BY DEF PaidOf, SumOver
<1> HIDE DEF paid
<1> QED  BY <1>1, <1>2, SumOfNat, PlacesAssumption

\* One sale is paid more by one method, and the status and debt of one sale change.
Gets(paid, after, s, m, amount) ==
    /\ \A i \in Methods : after[s][i] = IF i = m THEN paid[s][i] + amount ELSE paid[s][i]
    /\ \A o \in Sales \ {s} : after[o] = paid[o]
Becomes(value, after, s, new) == after[s] = new /\ \A o \in Sales \ {s} : after[o] = value[o]

\* A payment adds to what the sale was paid.
LEMMA PaidMore ==
    ASSUME NEW now \in TableSet, NEW next \in TableSet, NEW s \in Sales, NEW m \in Methods,
           NEW amount \in Nat, Gets(now.paid, next.paid, s, m, amount)
    PROVE  /\ PaidOf(next, s) = PaidOf(now, s) + amount
           /\ \A o \in Sales \ {s} : PaidOf(next, o) = PaidOf(now, o)
<1> DEFINE f == [i \in Methods |-> now.paid[s][i]]
           g == [i \in Methods |-> next.paid[s][i]]
<1>1. /\ DOMAIN f = Methods /\ DOMAIN g = Methods
      /\ \A i \in Methods : f[i] \in Nat /\ g[i] \in Nat
      /\ g[m] = f[m] + amount /\ \A i \in Methods \ {m} : f[i] = g[i]
  BY DEF TableSet, Gets
<1>2. PaidOf(now, s) = SumFunctionOnSet(f, Methods) /\ PaidOf(next, s) = SumFunctionOnSet(g, Methods)
  BY <1>1 DEF PaidOf, SumOver, SumFunction
<1>3. SumFunctionOnSet(g, Methods) = SumFunctionOnSet(f, Methods) + (g[m] - f[m])
  <2> HIDE DEF f, g
  <2> QED  BY <1>1, SumChange, PlacesAssumption
<1>4. SumFunctionOnSet(f, Methods) \in Int
  <2> HIDE DEF f, g
  <2> QED  BY <1>1, SumInt, PlacesAssumption
<1>5. ASSUME NEW o \in Sales \ {s} PROVE PaidOf(next, o) = PaidOf(now, o)
  <2>1. next.paid[o] = now.paid[o]
    BY DEF Gets
  <2> QED  BY <2>1 DEF PaidOf, SumOver
<1>6. PaidOf(next, s) = PaidOf(now, s) + amount
  <2> HIDE DEF f, g
  <2> QED  BY <1>1, <1>2, <1>3, <1>4
<1> QED  BY <1>5, <1>6

\* The till of a sale.
TillOf(s) == SaleData[s].terminal

\* Where a sale is made, and of what.
LEMMA SaleFields ==
    ASSUME NEW s \in Sales
    PROVE  /\ SaleData[s].terminal \in Terminals /\ SaleData[s].warehouse \in Warehouses
           /\ SaleData[s].items \in [Products -> Nat] /\ SaleData[s].discount \in Nat
           /\ SaleData[s].customer \in BOOLEAN /\ SaleData[s].user \in Users
           /\ SaleData[s].moment \in Moments
           /\ BranchOf[SaleData[s].terminal] = BranchOf[SaleData[s].warehouse]
BY SalesAssumption

\* What goes into a till, if it is open.
LEMMA BookEffect ==
    ASSUME t \in TableSet, NEW till \in Terminals, NEW type \in IncreaseTypes \union DecreaseTypes,
           NEW amount \in Nat
    PROVE  /\ Book(till, type, amount) \in [Terminals -> Books]
           /\ \A r \in Terminals : \A y \in IncreaseTypes \union DecreaseTypes :
                Book(till, type, amount)[r][y] = IF till \in openTills /\ r = till /\ y = type
                                                 THEN t.book[r][y] + amount ELSE t.book[r][y]
<1> DEFINE types == IncreaseTypes \union DecreaseTypes
           book == t.book
<1>1. book \in [Terminals -> [types -> Nat]] /\ type \in types
  BY DEF TableSet, Books
<1>2. Book(till, type, amount) = IF till \in openTills THEN [book EXCEPT ![till][type] = @ + amount] ELSE book
  BY DEF Book
<1>3. /\ [book EXCEPT ![till][type] = @ + amount] \in [Terminals -> [types -> Nat]]
      /\ \A r \in Terminals : \A y \in types :
            [book EXCEPT ![till][type] = @ + amount][r][y]
                = IF r = till /\ y = type THEN book[r][y] + amount ELSE book[r][y]
  <2> HIDE DEF book, types
  <2> QED  BY <1>1
<1>4. CASE till \in openTills
  BY <1>2, <1>3, <1>4 DEF Books
<1>5. CASE till \notin openTills
  <2>1. Book(till, type, amount) = book
    BY <1>2, <1>5
  <2> QED  BY <1>1, <1>5, <2>1 DEF Books
<1> QED  BY <1>4, <1>5

\* A payment, field by field.
LEMMA PayingEffect ==
    ASSUME t \in TableSet, NEW now \in TableSet, now.book = t.book,
           NEW s \in Sales, NEW m \in Methods, NEW amount \in Nat
    PROVE  LET next == Paying(now, s, m, amount)
               paid == PaidOf(now, s) + amount
           IN  /\ next \in TableSet
               /\ Becomes(now.status, next.status, s, StatusAfter(s, paid))
               /\ Gets(now.paid, next.paid, s, m, amount)
               /\ Becomes(now.debt, next.debt, s,
                          IF now.debt[s] # "NONE" /\ paid = TotalOf(s) THEN "PAID" ELSE now.debt[s])
               /\ next.book = IF m = "CASH" THEN Book(TillOf(s), "SALE_PAYMENT", amount) ELSE t.book
               /\ next.stock = now.stock
<1> DEFINE next == Paying(now, s, m, amount)
           paid == PaidOf(now, s) + amount
<1>0. next = [now EXCEPT !.status[s] = StatusAfter(s, paid),
                         !.paid[s][m] = @ + amount,
                         !.debt[s] = IF @ # "NONE" /\ paid = TotalOf(s) THEN "PAID" ELSE @,
                         !.book = IF m = "CASH" THEN Book(TillOf(s), "SALE_PAYMENT", amount) ELSE @]
  BY DEF Paying, TillOf
<1> HIDE DEF next, paid
<1>1. /\ next.status = [now.status EXCEPT ![s] = StatusAfter(s, paid)]
      /\ next.paid = [now.paid EXCEPT ![s][m] = @ + amount]
      /\ next.debt = [now.debt EXCEPT ![s] = IF @ # "NONE" /\ paid = TotalOf(s) THEN "PAID" ELSE @]
      /\ next.book = IF m = "CASH" THEN Book(TillOf(s), "SALE_PAYMENT", amount) ELSE t.book
      /\ next.stock = now.stock
      /\ next = [status |-> next.status, paid |-> next.paid, debt |-> next.debt,
                 book |-> next.book, stock |-> next.stock]
  <2>1. now = [status |-> now.status, paid |-> now.paid, debt |-> now.debt,
               book |-> now.book, stock |-> now.stock]
    BY DEF TableSet
  <2>2. next = [status |-> [now.status EXCEPT ![s] = StatusAfter(s, paid)],
                paid |-> [now.paid EXCEPT ![s][m] = @ + amount],
                debt |-> [now.debt EXCEPT ![s] = IF @ # "NONE" /\ paid = TotalOf(s) THEN "PAID" ELSE @],
                book |-> IF m = "CASH" THEN Book(TillOf(s), "SALE_PAYMENT", amount) ELSE now.book,
                stock |-> now.stock]
    BY <1>0, <2>1
  <2> QED  BY <2>2
<1>2. StatusAfter(s, paid) \in SaleStatuses
  BY DEF StatusAfter, SaleStatuses
<1>3. Book(TillOf(s), "SALE_PAYMENT", amount) \in [Terminals -> Books] /\ t.book \in [Terminals -> Books]
  <2>1. TillOf(s) \in Terminals /\ "SALE_PAYMENT" \in IncreaseTypes \union DecreaseTypes
    BY SaleFields DEF TillOf, IncreaseTypes
  <2> QED  BY <2>1, BookEffect DEF TableSet
<1>4. /\ now.status \in [Sales -> SaleStatuses] /\ now.paid \in [Sales -> [Methods -> Nat]]
      /\ now.debt \in [Sales -> {"NONE", "PENDING", "PAID", "CANCELLED"}]
      /\ now.stock \in [Warehouses -> [Products -> Nat]]
  BY DEF TableSet
<1>5. /\ next.status \in [Sales -> SaleStatuses]
      /\ next.paid \in [Sales -> [Methods -> Nat]]
      /\ next.debt \in [Sales -> {"NONE", "PENDING", "PAID", "CANCELLED"}]
      /\ next.book \in [Terminals -> Books]
      /\ next.stock \in [Warehouses -> [Products -> Nat]]
  BY <1>1, <1>2, <1>3, <1>4
<1>6. next \in TableSet
  BY <1>1, <1>5 DEF TableSet
<1>7. /\ Becomes(now.status, next.status, s, StatusAfter(s, paid))
      /\ Gets(now.paid, next.paid, s, m, amount)
  BY <1>1, <1>4 DEF Becomes, Gets
<1>8. Becomes(now.debt, next.debt, s,
              IF now.debt[s] # "NONE" /\ paid = TotalOf(s) THEN "PAID" ELSE now.debt[s])
  BY <1>1, <1>4 DEF Becomes
<1> QED  BY <1>1, <1>6, <1>7, <1>8 DEF next, paid

\* The steps a sale makes.
Calls(s) == t.status[s] = "DRAFT" /\ CallOff(s)
Confirms(s, m, amount) == t.status[s] = "DRAFT" /\ ConfirmDraft(s, m, amount)
Pays(s, m, amount) == t.status[s] \in {"CONFIRMED", "PARTIALLY_PAID"} /\ AddPayment(s, m, amount)
Returns(s) == t.status[s] \in RealSaleStatuses /\ ReturnSale(s)

\* Goods of a sale leave a warehouse or come back.
LEMMA StockEffect ==
    ASSUME t \in TableSet, NEW s \in Sales, NEW sign \in {-1, 1},
           sign = -1 => \A x \in Products : t.stock[SaleData[s].warehouse][x] >= SaleData[s].items[x]
    PROVE  /\ StockWith(s, sign) \in [Warehouses -> [Products -> Nat]]
           /\ \A w \in Warehouses : \A x \in Products :
                StockWith(s, sign)[w][x] = IF w = SaleData[s].warehouse
                                           THEN t.stock[w][x] + sign * SaleData[s].items[x]
                                           ELSE t.stock[w][x]
<1> DEFINE place == SaleData[s].warehouse
           items == SaleData[s].items
           stock == t.stock
           row == [x \in Products |-> stock[place][x] + sign * items[x]]
<1>1. place \in Warehouses /\ items \in [Products -> Nat] /\ stock \in [Warehouses -> [Products -> Nat]]
  BY SaleFields DEF TableSet
<1>2. StockWith(s, sign) = [stock EXCEPT ![place] = row]
  BY DEF StockWith
<1>3. \A x \in Products : row[x] \in Nat
  <2>1. SUFFICES ASSUME NEW x \in Products PROVE stock[place][x] + sign * items[x] \in Nat
    OBVIOUS
  <2>2. stock[place][x] \in Nat /\ items[x] \in Nat /\ (sign = -1 => stock[place][x] >= items[x])
    BY <1>1
  <2> HIDE DEF stock, items, place
  <2>3. CASE sign = 1
    BY <2>2, <2>3
  <2>4. CASE sign = -1
    BY <2>2, <2>4
  <2> QED  BY <2>3, <2>4
<1> DEFINE after == [stock EXCEPT ![place] = row]
<1>4. row \in [Products -> Nat]
  BY <1>3
<1>5. /\ after \in [Warehouses -> [Products -> Nat]]
      /\ \A w \in Warehouses : after[w] = IF w = place THEN row ELSE stock[w]
  <2> HIDE DEF row, stock, place, items
  <2> QED  BY <1>1, <1>4
<1>6. \A w \in Warehouses : \A x \in Products :
        after[w][x] = IF w = place THEN stock[w][x] + sign * items[x] ELSE stock[w][x]
  <2> HIDE DEF after, stock, place, items
  <2> QED  BY <1>5
<1> QED  BY <1>2, <1>5, <1>6

\* Two fields of a record are replaced.
Replaced(r, stock, s, opened) == [r EXCEPT !.stock = stock, !.debt[s] = opened]

\* So a record changes, field by field.
LEMMA TwoFields ==
    ASSUME NEW r \in TableSet, NEW stock, NEW s \in Sales, NEW opened
    PROVE  Replaced(r, stock, s, opened)
             = [status |-> r.status, paid |-> r.paid, debt |-> [r.debt EXCEPT ![s] = opened],
                book |-> r.book, stock |-> stock]
<1>1. r = [status |-> r.status, paid |-> r.paid, debt |-> r.debt, book |-> r.book, stock |-> r.stock]
  BY DEF TableSet
<1> DEFINE q == [r EXCEPT !.stock = stock]
<1>2. q = [status |-> r.status, paid |-> r.paid, debt |-> r.debt, book |-> r.book, stock |-> stock]
  BY <1>1
<1> HIDE DEF q
<1>3. [q EXCEPT !.debt[s] = opened]
        = [status |-> r.status, paid |-> r.paid, debt |-> [r.debt EXCEPT ![s] = opened],
           book |-> r.book, stock |-> stock]
  BY <1>2
<1> QED  BY <1>3 DEF q, Replaced

\* A confirmation takes the goods, opens the debt and enters the payment.
LEMMA ConfirmEffect ==
    ASSUME t \in TableSet, NEW s \in Sales, NEW m \in Methods, NEW amount \in Nat,
           Confirms(s, m, amount)
    PROVE  LET paid == PaidOf(t, s) + amount
           IN  /\ t' \in TableSet
               /\ t.status[s] = "DRAFT"
               /\ Becomes(t.status, t'.status, s, StatusAfter(s, paid))
               /\ Gets(t.paid, t'.paid, s, m, amount)
               /\ Becomes(t.debt, t'.debt, s,
                     IF SaleData[s].customer /\ amount < TotalOf(s)
                     THEN IF paid = TotalOf(s) THEN "PAID" ELSE "PENDING"
                     ELSE IF t.debt[s] # "NONE" /\ paid = TotalOf(s) THEN "PAID" ELSE t.debt[s])
               /\ t'.book = IF m = "CASH" THEN Book(TillOf(s), "SALE_PAYMENT", amount) ELSE t.book
               /\ TakenApart(s, m, amount)
               /\ t'.stock = StockWith(s, -1)
               /\ StockWith(s, -1) \in [Warehouses -> [Products -> Nat]]
               /\ \A w \in Warehouses : \A x \in Products :
                    StockWith(s, -1)[w][x] = IF w = SaleData[s].warehouse
                                             THEN t.stock[w][x] + (-1) * SaleData[s].items[x]
                                             ELSE t.stock[w][x]
<1> DEFINE opened == IF SaleData[s].customer /\ amount < TotalOf(s) THEN "PENDING" ELSE t.debt[s]
           debt == [t.debt EXCEPT ![s] = opened]
           now == [t EXCEPT !.stock = StockWith(s, -1), !.debt[s] = opened]
<1>1. t.status[s] = "DRAFT" /\ t' = Paying(now, s, m, amount) /\ TakenApart(s, m, amount)
      /\ \A x \in Products : t.stock[SaleData[s].warehouse][x] >= SaleData[s].items[x]
  BY DEF Confirms, ConfirmDraft
<1>2. StockWith(s, -1) \in [Warehouses -> [Products -> Nat]]
      /\ \A w \in Warehouses : \A x \in Products :
           StockWith(s, -1)[w][x] = IF w = SaleData[s].warehouse
                                    THEN t.stock[w][x] + (-1) * SaleData[s].items[x]
                                    ELSE t.stock[w][x]
  BY <1>1, StockEffect
<1>3. now = [status |-> t.status, paid |-> t.paid, debt |-> debt, book |-> t.book,
             stock |-> StockWith(s, -1)]
  <2>1. now = Replaced(t, StockWith(s, -1), s, opened)
    BY DEF Replaced
  <2> HIDE DEF now, opened
  <2> QED  BY <2>1, TwoFields
<1>4. debt \in [Sales -> {"NONE", "PENDING", "PAID", "CANCELLED"}]
  BY DEF TableSet
<1> HIDE DEF now, debt
<1>5. now \in TableSet /\ now.book = t.book
  BY <1>2, <1>3, <1>4 DEF TableSet, Books
<1>6. PaidOf(now, s) = PaidOf(t, s)
  BY <1>3 DEF PaidOf, SumOver
<1>7. /\ t' \in TableSet
      /\ Becomes(t.status, t'.status, s, StatusAfter(s, PaidOf(t, s) + amount))
      /\ Gets(t.paid, t'.paid, s, m, amount)
      /\ Becomes(debt, t'.debt, s,
                 IF debt[s] # "NONE" /\ PaidOf(t, s) + amount = TotalOf(s) THEN "PAID" ELSE debt[s])
      /\ t'.book = IF m = "CASH" THEN Book(TillOf(s), "SALE_PAYMENT", amount) ELSE t.book
      /\ t'.stock = StockWith(s, -1)
  <2>1. now.status = t.status /\ now.paid = t.paid /\ now.debt = debt /\ now.stock = StockWith(s, -1)
    BY <1>3
  <2> QED  BY <1>1, <1>5, <1>6, <2>1, PayingEffect
<1>8. /\ \A o \in Sales \ {s} : debt[o] = t.debt[o]
      /\ debt[s] = IF SaleData[s].customer /\ amount < TotalOf(s) THEN "PENDING" ELSE t.debt[s]
  BY DEF debt, TableSet
<1>9. Becomes(t.debt, t'.debt, s,
              IF SaleData[s].customer /\ amount < TotalOf(s)
              THEN IF PaidOf(t, s) + amount = TotalOf(s) THEN "PAID" ELSE "PENDING"
              ELSE IF t.debt[s] # "NONE" /\ PaidOf(t, s) + amount = TotalOf(s) THEN "PAID" ELSE t.debt[s])
  BY <1>7, <1>8 DEF Becomes
<1> QED  BY <1>1, <1>2, <1>7, <1>9

\* A payment changes what the sale was paid, its status and debt, and the till.
LEMMA PayEffect ==
    ASSUME t \in TableSet, NEW s \in Sales, NEW m \in Methods, NEW amount \in Nat,
           Pays(s, m, amount)
    PROVE  LET paid == PaidOf(t, s) + amount
           IN  /\ t' \in TableSet
               /\ t.status[s] \in {"CONFIRMED", "PARTIALLY_PAID"}
               /\ paid <= TotalOf(s)
               /\ Becomes(t.status, t'.status, s, StatusAfter(s, paid))
               /\ Gets(t.paid, t'.paid, s, m, amount)
               /\ Becomes(t.debt, t'.debt, s,
                          IF t.debt[s] # "NONE" /\ paid = TotalOf(s) THEN "PAID" ELSE t.debt[s])
               /\ t'.book = IF m = "CASH" THEN Book(TillOf(s), "SALE_PAYMENT", amount) ELSE t.book
               /\ TakenApart(s, m, amount)
               /\ t'.stock = t.stock
<1>1. /\ t' = Paying(t, s, m, amount) /\ TakenApart(s, m, amount) /\ PaidOf(t, s) + amount <= TotalOf(s)
      /\ t.status[s] \in {"CONFIRMED", "PARTIALLY_PAID"}
  BY DEF Pays, AddPayment
<1> QED  BY <1>1, PayingEffect

\* A return brings the goods back, cancels the debt and pays back what the till has.
LEMMA ReturnEffect ==
    ASSUME t \in TableSet, NEW s \in Sales, Returns(s)
    PROVE  /\ t' \in TableSet
           /\ t.status[s] \in RealSaleStatuses
           /\ Becomes(t.status, t'.status, s, "REFUNDED")
           /\ t'.paid = t.paid
           /\ Becomes(t.debt, t'.debt, s, IF t.debt[s] = "NONE" THEN "NONE" ELSE "CANCELLED")
           /\ apart' = apart
           /\ \/ t'.book = t.book
              \/ \E r \in Terminals : t'.book = Book(r, "SALE_REFUND", t.paid[s]["CASH"])
           /\ t'.stock = StockWith(s, 1)
           /\ \A w \in Warehouses : \A x \in Products :
                StockWith(s, 1)[w][x] = IF w = SaleData[s].warehouse
                                        THEN t.stock[w][x] + 1 * SaleData[s].items[x]
                                        ELSE t.stock[w][x]
<1>0. PICK r \in Terminals :
        t' = [t EXCEPT !.status[s] = "REFUNDED", !.stock = StockWith(s, 1),
                       !.debt[s] = IF @ = "NONE" THEN @ ELSE "CANCELLED",
                       !.book = IF r \in openTills /\ t.paid[s]["CASH"] <= CashReport(t, openTills, NoFilter)[r]
                                THEN Book(r, "SALE_REFUND", t.paid[s]["CASH"]) ELSE @]
  BY DEF Returns, ReturnSale
<1> DEFINE book == IF r \in openTills /\ t.paid[s]["CASH"] <= CashReport(t, openTills, NoFilter)[r]
                   THEN Book(r, "SALE_REFUND", t.paid[s]["CASH"]) ELSE t.book
<1>1. /\ t.status[s] \in RealSaleStatuses /\ apart' = apart
      /\ t' = [t EXCEPT !.status[s] = "REFUNDED", !.stock = StockWith(s, 1),
                        !.debt[s] = IF @ = "NONE" THEN @ ELSE "CANCELLED", !.book = book]
  BY <1>0 DEF Returns, ReturnSale
<1>2. /\ StockWith(s, 1) \in [Warehouses -> [Products -> Nat]]
      /\ \A w \in Warehouses : \A x \in Products :
           StockWith(s, 1)[w][x] = IF w = SaleData[s].warehouse
                                   THEN t.stock[w][x] + 1 * SaleData[s].items[x]
                                   ELSE t.stock[w][x]
  BY StockEffect
<1>3. t.paid[s]["CASH"] \in Nat
  BY PlacesAssumption DEF TableSet
<1>4. Book(r, "SALE_REFUND", t.paid[s]["CASH"]) \in [Terminals -> Books] /\ t.book \in [Terminals -> Books]
  BY <1>3, BookEffect DEF TableSet, DecreaseTypes
<1>5. /\ book \in [Terminals -> Books]
      /\ book = t.book \/ \E q \in Terminals : book = Book(q, "SALE_REFUND", t.paid[s]["CASH"])
  BY <1>4
<1> DEFINE status == [t.status EXCEPT ![s] = "REFUNDED"]
           debt == [t.debt EXCEPT ![s] = IF @ = "NONE" THEN @ ELSE "CANCELLED"]
<1> HIDE DEF book
<1>6. t' = [status |-> status, paid |-> t.paid, debt |-> debt, book |-> book, stock |-> StockWith(s, 1)]
  BY <1>1 DEF TableSet
<1>7. status \in [Sales -> SaleStatuses] /\ debt \in [Sales -> {"NONE", "PENDING", "PAID", "CANCELLED"}]
  BY DEF TableSet, SaleStatuses
<1> HIDE DEF status, debt
<1>8. t' \in TableSet
  BY <1>2, <1>5, <1>6, <1>7 DEF TableSet
<1>9. Becomes(t.status, status, s, "REFUNDED")
  BY DEF status, Becomes, TableSet
<1>10. Becomes(t.debt, debt, s, IF t.debt[s] = "NONE" THEN "NONE" ELSE "CANCELLED")
  BY DEF debt, Becomes, TableSet
<1>11. t'.status = status /\ t'.paid = t.paid /\ t'.debt = debt /\ t'.book = book /\ t'.stock = StockWith(s, 1)
  BY <1>6
<1>12. Becomes(t.status, t'.status, s, "REFUNDED")
  BY <1>9, <1>11
<1>13. Becomes(t.debt, t'.debt, s, IF t.debt[s] = "NONE" THEN "NONE" ELSE "CANCELLED")
  BY <1>10, <1>11
<1> QED  BY <1>1, <1>2, <1>5, <1>8, <1>11, <1>12, <1>13

\* A step of the sales is one of the five, of one sale.
Moves(s) ==
    \/ Calls(s) \/ Returns(s)
    \/ \E m \in Methods, amount \in Nat :
          /\ amount <= TotalOf(s)
          /\ Confirms(s, m, amount) \/ (amount > 0 /\ Pays(s, m, amount))

\* Who moves, moves one sale.
LEMMA OneSaleMoves ==
    ASSUME SaleMoves
    PROVE  \E s \in Sales : Moves(s)
<1>1. PICK s \in Sales :
           \/ Calls(s)
           \/ \E m \in Methods, amount \in 1..TotalOf(s) : Confirms(s, m, amount) \/ Pays(s, m, amount)
           \/ \E m \in Methods : Confirms(s, m, 0)
           \/ Returns(s)
  BY DEF SaleMoves, Calls, Confirms, Pays, Returns
<1>2. TotalOf(s) \in Nat
  BY TotalsAreNat
<1>3. CASE \E m \in Methods, amount \in 1..TotalOf(s) : Confirms(s, m, amount) \/ Pays(s, m, amount)
  <2>1. PICK m \in Methods, amount \in 1..TotalOf(s) : Confirms(s, m, amount) \/ Pays(s, m, amount)
    BY <1>3
  <2>2. amount \in Nat /\ amount <= TotalOf(s) /\ amount > 0
    BY <1>2
  <2> QED  BY <2>1, <2>2 DEF Moves
<1>4. CASE \E m \in Methods : Confirms(s, m, 0)
  <2>1. 0 \in Nat /\ 0 <= TotalOf(s)
    BY <1>2
  <2> QED  BY <1>4, <2>1 DEF Moves
<1> QED  BY <1>1, <1>3, <1>4 DEF Moves

\* The life of a sale goes one way.
Stage == [status \in SaleStatuses |->
            CASE status = "DRAFT" -> 0 [] status = "CONFIRMED" -> 1
              [] status = "PARTIALLY_PAID" -> 2 [] status = "PAID" -> 3 [] OTHER -> 4]

\* A step leaves the other sales alone, and takes its own further in its life; nothing paid is taken off.
LEMMA SaleGrowsOlder ==
    ASSUME t \in TableSet, NEW s \in Sales, Moves(s)
    PROVE  /\ t' \in TableSet
           /\ \A o \in Sales \ {s} : t'.status[o] = t.status[o] /\ t'.paid[o] = t.paid[o]
           /\ t'.status[s] = t.status[s] \/ Stage[t.status[s]] < Stage[t'.status[s]]
           /\ t.status[s] \in RealSaleStatuses => t'.status[s] \in RealSaleStatuses \union {"REFUNDED"}
           /\ \A m \in Methods : t.paid[s][m] <= t'.paid[s][m]
<1> DEFINE Older(now, next) == now = next \/ Stage[now] < Stage[next]
           P == /\ t' \in TableSet
                /\ \A o \in Sales \ {s} : t'.status[o] = t.status[o] /\ t'.paid[o] = t.paid[o]
                /\ Older(t.status[s], t'.status[s])
                /\ t.status[s] \in RealSaleStatuses => t'.status[s] \in RealSaleStatuses \union {"REFUNDED"}
                /\ \A m \in Methods : t.paid[s][m] <= t'.paid[s][m]
<1>0. /\ t.status \in [Sales -> SaleStatuses] /\ t.paid \in [Sales -> [Methods -> Nat]]
      /\ t.paid[s] \in [Methods -> Nat]
  BY DEF TableSet
<1>st. /\ Stage["DRAFT"] = 0 /\ Stage["CONFIRMED"] = 1 /\ Stage["PARTIALLY_PAID"] = 2
       /\ Stage["PAID"] = 3 /\ Stage["CANCELLED"] = 4 /\ Stage["REFUNDED"] = 4
  BY DEF Stage, SaleStatuses
<1>1. CASE Calls(s)
  <2>1. /\ t.status[s] = "DRAFT" /\ t'.status = [t.status EXCEPT ![s] = "CANCELLED"]
        /\ t' = [status |-> [t.status EXCEPT ![s] = "CANCELLED"], paid |-> t.paid, debt |-> t.debt,
                 book |-> t.book, stock |-> t.stock]
    BY <1>1 DEF Calls, CallOff, TableSet
  <2>2. t' \in TableSet
    <3>1. [t.status EXCEPT ![s] = "CANCELLED"] \in [Sales -> SaleStatuses]
      BY <1>0 DEF SaleStatuses
    <3> QED  BY <2>1, <3>1 DEF TableSet
  <2>3. t'.paid = t.paid
    BY <2>1
  <2>4. \A m \in Methods : t.paid[s][m] <= t'.paid[s][m]
    BY <1>0, <2>3
  <2>5. t'.status[s] = "CANCELLED" /\ \A o \in Sales \ {s} : t'.status[o] = t.status[o]
    BY <1>0, <2>1
  <2>6. Older(t.status[s], t'.status[s]) /\ t.status[s] \notin RealSaleStatuses
    BY <1>st, <2>1, <2>5 DEF RealSaleStatuses
  <2> QED  BY <2>2, <2>3, <2>4, <2>5, <2>6
<1>2. CASE Returns(s)
  <2>1. /\ t' \in TableSet /\ t.status[s] \in RealSaleStatuses
        /\ Becomes(t.status, t'.status, s, "REFUNDED") /\ t'.paid = t.paid
    BY <1>2, ReturnEffect
  <2>2. \A m \in Methods : t.paid[s][m] <= t'.paid[s][m]
    BY <1>0, <2>1
  <2>3. t'.status[s] = "REFUNDED" /\ \A o \in Sales \ {s} : t'.status[o] = t.status[o]
    BY <2>1 DEF Becomes
  <2>4. Older(t.status[s], t'.status[s])
    BY <1>st, <2>1, <2>3 DEF RealSaleStatuses
  <2> QED  BY <2>1, <2>2, <2>3, <2>4
<1>3. ASSUME NEW m \in Methods, NEW amount \in Nat,
             \/ Confirms(s, m, amount) \/ (amount > 0 /\ Pays(s, m, amount))
      PROVE  P
  <2>1. /\ t' \in TableSet
        /\ Becomes(t.status, t'.status, s, StatusAfter(s, PaidOf(t, s) + amount))
        /\ Gets(t.paid, t'.paid, s, m, amount)
        /\ \/ t.status[s] = "DRAFT"
           \/ amount > 0 /\ t.status[s] \in {"CONFIRMED", "PARTIALLY_PAID"}
    <3>1. CASE Confirms(s, m, amount)
      BY <3>1, ConfirmEffect
    <3>2. CASE amount > 0 /\ Pays(s, m, amount)
      BY <3>2, PayEffect
    <3> QED  BY <1>3, <3>1, <3>2
  <2>2. PaidOf(t, s) \in Nat
    BY PaidIsNat
  <2> DEFINE status == StatusAfter(s, PaidOf(t, s) + amount)
  <2>3. /\ status \in {"CONFIRMED", "PARTIALLY_PAID", "PAID"}
        /\ amount > 0 => status # "CONFIRMED"
    BY <2>2 DEF StatusAfter
  <2> HIDE DEF status
  <2>4. t'.status[s] = status /\ \A o \in Sales \ {s} : t'.status[o] = t.status[o]
    BY <2>1 DEF status, Becomes
  <2>5. Older(t.status[s], t'.status[s])
    BY <1>st, <2>1, <2>3, <2>4
  <2>6. /\ \A o \in Sales \ {s} : t'.paid[o] = t.paid[o]
        /\ \A i \in Methods : t.paid[s][i] <= t'.paid[s][i]
    BY <1>0, <2>1 DEF Gets
  <2>7. t'.status[s] \in RealSaleStatuses
    BY <2>3, <2>4 DEF RealSaleStatuses
  <2> QED  BY <2>1, <2>4, <2>5, <2>6, <2>7
<1>4. P
  BY <1>1, <1>2, <1>3 DEF Moves
<1> QED  BY <1>4

-----------------------------------------------------------------------------
(* What a filter lets in.                                                  *)

\* All that a filter asks but the status and what was paid.
AsksOf(f, s) ==
    /\ f.terminal \in {Unset, SaleData[s].terminal} /\ f.warehouse \in {Unset, SaleData[s].warehouse}
    /\ f.branch # Unset => AtBranch(s, f.branch)
    /\ f.user \in {Unset, SaleData[s].user}
    /\ f.product # Unset => Has(s, f.product)
    /\ f.category # Unset => \E x \in Products : Has(s, x) /\ CategoryOf[x] = f.category
    /\ DateRange(SaleData[s].moment, f)

\* A sale that is past what a filter asks for.
PastFor(moment, f, s) ==
    IF f.status = Unset THEN moment.status[s] = "REFUNDED"
    ELSE f.status \in SaleStatuses /\ Stage[f.status] < Stage[moment.status[s]]

\* Who is in a list, by status, by method and by what else the filter asks.
LEMMA Listing ==
    ASSUME NEW moment, NEW f, NEW s
    PROVE  s \in BuildSalesWhere(moment, f)
             <=> /\ s \in Sales
                 /\ StatusFits(moment, s, f.status)
                 /\ f.method # Unset => moment.paid[s][f.method] > 0
                 /\ AsksOf(f, s)
BY DEF BuildSalesWhere, AsksOf

\* A list is a finite set of sales.
LEMMA ListsAreFinite ==
    ASSUME NEW moment, NEW f
    PROVE  /\ BuildSalesWhere(moment, f) \subseteq Sales /\ BuildSalesWhere(moment, f) \subseteq Nat
           /\ IsFiniteSet(BuildSalesWhere(moment, f))
           /\ Cardinality(BuildSalesWhere(moment, f)) \in Nat
<1>1. BuildSalesWhere(moment, f) \subseteq Sales
  BY DEF BuildSalesWhere
<1>2. IsFiniteSet(BuildSalesWhere(moment, f))
  BY <1>1, FS_Subset, SalesAssumption
<1> QED  BY <1>1, <1>2, FS_CardinalityType, SalesAssumption

\* Stages are numbers.
LEMMA StagesAreInt == \A status \in SaleStatuses : Stage[status] \in 0..4
BY DEF Stage, SaleStatuses

\* Who is past what a filter asks for is not in its list.
LEMMA PastIsOut ==
    ASSUME NEW moment \in TableSet, NEW f, NEW s \in Sales, PastFor(moment, f, s)
    PROVE  s \notin BuildSalesWhere(moment, f)
<1>1. moment.status[s] \in SaleStatuses
  BY DEF TableSet
<1>2. ~StatusFits(moment, s, f.status)
  <2>1. CASE f.status = Unset
    BY <2>1 DEF PastFor, StatusFits, RealSaleStatuses
  <2>2. CASE f.status # Unset
    BY <1>1, <2>2, StagesAreInt DEF PastFor, StatusFits
  <2> QED  BY <2>1, <2>2
<1> QED  BY <1>2, Listing

\* What a step of one sale does to the list of a filter: the others stay or stay away,
\* and who leaves is past, for good.
LEMMA ListsChangeByOne ==
    ASSUME t \in TableSet, NEW s \in Sales, Moves(s), NEW f \in Filters
    PROVE  LET S == BuildSalesWhere(t, f)
               T == BuildSalesWhere(t', f)
           IN  /\ S \ {s} = T \ {s}
               /\ s \in S \ T => PastFor(t', f, s)
               /\ \A o \in Sales : PastFor(t, f, o) => PastFor(t', f, o)
<1> DEFINE S == BuildSalesWhere(t, f)
           T == BuildSalesWhere(t', f)
<1>1. /\ t' \in TableSet
      /\ \A o \in Sales \ {s} : t'.status[o] = t.status[o] /\ t'.paid[o] = t.paid[o]
      /\ t'.status[s] = t.status[s] \/ Stage[t.status[s]] < Stage[t'.status[s]]
      /\ t.status[s] \in RealSaleStatuses => t'.status[s] \in RealSaleStatuses \union {"REFUNDED"}
      /\ \A m \in Methods : t.paid[s][m] <= t'.paid[s][m]
  BY SaleGrowsOlder
<1>2. ASSUME NEW o \in Sales \ {s} PROVE o \in S <=> o \in T
  BY <1>1, <1>2, Listing DEF StatusFits
<1>3. /\ \A o \in Sales : t.status[o] \in SaleStatuses /\ t'.status[o] \in SaleStatuses
      /\ \A m \in Methods : t.paid[s][m] \in Nat /\ t'.paid[s][m] \in Nat
  BY <1>1 DEF TableSet
<1>4. ASSUME s \in S \ T PROVE PastFor(t', f, s)
  <2>1. f.method # Unset => t.paid[s][f.method] > 0 /\ f.method \in Methods
    BY <1>4, Listing, ReadingAssumption
  <2>2. f.method # Unset => t'.paid[s][f.method] > 0
    BY <1>1, <1>3, <2>1
  <2>3. StatusFits(t, s, f.status) /\ ~StatusFits(t', s, f.status)
    BY <1>4, <2>2, Listing
  <2>4. CASE f.status = Unset
    BY <1>1, <2>3, <2>4 DEF StatusFits, PastFor
  <2>5. CASE f.status # Unset
    BY <1>1, <1>3, <2>3, <2>5 DEF StatusFits, PastFor
  <2> QED  BY <2>4, <2>5
<1>5. ASSUME NEW o \in Sales, PastFor(t, f, o) PROVE PastFor(t', f, o)
  <2>1. t'.status[o] = t.status[o] \/ Stage[t.status[o]] < Stage[t'.status[o]]
    BY <1>1
  <2>2. CASE f.status = Unset
    <3>1. t.status[o] = "REFUNDED" /\ Stage["REFUNDED"] = 4
      BY <1>5, <2>2 DEF PastFor, Stage, SaleStatuses
    <3>2. Stage[t'.status[o]] \in 0..4
      BY <1>3, StagesAreInt
    <3> QED  BY <2>1, <2>2, <3>1, <3>2 DEF PastFor
  <2>3. CASE f.status # Unset
    <3>1. f.status \in SaleStatuses /\ Stage[f.status] < Stage[t.status[o]]
      BY <1>5, <2>3 DEF PastFor
    <3>2. Stage[f.status] \in Int /\ Stage[t.status[o]] \in Int /\ Stage[t'.status[o]] \in Int
      BY <1>3, <3>1, StagesAreInt
    <3> QED  BY <2>1, <2>3, <3>1, <3>2 DEF PastFor
  <2> QED  BY <2>2, <2>3
<1>6. S \ {s} = T \ {s}
  <2>1. S \subseteq Sales /\ T \subseteq Sales
    BY ListsAreFinite
  <2> HIDE DEF S, T
  <2> QED  BY <1>2, <2>1
<1> HIDE DEF S, T
<1> QED  BY <1>4, <1>5, <1>6 DEF S, T

-----------------------------------------------------------------------------
(* Types.                                                                  *)

Reads == [kind : {"none", "rows", "count", "page", "scan", "scanned"}, filter : Filters,
          at : Nat, more : BOOLEAN, seen : [Sales -> Nat],
          start : SUBSET Sales, left : SUBSET Sales, skipped : Nat]

\* The type invariant, part by part.
LEMMA TypesOf ==
    ReportsTypeOK <=> /\ t \in TableSet /\ form \in Filters /\ read \in Reads
                      /\ openTills \subseteq Terminals /\ apart \in Nat
BY DEF ReportsTypeOK, TableSet, Books, Reads

\* A reading that begins.
LEMMA Beginning ==
    ASSUME ReportsTypeOK, NEW kind \in {"rows", "scan"}
    PROVE  /\ NotReading \in Reads
           /\ BeginReading(kind) = [kind |-> kind, filter |-> form, at |-> 0, more |-> FALSE,
                                    seen |-> [s \in Sales |-> 0], start |-> BuildSalesWhere(t, form),
                                    left |-> {}, skipped |-> 0]
           /\ BeginReading(kind) \in Reads
<1>1. NotReading \in Reads
  BY ReadingAssumption DEF NotReading, Reads
<1>2. BeginReading(kind) = [kind |-> kind, filter |-> form, at |-> 0, more |-> FALSE,
                            seen |-> [s \in Sales |-> 0], start |-> BuildSalesWhere(t, form),
                            left |-> {}, skipped |-> 0]
  <2> DEFINE S == BuildSalesWhere(t, form)
             zero == [s \in Sales |-> 0]
  <2>1. NotReading = [kind |-> "none", filter |-> NoFilter, at |-> 0, more |-> FALSE,
                      seen |-> zero, start |-> {}, left |-> {}, skipped |-> 0]
    BY DEF NotReading
  <2>2. BeginReading(kind) = [NotReading EXCEPT !.kind = kind, !.filter = form, !.start = S]
    BY DEF BeginReading
  <2> HIDE DEF S, zero
  <2>3. BeginReading(kind) = [kind |-> kind, filter |-> form, at |-> 0, more |-> FALSE,
                              seen |-> zero, start |-> S, left |-> {}, skipped |-> 0]
    BY <2>1, <2>2
  <2> QED  BY <2>3 DEF S, zero
<1>3. BuildSalesWhere(t, form) \subseteq Sales
  BY ListsAreFinite
<1>4. BeginReading(kind) \in Reads
  BY <1>2, <1>3, TypesOf DEF Reads
<1> QED  BY <1>1, <1>2, <1>4

\* What a reading has seen.
LEMMA SeenType ==
    ASSUME ReportsTypeOK, NEW rows
    PROVE  /\ Seen(rows) \in [Sales -> Nat]
           /\ \A s \in Sales : Seen(rows)[s] = IF s \in rows THEN read.seen[s] + 1 ELSE read.seen[s]
<1>1. \A s \in Sales : read.seen[s] \in Nat
  BY TypesOf DEF Reads
<1> QED  BY <1>1 DEF Seen

\* The first state has its types.
LEMMA InitTypes == ReportsInit => ReportsTypeOK
<1>1. SUFFICES ASSUME ReportsInit
      PROVE  /\ t \in TableSet /\ form \in Filters /\ read \in Reads
             /\ openTills \subseteq Terminals /\ apart \in Nat
  BY TypesOf
<1>2. NotReading \in Reads
  BY ReadingAssumption DEF NotReading, Reads
<1>3. Tables0 \in TableSet
  BY PlacesAssumption DEF Tables0, TableSet, NothingPaid, NoMovement, Books, SaleStatuses
<1> QED  BY <1>1, <1>2, <1>3, ReadingAssumption DEF ReportsInit

\* An expense is entered in a till.
LEMMA ExpenseEffect ==
    ASSUME t \in TableSet, openTills \subseteq Terminals, Expense
    PROVE  \E r \in Terminals :
              /\ t' = [status |-> t.status, paid |-> t.paid, debt |-> t.debt,
                       book |-> [t.book EXCEPT ![r]["EXPENSE"] = @ + 1], stock |-> t.stock]
              /\ t' \in TableSet
              /\ r \in openTills /\ UNCHANGED <<openTills, apart, form, read>>
<1>1. PICK r \in openTills : /\ t' = [t EXCEPT !.book[r]["EXPENSE"] = @ + 1]
                             /\ UNCHANGED <<openTills, apart, form, read>>
  BY DEF Expense
<1>0. r \in Terminals
  OBVIOUS
<1> DEFINE book == [t.book EXCEPT ![r]["EXPENSE"] = @ + 1]
<1>2. t' = [status |-> t.status, paid |-> t.paid, debt |-> t.debt, book |-> book, stock |-> t.stock]
  BY <1>1 DEF TableSet
<1>3. book \in [Terminals -> Books]
  <2>1. t.book \in [Terminals -> [IncreaseTypes \union DecreaseTypes -> Nat]]
    BY DEF TableSet, Books
  <2>2. "EXPENSE" \in IncreaseTypes \union DecreaseTypes
    BY DEF DecreaseTypes
  <2> DEFINE types == IncreaseTypes \union DecreaseTypes
             old == t.book
  <2> HIDE DEF types, old
  <2> DEFINE row == [old[r] EXCEPT !["EXPENSE"] = @ + 1]
  <2>3. row \in [types -> Nat]
    <3>1. old[r] \in [types -> Nat]
      BY <2>1 DEF types, old
    <3> QED  BY <2>2, <3>1 DEF types
  <2> HIDE DEF row
  <2>4. [old EXCEPT ![r] = row] \in [Terminals -> [types -> Nat]]
    BY <2>1, <2>3 DEF types, old
  <2> QED  BY <2>4 DEF Books, types, old, row
<1> HIDE DEF book
<1>4. t' \in TableSet
  BY <1>2, <1>3 DEF TableSet
<1> QED  BY <1>0, <1>1, <1>2, <1>4 DEF book

\* A step of the sales leaves the screen and notes what left the list.
LEMMA SaleMovesReading ==
    ASSUME ReportsTypeOK, SaleMoves
    PROVE  LET gone == BuildSalesWhere(t, read.filter) \ BuildSalesWhere(t', read.filter)
           IN  /\ UNCHANGED <<openTills, form>>
               /\ read' = [kind |-> read.kind, filter |-> read.filter, at |-> read.at,
                           more |-> read.more, seen |-> read.seen, start |-> read.start,
                           left |-> read.left \union gone, skipped |-> read.skipped]
               /\ read' \in Reads
<1> DEFINE gone == BuildSalesWhere(t, read.filter) \ BuildSalesWhere(t', read.filter)
<1>1. UNCHANGED <<openTills, form>> /\ read' = [read EXCEPT !.left = @ \union gone]
  BY DEF SaleMoves
<1>2. read \in Reads
  BY TypesOf
<1>3. gone \subseteq Sales
  BY ListsAreFinite
<1> HIDE DEF gone
<1>4. read' = [kind |-> read.kind, filter |-> read.filter, at |-> read.at,
               more |-> read.more, seen |-> read.seen, start |-> read.start,
               left |-> read.left \union gone, skipped |-> read.skipped]
  BY <1>1, <1>2 DEF Reads
<1>5. read' \in Reads
  BY <1>2, <1>3, <1>4 DEF Reads
<1> QED  BY <1>1, <1>4, <1>5 DEF gone

\* The lot that a scan reads next.
Rest == {s \in BuildSalesWhere(t, read.filter) : s >= read.at}
Skip == IF read.at = 0 THEN 0 ELSE 1
Batch == BatchFrom(BuildSalesWhere(t, read.filter), read.at, BatchSize)
Whole == Cardinality(Batch) = BatchSize

\* A lot of the code is a lot of ranks: it skips the cursor, and is whole when as many rows are left.
LEMMA BatchIs ==
    ASSUME ReportsTypeOK
    PROVE  /\ Batch = {s \in Rest : Rank(Rest, s) \in Skip + 1 .. Skip + BatchSize}
           /\ Rest \subseteq Sales /\ Rest \subseteq Nat /\ IsFiniteSet(Rest)
           /\ Batch \subseteq Rest /\ IsFiniteSet(Batch)
           /\ Whole => Max(Batch) \in Batch /\ \A s \in Batch : s <= Max(Batch)
<1>1. Batch = {s \in Rest : Rank(Rest, s) \in Skip + 1 .. Skip + BatchSize}
  BY DEF Batch, BatchFrom, Rest, Skip, Rank
<1>2. Rest \subseteq BuildSalesWhere(t, read.filter)
  BY DEF Rest
<1>3. Rest \subseteq Sales /\ Rest \subseteq Nat /\ IsFiniteSet(Rest)
  BY <1>2, ListsAreFinite, FS_Subset
<1>4. Batch \subseteq Rest /\ IsFiniteSet(Batch)
  BY <1>1, <1>3, FS_Subset
<1>5. ASSUME Whole PROVE Max(Batch) \in Batch /\ \A s \in Batch : s <= Max(Batch)
  <2>1. Batch # {}
    BY <1>5, FS_EmptySet, ReadingAssumption DEF Whole
  <2> DEFINE id == [s \in Batch |-> s]
  <2>2. \A s \in Batch : id[s] = s /\ id[s] \in Int
    BY <1>3, <1>4
  <2>3. \E x \in Batch : \A y \in Batch : id[y] <= id[x]
    <3> HIDE DEF id
    <3> QED  BY <1>4, <2>1, <2>2, Greatest
  <2>4. \E x \in Batch : \A y \in Batch : x >= y
    BY <1>3, <1>4, <2>2, <2>3
  <2>5. Max(Batch) \in Batch /\ \A y \in Batch : Max(Batch) >= y
    BY <2>4 DEF Max
  <2> QED  BY <1>3, <1>4, <2>5
<1> QED  BY <1>1, <1>3, <1>4, <1>5

\* The steps of a reader, field by field.
LEMMA RowsEffect ==
    ASSUME ReportsTypeOK, ReadRows
    PROVE  LET rows == PageOf(BuildSalesWhere(t, read.filter), read.at, PageSize)
           IN  /\ read.kind = "rows" /\ UNCHANGED <<t, form>>
               /\ read' = [kind |-> "count", filter |-> read.filter, at |-> read.at,
                           more |-> read.more, seen |-> Seen(rows), start |-> read.start,
                           left |-> read.left, skipped |-> read.skipped]
               /\ read' \in Reads
<1> DEFINE rows == PageOf(BuildSalesWhere(t, read.filter), read.at, PageSize)
<1>1. /\ read.kind = "rows" /\ UNCHANGED <<t, form>>
      /\ read' = [read EXCEPT !.kind = "count", !.seen = Seen(rows)]
  BY DEF ReadRows
<1>2. read \in Reads
  BY TypesOf
<1>3. Seen(rows) \in [Sales -> Nat]
  BY SeenType
<1> HIDE DEF rows
<1>4. read' = [kind |-> "count", filter |-> read.filter, at |-> read.at,
               more |-> read.more, seen |-> Seen(rows), start |-> read.start,
               left |-> read.left, skipped |-> read.skipped]
  BY <1>1, <1>2 DEF Reads
<1>5. read' \in Reads
  BY <1>2, <1>3, <1>4 DEF Reads
<1> QED  BY <1>1, <1>4, <1>5 DEF rows

\* Counting changes the reading only, and keeps its types.
LEMMA CountEffect ==
    ASSUME ReportsTypeOK, CountRows
    PROVE  LET more == read.at * PageSize < Cardinality(BuildSalesWhere(t, read.filter))
           IN  /\ read.kind = "count" /\ UNCHANGED <<t, form>>
               /\ read'.kind = "page" /\ (read'.more <=> more)
               /\ read'.filter = read.filter /\ read'.at = read.at /\ read'.seen = read.seen
               /\ read'.start = read.start /\ read'.left = read.left
               /\ read' \in Reads
<1> DEFINE more == read.at * PageSize < Cardinality(BuildSalesWhere(t, read.filter))
<1>1. /\ read.kind = "count" /\ UNCHANGED <<t, form>>
      /\ read' = [read EXCEPT !.kind = "page", !.more = more]
  BY DEF CountRows
<1>2. read \in Reads /\ more \in BOOLEAN
  BY TypesOf
<1> HIDE DEF more
<1>3. read' = [kind |-> "page", filter |-> read.filter, at |-> read.at,
               more |-> more, seen |-> read.seen, start |-> read.start,
               left |-> read.left, skipped |-> read.skipped]
  BY <1>1, <1>2 DEF Reads
<1>4. read' \in Reads
  BY <1>2, <1>3 DEF Reads
<1>5. read'.more <=> more
  BY <1>3
<1>6. read'.kind = "page" /\ read'.filter = read.filter /\ read'.at = read.at /\ read'.seen = read.seen
      /\ read'.start = read.start /\ read'.left = read.left
  BY <1>3
<1> QED  BY <1>1, <1>4, <1>5, <1>6 DEF more

\* So does asking for the next page.
LEMMA NextPageEffect ==
    ASSUME ReportsTypeOK, NextPage
    PROVE  /\ read.kind = "page" /\ UNCHANGED <<t, form>>
           /\ read'.kind = "rows" /\ read'.at = read.at + 1
           /\ \/ /\ read'.filter = read.filter /\ read'.seen = read.seen
                 /\ read'.start = read.start /\ read'.left = read.left
              \/ /\ read'.filter = form /\ read'.start = {} /\ read'.left = {}
           /\ read' \in Reads
<1>1. /\ read.kind = "page" /\ UNCHANGED <<t, form>>
      /\ \/ read' = [read EXCEPT !.kind = "rows", !.at = @ + 1]
         \/ read' = [BeginReading("rows") EXCEPT !.at = read.at + 1, !.start = {}]
  BY DEF NextPage
<1>2. read \in Reads
  BY TypesOf
<1>3. CASE read' = [read EXCEPT !.kind = "rows", !.at = @ + 1]
  <2>1. read' = [kind |-> "rows", filter |-> read.filter, at |-> read.at + 1,
                 more |-> read.more, seen |-> read.seen, start |-> read.start,
                 left |-> read.left, skipped |-> read.skipped]
    BY <1>2, <1>3 DEF Reads
  <2>2. read' \in Reads
    BY <1>2, <2>1 DEF Reads
  <2> QED  BY <1>1, <2>1, <2>2
<1>4. CASE read' = [BeginReading("rows") EXCEPT !.at = read.at + 1, !.start = {}]
  <2> DEFINE zero == [s \in Sales |-> 0]
             S == BuildSalesWhere(t, form)
             fresh == BeginReading("rows")
  <2>1. fresh = [kind |-> "rows", filter |-> form, at |-> 0, more |-> FALSE,
                 seen |-> zero, start |-> S, left |-> {}, skipped |-> 0]
    BY Beginning
  <2>2. zero \in [Sales -> Nat] /\ form \in Filters
    BY TypesOf
  <2>3. read' = [fresh EXCEPT !.at = read.at + 1, !.start = {}]
    BY <1>4
  <2> HIDE DEF zero, S, fresh
  <2>4. read' = [kind |-> "rows", filter |-> form, at |-> read.at + 1, more |-> FALSE,
                 seen |-> zero, start |-> {}, left |-> {}, skipped |-> 0]
    BY <2>1, <2>3
  <2>5. read' \in Reads
    BY <1>2, <2>2, <2>4 DEF Reads
  <2> QED  BY <1>1, <2>4, <2>5
<1> QED  BY <1>1, <1>3, <1>4

\* And reading a lot.
LEMMA BatchEffect ==
    ASSUME ReportsTypeOK, ReadBatch
    PROVE  /\ read.kind = "scan" /\ UNCHANGED <<t, form>>
           /\ read'.kind = (IF Whole THEN "scan" ELSE "scanned")
           /\ read'.at = (IF Whole THEN Max(Batch) ELSE read.at)
           /\ read'.seen = Seen(Batch)
           /\ read'.skipped = IF read.at \in BuildSalesWhere(t, read.filter) \union {0}
                              THEN read.skipped ELSE read.skipped + 1
           /\ read'.filter = read.filter /\ read'.start = read.start /\ read'.left = read.left
           /\ read' \in Reads
<1> DEFINE kind == IF Whole THEN "scan" ELSE "scanned"
           at == IF Whole THEN Max(Batch) ELSE read.at
           seen == Seen(Batch)
           skipped == IF read.at \in BuildSalesWhere(t, read.filter) \union {0}
                      THEN read.skipped ELSE read.skipped + 1
<1>1. /\ read.kind = "scan" /\ UNCHANGED <<t, form>>
      /\ read' = [read EXCEPT !.kind = kind, !.at = at, !.seen = seen, !.skipped = skipped]
  BY DEF ReadBatch, Whole, Batch
<1>2. read \in Reads
  BY TypesOf
<1>3. seen \in [Sales -> Nat]
  BY SeenType
<1>4. kind \in {"scan", "scanned"} /\ at \in Nat /\ skipped \in Nat
  <2>1. read.at \in Nat /\ read.skipped \in Nat
    BY <1>2 DEF Reads
  <2>2. Whole => Max(Batch) \in Nat
    BY BatchIs
  <2> QED  BY <2>1, <2>2
<1> HIDE DEF kind, at, seen, skipped
<1>5. read' = [kind |-> kind, filter |-> read.filter, at |-> at,
               more |-> read.more, seen |-> seen, start |-> read.start,
               left |-> read.left, skipped |-> skipped]
  BY <1>1, <1>2 DEF Reads
<1>6. read' \in Reads
  BY <1>2, <1>3, <1>4, <1>5 DEF Reads
<1> QED  BY <1>1, <1>5, <1>6 DEF kind, at, seen, skipped

\* The first request of a reading, of pages or of a scan.
LEMMA BeginEffect ==
    ASSUME ReportsTypeOK, Apply \/ BeginScan
    PROVE  /\ UNCHANGED <<t, form>>
           /\ \/ read'.kind = "rows" /\ read'.at = 1
              \/ read'.kind = "scan" /\ read'.at = 0
           /\ read'.filter = form /\ read'.left = {} /\ read'.start = BuildSalesWhere(t, form)
           /\ read'.skipped = 0 /\ \A s \in Sales : read'.seen[s] = 0
           /\ read' \in Reads
<1> DEFINE zero == [s \in Sales |-> 0]
           S == BuildSalesWhere(t, form)
           pages == BeginReading("rows")
<1>1. /\ pages = [kind |-> "rows", filter |-> form, at |-> 0, more |-> FALSE,
                  seen |-> zero, start |-> S, left |-> {}, skipped |-> 0]
      /\ BeginReading("scan") = [kind |-> "scan", filter |-> form, at |-> 0, more |-> FALSE,
                                 seen |-> zero, start |-> S, left |-> {}, skipped |-> 0]
      /\ pages \in Reads /\ BeginReading("scan") \in Reads
  BY Beginning
<1>2. UNCHANGED <<t, form>> /\ (read' = [pages EXCEPT !.at = 1] \/ read' = BeginReading("scan"))
  BY DEF Apply, BeginScan
<1>3. \A s \in Sales : zero[s] = 0
  OBVIOUS
<1>z. zero \in [Sales -> Nat] /\ S \subseteq Sales /\ form \in Filters
  BY ListsAreFinite, TypesOf
<1> HIDE DEF zero, S, pages
<1>4. CASE read' = [pages EXCEPT !.at = 1]
  <2>1. read' = [kind |-> "rows", filter |-> form, at |-> 1, more |-> FALSE,
                 seen |-> zero, start |-> S, left |-> {}, skipped |-> 0]
    BY <1>1, <1>4
  <2>2. read' \in Reads
    BY <1>z, <2>1 DEF Reads
  <2> QED  BY <1>2, <1>3, <2>1, <2>2 DEF S
<1>5. CASE read' = BeginReading("scan")
  BY <1>1, <1>2, <1>3, <1>5 DEF S
<1> QED  BY <1>2, <1>4, <1>5

\* Every step keeps the types.
LEMMA NextTypes == ReportsTypeOK /\ [ReportsNext]_reportsVars => ReportsTypeOK'
<1> SUFFICES ASSUME ReportsTypeOK, [ReportsNext]_reportsVars
      PROVE  /\ t' \in TableSet /\ form' \in Filters /\ read' \in Reads
             /\ openTills' \subseteq Terminals /\ apart' \in Nat
  BY DEF ReportsTypeOK, TableSet, Books, Reads
<1> DEFINE Tills == openTills' \subseteq Terminals /\ apart' \in Nat
<1>2. /\ t \in TableSet /\ form \in Filters /\ read \in Reads
      /\ openTills \subseteq Terminals /\ apart \in Nat
  BY TypesOf
<1>3. CASE SaleMoves
  <2>0. PICK s \in Sales : Moves(s)
    BY <1>3, OneSaleMoves
  <2>1. t' \in TableSet
    BY <1>2, <2>0, SaleGrowsOlder
  <2>2. apart' \in Nat
    <3>1. CASE Calls(s) \/ Returns(s)
      BY <1>2, <3>1 DEF Calls, CallOff, Returns, ReturnSale
    <3>2. ASSUME NEW m \in Methods, NEW amount \in Nat, Confirms(s, m, amount) \/ Pays(s, m, amount)
          PROVE  apart' \in Nat
      BY <1>2, <3>2 DEF Confirms, ConfirmDraft, Pays, AddPayment, TakenApart
    <3> QED  BY <2>0, <3>1, <3>2 DEF Moves
  <2> QED  BY <1>2, <1>3, <2>1, <2>2, SaleMovesReading
<1>4. CASE Expense
  BY <1>2, <1>4, ExpenseEffect
<1>o. CASE OpenTill
  BY <1>2, <1>o DEF OpenTill
<1>t. CASE \/ Apply \/ BeginScan \/ ReadRows \/ CountRows \/ NextPage \/ ReadBatch
           \/ (\E f \in Filters : SetFilter(f)) \/ Close
  <2>1. Tills
    BY <1>2, <1>t DEF Apply, BeginScan, ReadRows, CountRows, NextPage, ReadBatch, SetFilter, Close
  <2>5. CASE Apply \/ BeginScan
    BY <1>2, <2>1, <2>5, BeginEffect
  <2>6. CASE ReadRows
    BY <1>2, <2>1, <2>6, RowsEffect
  <2>7. CASE CountRows
    BY <1>2, <2>1, <2>7, CountEffect
  <2>8. CASE NextPage
    BY <1>2, <2>1, <2>8, NextPageEffect
  <2>9. CASE ReadBatch
    BY <1>2, <2>1, <2>9, BatchEffect
  <2>10. ASSUME NEW f \in Filters, SetFilter(f) PROVE t' \in TableSet /\ form' \in Filters /\ read' \in Reads
    BY <1>2, <2>10 DEF SetFilter
  <2>11. CASE Close
    <3>1. NotReading \in Reads
      BY ReadingAssumption DEF NotReading, Reads
    <3> QED  BY <1>2, <2>1, <2>11, <3>1 DEF Close
  <2> QED  BY <1>t, <2>1, <2>5, <2>6, <2>7, <2>8, <2>9, <2>10, <2>11
<1>12. CASE UNCHANGED reportsVars
  BY <1>2, <1>12 DEF reportsVars
<1> QED  BY <1>3, <1>4, <1>o, <1>t, <1>12 DEF ReportsNext

-----------------------------------------------------------------------------
(* What a reading knows.                                                   *)

\* The list that is being read.
Listed == BuildSalesWhere(t, read.filter)

\* Who left the list is past it, and who was there at the start and did not leave is there.
GoneForGood == \A s \in read.left : PastFor(t, read.filter, s)
Stays == read.start \subseteq Listed \union read.left

\* A scan has seen none beyond its cursor and none twice; before its cursor it has
\* missed no more than it has skipped.
InScan ==
    /\ \A s \in Sales : /\ read.seen[s] <= 1
                        /\ read.kind = "scan" /\ read.seen[s] > 0 => s <= read.at
    /\ Cardinality({s \in Missed : s <= read.at}) <= read.skipped
    /\ read.kind = "scanned" => Cardinality(Missed) <= read.skipped

\* Of the sales on the pages that were read, no more were missed than have left the list.
PagesRead == IF read.kind = "rows" THEN read.at - 1 ELSE read.at
Behind == {s \in Missed : Place(Listed, s) <= PagesRead * PageSize}
InPages == /\ read.at > 0
           /\ Cardinality(Behind) <= Cardinality(read.left)
           /\ PagesMissOnlyWhatLeft

ReadInv == /\ ReportsTypeOK /\ GoneForGood /\ Stays
           /\ read.kind \in {"scan", "scanned"} => InScan
           /\ read.kind \in {"rows", "count", "page"} => InPages

\* What is missed is in the list, and who left is not.
LEMMA MissedAreListed ==
    ASSUME ReadInv
    PROVE  /\ Missed \subseteq Listed /\ read.left \cap Listed = {}
           /\ Missed \subseteq Sales /\ Missed \subseteq Nat /\ IsFiniteSet(Missed)
           /\ IsFiniteSet(read.left)
<1>1. read.start \subseteq Sales /\ read.left \subseteq Sales /\ t \in TableSet
  BY TypesOf DEF ReadInv, Reads
<1>2. ASSUME NEW s \in read.left PROVE s \notin Listed
  BY <1>1, PastIsOut DEF ReadInv, GoneForGood, Listed
<1>3. Missed \subseteq Listed
  BY DEF ReadInv, Stays, Missed
<1>4. Missed \subseteq Sales
  BY <1>1 DEF Missed
<1> QED  BY <1>1, <1>2, <1>3, <1>4, SalesAssumption, FS_Subset

\* Nothing is read at first.
LEMMA ReadInit == ReportsInit => ReadInv
<1> SUFFICES ASSUME ReportsInit PROVE ReadInv
  OBVIOUS
<1>2. read.kind = "none" /\ read.left = {} /\ read.start = {}
  BY DEF ReportsInit, NotReading
<1> QED  BY <1>2, InitTypes DEF ReadInv, GoneForGood, Stays

\* A reading that begins.
LEMMA ReadBegins ==
    ASSUME ReadInv, Apply \/ BeginScan, ReportsTypeOK'
    PROVE  ReadInv'
<1>1. /\ UNCHANGED <<t, form>>
      /\ \/ read'.kind = "rows" /\ read'.at = 1
         \/ read'.kind = "scan" /\ read'.at = 0
      /\ read'.filter = form /\ read'.left = {} /\ read'.start = BuildSalesWhere(t, form)
      /\ read'.skipped = 0 /\ \A s \in Sales : read'.seen[s] = 0
  BY BeginEffect DEF ReadInv
<1>2. GoneForGood' /\ Stays'
  BY <1>1 DEF GoneForGood, Stays, Listed
<1>3. /\ Listed' \subseteq Sales /\ Listed' \subseteq Nat /\ IsFiniteSet(Listed')
      /\ Missed' \subseteq Listed'
  <2>1. Listed' = BuildSalesWhere(t, form)
    BY <1>1 DEF Listed
  <2>2. Missed' \subseteq read'.start
    BY DEF Missed
  <2> QED  BY <1>1, <2>1, <2>2, ListsAreFinite
<1>4. CASE read'.kind = "scan" /\ read'.at = 0
  <2>1. {s \in Missed' : s <= read'.at} = {}
    <3>1. \A s \in Missed' : s \in Nat \ {0}
      BY <1>3, SalesAssumption
    <3> QED  BY <1>4, <3>1
  <2>2. InScan'
    BY <1>1, <1>4, <2>1, FS_EmptySet DEF InScan
  <2> QED  BY <1>2, <1>4, <2>2 DEF ReadInv
<1>5. CASE read'.kind = "rows" /\ read'.at = 1
  <2>1. PagesRead' * PageSize = 0
    BY <1>5, ReadingAssumption DEF PagesRead
  <2>2. Behind' = {}
    <3>1. \A s \in Missed' : Place(Listed', s) >= 1 /\ Place(Listed', s) \in Nat
      BY <1>3, PlacesInOrder
    <3> QED  BY <2>1, <3>1 DEF Behind
  <2>3. InPages'
    BY <1>1, <1>5, <2>2, FS_EmptySet DEF InPages, PagesMissOnlyWhatLeft
  <2> QED  BY <1>2, <1>5, <2>3 DEF ReadInv
<1> QED  BY <1>1, <1>4, <1>5

\* The next lot of a scan.
LEMMA ReadLot ==
    ASSUME ReadInv, ReadBatch, ReportsTypeOK'
    PROVE  ReadInv'
<1>1. /\ read.kind = "scan" /\ UNCHANGED <<t, form>>
      /\ read'.kind = (IF Whole THEN "scan" ELSE "scanned")
      /\ read'.at = (IF Whole THEN Max(Batch) ELSE read.at)
      /\ read'.seen = Seen(Batch)
      /\ read'.skipped = IF read.at \in Listed \union {0} THEN read.skipped ELSE read.skipped + 1
      /\ read'.filter = read.filter /\ read'.start = read.start /\ read'.left = read.left
  BY BatchEffect DEF ReadInv, Listed
<1>2. /\ Batch = {s \in Rest : Rank(Rest, s) \in Skip + 1 .. Skip + BatchSize}
      /\ Rest \subseteq Sales /\ Rest \subseteq Nat /\ IsFiniteSet(Rest)
      /\ Batch \subseteq Rest /\ IsFiniteSet(Batch)
      /\ Whole => Max(Batch) \in Batch /\ \A s \in Batch : s <= Max(Batch)
  BY BatchIs DEF ReadInv
<1>3. /\ InScan /\ read.at \in Nat /\ read.skipped \in Nat
      /\ \A s \in Sales : read.seen[s] \in Nat
  BY <1>1, TypesOf DEF ReadInv, Reads
<1>4. Rest = {s \in Listed : s >= read.at} /\ Skip = IF read.at = 0 THEN 0 ELSE 1
  BY DEF Rest, Listed, Skip
<1>5. /\ \A s \in Rest : Rank(Rest, s) \in 1 .. Cardinality(Rest)
      /\ \A s, o \in Rest : s < o => Rank(Rest, s) < Rank(Rest, o)
      /\ Cardinality(Rest) \in Nat
  BY <1>2, RanksInOrder
<1>6. \A s \in Sales : s \in Nat \ {0}
  BY SalesAssumption
<1>7. ASSUME NEW s \in Batch PROVE s > read.at
  <2>1. s \in Rest /\ s \in Nat /\ s >= read.at /\ s # 0
    BY <1>2, <1>4, <1>6
  <2>2. ASSUME read.at # 0 PROVE s # read.at
    <3>1. SUFFICES ASSUME s = read.at PROVE FALSE
      OBVIOUS
    <3>2. Rank(Rest, s) >= 2 /\ Rank(Rest, s) \in Nat
      BY <1>2, <1>4, <1>5, <2>1, <2>2
    <3>3. {o \in Rest : o <= s} = {s}
      <4>1. \A o \in Rest : o \in Nat /\ o >= s
        BY <1>2, <1>4, <3>1
      <4>2. \A o \in Rest : o <= s => o = s
        BY <2>1, <4>1
      <4>3. s <= s
        BY <2>1
      <4> QED  BY <2>1, <4>2, <4>3
    <3>4. Rank(Rest, s) = 1
      BY <3>3, FS_Singleton DEF Rank
    <3> QED  BY <3>2, <3>4
  <2> QED  BY <1>3, <2>1, <2>2
<1>8. ASSUME NEW s \in Sales
      PROVE  /\ Seen(Batch)[s] = IF s \in Batch THEN read.seen[s] + 1 ELSE read.seen[s]
             /\ s \in Batch => read.seen[s] = 0
  <2>1. Seen(Batch)[s] = IF s \in Batch THEN read.seen[s] + 1 ELSE read.seen[s]
    BY SeenType DEF ReadInv
  <2>2. ASSUME s \in Batch PROVE read.seen[s] = 0
    <3>1. ~(s <= read.at) /\ read.seen[s] \in Nat
      BY <1>3, <1>6, <1>7, <2>2
    <3>2. ~(read.seen[s] > 0)
      BY <1>1, <1>3, <3>1 DEF InScan
    <3> QED  BY <3>1, <3>2
  <2> QED  BY <2>1, <2>2
<1> DEFINE Early == {s \in Missed : s <= read.at}
<1>9. Missed' \subseteq Missed /\ IsFiniteSet(Missed) /\ Missed \subseteq Listed /\ Missed \subseteq Sales
      /\ Missed' \cap Batch = {}
  <2>1. IsFiniteSet(Missed) /\ Missed \subseteq Listed /\ Missed \subseteq Sales
    BY MissedAreListed
  <2>2. ASSUME NEW s \in Missed' PROVE s \in Missed /\ s \notin Batch
    <3>1. s \in read.start \ read.left /\ Seen(Batch)[s] = 0 /\ s \in Sales
      BY <1>1, <2>2, TypesOf DEF Missed, ReadInv, Reads
    <3> QED  BY <1>3, <1>8, <3>1 DEF Missed
  <2> QED  BY <2>1, <2>2
<1>10. IsFiniteSet(Early) /\ Cardinality(Early) <= read.skipped /\ Cardinality(Early) \in Nat
  BY <1>3, <1>9, FS_Subset, FS_CardinalityType DEF InScan
\* Of what this lot went by, all but one had been missed before or is in the lot.
<1>11. ASSUME NEW X, X \subseteq Missed', \A s \in X : s \in Rest => Rank(Rest, s) <= Skip + BatchSize
       PROVE  Cardinality(X) <= read'.skipped
  <2>1. X \subseteq Sales /\ IsFiniteSet(X) /\ X \subseteq Listed
    BY <1>9, <1>11, FS_Subset
  <2>2. ASSUME NEW s \in X, s \notin Early
        PROVE  s \in Rest /\ Rank(Rest, s) <= Skip /\ s # read.at
    <3>1. s \in Missed /\ s \in Nat /\ ~(s <= read.at) /\ s \in Listed
      BY <1>6, <1>9, <1>11, <2>1, <2>2
    <3>2. s \in Rest
      BY <1>3, <1>4, <3>1
    <3>3. s \notin Batch
      BY <1>9, <1>11
    <3>4. Rank(Rest, s) \in Nat /\ Rank(Rest, s) <= Skip + BatchSize
          /\ ~(Rank(Rest, s) \in Skip + 1 .. Skip + BatchSize)
      BY <1>2, <1>5, <1>11, <3>2, <3>3
    <3>5. Skip \in Nat /\ BatchSize \in Nat
      BY <1>4, ReadingAssumption
    <3> QED  BY <1>3, <3>1, <3>2, <3>4, <3>5
  <2>3. CASE read.at \in Listed \union {0}
    <3>1. ASSUME NEW s \in X PROVE s \in Early
      <4>1. SUFFICES ASSUME s \notin Early PROVE FALSE
        OBVIOUS
      <4>2. s \in Rest /\ Rank(Rest, s) <= Skip /\ s # read.at /\ Rank(Rest, s) >= 1
            /\ Rank(Rest, s) \in Nat
        BY <1>5, <2>2, <4>1
      <4>3. read.at # 0 /\ Skip = 1
        BY <1>4, <4>2
      <4>4. read.at \in Rest
        BY <1>3, <1>4, <2>3, <4>3
      <4>5. read.at < s /\ Rank(Rest, read.at) < Rank(Rest, s) /\ Rank(Rest, read.at) >= 1
            /\ Rank(Rest, read.at) \in Nat
        <5>1. s >= read.at /\ s \in Nat
          BY <1>2, <1>4, <4>2
        <5>2. read.at < s
          BY <1>3, <4>2, <5>1
        <5> QED  BY <1>5, <4>2, <4>4, <5>2
      <4> QED  BY <4>2, <4>3, <4>5
    <3>2. Cardinality(X) <= Cardinality(Early)
      <4>1. X \in SUBSET Early
        BY <3>1
      <4> HIDE DEF Early
      <4> QED  BY <1>10, <4>1, FS_Subset
    <3>3. read'.skipped = read.skipped
      BY <1>1, <2>3
    <3>4. Cardinality(X) \in Nat
      BY <2>1, FS_CardinalityType
    <3> HIDE DEF Early
    <3> QED  BY <1>3, <1>10, <3>2, <3>3, <3>4
  <2>4. CASE read.at \notin Listed \union {0}
    <3>1. \A s, o \in X \ Early : s = o
      <4>1. SUFFICES ASSUME NEW s \in X \ Early, NEW o \in X \ Early, s < o PROVE FALSE
        <5>1. \A s \in X : s \in Nat
          BY <1>6, <2>1
        <5> HIDE DEF Early
        <5> QED  BY <5>1
      <4>2. /\ s \in Rest /\ o \in Rest /\ Rank(Rest, o) <= Skip
            /\ Rank(Rest, s) \in 1 .. Cardinality(Rest) /\ Rank(Rest, o) \in 1 .. Cardinality(Rest)
        BY <1>5, <2>2, <4>1
      <4>3. Rank(Rest, s) < Rank(Rest, o) /\ (Skip = 0 \/ Skip = 1)
        BY <1>4, <1>5, <4>1, <4>2
      <4> QED  BY <1>5, <4>2, <4>3
    <3>2. \E x : X \subseteq Early \union {x}
      <4> HIDE DEF Early
      <4>1. CASE X \subseteq Early
        BY <4>1
      <4>2. CASE ~(X \subseteq Early)
        <5>1. PICK x \in X : x \notin Early
          BY <4>2
        <5> QED  BY <3>1, <5>1
      <4> QED  BY <4>1, <4>2
    <3>3. PICK x : X \subseteq Early \union {x}
      BY <3>2
    <3> HIDE DEF Early
    <3>4. /\ IsFiniteSet(Early \union {x})
          /\ Cardinality(Early \union {x}) \in Nat
          /\ Cardinality(Early \union {x}) <= Cardinality(Early) + 1
      BY <1>10, FS_AddElement, FS_CardinalityType
    <3>5. Cardinality(X) <= Cardinality(Early \union {x}) /\ Cardinality(X) \in Nat
      BY <2>1, <3>3, <3>4, FS_Subset, FS_CardinalityType
    <3>6. read'.skipped = read.skipped + 1
      BY <1>1, <2>4
    <3> QED  BY <1>3, <1>10, <3>4, <3>5, <3>6
  <2> QED  BY <2>3, <2>4
<1>12. CASE Whole
  <2>1. Max(Batch) \in Batch /\ (\A s \in Batch : s <= Max(Batch)) /\ Max(Batch) \in Rest /\ Max(Batch) \in Nat
    BY <1>2, <1>12
  <2>2. ASSUME NEW s \in Missed', s <= Max(Batch), s \in Rest
        PROVE  Rank(Rest, s) <= Skip + BatchSize
    <3>1. Rank(Rest, Max(Batch)) <= Skip + BatchSize /\ Rank(Rest, Max(Batch)) \in Nat
          /\ Rank(Rest, s) \in Nat /\ Skip \in Nat /\ BatchSize \in Nat
      BY <1>2, <1>4, <1>5, <2>1, <2>2, ReadingAssumption
    <3>2. s = Max(Batch) \/ s < Max(Batch)
      BY <1>2, <2>1, <2>2
    <3> QED  BY <1>5, <2>1, <2>2, <3>1, <3>2
  <2>3. Cardinality({s \in Missed' : s <= read'.at}) <= read'.skipped
    <3>1. read'.at = Max(Batch)
      BY <1>1, <1>12
    <3> DEFINE X == {s \in Missed' : s <= read'.at}
    <3>2. X \subseteq Missed' /\ \A s \in X : s \in Rest => Rank(Rest, s) <= Skip + BatchSize
      BY <2>2, <3>1
    <3> HIDE DEF X
    <3>3. Cardinality(X) <= read'.skipped
      BY <1>11, <3>2
    <3> QED  BY <3>3 DEF X
  <2>4. ASSUME NEW s \in Sales
        PROVE  read'.seen[s] <= 1 /\ (read'.seen[s] > 0 => s <= read'.at)
    <3>1. read'.seen[s] = (IF s \in Batch THEN 1 ELSE read.seen[s]) /\ read'.at = Max(Batch)
      BY <1>1, <1>8, <1>12
    <3>2. read.seen[s] <= 1 /\ (read.seen[s] > 0 => s <= read.at) /\ read.seen[s] \in Nat
      BY <1>1, <1>3 DEF InScan
    <3>3. read.at < Max(Batch)
      BY <1>3, <1>7, <2>1
    <3> QED  BY <1>3, <1>6, <2>1, <3>1, <3>2, <3>3
  <2>5. InScan'
    BY <1>1, <1>12, <2>3, <2>4 DEF InScan
  <2> QED  BY <1>1, <1>12, <2>5 DEF ReadInv, GoneForGood, Stays, Listed
<1>13. CASE ~Whole
  <2>1. ASSUME NEW s \in Rest PROVE Rank(Rest, s) <= Skip + BatchSize
    <3>1. Skip \in Nat /\ BatchSize \in Nat
      BY <1>4, ReadingAssumption
    <3>2. SUFFICES ASSUME Skip + BatchSize <= Cardinality(Rest) PROVE FALSE
      BY <1>5, <3>1
    <3>3. Cardinality(Batch) = BatchSize
      <4>1. Rest \subseteq Nat /\ IsFiniteSet(Rest)
        BY <1>2
      <4>2. Cardinality(Lot(Rest, Skip, BatchSize)) = BatchSize
        BY <3>1, <3>2, <4>1, RanksAreAll
      <4>3. Batch = Lot(Rest, Skip, BatchSize)
        BY <1>2 DEF Lot
      <4> QED  BY <4>2, <4>3
    <3> QED  BY <1>13, <3>3 DEF Whole
  <2>2. Cardinality(Missed') <= read'.skipped
    BY <1>11, <2>1
  <2>3. Cardinality({s \in Missed' : s <= read'.at}) <= read'.skipped
    <3> DEFINE X == {s \in Missed' : s <= read'.at}
    <3>1. X \subseteq Missed' /\ \A s \in X : s \in Rest => Rank(Rest, s) <= Skip + BatchSize
      BY <2>1
    <3> HIDE DEF X
    <3>2. Cardinality(X) <= read'.skipped
      BY <1>11, <3>1
    <3> QED  BY <3>2 DEF X
  <2>4. ASSUME NEW s \in Sales PROVE read'.seen[s] <= 1
    <3>1. read'.seen[s] = (IF s \in Batch THEN 1 ELSE read.seen[s])
      BY <1>1, <1>8
    <3>2. read.seen[s] <= 1
      BY <1>1, <1>3 DEF InScan
    <3> QED  BY <3>1, <3>2
  <2>5. InScan'
    BY <1>1, <1>13, <2>2, <2>3, <2>4 DEF InScan
  <2> QED  BY <1>1, <1>13, <2>5 DEF ReadInv, GoneForGood, Stays, Listed
<1> QED  BY <1>12, <1>13

\* The rows of a page: who had been read before and who is read now.
LEMMA ReadPage ==
    ASSUME ReadInv, ReadRows, ReportsTypeOK'
    PROVE  ReadInv'
<1> DEFINE rows == PageOf(Listed, read.at, PageSize)
<1>1. /\ read.kind = "rows" /\ UNCHANGED <<t, form>>
      /\ read'.kind = "count" /\ read'.filter = read.filter /\ read'.at = read.at
      /\ read'.seen = Seen(rows) /\ read'.start = read.start /\ read'.left = read.left
  <2>1. /\ read.kind = "rows" /\ UNCHANGED <<t, form>>
        /\ read' = [kind |-> "count", filter |-> read.filter, at |-> read.at,
                    more |-> read.more, seen |-> Seen(rows), start |-> read.start,
                    left |-> read.left, skipped |-> read.skipped]
    BY RowsEffect DEF ReadInv, Listed
  <2> HIDE DEF rows
  <2> QED  BY <2>1
<1>2. InPages /\ read.at \in Nat /\ PageSize \in Nat /\ \A s \in Sales : read.seen[s] \in Nat
  BY <1>1, TypesOf, ReadingAssumption DEF ReadInv, Reads
<1>3. /\ Missed \subseteq Listed /\ Missed \subseteq Sales /\ IsFiniteSet(Missed)
      /\ Listed \subseteq Nat /\ IsFiniteSet(Listed) /\ Listed' = Listed
  BY <1>1, MissedAreListed, ListsAreFinite DEF Listed
<1>4. ASSUME NEW s \in Missed' PROVE s \in Missed /\ s \notin rows
  <2>1. s \in read.start \ read.left /\ Seen(rows)[s] = 0 /\ s \in Sales
    BY <1>1, <1>4, TypesOf DEF Missed, ReadInv, Reads
  <2>2. Seen(rows)[s] = IF s \in rows THEN read.seen[s] + 1 ELSE read.seen[s]
    BY <2>1, SeenType DEF ReadInv
  <2> HIDE DEF rows
  <2> QED  BY <1>2, <2>1, <2>2 DEF Missed
<1>5. ASSUME NEW s \in Behind' PROVE s \in Behind
  <2>1. s \in Missed /\ s \notin rows /\ Place(Listed, s) <= read.at * PageSize
    BY <1>1, <1>3, <1>4, <1>5 DEF Behind, PagesRead
  <2>2. ~((read.at - 1) * PageSize < Place(Listed, s) /\ Place(Listed, s) <= read.at * PageSize)
    BY <1>3, <2>1 DEF PageOf, Place
  <2>3. Place(Listed, s) \in Nat
    BY <1>3, <2>1, PlacesInOrder
  <2>4. (read.at - 1) * PageSize \in Int
    BY <1>2
  <2>5. Place(Listed, s) <= (read.at - 1) * PageSize
    BY <2>1, <2>2, <2>3, <2>4
  <2> QED  BY <1>1, <2>1, <2>5 DEF Behind, PagesRead
<1>6. Cardinality(Behind') <= Cardinality(read'.left)
  <2>1. IsFiniteSet(Behind) /\ Behind' \in SUBSET Behind
    BY <1>3, <1>5, FS_Subset DEF Behind
  <2>2. Cardinality(Behind') <= Cardinality(Behind) /\ Cardinality(Behind') \in Nat /\ Cardinality(Behind) \in Nat
    BY <2>1, FS_Subset, FS_CardinalityType
  <2>3. Cardinality(read.left) \in Nat
    BY MissedAreListed, FS_CardinalityType
  <2> QED  BY <1>1, <1>2, <2>2, <2>3 DEF InPages
<1>7. InPages'
  BY <1>1, <1>2, <1>6 DEF InPages, PagesMissOnlyWhatLeft
<1> QED  BY <1>1, <1>3, <1>7 DEF ReadInv, GoneForGood, Stays, Listed

\* The count that says whether there is another page.
LEMMA ReadCount ==
    ASSUME ReadInv, CountRows, ReportsTypeOK'
    PROVE  ReadInv'
<1>1. /\ read.kind = "count" /\ UNCHANGED <<t, form>>
      /\ read'.kind = "page" /\ (read'.more <=> read.at * PageSize < Cardinality(Listed))
      /\ read'.filter = read.filter /\ read'.at = read.at /\ read'.seen = read.seen
      /\ read'.start = read.start /\ read'.left = read.left
  BY CountEffect DEF ReadInv, Listed
<1>2. InPages /\ read.at \in Nat /\ PageSize \in Nat
  BY <1>1, TypesOf, ReadingAssumption DEF ReadInv, Reads
<1>3. /\ Missed \subseteq Listed /\ Missed \subseteq Nat
      /\ Listed \subseteq Nat /\ IsFiniteSet(Listed) /\ Cardinality(Listed) \in Nat
      /\ Listed' = Listed /\ Missed' = Missed
  BY <1>1, MissedAreListed, ListsAreFinite DEF Listed, Missed
<1>4. Behind' = Behind
  BY <1>1, <1>3 DEF Behind, PagesRead
<1>5. ASSUME ~read'.more PROVE Missed \subseteq Behind
  <2>1. SUFFICES ASSUME NEW s \in Missed PROVE Place(Listed, s) <= read.at * PageSize
    BY <1>1 DEF Behind, PagesRead
  <2>2. Place(Listed, s) \in Nat /\ Place(Listed, s) <= Cardinality(Listed)
    BY <1>3, PlacesInOrder
  <2>3. read.at * PageSize \in Int
    BY <1>2
  <2> QED  BY <1>1, <1>3, <1>5, <2>2, <2>3
<1>6. PagesMissOnlyWhatLeft'
  <2>1. SUFFICES ASSUME ~read'.more PROVE Cardinality(Missed) <= Cardinality(read.left)
    BY <1>1, <1>3 DEF PagesMissOnlyWhatLeft
  <2>2. Missed = Behind
    BY <1>5, <2>1 DEF Behind
  <2> QED  BY <1>2, <2>2 DEF InPages
<1>7. InPages'
  BY <1>1, <1>2, <1>4, <1>6 DEF InPages
<1> QED  BY <1>1, <1>7 DEF ReadInv, GoneForGood, Stays, Listed

\* The next page, of the same list or of another.
LEMMA ReadTurns ==
    ASSUME ReadInv, NextPage, ReportsTypeOK'
    PROVE  ReadInv'
<1>1. /\ read.kind = "page" /\ UNCHANGED <<t, form>>
      /\ read'.kind = "rows" /\ read'.at = read.at + 1
      /\ \/ /\ read'.filter = read.filter /\ read'.seen = read.seen
            /\ read'.start = read.start /\ read'.left = read.left
         \/ /\ read'.filter = form /\ read'.start = {} /\ read'.left = {}
  BY NextPageEffect DEF ReadInv
<1>2. InPages /\ read.at \in Nat
  BY <1>1, TypesOf DEF ReadInv, Reads
<1>3. CASE /\ read'.filter = read.filter /\ read'.seen = read.seen
           /\ read'.start = read.start /\ read'.left = read.left
  <2>1. Listed' = Listed /\ Missed' = Missed
    BY <1>1, <1>3 DEF Listed, Missed
  <2>2. PagesRead' = PagesRead
    BY <1>1, <1>2 DEF PagesRead
  <2>3. Behind' = Behind
    BY <2>1, <2>2 DEF Behind
  <2>4. InPages'
    BY <1>1, <1>2, <1>3, <2>3 DEF InPages, PagesMissOnlyWhatLeft
  <2> QED  BY <1>1, <1>3, <2>1, <2>4 DEF ReadInv, GoneForGood, Stays, Listed
<1>4. CASE read'.filter = form /\ read'.start = {} /\ read'.left = {}
  <2>1. Behind' = {}
    BY <1>4 DEF Behind, Missed
  <2>2. InPages'
    BY <1>1, <1>2, <1>4, <2>1, FS_EmptySet DEF InPages, PagesMissOnlyWhatLeft
  <2> QED  BY <1>1, <1>4, <2>2 DEF ReadInv, GoneForGood, Stays
<1> QED  BY <1>1, <1>3, <1>4

\* Those of M among the first n places of a list.
Among(M, S, n) == {o \in M : Place(S, o) <= n}

\* When a sale leaves a list those after it move up one place, so one more may be missed.
LEMMA OneMovesUp ==
    ASSUME NEW S, S \subseteq Nat, IsFiniteSet(S), NEW s \in S, NEW n \in Nat,
           NEW T, T = S \ {s}, NEW M, M \subseteq T
    PROVE  \E x : Among(M, T, n) \subseteq Among(M, S, n) \union {x}
<1> DEFINE after == Among(M, T, n)
           before == Among(M, S, n)
<1>1. /\ T \subseteq Nat /\ IsFiniteSet(T)
      /\ \A o \in M : o \in Nat /\ o \in S
  BY FS_RemoveElement
<1>2. ASSUME NEW o \in M
      PROVE  Place(T, o) \in Nat /\ Place(S, o) \in Nat /\ Place(S, o) <= Place(T, o) + 1
  <2>1. Place(T, o) \in Nat /\ Place(S, o) \in Nat
    BY <1>1, PlacesInOrder
  <2>2. {i \in S : i >= o} \subseteq {i \in T : i >= o} \union {s}
    OBVIOUS
  <2>3. IsFiniteSet({i \in T : i >= o})
    BY <1>1, FS_Subset
  <2> DEFINE A == {i \in S : i >= o}
             B == {i \in T : i >= o}
  <2>4. IsFiniteSet(B \union {s}) /\ Cardinality(B \union {s}) <= Cardinality(B) + 1
        /\ Cardinality(B) \in Nat /\ Cardinality(B \union {s}) \in Nat
    <3>1. IsFiniteSet(B)
      BY <2>3
    <3> HIDE DEF B
    <3> QED  BY <3>1, OneMore
  <2>5. Cardinality(A) <= Cardinality(B \union {s})
    <3>1. A \in SUBSET (B \union {s})
      BY <2>2
    <3> HIDE DEF A, B
    <3> QED  BY <2>4, <3>1, FS_Subset
  <2>6. Place(S, o) = Cardinality(A) /\ Place(T, o) = Cardinality(B)
    BY DEF Place
  <2> HIDE DEF A, B
  <2> QED  BY <2>1, <2>4, <2>5, <2>6
<1>3. \A o, i \in after \ before : o = i
  <2>1. SUFFICES ASSUME NEW o \in after \ before, NEW i \in after \ before, o < i PROVE FALSE
    <3>1. \A o \in after : o \in Nat
      BY <1>1 DEF Among
    <3> HIDE DEF after, before
    <3> QED  BY <3>1
  <2>2. Place(S, o) = n + 1 /\ Place(S, i) = n + 1
    <3>1. ASSUME NEW j \in after \ before PROVE Place(S, j) = n + 1
      <4>1. j \in M /\ Place(T, j) <= n /\ ~(Place(S, j) <= n)
        BY DEF Among
      <4>2. Place(T, j) \in Nat /\ Place(S, j) \in Nat /\ Place(S, j) <= Place(T, j) + 1
        BY <1>2, <4>1
      <4> HIDE DEF after, before
      <4> QED  BY <4>1, <4>2
    <3> HIDE DEF after, before
    <3> QED  BY <3>1
  <2>3. Place(S, i) < Place(S, o)
    BY <1>1, <2>1, PlacesInOrder DEF Among
  <2> QED  BY <2>2, <2>3
<1> HIDE DEF after, before
<1>4. CASE after \subseteq before
  BY <1>4 DEF after, before
<1>5. CASE ~(after \subseteq before)
  <2>1. PICK x \in after : x \notin before
    BY <1>5
  <2>2. after \subseteq before \union {x}
    BY <1>3, <2>1
  <2> QED  BY <2>2 DEF after, before
<1> QED  BY <1>4, <1>5

\* When one comes into a list nobody moves up.
LEMMA NobodyMovesUp ==
    ASSUME NEW S, IsFiniteSet(S), NEW T, S \subseteq T, T \subseteq Nat, IsFiniteSet(T), NEW o \in Nat
    PROVE  Place(S, o) <= Place(T, o)
<1> DEFINE A == {i \in S : i >= o}
           B == {i \in T : i >= o}
<1>1. A \in SUBSET B /\ IsFiniteSet(B)
  BY FS_Subset
<1> HIDE DEF A, B
<1>2. Cardinality(A) <= Cardinality(B)
  BY <1>1, FS_Subset
<1> QED  BY <1>2 DEF A, B, Place

\* The sales go on while a reader reads.
LEMMA ReadWhileSelling ==
    ASSUME ReadInv, SaleMoves, ReportsTypeOK'
    PROVE  ReadInv'
<1> DEFINE gone == Listed \ Listed'
<1>1. /\ read'.kind = read.kind /\ read'.filter = read.filter /\ read'.at = read.at
      /\ read'.more = read.more /\ read'.seen = read.seen /\ read'.start = read.start
      /\ read'.left = read.left \union gone /\ read'.skipped = read.skipped
  <2>1. read' = [kind |-> read.kind, filter |-> read.filter, at |-> read.at,
                 more |-> read.more, seen |-> read.seen, start |-> read.start,
                 left |-> read.left \union (BuildSalesWhere(t, read.filter) \ BuildSalesWhere(t', read.filter)),
                 skipped |-> read.skipped]
    BY SaleMovesReading DEF ReadInv
  <2>2. read'.filter = read.filter
    BY <2>1
  <2>3. gone = BuildSalesWhere(t, read.filter) \ BuildSalesWhere(t', read.filter)
    BY <2>2 DEF Listed
  <2> HIDE DEF gone
  <2> QED  BY <2>1, <2>3
<1>2. PICK s \in Sales : Moves(s)
  BY OneSaleMoves
<1>3. t \in TableSet /\ read.filter \in Filters /\ read.left \subseteq Sales /\ read.at \in Nat
      /\ read.skipped \in Nat
  BY TypesOf DEF ReadInv, Reads
<1>4. /\ Listed \ {s} = Listed' \ {s}
      /\ s \in gone => PastFor(t', read.filter, s)
      /\ \A o \in Sales : PastFor(t, read.filter, o) => PastFor(t', read.filter, o)
  <2>1. Listed' = BuildSalesWhere(t', read.filter)
    BY <1>1 DEF Listed
  <2> QED  BY <1>2, <1>3, <2>1, ListsChangeByOne DEF Listed
<1>5. gone \subseteq {s}
  BY <1>4
<1>6. GoneForGood'
  BY <1>1, <1>3, <1>4, <1>5 DEF ReadInv, GoneForGood
<1>7. Stays'
  BY <1>1 DEF ReadInv, Stays
<1>8. /\ Missed \subseteq Listed /\ read.left \cap Listed = {} /\ Missed \subseteq Sales
      /\ IsFiniteSet(Missed) /\ IsFiniteSet(read.left) /\ Missed \subseteq Nat
      /\ Listed \subseteq Nat /\ IsFiniteSet(Listed) /\ Listed' \subseteq Nat /\ IsFiniteSet(Listed')
  BY MissedAreListed, ListsAreFinite DEF Listed
<1>9. Missed' = Missed \ gone
  BY <1>1 DEF Missed
<1>10. IsFiniteSet(Missed') /\ Cardinality(Missed') <= Cardinality(Missed)
       /\ Cardinality(Missed') \in Nat /\ Cardinality(Missed) \in Nat
  <2>1. Missed' \in SUBSET Missed
    BY <1>9
  <2> QED  BY <1>8, <2>1, FS_Subset, FS_CardinalityType
<1>11. ASSUME read.kind \in {"scan", "scanned"} PROVE InScan'
  <2>1. InScan
    BY <1>11 DEF ReadInv
  <2> DEFINE A == {o \in Missed : o <= read.at}
             B == {o \in Missed' : o <= read'.at}
  <2>2. B \in SUBSET A /\ IsFiniteSet(A)
    BY <1>1, <1>8, <1>9, FS_Subset
  <2>3. Cardinality(B) <= Cardinality(A) /\ Cardinality(B) \in Nat /\ Cardinality(A) \in Nat
    <3> HIDE DEF A, B
    <3> QED  BY <2>2, FS_Subset, FS_CardinalityType
  <2>4. Cardinality(A) <= read.skipped
    BY <2>1 DEF InScan
  <2>5. Cardinality(B) <= read'.skipped
    <3> HIDE DEF A, B
    <3> QED  BY <1>1, <1>3, <2>3, <2>4
  <2>6. read'.kind = "scanned" => Cardinality(Missed') <= read'.skipped
    BY <1>1, <1>3, <1>10, <2>1 DEF InScan
  <2>7. \A o \in Sales : /\ read'.seen[o] <= 1
                         /\ read'.kind = "scan" /\ read'.seen[o] > 0 => o <= read'.at
    BY <1>1, <2>1 DEF InScan
  <2> QED  BY <2>5, <2>6, <2>7 DEF InScan
<1>12. ASSUME read.kind \in {"rows", "count", "page"} PROVE InPages'
  <2>1. InPages
    BY <1>12 DEF ReadInv
  <2> DEFINE n == PagesRead * PageSize
  <2>2. n \in Nat /\ PagesRead' * PageSize = n
    <3>1. read.at > 0 /\ read.at \in Nat /\ PageSize \in Nat
      BY <1>3, <2>1, ReadingAssumption DEF InPages
    <3>2. PagesRead \in Nat
      BY <3>1 DEF PagesRead
    <3>3. PagesRead' = PagesRead
      BY <1>1 DEF PagesRead
    <3> QED  BY <3>1, <3>2, <3>3
  <2>3. Behind = {o \in Missed : Place(Listed, o) <= n}
        /\ Behind' = {o \in Missed' : Place(Listed', o) <= n}
    BY <2>2 DEF Behind
  <2> HIDE DEF n
  <2>4. IsFiniteSet(Behind) /\ Cardinality(Behind) \in Nat /\ Cardinality(read.left) \in Nat
        /\ IsFiniteSet(Behind')
    BY <1>8, <1>10, <2>3, FS_Subset, FS_CardinalityType
  <2>5. Cardinality(Behind) <= Cardinality(read.left)
    BY <2>1 DEF InPages
  <2>6. CASE gone = {}
    <3>1. read'.left = read.left /\ Missed' = Missed /\ Listed \subseteq Listed'
      BY <1>1, <1>9, <2>6
    <3>2. Behind' \in SUBSET Behind
      <4>1. SUFFICES ASSUME NEW o \in Missed, Place(Listed', o) <= n PROVE Place(Listed, o) <= n
        BY <2>3, <3>1
      <4>2. Place(Listed, o) <= Place(Listed', o) /\ Place(Listed, o) \in Nat /\ Place(Listed', o) \in Nat
        BY <1>8, <3>1, NobodyMovesUp, PlacesInOrder
      <4> QED  BY <2>2, <4>1, <4>2
    <3>3. Cardinality(Behind') <= Cardinality(Behind) /\ Cardinality(Behind') \in Nat
      BY <2>4, <3>2, FS_Subset, FS_CardinalityType
    <3>4. Cardinality(Behind') <= Cardinality(read'.left)
      BY <2>4, <2>5, <3>1, <3>3
    <3>5. PagesMissOnlyWhatLeft'
      BY <1>1, <2>1, <3>1 DEF InPages, PagesMissOnlyWhatLeft
    <3> QED  BY <1>1, <2>1, <3>4, <3>5 DEF InPages
  <2>7. CASE gone # {}
    <3>1. gone = {s} /\ s \in Listed /\ Listed' = Listed \ {s} /\ s \notin read.left
      BY <1>4, <1>5, <1>8, <2>7
    <3>2. Cardinality(read'.left) = Cardinality(read.left) + 1
      BY <1>1, <1>8, <3>1, OneMore
    <3>3. Missed' \subseteq Listed \ {s}
      BY <1>8, <1>9, <3>1
    <3> DEFINE M == Missed'
               S == Listed
               T == Listed \ {s}
    <3> HIDE DEF M, S, T
    <3>a. S \subseteq Nat /\ IsFiniteSet(S) /\ s \in S /\ M \subseteq T /\ T = S \ {s}
      BY <1>8, <3>1, <3>3 DEF M, S, T
    <3>b. \E x : Among(M, T, n) \subseteq Among(M, S, n) \union {x}
      <4>1. n \in Nat
        BY <2>2
      <4>2. \A i \in Nat : \E x : Among(M, T, i) \subseteq Among(M, S, i) \union {x}
        BY <3>a, OneMovesUp
      <4> QED  BY <4>1, <4>2
    <3>4. PICK x : Among(Missed', Listed \ {s}, n) \subseteq Among(Missed', Listed, n) \union {x}
      BY <3>b DEF M, S, T
    <3>5. Behind' \subseteq Behind \union {x}
      BY <1>9, <2>3, <3>1, <3>4 DEF Among
    <3>6. IsFiniteSet(Behind \union {x}) /\ Cardinality(Behind \union {x}) <= Cardinality(Behind) + 1
          /\ Cardinality(Behind \union {x}) \in Nat
      BY <2>4, OneMore
    <3>7. Cardinality(Behind') <= Cardinality(Behind \union {x}) /\ Cardinality(Behind') \in Nat
      BY <2>4, <3>5, <3>6, FS_Subset, FS_CardinalityType
    <3>8. Cardinality(Behind') <= Cardinality(read'.left)
      BY <2>4, <2>5, <3>2, <3>6, <3>7
    <3>9. PagesMissOnlyWhatLeft'
      BY <1>1, <1>10, <2>1, <2>4, <3>2 DEF InPages, PagesMissOnlyWhatLeft
    <3> QED  BY <1>1, <2>1, <3>8, <3>9 DEF InPages
  <2> QED  BY <2>6, <2>7
<1> QED  BY <1>1, <1>6, <1>7, <1>11, <1>12 DEF ReadInv

\* Every step keeps what a reading knows.
LEMMA ReadNext == ReadInv /\ [ReportsNext]_reportsVars => ReadInv'
<1> SUFFICES ASSUME ReadInv, [ReportsNext]_reportsVars PROVE ReadInv'
  OBVIOUS
<1>1. ReportsTypeOK'
  BY NextTypes DEF ReadInv
<1>2. ASSUME read' = read, UNCHANGED t PROVE ReadInv'
  <2>1. Listed' = Listed /\ Missed' = Missed /\ PagesRead' = PagesRead
    BY <1>2 DEF Listed, Missed, PagesRead
  <2>2. Behind' = Behind
    BY <2>1 DEF Behind
  <2>3. GoneForGood' /\ Stays'
    BY <1>2, <2>1 DEF ReadInv, GoneForGood, Stays
  <2>4. InScan => InScan'
    BY <1>2, <2>1 DEF InScan
  <2>5. InPages => InPages'
    BY <1>2, <2>1, <2>2 DEF InPages, PagesMissOnlyWhatLeft
  <2> QED  BY <1>1, <1>2, <2>3, <2>4, <2>5 DEF ReadInv
<1>3. CASE Expense
  <2>1. PICK r \in Terminals :
          /\ t' = [status |-> t.status, paid |-> t.paid, debt |-> t.debt,
                   book |-> [t.book EXCEPT ![r]["EXPENSE"] = @ + 1], stock |-> t.stock]
          /\ UNCHANGED <<form, read>>
    BY <1>3, ExpenseEffect, TypesOf DEF ReadInv
  <2>2. t'.status = t.status /\ t'.paid = t.paid /\ read' = read
    BY <2>1
  <2>3. Listed' = Listed
    <3>1. \A s : s \in Listed' <=> s \in Listed
      BY <2>2, Listing DEF Listed, StatusFits
    <3> QED  BY <3>1
  <2>4. Missed' = Missed /\ PagesRead' = PagesRead
    BY <2>2 DEF Missed, PagesRead
  <2>5. Behind' = Behind
    BY <2>3, <2>4 DEF Behind
  <2>6. GoneForGood' /\ Stays'
    BY <2>2, <2>3 DEF ReadInv, GoneForGood, Stays, PastFor
  <2>7. InScan => InScan'
    BY <2>2, <2>4 DEF InScan
  <2>8. InPages => InPages'
    BY <2>2, <2>4, <2>5 DEF InPages, PagesMissOnlyWhatLeft
  <2> QED  BY <1>1, <2>2, <2>6, <2>7, <2>8 DEF ReadInv
<1>o. CASE OpenTill
  BY <1>2, <1>o DEF OpenTill
<1>4. CASE Close
  <2>1. read'.kind = "none" /\ read'.left = {} /\ read'.start = {}
    BY <1>4 DEF Close, NotReading
  <2> QED  BY <1>1, <2>1 DEF ReadInv, GoneForGood, Stays
<1>5. ASSUME NEW f \in Filters, SetFilter(f) PROVE ReadInv'
  BY <1>2, <1>5 DEF SetFilter
<1>6. CASE UNCHANGED reportsVars
  BY <1>2, <1>6 DEF reportsVars
<1> QED  BY <1>1, <1>3, <1>o, <1>4, <1>5, <1>6, ReadWhileSelling, ReadBegins, ReadPage, ReadCount, ReadTurns, ReadLot
         DEF ReportsNext

\* Types, and the promises of the scan and of the pages.
THEOREM ReadingInvariance == ReportsSpec => []ReadInv
<1>1. ReportsInit => ReadInv
  BY ReadInit
<1>2. ReadInv /\ [ReportsNext]_reportsVars => ReadInv'
  BY ReadNext
<1> QED  BY <1>1, <1>2, PTL DEF ReportsSpec

\* A scan counts no sale twice, and misses no more than it has skipped.
THEOREM ScansCountOnce == ReportsSpec => []ScanCountsOnce
<1>1. ReadInv => ScanCountsOnce
  BY DEF ReadInv, InScan, ScanCountsOnce
<1> QED  BY <1>1, ReadingInvariance, PTL

\* Pages hide no more than has left the list.
THEOREM PagesMissFew == ReportsSpec => []PagesMissOnlyWhatLeft
<1>1. ReadInv => PagesMissOnlyWhatLeft
  BY DEF ReadInv, InPages, PagesMissOnlyWhatLeft
<1> QED  BY <1>1, ReadingInvariance, PTL

-----------------------------------------------------------------------------
(* What the tables keep.                                                   *)

\* A debt is open exactly while its sale counts and is not paid whole.
Owed(s) == SaleData[s].customer /\ PaidOf(t, s) < TotalOf(s)
DebtOf(s) == /\ PaidOf(t, s) <= TotalOf(s)
             /\ t.debt[s] = "PENDING" <=> t.status[s] \in RealSaleStatuses /\ Owed(s)
             /\ t.status[s] = "DRAFT" => PaidOf(t, s) = 0 /\ t.debt[s] = "NONE"
DebtsFollow == \A s \in Sales : DebtOf(s)

\* The tills have entered what the sales were paid in cash, but what was taken with no till.
CashOfSales == [s \in Sales |-> t.paid[s]["CASH"]]
CashOfTills == [r \in Terminals |-> t.book[r]["SALE_PAYMENT"]]
CashBooked ==
    /\ apart \in Nat
    /\ SumFunctionOnSet(CashOfSales, Sales) = SumFunctionOnSet(CashOfTills, Terminals) + apart

\* And nothing was entered where no till is open.
ClosedAreEmpty ==
    \A r \in Terminals \ openTills : \A y \in IncreaseTypes \union DecreaseTypes : t.book[r][y] = 0

\* What is in stock and what was sold, at cost, is what was there first.
CostsOfSale(s) == [x \in Products |-> SaleData[s].items[x] * Cost[x]]
CostOfSale(s) == SumFunctionOnSet(CostsOfSale(s), Products)
CostsIn(stock, w) == [x \in Products |-> stock[w][x] * Cost[x]]
CostIn(stock, w) == SumFunctionOnSet(CostsIn(stock, w), Products)
Costs(stock) == [w \in Warehouses |-> CostIn(stock, w)]
ValueOf(stock) == SumFunctionOnSet(Costs(stock), Warehouses)
GoodsSold == [s \in Sales |-> IF t.status[s] \in RealSaleStatuses THEN CostOfSale(s) ELSE 0]
GoodsKept == ValueOf(t.stock) + SumFunctionOnSet(GoodsSold, Sales) = ValueOf(Stock0)

TablesInv == t \in TableSet /\ DebtsFollow /\ CashBooked /\ ClosedAreEmpty /\ GoodsKept

\* Costs are natural numbers.
LEMMA CostsAreNat ==
    ASSUME NEW stock \in [Warehouses -> [Products -> Nat]]
    PROVE  /\ \A s \in Sales : CostOfSale(s) \in Nat /\ \A x \in Products : CostsOfSale(s)[x] \in Nat
           /\ \A w \in Warehouses : CostIn(stock, w) \in Nat
                                    /\ \A x \in Products : CostsIn(stock, w)[x] \in Nat
           /\ ValueOf(stock) \in Nat
<1>1. \A x \in Products : Cost[x] \in Nat
  BY PlacesAssumption
<1>2. ASSUME NEW s \in Sales
      PROVE  CostOfSale(s) \in Nat /\ \A x \in Products : CostsOfSale(s)[x] \in Nat
  <2>1. \A x \in Products : SaleData[s].items[x] \in Nat
    BY SaleFields
  <2>2. \A x \in Products : CostsOfSale(s)[x] \in Nat
    BY <1>1, <2>1 DEF CostsOfSale
  <2> QED  BY <2>2, SumNat, PlacesAssumption DEF CostOfSale
<1>3. ASSUME NEW w \in Warehouses
      PROVE  CostIn(stock, w) \in Nat /\ \A x \in Products : CostsIn(stock, w)[x] \in Nat
  <2>1. \A x \in Products : CostsIn(stock, w)[x] \in Nat
    BY <1>1 DEF CostsIn
  <2> QED  BY <2>1, SumNat, PlacesAssumption DEF CostIn
<1>4. ValueOf(stock) \in Nat
  <2>1. \A w \in Warehouses : Costs(stock)[w] \in Nat
    BY <1>3 DEF Costs
  <2> QED  BY <2>1, SumNat, PlacesAssumption DEF ValueOf
<1> QED  BY <1>2, <1>3, <1>4

\* A sale takes what it costs out of its warehouse, or brings it back.
LEMMA ValueChanges ==
    ASSUME NEW stock \in [Warehouses -> [Products -> Nat]],
           NEW after \in [Warehouses -> [Products -> Nat]],
           NEW s \in Sales, NEW sign \in {-1, 1},
           \A w \in Warehouses : \A x \in Products :
               after[w][x] = IF w = SaleData[s].warehouse
                             THEN stock[w][x] + sign * SaleData[s].items[x] ELSE stock[w][x]
    PROVE  ValueOf(after) = ValueOf(stock) + sign * CostOfSale(s)
<1> DEFINE place == SaleData[s].warehouse
<1>1. place \in Warehouses /\ \A x \in Products : SaleData[s].items[x] \in Nat /\ Cost[x] \in Nat
  BY SaleFields, PlacesAssumption
<1>2. /\ CostOfSale(s) \in Nat /\ ValueOf(stock) \in Nat
      /\ \A x \in Products : CostsOfSale(s)[x] \in Nat
      /\ \A w \in Warehouses : CostIn(stock, w) \in Nat /\ CostIn(after, w) \in Nat
      /\ \A w \in Warehouses : \A x \in Products : CostsIn(stock, w)[x] \in Nat /\ CostsIn(after, w)[x] \in Nat
  BY CostsAreNat
<1> DEFINE move == [x \in Products |-> sign * CostsOfSale(s)[x]]
<1>3. SumFunctionOnSet(move, Products) = sign * CostOfSale(s)
  <2>1. sign \in Int /\ \A x \in Products : CostsOfSale(s)[x] \in Int /\ move[x] = sign * CostsOfSale(s)[x]
    BY <1>2
  <2> HIDE DEF move
  <2> QED  BY <2>1, SumFactor, PlacesAssumption DEF CostOfSale
<1>4. ASSUME NEW x \in Products
      PROVE  CostsIn(after, place)[x] = CostsIn(stock, place)[x] + move[x] /\ move[x] \in Int
  <2> DEFINE a == stock[place][x]
             b == SaleData[s].items[x]
             c == Cost[x]
  <2>1. a \in Nat /\ b \in Nat /\ c \in Nat
    BY <1>1
  <2>2. after[place][x] = a + sign * b
    BY <1>1
  <2>3. /\ CostsIn(after, place)[x] = (a + sign * b) * c
        /\ CostsIn(stock, place)[x] = a * c
        /\ move[x] = sign * (b * c)
    BY <2>2 DEF CostsIn, CostsOfSale
  <2> HIDE DEF a, b, c, move, place
  <2>4. CASE sign = 1
    BY <2>1, <2>3, <2>4
  <2>5. CASE sign = -1
    <3>1. (a + (-1) * b) * c = a * c + (-1) * (b * c)
      BY <2>1
    <3> QED  BY <2>1, <2>3, <2>5, <3>1
  <2> QED  BY <2>4, <2>5
<1>5. CostIn(after, place) = CostIn(stock, place) + sign * CostOfSale(s)
  <2>1. SumFunctionOnSet(CostsIn(after, place), Products)
          = SumFunctionOnSet(CostsIn(stock, place), Products) + SumFunctionOnSet(move, Products)
    <3>1. \A x \in Products : /\ CostsIn(stock, place)[x] \in Int /\ move[x] \in Int
                              /\ CostsIn(after, place)[x] = CostsIn(stock, place)[x] + move[x]
      BY <1>1, <1>2, <1>4
    <3> HIDE DEF move, place
    <3> QED  BY <3>1, SumPlus, PlacesAssumption
  <2> QED  BY <1>3, <2>1 DEF CostIn
<1>6. ASSUME NEW w \in Warehouses \ {place} PROVE Costs(stock)[w] = Costs(after)[w]
  <2>1. \A x \in Products : CostsIn(stock, w)[x] = CostsIn(after, w)[x]
    BY DEF CostsIn
  <2>2. CostIn(stock, w) = CostIn(after, w)
    BY <2>1, SumSame, PlacesAssumption DEF CostIn
  <2> QED  BY <2>2 DEF Costs
<1>7. \A w \in Warehouses : Costs(stock)[w] \in Int /\ Costs(after)[w] \in Int
  BY <1>2 DEF Costs
<1>8. ValueOf(after) = ValueOf(stock) + (Costs(after)[place] - Costs(stock)[place])
  <2> HIDE DEF place
  <2> QED  BY <1>1, <1>6, <1>7, SumChange, PlacesAssumption DEF ValueOf
<1>9. Costs(after)[place] = CostIn(after, place) /\ Costs(stock)[place] = CostIn(stock, place)
  BY <1>1 DEF Costs
<1>10. CostIn(after, place) \in Int /\ CostIn(stock, place) \in Int /\ sign * CostOfSale(s) \in Int
  BY <1>1, <1>2
<1> HIDE DEF place, move
<1> QED  BY <1>2, <1>5, <1>8, <1>9, <1>10

\* What is sold changes by what becomes of one sale.
LEMMA SoldChanges ==
    ASSUME t \in TableSet, NEW s \in Sales, NEW new \in SaleStatuses,
           Becomes(t.status, t'.status, s, new), t' \in TableSet
    PROVE  /\ SumFunctionOnSet(GoodsSold', Sales)
                = SumFunctionOnSet(GoodsSold, Sales)
                  + ((IF new \in RealSaleStatuses THEN CostOfSale(s) ELSE 0)
                     - (IF t.status[s] \in RealSaleStatuses THEN CostOfSale(s) ELSE 0))
           /\ SumFunctionOnSet(GoodsSold, Sales) \in Int
<1>1. \A o \in Sales : CostOfSale(o) \in Nat
  BY CostsAreNat DEF TableSet
<1>2. \A o \in Sales : /\ GoodsSold[o] = IF t.status[o] \in RealSaleStatuses THEN CostOfSale(o) ELSE 0
                       /\ GoodsSold'[o] = IF t'.status[o] \in RealSaleStatuses THEN CostOfSale(o) ELSE 0
                       /\ GoodsSold[o] \in Int /\ GoodsSold'[o] \in Int
  BY <1>1 DEF GoodsSold, CostOfSale, CostsOfSale
<1>3. \A o \in Sales \ {s} : GoodsSold[o] = GoodsSold'[o]
  BY <1>2 DEF Becomes
<1>4. SumFunctionOnSet(GoodsSold', Sales) = SumFunctionOnSet(GoodsSold, Sales) + (GoodsSold'[s] - GoodsSold[s])
  <2> DEFINE f == GoodsSold
             g == GoodsSold'
  <2>1. /\ IsFiniteSet(Sales) /\ (\A o \in Sales : f[o] \in Int /\ g[o] \in Int)
        /\ \A o \in Sales \ {s} : f[o] = g[o]
    BY <1>2, <1>3, SalesAssumption
  <2> HIDE DEF f, g
  <2>2. SumFunctionOnSet(g, Sales) = SumFunctionOnSet(f, Sales) + (g[s] - f[s])
    BY <2>1, SumChange
  <2> QED  BY <2>2 DEF f, g
<1>5. SumFunctionOnSet(GoodsSold, Sales) \in Int
  BY <1>2, SumInt, SalesAssumption
<1> QED  BY <1>2, <1>4, <1>5 DEF Becomes

\* Cash of a sale goes into its till.
LEMMA CashEntered ==
    ASSUME t \in TableSet, t' \in TableSet, CashBooked, NEW s \in Sales, NEW m \in Methods, NEW amount \in Nat,
           Gets(t.paid, t'.paid, s, m, amount),
           t'.book = IF m = "CASH" THEN Book(TillOf(s), "SALE_PAYMENT", amount) ELSE t.book,
           TakenApart(s, m, amount)
    PROVE  CashBooked'
<1>1. /\ \A o \in Sales : /\ CashOfSales[o] = t.paid[o]["CASH"] /\ CashOfSales'[o] = t'.paid[o]["CASH"]
                          /\ CashOfSales[o] \in Int /\ CashOfSales'[o] \in Int
      /\ \A r \in Terminals : /\ CashOfTills[r] = t.book[r]["SALE_PAYMENT"]
                              /\ CashOfTills'[r] = t'.book[r]["SALE_PAYMENT"]
                              /\ CashOfTills[r] \in Int /\ CashOfTills'[r] \in Int
  BY PlacesAssumption DEF TableSet, Books, IncreaseTypes, CashOfSales, CashOfTills
<1>0. IsFiniteSet(Sales)
  BY SalesAssumption
<1>2. /\ SumFunctionOnSet(CashOfSales, Sales) \in Int
      /\ \A o \in Sales \ {s} : CashOfSales[o] = CashOfSales'[o]
  <2>1. SumFunctionOnSet(CashOfSales, Sales) \in Int
    BY <1>0, <1>1, SumInt
  <2>2. \A o \in Sales \ {s} : t.paid[o] = t'.paid[o]
    BY DEF Gets
  <2> QED  BY <1>1, <2>1, <2>2
<1>3. SumFunctionOnSet(CashOfSales', Sales)
        = SumFunctionOnSet(CashOfSales, Sales) + (CashOfSales'[s] - CashOfSales[s])
  <2> DEFINE f == CashOfSales
             g == CashOfSales'
  <2>1. /\ (\A o \in Sales : f[o] \in Int /\ g[o] \in Int)
        /\ \A o \in Sales \ {s} : f[o] = g[o]
    BY <1>1, <1>2
  <2> HIDE DEF f, g
  <2>2. SumFunctionOnSet(g, Sales) = SumFunctionOnSet(f, Sales) + (g[s] - f[s])
    BY <1>0, <2>1, SumChange
  <2> QED  BY <2>2 DEF f, g
<1>a. /\ apart \in Nat /\ apart' \in Nat
      /\ SumFunctionOnSet(CashOfSales, Sales) = SumFunctionOnSet(CashOfTills, Terminals) + apart
  BY DEF CashBooked, TakenApart
<1>b. SumFunctionOnSet(CashOfTills, Terminals) \in Int
  BY <1>1, SumInt, PlacesAssumption
<1>4. CASE m = "CASH" /\ TillOf(s) \in openTills
  <2>1. /\ TillOf(s) \in Terminals
        /\ \A r \in Terminals : CashOfTills'[r] = IF r = TillOf(s) THEN CashOfTills[r] + amount ELSE CashOfTills[r]
    <3>1. "SALE_PAYMENT" \in IncreaseTypes \union DecreaseTypes
      BY DEF IncreaseTypes
    <3>2. TillOf(s) \in Terminals
      BY SaleFields DEF TillOf
    <3> QED  BY <1>1, <1>4, <3>1, <3>2, BookEffect
  <2>2. SumFunctionOnSet(CashOfTills', Terminals)
          = SumFunctionOnSet(CashOfTills, Terminals) + (CashOfTills'[TillOf(s)] - CashOfTills[TillOf(s)])
    BY <1>1, <2>1, SumChange, PlacesAssumption
  <2>3. CashOfSales'[s] = CashOfSales[s] + amount
    BY <1>1, <1>4 DEF Gets
  <2>4. CashOfSales'[s] - CashOfSales[s] = amount /\ CashOfTills'[TillOf(s)] - CashOfTills[TillOf(s)] = amount
    BY <1>1, <2>1, <2>3
  <2>5. apart' = apart
    BY <1>4 DEF TakenApart, TillOf
  <2>6. SumFunctionOnSet(CashOfSales', Sales) = SumFunctionOnSet(CashOfTills', Terminals) + apart'
    BY <1>2, <1>3, <1>a, <1>b, <2>2, <2>4, <2>5
  <2> QED  BY <1>a, <2>6 DEF CashBooked
<1>5. CASE ~(m = "CASH" /\ TillOf(s) \in openTills)
  <2>1. \A r \in Terminals : CashOfTills'[r] = CashOfTills[r]
    <3>1. "SALE_PAYMENT" \in IncreaseTypes \union DecreaseTypes /\ TillOf(s) \in Terminals
      BY SaleFields DEF IncreaseTypes, TillOf
    <3> QED  BY <1>1, <1>5, <3>1, BookEffect
  <2>2. SumFunctionOnSet(CashOfTills', Terminals) = SumFunctionOnSet(CashOfTills, Terminals)
    BY <2>1, SumSame, PlacesAssumption
  <2>3. CashOfSales'[s] - CashOfSales[s] = IF m = "CASH" THEN amount ELSE 0
    BY <1>1, PlacesAssumption DEF Gets
  <2>4. apart' = apart + (IF m = "CASH" THEN amount ELSE 0)
    BY <1>5, <1>a DEF TakenApart, TillOf
  <2>5. SumFunctionOnSet(CashOfSales', Sales) = SumFunctionOnSet(CashOfTills', Terminals) + apart'
    BY <1>2, <1>3, <1>a, <1>b, <2>2, <2>3, <2>4
  <2> QED  BY <1>a, <2>5 DEF CashBooked
<1> QED  BY <1>4, <1>5

\* Nothing else of the tills counts.
LEMMA CashStays ==
    ASSUME CashBooked, apart' = apart, t'.paid = t.paid,
           \A r \in Terminals : t'.book[r]["SALE_PAYMENT"] = t.book[r]["SALE_PAYMENT"]
    PROVE  CashBooked'
<1>1. CashOfSales' = CashOfSales /\ \A r \in Terminals : CashOfTills'[r] = CashOfTills[r]
  BY DEF CashOfSales, CashOfTills
<1>2. SumFunctionOnSet(CashOfTills', Terminals) = SumFunctionOnSet(CashOfTills, Terminals)
  BY <1>1, SumSame, PlacesAssumption
<1> QED  BY <1>1, <1>2 DEF CashBooked

\* Where no till is open, no entry is made.
LEMMA ClosedStay ==
    ASSUME t \in TableSet, ClosedAreEmpty, openTills' = openTills,
           \/ t'.book = t.book
           \/ \E r \in Terminals, y \in IncreaseTypes \union DecreaseTypes, n \in Nat : t'.book = Book(r, y, n)
    PROVE  ClosedAreEmpty'
<1>1. CASE t'.book = t.book
  BY <1>1 DEF ClosedAreEmpty
<1>2. ASSUME NEW r \in Terminals, NEW y \in IncreaseTypes \union DecreaseTypes, NEW n \in Nat,
             t'.book = Book(r, y, n)
      PROVE  ClosedAreEmpty'
  <2>1. \A q \in Terminals \ openTills : \A z \in IncreaseTypes \union DecreaseTypes :
           t'.book[q][z] = t.book[q][z]
    BY <1>2, BookEffect
  <2> QED  BY <2>1 DEF ClosedAreEmpty
<1> QED  BY <1>1, <1>2

\* The debt of the sale that moves; the others owe what they owed.
LEMMA DebtsStay ==
    ASSUME t \in TableSet, t' \in TableSet, DebtsFollow, NEW s \in Sales,
           \A o \in Sales \ {s} : /\ t'.status[o] = t.status[o] /\ t'.paid[o] = t.paid[o]
                                  /\ t'.debt[o] = t.debt[o]
    PROVE  DebtOf(s)' => DebtsFollow'
<1>1. ASSUME NEW o \in Sales \ {s} PROVE DebtOf(o)'
  <2>1. PaidOf(t', o) = PaidOf(t, o)
    BY DEF PaidOf, SumOver
  <2>2. DebtOf(o)
    BY DEF DebtsFollow
  <2> QED  BY <2>1, <2>2 DEF DebtOf, Owed
<1> QED  BY <1>1 DEF DebtsFollow

\* It holds of the tables at first.
LEMMA TablesInit == ReportsInit => TablesInv
<1> SUFFICES ASSUME ReportsInit PROVE TablesInv
  OBVIOUS
<1>1. t = Tables0 /\ t \in TableSet
  BY InitTypes, TypesOf DEF ReportsInit
<1>2. /\ \A s \in Sales : t.status[s] = "DRAFT" /\ t.debt[s] = "NONE" /\ t.paid[s] = NothingPaid
      /\ \A r \in Terminals : t.book[r] = NoMovement
      /\ t.stock = Stock0
  BY <1>1 DEF Tables0
<1>3. ASSUME NEW s \in Sales PROVE DebtOf(s)
  <2> DEFINE g == [m \in Methods |-> t.paid[s][m]]
  <2>1. DOMAIN g = Methods /\ \A m \in Methods : g[m] = 0
    BY <1>2 DEF NothingPaid
  <2>2. PaidOf(t, s) = SumFunctionOnSet(g, Methods)
    BY DEF PaidOf, SumOver, SumFunction
  <2>3. SumFunctionOnSet(g, Methods) = 0
    <3> HIDE DEF g
    <3> QED  BY <2>1, SumOfZeroes, PlacesAssumption
  <2>4. TotalOf(s) \in Nat
    BY TotalsAreNat
  <2> HIDE DEF g
  <2> QED  BY <1>2, <2>2, <2>3, <2>4 DEF DebtOf, RealSaleStatuses
<1>4. CashBooked
  <2>1. \A s \in Sales : CashOfSales[s] = 0
    BY <1>2, PlacesAssumption DEF CashOfSales, NothingPaid
  <2>2. \A r \in Terminals : CashOfTills[r] = 0
    BY <1>2 DEF CashOfTills, NoMovement, IncreaseTypes
  <2>3. IsFiniteSet(Sales) /\ IsFiniteSet(Terminals)
    BY SalesAssumption, PlacesAssumption
  <2>4. apart = 0
    BY DEF ReportsInit
  <2>5. SumFunctionOnSet(CashOfSales, Sales) = 0 /\ SumFunctionOnSet(CashOfTills, Terminals) = 0
    BY <2>1, <2>2, <2>3, SumOfZeroes
  <2> QED  BY <2>4, <2>5 DEF CashBooked
<1>c. ClosedAreEmpty
  BY <1>2 DEF ClosedAreEmpty, NoMovement
<1>5. GoodsKept
  <2>1. \A s \in Sales : GoodsSold[s] = 0
    BY <1>2 DEF GoodsSold, RealSaleStatuses
  <2>2. SumFunctionOnSet(GoodsSold, Sales) = 0
    <3>1. IsFiniteSet(Sales)
      BY SalesAssumption
    <3> QED  BY <2>1, <3>1, SumOfZeroes
  <2>3. ValueOf(t.stock) \in Nat
    BY <1>1, CostsAreNat DEF TableSet
  <2> QED  BY <1>2, <2>2, <2>3 DEF GoodsKept
<1> QED  BY <1>1, <1>3, <1>4, <1>c, <1>5 DEF TablesInv, DebtsFollow

\* A sale that is called off was neither paid nor owed.
LEMMA CallKeeps ==
    ASSUME TablesInv, openTills' = openTills, NEW s \in Sales, Calls(s)
    PROVE  TablesInv'
<1>1. /\ t \in TableSet /\ DebtsFollow /\ CashBooked /\ ClosedAreEmpty /\ GoodsKept
  BY DEF TablesInv
<1>2. /\ t.status[s] = "DRAFT"
      /\ t'.status = [t.status EXCEPT ![s] = "CANCELLED"] /\ t'.paid = t.paid /\ t'.debt = t.debt
      /\ t'.book = t.book /\ t'.stock = t.stock /\ apart' = apart
  BY <1>1 DEF Calls, CallOff, TableSet
<1>3. t' \in TableSet
  BY <1>1, SaleGrowsOlder DEF Moves
<1>4. Becomes(t.status, t'.status, s, "CANCELLED")
  BY <1>1, <1>2 DEF TableSet, Becomes
<1>5. DebtsFollow'
  <2>1. DebtOf(s)'
    <3>1. PaidOf(t', s) = PaidOf(t, s)
      BY <1>2 DEF PaidOf, SumOver
    <3> QED  BY <1>1, <1>2, <1>4, <3>1 DEF DebtsFollow, DebtOf, Owed, Becomes, RealSaleStatuses
  <2> QED  BY <1>1, <1>2, <1>3, <1>4, <2>1, DebtsStay DEF Becomes
<1>6. CashBooked'
  BY <1>1, <1>2, CashStays
<1>7. GoodsKept'
  <2>1. SumFunctionOnSet(GoodsSold', Sales) = SumFunctionOnSet(GoodsSold, Sales) + (0 - 0)
        /\ SumFunctionOnSet(GoodsSold, Sales) \in Int
    BY <1>1, <1>2, <1>3, <1>4, SoldChanges DEF SaleStatuses, RealSaleStatuses
  <2> QED  BY <1>1, <1>2, <2>1 DEF GoodsKept
<1>8. ClosedAreEmpty'
  BY <1>1, <1>2, ClosedStay
<1> QED  BY <1>3, <1>5, <1>6, <1>7, <1>8 DEF TablesInv

\* A return brings back goods and ends a debt; cash paid back is entered elsewhere.
LEMMA ReturnKeeps ==
    ASSUME TablesInv, openTills' = openTills, NEW s \in Sales, Returns(s)
    PROVE  TablesInv'
<1>1. /\ t \in TableSet /\ DebtsFollow /\ CashBooked /\ ClosedAreEmpty /\ GoodsKept
  BY DEF TablesInv
<1>2. /\ t' \in TableSet
      /\ t.status[s] \in RealSaleStatuses
      /\ Becomes(t.status, t'.status, s, "REFUNDED")
      /\ t'.paid = t.paid
      /\ Becomes(t.debt, t'.debt, s, IF t.debt[s] = "NONE" THEN "NONE" ELSE "CANCELLED")
      /\ apart' = apart
      /\ \/ t'.book = t.book
         \/ \E r \in Terminals : t'.book = Book(r, "SALE_REFUND", t.paid[s]["CASH"])
      /\ t'.stock = StockWith(s, 1)
      /\ \A w \in Warehouses : \A x \in Products :
           StockWith(s, 1)[w][x] = IF w = SaleData[s].warehouse
                                   THEN t.stock[w][x] + 1 * SaleData[s].items[x]
                                   ELSE t.stock[w][x]
  BY <1>1, ReturnEffect
<1>3. DebtsFollow'
  <2>1. DebtOf(s)'
    <3>1. PaidOf(t', s) = PaidOf(t, s) /\ DebtOf(s)
      BY <1>1, <1>2 DEF PaidOf, SumOver, DebtsFollow
    <3>2. t'.status[s] = "REFUNDED" /\ t'.debt[s] \in {"NONE", "CANCELLED"}
      BY <1>2 DEF Becomes
    <3> QED  BY <3>1, <3>2 DEF DebtOf, RealSaleStatuses
  <2> QED  BY <1>1, <1>2, <2>1, DebtsStay DEF Becomes
<1>4. CashBooked'
  <2>1. \A r \in Terminals : t'.book[r]["SALE_PAYMENT"] = t.book[r]["SALE_PAYMENT"]
    <3>1. t.paid[s]["CASH"] \in Nat
      BY <1>1, PlacesAssumption DEF TableSet
    <3>2. /\ "SALE_REFUND" \in IncreaseTypes \union DecreaseTypes
          /\ "SALE_PAYMENT" \in IncreaseTypes \union DecreaseTypes
      BY DEF IncreaseTypes, DecreaseTypes
    <3>3. \A q, r \in Terminals :
            Book(q, "SALE_REFUND", t.paid[s]["CASH"])[r]["SALE_PAYMENT"] = t.book[r]["SALE_PAYMENT"]
      BY <1>1, <3>1, <3>2, BookEffect
    <3> QED  BY <1>2, <3>3
  <2> QED  BY <1>1, <1>2, <2>1, CashStays
<1>5. GoodsKept'
  <2>1. SumFunctionOnSet(GoodsSold', Sales) = SumFunctionOnSet(GoodsSold, Sales) + (0 - CostOfSale(s))
        /\ SumFunctionOnSet(GoodsSold, Sales) \in Int
    BY <1>1, <1>2, SoldChanges DEF SaleStatuses, RealSaleStatuses
  <2>2. ValueOf(t'.stock) = ValueOf(t.stock) + 1 * CostOfSale(s)
    <3> DEFINE now == t.stock
               after == t'.stock
               sign == 1
    <3>1. now \in [Warehouses -> [Products -> Nat]] /\ after \in [Warehouses -> [Products -> Nat]]
      BY <1>1, <1>2 DEF TableSet
    <3>2. /\ sign \in {-1, 1}
          /\ \A w \in Warehouses : \A x \in Products :
               after[w][x] = IF w = SaleData[s].warehouse THEN now[w][x] + sign * SaleData[s].items[x]
                             ELSE now[w][x]
      BY <1>2
    <3> HIDE DEF now, after, sign
    <3>3. ValueOf(after) = ValueOf(now) + sign * CostOfSale(s)
      BY <3>1, <3>2, ValueChanges
    <3> QED  BY <3>3 DEF now, after, sign
  <2>3. ValueOf(t.stock) \in Nat /\ CostOfSale(s) \in Nat
    BY <1>1, CostsAreNat DEF TableSet
  <2>4. ValueOf(t'.stock) + SumFunctionOnSet(GoodsSold', Sales) = ValueOf(t.stock) + SumFunctionOnSet(GoodsSold, Sales)
    BY <2>1, <2>2, <2>3
  <2>5. ValueOf(Stock0)' = ValueOf(Stock0) /\ ValueOf(t.stock)' = ValueOf(t'.stock)
    BY DEF ValueOf, Costs, CostIn, CostsIn
  <2> QED  BY <1>1, <2>4, <2>5 DEF GoodsKept
<1>6. ClosedAreEmpty'
  <2>1. t.paid[s]["CASH"] \in Nat /\ "SALE_REFUND" \in IncreaseTypes \union DecreaseTypes
    BY <1>1, PlacesAssumption DEF TableSet, DecreaseTypes
  <2> QED  BY <1>1, <1>2, <2>1, ClosedStay
<1> QED  BY <1>2, <1>3, <1>4, <1>5, <1>6 DEF TablesInv

\* A confirmation takes goods, enters cash, and opens a debt for what is left.
LEMMA ConfirmKeeps ==
    ASSUME TablesInv, openTills' = openTills,
           NEW s \in Sales, NEW m \in Methods, NEW amount \in Nat, amount <= TotalOf(s),
           Confirms(s, m, amount)
    PROVE  TablesInv'
<1> DEFINE paid == PaidOf(t, s) + amount
           status == StatusAfter(s, paid)
<1>1. /\ t \in TableSet /\ DebtsFollow /\ CashBooked /\ ClosedAreEmpty /\ GoodsKept
  BY DEF TablesInv
<1>2. /\ t' \in TableSet
      /\ t.status[s] = "DRAFT"
      /\ Becomes(t.status, t'.status, s, status)
      /\ Gets(t.paid, t'.paid, s, m, amount)
      /\ Becomes(t.debt, t'.debt, s,
            IF SaleData[s].customer /\ amount < TotalOf(s)
            THEN IF paid = TotalOf(s) THEN "PAID" ELSE "PENDING"
            ELSE IF t.debt[s] # "NONE" /\ paid = TotalOf(s) THEN "PAID" ELSE t.debt[s])
      /\ t'.book = IF m = "CASH" THEN Book(TillOf(s), "SALE_PAYMENT", amount) ELSE t.book
      /\ TakenApart(s, m, amount)
      /\ t'.stock = StockWith(s, -1)
      /\ \A w \in Warehouses : \A x \in Products :
           StockWith(s, -1)[w][x] = IF w = SaleData[s].warehouse
                                    THEN t.stock[w][x] + (-1) * SaleData[s].items[x]
                                    ELSE t.stock[w][x]
  BY <1>1, ConfirmEffect
<1>3. /\ DebtOf(s) /\ PaidOf(t', s) = PaidOf(t, s) + amount
      /\ TotalOf(s) \in Nat
      /\ status \in RealSaleStatuses /\ status \in SaleStatuses
  BY <1>1, <1>2, PaidMore, TotalsAreNat DEF DebtsFollow, StatusAfter, RealSaleStatuses, SaleStatuses
<1>4. PaidOf(t, s) = 0 /\ t.debt[s] = "NONE" /\ paid = amount
  BY <1>2, <1>3 DEF DebtOf
<1>5. DebtsFollow'
  <2>1. DebtOf(s)'
    <3>1. t'.status[s] \in RealSaleStatuses /\ PaidOf(t', s) = amount
      BY <1>2, <1>3, <1>4 DEF Becomes
    <3>2. t'.debt[s] = IF SaleData[s].customer /\ amount < TotalOf(s) THEN "PENDING" ELSE "NONE"
      <4> HIDE DEF paid
      <4> QED  BY <1>2, <1>3, <1>4 DEF Becomes
    <3> QED  BY <1>3, <3>1, <3>2 DEF DebtOf, Owed, RealSaleStatuses
  <2> QED  BY <1>1, <1>2, <2>1, DebtsStay DEF Becomes, Gets
<1>6. CashBooked'
  BY <1>1, <1>2, CashEntered
<1>7. GoodsKept'
  <2> HIDE DEF status, paid
  <2>1. SumFunctionOnSet(GoodsSold', Sales) = SumFunctionOnSet(GoodsSold, Sales) + (CostOfSale(s) - 0)
        /\ SumFunctionOnSet(GoodsSold, Sales) \in Int
    BY <1>1, <1>2, <1>3, SoldChanges DEF RealSaleStatuses
  <2>2. ValueOf(t'.stock) = ValueOf(t.stock) + (-1) * CostOfSale(s)
    <3> DEFINE now == t.stock
               after == t'.stock
               sign == -1
    <3>1. now \in [Warehouses -> [Products -> Nat]] /\ after \in [Warehouses -> [Products -> Nat]]
      BY <1>1, <1>2 DEF TableSet
    <3>2. /\ sign \in {-1, 1}
          /\ \A w \in Warehouses : \A x \in Products :
               after[w][x] = IF w = SaleData[s].warehouse THEN now[w][x] + sign * SaleData[s].items[x]
                             ELSE now[w][x]
      BY <1>2
    <3> HIDE DEF now, after, sign
    <3>3. ValueOf(after) = ValueOf(now) + sign * CostOfSale(s)
      BY <3>1, <3>2, ValueChanges
    <3> QED  BY <3>3 DEF now, after, sign
  <2>3. ValueOf(t.stock) \in Nat /\ CostOfSale(s) \in Nat
    BY <1>1, CostsAreNat DEF TableSet
  <2>4. ValueOf(t'.stock) + SumFunctionOnSet(GoodsSold', Sales) = ValueOf(t.stock) + SumFunctionOnSet(GoodsSold, Sales)
    BY <2>1, <2>2, <2>3
  <2>5. ValueOf(Stock0)' = ValueOf(Stock0) /\ ValueOf(t.stock)' = ValueOf(t'.stock)
    BY DEF ValueOf, Costs, CostIn, CostsIn
  <2> QED  BY <1>1, <2>4, <2>5 DEF GoodsKept
<1>8. ClosedAreEmpty'
  <2>1. TillOf(s) \in Terminals /\ "SALE_PAYMENT" \in IncreaseTypes \union DecreaseTypes
    BY SaleFields DEF TillOf, IncreaseTypes
  <2> HIDE DEF status, paid
  <2> QED  BY <1>1, <1>2, <2>1, ClosedStay
<1> QED  BY <1>2, <1>5, <1>6, <1>7, <1>8 DEF TablesInv

\* A payment enters cash, and ends the debt it pays whole.
LEMMA PayKeeps ==
    ASSUME TablesInv, openTills' = openTills,
           NEW s \in Sales, NEW m \in Methods, NEW amount \in Nat, amount > 0,
           Pays(s, m, amount)
    PROVE  TablesInv'
<1> DEFINE paid == PaidOf(t, s) + amount
           status == StatusAfter(s, paid)
<1>1. /\ t \in TableSet /\ DebtsFollow /\ CashBooked /\ ClosedAreEmpty /\ GoodsKept
  BY DEF TablesInv
<1>2. /\ t' \in TableSet
      /\ t.status[s] \in {"CONFIRMED", "PARTIALLY_PAID"}
      /\ paid <= TotalOf(s)
      /\ Becomes(t.status, t'.status, s, status)
      /\ Gets(t.paid, t'.paid, s, m, amount)
      /\ Becomes(t.debt, t'.debt, s,
                 IF t.debt[s] # "NONE" /\ paid = TotalOf(s) THEN "PAID" ELSE t.debt[s])
      /\ t'.book = IF m = "CASH" THEN Book(TillOf(s), "SALE_PAYMENT", amount) ELSE t.book
      /\ TakenApart(s, m, amount)
      /\ t'.stock = t.stock
  BY <1>1, PayEffect
<1>3. /\ DebtOf(s) /\ PaidOf(t', s) = paid /\ PaidOf(t, s) \in Nat
      /\ TotalOf(s) \in Nat
      /\ status \in RealSaleStatuses /\ status \in SaleStatuses
      /\ t.status[s] \in RealSaleStatuses
  BY <1>1, <1>2, PaidMore, PaidIsNat, TotalsAreNat DEF DebtsFollow, StatusAfter, RealSaleStatuses, SaleStatuses
<1>4. PaidOf(t, s) < paid /\ paid \in Nat
  BY <1>3
<1>5. DebtsFollow'
  <2>1. DebtOf(s)'
    <3> HIDE DEF paid
    <3>1. t'.status[s] \in RealSaleStatuses
      BY <1>2, <1>3 DEF Becomes
    <3>2. t'.debt[s] = IF t.debt[s] # "NONE" /\ paid = TotalOf(s) THEN "PAID" ELSE t.debt[s]
      BY <1>2 DEF Becomes
    <3>3. t.debt[s] = "PENDING" <=> SaleData[s].customer
      BY <1>2, <1>3, <1>4 DEF DebtOf, Owed
    <3>4. t'.debt[s] = "PENDING" <=> SaleData[s].customer /\ paid < TotalOf(s)
      BY <1>2, <1>3, <1>4, <3>2, <3>3
    <3> QED  BY <1>2, <1>3, <3>1, <3>4 DEF DebtOf, Owed, RealSaleStatuses
  <2> QED  BY <1>1, <1>2, <2>1, DebtsStay DEF Becomes, Gets
<1>6. CashBooked'
  BY <1>1, <1>2, CashEntered
<1>7. GoodsKept'
  <2> HIDE DEF status, paid
  <2>1. SumFunctionOnSet(GoodsSold', Sales) = SumFunctionOnSet(GoodsSold, Sales) + (CostOfSale(s) - CostOfSale(s))
        /\ SumFunctionOnSet(GoodsSold, Sales) \in Int
    BY <1>1, <1>2, <1>3, SoldChanges
  <2>2. CostOfSale(s) \in Nat
    BY <1>1, CostsAreNat DEF TableSet
  <2>3. SumFunctionOnSet(GoodsSold', Sales) = SumFunctionOnSet(GoodsSold, Sales)
    BY <2>1, <2>2
  <2>4. ValueOf(Stock0)' = ValueOf(Stock0) /\ ValueOf(t.stock)' = ValueOf(t.stock)
    BY <1>2 DEF ValueOf, Costs, CostIn, CostsIn
  <2> QED  BY <1>1, <2>3, <2>4 DEF GoodsKept
<1>8. ClosedAreEmpty'
  <2>1. TillOf(s) \in Terminals /\ "SALE_PAYMENT" \in IncreaseTypes \union DecreaseTypes
    BY SaleFields DEF TillOf, IncreaseTypes
  <2> HIDE DEF status, paid
  <2> QED  BY <1>1, <1>2, <2>1, ClosedStay
<1> QED  BY <1>2, <1>5, <1>6, <1>7, <1>8 DEF TablesInv

\* Every step keeps what the tables say of one another.
LEMMA TablesNext == TablesInv /\ ReportsTypeOK /\ [ReportsNext]_reportsVars => TablesInv'
<1> SUFFICES ASSUME TablesInv, ReportsTypeOK, [ReportsNext]_reportsVars PROVE TablesInv'
  OBVIOUS
<1>0. openTills \subseteq Terminals
  BY TypesOf
<1>1. ASSUME t' = t, apart' = apart, openTills \subseteq openTills' PROVE TablesInv'
  BY <1>1 DEF TablesInv, DebtsFollow, DebtOf, Owed, CashBooked, CashOfSales, CashOfTills, ClosedAreEmpty, GoodsKept,
              GoodsSold, ValueOf, Costs, CostIn, CostsIn, CostOfSale, CostsOfSale
<1>2. CASE SaleMoves
  <2>1. PICK s \in Sales : Moves(s)
    BY <1>2, OneSaleMoves
  <2>2. openTills' = openTills
    BY <1>2 DEF SaleMoves
  <2> QED  BY <2>1, <2>2, CallKeeps, ReturnKeeps, ConfirmKeeps, PayKeeps DEF Moves
<1>3. CASE Expense
  <2>1. t \in TableSet
    BY DEF TablesInv
  <2>2. PICK r \in Terminals :
          /\ t' = [status |-> t.status, paid |-> t.paid, debt |-> t.debt,
                   book |-> [t.book EXCEPT ![r]["EXPENSE"] = @ + 1], stock |-> t.stock]
          /\ t' \in TableSet
          /\ r \in openTills /\ UNCHANGED <<openTills, apart>>
    BY <1>0, <1>3, <2>1, ExpenseEffect
  <2>3. t'.status = t.status /\ t'.paid = t.paid /\ t'.debt = t.debt /\ t'.stock = t.stock
        /\ t'.book = [t.book EXCEPT ![r]["EXPENSE"] = @ + 1]
    BY <2>2
  <2>4. \A o \in Terminals : t'.book[o]["SALE_PAYMENT"] = t.book[o]["SALE_PAYMENT"]
    BY <2>1, <2>3 DEF TableSet, Books
  <2>5. CashBooked'
    BY <2>2, <2>3, <2>4, CashStays DEF TablesInv
  <2>6. DebtsFollow'
    BY <2>3 DEF TablesInv, DebtsFollow, DebtOf, Owed, PaidOf, SumOver
  <2>7. GoodsKept'
    BY <2>3 DEF TablesInv, GoodsKept, GoodsSold, ValueOf, Costs, CostIn, CostsIn, CostOfSale, CostsOfSale
  <2>8. ClosedAreEmpty'
    <3>1. \A o \in Terminals \ openTills : t'.book[o] = t.book[o]
      BY <2>1, <2>2, <2>3 DEF TableSet
    <3> QED  BY <2>2, <3>1 DEF TablesInv, ClosedAreEmpty
  <2> QED  BY <2>2, <2>5, <2>6, <2>7, <2>8 DEF TablesInv
<1>4. CASE ~SaleMoves /\ ~Expense
  <2>1. t' = t /\ apart' = apart /\ openTills \subseteq openTills'
    BY <1>4 DEF ReportsNext, reportsVars, OpenTill, Apply, BeginScan, ReadRows, CountRows, NextPage, ReadBatch,
                SetFilter, Close
  <2> QED  BY <1>1, <2>1
<1> QED  BY <1>2, <1>3, <1>4

-----------------------------------------------------------------------------
(* What the reports of one moment say of one another.                      *)

\* The total of some sales.
LEMMA TotalIs ==
    ASSUME NEW S, S \subseteq Sales
    PROVE  /\ IsFiniteSet(S) /\ Total(S) = SumFunctionOnSet(TotalOfSale, S)
           /\ \A s \in S : TotalOfSale[s] = TotalOf(s) /\ TotalOfSale[s] \in Nat
<1>1. IsFiniteSet(S)
  BY FS_Subset, SalesAssumption
<1>2. \A s \in S : TotalOfSale[s] = TotalOf(s) /\ TotalOfSale[s] \in Nat
  BY TotalsAreNat DEF TotalOf
<1> DEFINE g == [s \in S |-> TotalOf(s)]
<1>3. \A s \in S : g[s] = TotalOfSale[s]
  BY <1>2
<1>4. Total(S) = SumFunctionOnSet(g, S)
  BY DEF Total, SumOver, SumFunction
<1>5. SumFunctionOnSet(g, S) = SumFunctionOnSet(TotalOfSale, S)
  <2> HIDE DEF g
  <2> QED  BY <1>1, <1>3, SumSame
<1> HIDE DEF g
<1> QED  BY <1>1, <1>2, <1>4, <1>5

\* The sales that count, and those of them that a branch or a day lets in.
RealSales == {s \in Sales : t.status[s] \in RealSaleStatuses}

\* What the filters of one moment let in.
LEMMA ListsOfOne ==
    /\ BuildSalesWhere(t, NoFilter) = RealSales
    /\ \A b \in Branches :
         BuildSalesWhere(t, At(b)) = {s \in RealSales : BranchOf[SaleData[s].terminal] = b}
    /\ \A d \in Moments :
         /\ BuildSalesWhere(t, Between(Unset, d)) = {s \in RealSales : SaleData[s].moment <= d}
         /\ BuildSalesWhere(t, Between(d, Unset)) = {s \in RealSales : SaleData[s].moment >= d}
         /\ BuildSalesWhere(t, Between(d, d))
              = {s \in RealSales : SaleData[s].moment >= d /\ SaleData[s].moment <= d}
<1>1. BuildSalesWhere(t, NoFilter) = RealSales
  <2>1. \A s : s \in BuildSalesWhere(t, NoFilter) <=> s \in RealSales
    BY Listing DEF NoFilter, AsksOf, DateRange, StatusFits, RealSales
  <2> QED  BY <2>1
<1>2. ASSUME NEW b \in Branches
      PROVE  BuildSalesWhere(t, At(b)) = {s \in RealSales : BranchOf[SaleData[s].terminal] = b}
  <2>0. b # Unset
    BY PlacesAssumption DEF Branches
  <2>1. \A s \in Sales : BranchOf[SaleData[s].terminal] = BranchOf[SaleData[s].warehouse]
    BY SalesAssumption
  <2>2. At(b) = [status |-> Unset, terminal |-> Unset, warehouse |-> Unset, branch |-> b, user |-> Unset,
                 product |-> Unset, category |-> Unset, method |-> Unset, from |-> Unset, to |-> Unset]
    BY DEF At, NoFilter
  <2> DEFINE f == At(b)
  <2>3. ASSUME NEW s \in Sales
        PROVE  s \in BuildSalesWhere(t, f) <=> s \in RealSales /\ BranchOf[SaleData[s].terminal] = b
    <3>1. AsksOf(f, s) <=> AtBranch(s, b)
      BY <2>0, <2>2 DEF AsksOf, DateRange
    <3>2. AtBranch(s, b) <=> BranchOf[SaleData[s].terminal] = b
      BY <2>1 DEF AtBranch
    <3>3. f.method = Unset /\ f.status = Unset
      BY <2>2
    <3> HIDE DEF f
    <3> QED  BY <3>1, <3>2, <3>3, Listing DEF StatusFits, RealSales
  <2>4. BuildSalesWhere(t, f) \subseteq Sales
    BY ListsAreFinite
  <2> HIDE DEF f
  <2>5. BuildSalesWhere(t, f) = {s \in RealSales : BranchOf[SaleData[s].terminal] = b}
    BY <2>3, <2>4 DEF RealSales
  <2> QED  BY <2>5 DEF f
<1>3. ASSUME NEW d \in Moments
      PROVE  /\ BuildSalesWhere(t, Between(Unset, d)) = {s \in RealSales : SaleData[s].moment <= d}
             /\ BuildSalesWhere(t, Between(d, Unset)) = {s \in RealSales : SaleData[s].moment >= d}
             /\ BuildSalesWhere(t, Between(d, d))
                  = {s \in RealSales : SaleData[s].moment >= d /\ SaleData[s].moment <= d}
  <2>0. d # Unset
    BY PlacesAssumption
  <2> DEFINE f == Between(Unset, d)
             g == Between(d, Unset)
             h == Between(d, d)
  <2>1. \A a, b : Between(a, b) = [status |-> Unset, terminal |-> Unset, warehouse |-> Unset, branch |-> Unset,
                                   user |-> Unset, product |-> Unset, category |-> Unset, method |-> Unset,
                                   from |-> a, to |-> b]
    <3>1. SUFFICES ASSUME NEW a, NEW b
          PROVE  Between(a, b) = [status |-> Unset, terminal |-> Unset, warehouse |-> Unset, branch |-> Unset,
                                  user |-> Unset, product |-> Unset, category |-> Unset, method |-> Unset,
                                  from |-> a, to |-> b]
      OBVIOUS
    <3> DEFINE begun == [NoFilter EXCEPT !.from = a]
    <3>2. begun = [status |-> Unset, terminal |-> Unset, warehouse |-> Unset, branch |-> Unset,
                   user |-> Unset, product |-> Unset, category |-> Unset, method |-> Unset,
                   from |-> a, to |-> Unset]
      BY DEF NoFilter
    <3> HIDE DEF begun
    <3>3. [begun EXCEPT !.to = b] = [status |-> Unset, terminal |-> Unset, warehouse |-> Unset, branch |-> Unset,
                                     user |-> Unset, product |-> Unset, category |-> Unset, method |-> Unset,
                                     from |-> a, to |-> b]
      BY <3>2
    <3> QED  BY <3>3 DEF begun, Between
  <2>2. ASSUME NEW s
        PROVE  /\ AsksOf(f, s) <=> SaleData[s].moment <= d
               /\ AsksOf(g, s) <=> SaleData[s].moment >= d
               /\ AsksOf(h, s) <=> SaleData[s].moment >= d /\ SaleData[s].moment <= d
    BY <2>0, <2>1 DEF AsksOf, DateRange
  <2>3. /\ f.status = Unset /\ f.method = Unset /\ g.status = Unset /\ g.method = Unset
        /\ h.status = Unset /\ h.method = Unset
    BY <2>1
  <2> HIDE DEF f, g, h
  <2>4. \A s : /\ s \in BuildSalesWhere(t, f) <=> s \in RealSales /\ SaleData[s].moment <= d
               /\ s \in BuildSalesWhere(t, g) <=> s \in RealSales /\ SaleData[s].moment >= d
               /\ s \in BuildSalesWhere(t, h)
                     <=> s \in RealSales /\ SaleData[s].moment >= d /\ SaleData[s].moment <= d
    BY <2>2, <2>3, Listing DEF StatusFits, RealSales
  <2>5. /\ BuildSalesWhere(t, f) = {s \in RealSales : SaleData[s].moment <= d}
        /\ BuildSalesWhere(t, g) = {s \in RealSales : SaleData[s].moment >= d}
        /\ BuildSalesWhere(t, h) = {s \in RealSales : SaleData[s].moment >= d /\ SaleData[s].moment <= d}
    BY <2>4
  <2> QED  BY <2>5 DEF f, g, h
<1> QED  BY <1>1, <1>2, <1>3

\* Every place is on one page.
LEMMA PlaceHasPage ==
    ASSUME NEW place \in Nat \ {0}, NEW size \in Nat \ {0}
    PROVE  \E page \in 1..place : (page - 1) * size < place /\ place <= page * size
<1> DEFINE begun == {page \in 1..place : (page - 1) * size < place}
           id == [page \in begun |-> page]
<1>1. IsFiniteSet(begun)
  <2>1. IsFiniteSet(1..place)
    BY FS_Interval
  <2> QED  BY <2>1, FS_Subset
<1>2. 1 \in begun
  <2>1. (1 - 1) * size = 0 /\ 1 \in 1..place
    OBVIOUS
  <2> QED  BY <2>1
<1>3. \A page \in begun : id[page] = page /\ id[page] \in Int
  OBVIOUS
<1>4. PICK page \in begun : \A p \in begun : id[p] <= id[page]
  <2> HIDE DEF begun, id
  <2> QED  BY <1>1, <1>2, <1>3, Greatest
<1>5. page \in 1..place /\ (page - 1) * size < place
  OBVIOUS
<1>6. page * size \in Int /\ (page + 1 - 1) * size = page * size /\ page <= page * size
  <2>1. page \in Nat /\ page + 1 - 1 = page
    BY <1>5
  <2>2. \A a \in Nat, b \in Nat \ {0} : a * b \in Int /\ a <= a * b
    <3>1. SUFFICES ASSUME NEW a \in Nat, NEW b \in Nat \ {0} PROVE a * b \in Int /\ a <= a * b
      OBVIOUS
    <3>2. b - 1 \in Nat
      OBVIOUS
    <3>3. a * (b - 1) \in Nat /\ a * b = a * (b - 1) + a
      BY <3>2
    <3> QED  BY <3>3
  <2> QED  BY <2>1, <2>2
<1>7. place <= page * size
  <2>1. SUFFICES ASSUME page * size < place PROVE FALSE
    BY <1>6
  <2>2. page + 1 \in begun
    BY <1>5, <1>6, <2>1
  <2>3. page + 1 <= page
    BY <1>3, <1>4, <2>2
  <2> QED  BY <1>5, <2>3
<1> QED  BY <1>5, <1>7

\* And on no other.
LEMMA PageIsOne ==
    ASSUME NEW place \in Nat, NEW size \in Nat \ {0}, NEW p \in Nat, NEW q \in Nat,
           (p - 1) * size < place, place <= p * size, (q - 1) * size < place, place <= q * size
    PROVE  p = q
<1>1. \A a, b \in Nat : a < b => a * size <= (b - 1) * size
  <2>1. SUFFICES ASSUME NEW a \in Nat, NEW b \in Nat, a < b PROVE a * size <= (b - 1) * size
    OBVIOUS
  <2>2. b - 1 - a \in Nat /\ b - 1 = a + (b - 1 - a)
    BY <2>1
  <2>3. (b - 1) * size = a * size + (b - 1 - a) * size /\ (b - 1 - a) * size \in Nat /\ a * size \in Nat
    BY <2>2
  <2> QED  BY <2>3
<1>2. p * size \in Int /\ q * size \in Int /\ (p - 1) * size \in Int /\ (q - 1) * size \in Int
  OBVIOUS
<1>3. ~(p < q) /\ ~(q < p)
  BY <1>1, <1>2
<1> QED  BY <1>3

\* What the pages of a list add up to.
LEMMA PagesAddUp ==
    ASSUME NEW S, S \subseteq Sales, NEW value, \A s \in S : value[s] \in Int, NEW size \in Nat \ {0},
           NEW pages, \A page \in 1..Cardinality(S) : pages[page] = SumFunctionOnSet(value, PageOf(S, page, size))
    PROVE  SumFunctionOnSet(pages, 1..Cardinality(S)) = SumFunctionOnSet(value, S)
<1> DEFINE n == Cardinality(S)
           On(s, page) == (page - 1) * size < Place(S, s) /\ Place(S, s) <= page * size
           h == [s \in S |-> CHOOSE page \in 1..n : On(s, page)]
           K == {h[s] : s \in S}
           groups == [k \in K |-> SumFunctionOnSet(value, {s \in S : h[s] = k})]
<1>1. IsFiniteSet(S) /\ n \in Nat /\ S \subseteq Nat /\ IsFiniteSet(1..n)
  <2>1. IsFiniteSet(S)
    BY FS_Subset, SalesAssumption
  <2>2. n \in Nat
    BY <2>1, FS_CardinalityType
  <2> HIDE DEF n
  <2> QED  BY <2>1, <2>2, FS_Interval, SalesAssumption
<1>2. ASSUME NEW s \in S PROVE Place(S, s) \in 1..n
  <2> DEFINE U == {o \in S : o >= s}
  <2>1. U \subseteq S /\ s \in U
    BY <1>1
  <2>2. IsFiniteSet(U) /\ Cardinality(U) <= n
    <3> HIDE DEF U
    <3> QED  BY <1>1, <2>1, FS_Subset
  <2>3. Cardinality(U) \in Nat /\ Cardinality(U) # 0
    <3> HIDE DEF U
    <3> QED  BY <2>1, <2>2, FS_CardinalityType, FS_EmptySet
  <2> HIDE DEF U, n
  <2> QED  BY <1>1, <2>2, <2>3 DEF Place, U
<1>3. ASSUME NEW s \in S PROVE h[s] \in 1..n /\ On(s, h[s])
  <2>1. Place(S, s) \in Nat \ {0} /\ \A page \in 1..Place(S, s) : page \in 1..n
    <3> HIDE DEF n
    <3> QED  BY <1>1, <1>2
  <2>2. \E page \in 1..n : On(s, page)
    BY <2>1, PlaceHasPage
  <2> HIDE DEF On
  <2> QED  BY <2>2
<1>4. ASSUME NEW page \in 1..n PROVE PageOf(S, page, size) = {s \in S : h[s] = page}
  <2>1. ASSUME NEW s \in S PROVE On(s, page) <=> h[s] = page
    <3>1. ASSUME On(s, page) PROVE h[s] = page
      <4>1. Place(S, s) \in Nat /\ h[s] \in Nat /\ page \in Nat /\ On(s, h[s])
        <5> HIDE DEF n, h, On
        <5> QED  BY <1>1, <1>2, <1>3
      <4> DEFINE p == h[s]
                 x == Place(S, s)
      <4>2. (p - 1) * size < x /\ x <= p * size /\ (page - 1) * size < x /\ x <= page * size
        BY <3>1, <4>1
      <4>3. p \in Nat /\ x \in Nat /\ page \in Nat
        BY <4>1
      <4> HIDE DEF p, x
      <4>4. p = page
        BY <4>2, <4>3, PageIsOne
      <4> QED  BY <4>4 DEF p
    <3>2. ASSUME h[s] = page PROVE On(s, page)
      <4>1. On(s, h[s])
        BY <1>3
      <4> HIDE DEF On, h
      <4> QED  BY <3>2, <4>1
    <3> QED  BY <3>1, <3>2
  <2>2. PageOf(S, page, size) = {s \in S : On(s, page)}
    BY DEF PageOf, Place
  <2> HIDE DEF On, h
  <2> QED  BY <2>1, <2>2
<1>5. SumFunctionOnSet(groups, K) = SumFunctionOnSet(value, S)
  <2> HIDE DEF h, n
  <2>1. IsFiniteSet(S) /\ \A s \in S : value[s] \in Int
    BY <1>1
  <2> QED  BY <2>1, SumGroups
<1>6. K \subseteq 1..n
  <2> HIDE DEF h
  <2> QED  BY <1>3
<1>7. ASSUME NEW page \in 1..n
      PROVE  /\ pages[page] \in Int
             /\ page \in K => pages[page] = groups[page]
             /\ page \notin K => pages[page] = 0
  <2> DEFINE T == {s \in S : h[s] = page}
  <2>1. pages[page] = SumFunctionOnSet(value, T)
    BY <1>4
  <2>2. T \subseteq S
    OBVIOUS
  <2>3. pages[page] \in Int
    <3> HIDE DEF T
    <3>1. IsFiniteSet(T) /\ \A s \in T : value[s] \in Int
      BY <1>1, <2>2, FS_Subset
    <3> QED  BY <2>1, <3>1, SumInt
  <2>4. ASSUME page \notin K PROVE pages[page] = 0
    <3>1. T = {}
      BY <2>4
    <3> QED  BY <2>1, <3>1, SumEmpty
  <2>5. ASSUME page \in K PROVE pages[page] = groups[page]
    BY <2>1, <2>5
  <2> QED  BY <2>3, <2>4, <2>5
<1> HIDE DEF n, h, K, groups, On
<1>8. SumFunctionOnSet(pages, 1..n) = SumFunctionOnSet(pages, K)
  BY <1>1, <1>6, <1>7, SumZeroes
<1>9. SumFunctionOnSet(pages, K) = SumFunctionOnSet(groups, K)
  <2>1. IsFiniteSet(K) /\ \A k \in K : pages[k] = groups[k]
    BY <1>1, <1>6, <1>7, FS_Subset
  <2> QED  BY <2>1, SumSame
<1> QED  BY <1>5, <1>8, <1>9 DEF n

\* The summaries of the pages add up to what all the debts of a status are.
LEMMA SummariesAddUp ==
    ASSUME TablesInv, NEW status
    PROVE  ReceivablesOnPages(status) = ReceivablesBalance(t, ReceivablesWhere(t, status))
<1> DEFINE S == ReceivablesWhere(t, status)
           all == [s \in S |-> BalanceOf(t, s)]
           pages == [page \in 1..Cardinality(S) |-> ReceivablesSummary(t, status, page, PageSize)]
<1>1. S \subseteq Sales
  BY DEF ReceivablesWhere
<1>2. \A s \in S : all[s] \in Int
  <2>1. \A s \in S : PaidOf(t, s) \in Nat /\ TotalOf(s) \in Nat
    BY <1>1, PaidIsNat, TotalsAreNat DEF TablesInv
  <2> QED  BY <2>1 DEF BalanceOf
<1>3. PageSize \in Nat \ {0}
  BY ReadingAssumption
<1>4. ASSUME NEW page \in 1..Cardinality(S)
      PROVE  pages[page] = SumFunctionOnSet(all, PageOf(S, page, PageSize))
  <2> DEFINE T == PageOf(S, page, PageSize)
             some == [s \in T |-> BalanceOf(t, s)]
  <2>1. T \subseteq S
    BY DEF PageOf
  <2>2. pages[page] = SumFunctionOnSet(some, T)
    BY DEF ReceivablesSummary, ReceivablesBalance, SumOver, SumFunction
  <2>3. \A s \in T : some[s] = all[s]
    BY <2>1
  <2>4. IsFiniteSet(T)
    BY <1>1, <2>1, FS_Subset, SalesAssumption
  <2> HIDE DEF T, some, all, S, pages
  <2>5. SumFunctionOnSet(some, T) = SumFunctionOnSet(all, T)
    BY <2>3, <2>4, SumSame
  <2> QED  BY <2>2, <2>5 DEF T
<1>5. ReceivablesOnPages(status) = SumFunctionOnSet(pages, 1..Cardinality(S))
  BY DEF ReceivablesOnPages, SumOver, SumFunction
<1>6. ReceivablesBalance(t, S) = SumFunctionOnSet(all, S)
  BY DEF ReceivablesBalance, SumOver, SumFunction
<1> HIDE DEF S, all, pages
<1>7. SumFunctionOnSet(pages, 1..Cardinality(S)) = SumFunctionOnSet(all, S)
  BY <1>1, <1>2, <1>3, <1>4, PagesAddUp
<1> QED  BY <1>5, <1>6, <1>7 DEF S

\* What was sold has been paid or is owed.
LEMMA SoldAgrees == TablesInv => SoldIsPaidOrOwed
<1> SUFFICES ASSUME TablesInv PROVE SoldIsPaidOrOwed
  OBVIOUS
<1> DEFINE R == RealSales
           P == ReceivablesWhere(t, "PENDING")
           N == {s \in R : ~SaleData[s].customer}
           paid == [s \in R |-> PaidOf(t, s)]
           open == [s \in P |-> BalanceOf(t, s)]
           left == [s \in N |-> BalanceOf(t, s)]
           b == [s \in R |-> IF s \in P THEN open[s] ELSE 0]
           c == [s \in R |-> IF s \in N THEN left[s] ELSE 0]
           bc == [s \in R |-> b[s] + c[s]]
<1>1. /\ R \subseteq Sales /\ N \subseteq R /\ IsFiniteSet(R)
  BY FS_Subset, SalesAssumption DEF RealSales
<1>2. \A s \in Sales : s \in P <=> s \in R /\ Owed(s)
  <2>1. \A s \in Sales : s \in P <=> t.debt[s] = "PENDING"
    <3>1. Unset # "PENDING"
      BY PlacesAssumption
    <3>2. \A s \in Sales : t.debt[s] \in {"NONE", "PENDING", "PAID", "CANCELLED"}
      BY DEF TablesInv, TableSet
    <3> QED  BY <3>1, <3>2 DEF ReceivablesWhere
  <2> QED  BY <2>1 DEF TablesInv, DebtsFollow, DebtOf, RealSales
<1>3. P \subseteq R
  <2>1. P \subseteq Sales
    BY DEF ReceivablesWhere
  <2> QED  BY <1>2, <2>1
<1>4. \A s \in Sales : /\ PaidOf(t, s) \in Nat /\ TotalOf(s) \in Nat
                       /\ PaidOf(t, s) <= TotalOf(s) /\ BalanceOf(t, s) = TotalOf(s) - PaidOf(t, s)
                       /\ BalanceOf(t, s) \in Int
  <2>1. \A s \in Sales : PaidOf(t, s) \in Nat /\ TotalOf(s) \in Nat
    BY PaidIsNat, TotalsAreNat DEF TablesInv
  <2>2. \A s \in Sales : PaidOf(t, s) <= TotalOf(s)
    BY DEF TablesInv, DebtsFollow, DebtOf
  <2>3. \A s \in Sales : BalanceOf(t, s) = TotalOf(s) - PaidOf(t, s)
    BY DEF BalanceOf
  <2> QED  BY <2>1, <2>2, <2>3
<1>5. \A s \in R : /\ paid[s] \in Int /\ b[s] \in Int /\ c[s] \in Int /\ bc[s] \in Int
                   /\ bc[s] = b[s] + c[s]
                   /\ TotalOfSale[s] = paid[s] + bc[s]
  <2>1. SUFFICES ASSUME NEW s \in R
        PROVE  /\ paid[s] \in Int /\ b[s] \in Int /\ c[s] \in Int /\ bc[s] \in Int
               /\ bc[s] = b[s] + c[s]
               /\ TotalOfSale[s] = paid[s] + bc[s]
    OBVIOUS
  <2>2. s \in Sales
    BY <1>1
  <2>3. TotalOfSale[s] = TotalOf(s)
    BY DEF TotalOf
  <2>4. /\ paid[s] = PaidOf(t, s)
        /\ b[s] = IF Owed(s) THEN BalanceOf(t, s) ELSE 0
        /\ c[s] = IF ~SaleData[s].customer THEN BalanceOf(t, s) ELSE 0
        /\ bc[s] = b[s] + c[s]
    BY <1>2, <1>3, <2>2
  <2> HIDE DEF paid, b, c, bc
  <2>5. Owed(s) <=> SaleData[s].customer /\ PaidOf(t, s) < TotalOf(s)
    BY DEF Owed
  <2> QED  BY <1>4, <2>2, <2>3, <2>4, <2>5
<1>6. SumFunctionOnSet(TotalOfSale, R) = SumFunctionOnSet(paid, R) + SumFunctionOnSet(bc, R)
  <2> HIDE DEF R, paid, bc, b, c
  <2> QED  BY <1>1, <1>5, SumPlus
<1>7. SumFunctionOnSet(bc, R) = SumFunctionOnSet(b, R) + SumFunctionOnSet(c, R)
  <2> HIDE DEF R, bc, b, c
  <2> QED  BY <1>1, <1>5, SumPlus
<1>8. SumFunctionOnSet(b, R) = SumFunctionOnSet(open, P)
  <2>1. (\A s \in P : open[s] \in Int) /\ \A s \in R : b[s] = IF s \in P THEN open[s] ELSE 0
    BY <1>1, <1>3, <1>4
  <2> HIDE DEF R, P, b, open
  <2> QED  BY <1>1, <1>3, <2>1, SumPicked
<1>9. SumFunctionOnSet(c, R) = SumFunctionOnSet(left, N)
  <2>1. (\A s \in N : left[s] \in Int) /\ \A s \in R : c[s] = IF s \in N THEN left[s] ELSE 0
    BY <1>1, <1>4
  <2> HIDE DEF R, N, c, left
  <2> QED  BY <1>1, <2>1, SumPicked
<1>10. /\ SumFunctionOnSet(paid, R) \in Int /\ SumFunctionOnSet(b, R) \in Int
       /\ SumFunctionOnSet(c, R) \in Int
  <2> HIDE DEF R, paid, b, c
  <2> QED  BY <1>1, <1>5, SumInt
<1>11. BuildSalesWhere(t, NoFilter) = R
  BY ListsOfOne
<1>12. /\ Sold(NoFilter) = SumFunctionOnSet(TotalOfSale, R)
       /\ SumOver(R, LAMBDA s : PaidOf(t, s)) = SumFunctionOnSet(paid, R)
       /\ ReceivablesOnPages("PENDING") = SumFunctionOnSet(open, P)
       /\ SumOver(N, LAMBDA s : BalanceOf(t, s)) = SumFunctionOnSet(left, N)
  <2>1. Total(R) = SumFunctionOnSet(TotalOfSale, R)
    BY <1>1, TotalIs
  <2>2. ReceivablesOnPages("PENDING") = ReceivablesBalance(t, P)
    BY SummariesAddUp
  <2> QED  BY <1>11, <2>1, <2>2 DEF Sold, SumOver, SumFunction, ReceivablesBalance
<1>13. SoldIsPaidOrOwed <=> Sold(NoFilter) = SumOver(R, LAMBDA s : PaidOf(t, s))
                                             + ReceivablesOnPages("PENDING")
                                             + SumOver(N, LAMBDA s : BalanceOf(t, s))
  <2> HIDE DEF R, P
  <2> QED  BY <1>11 DEF SoldIsPaidOrOwed
<1> HIDE DEF R, P, N, paid, open, left, b, c, bc
<1> QED  BY <1>6, <1>7, <1>8, <1>9, <1>10, <1>12, <1>13

\* Groups of sales add up to all of them.
LEMMA GroupsAddUp ==
    ASSUME NEW S, S \subseteq Sales, NEW h, NEW groups, DOMAIN groups = {h[s] : s \in S},
           \A k \in DOMAIN groups : groups[k].total = Total({s \in S : h[s] = k})
    PROVE  SumOfGroups(groups) = Total(S)
<1> DEFINE K == {h[s] : s \in S}
           g == [k \in DOMAIN groups |-> groups[k].total]
           p == [k \in K |-> SumFunctionOnSet(TotalOfSale, {s \in S : h[s] = k})]
<1>1. /\ IsFiniteSet(S) /\ Total(S) = SumFunctionOnSet(TotalOfSale, S)
      /\ \A s \in S : TotalOfSale[s] \in Int
  BY TotalIs
<1>2. \A k \in K : g[k] = p[k]
  <2>1. SUFFICES ASSUME NEW k \in K PROVE g[k] = p[k]
    OBVIOUS
  <2>2. Total({s \in S : h[s] = k}) = SumFunctionOnSet(TotalOfSale, {s \in S : h[s] = k})
    BY TotalIs
  <2> QED  BY <2>2
<1>3. SumFunctionOnSet(p, K) = SumFunctionOnSet(TotalOfSale, S)
  BY <1>1, SumGroups
<1>4. IsFiniteSet(K)
  <2> DEFINE f == [s \in S |-> h[s]]
  <2>1. f \in Surjection(S, K)
    BY DEF Surjection
  <2> HIDE DEF f, K
  <2> QED  BY <1>1, <2>1, FS_Surjection
<1>5. SumFunctionOnSet(g, K) = SumFunctionOnSet(p, K)
  <2> HIDE DEF g, p, K
  <2> QED  BY <1>2, <1>4, SumSame
<1>6. SumOfGroups(groups) = SumFunctionOnSet(g, K)
  <2>1. SumOfGroups(groups) = SumFunctionOnSet(g, DOMAIN groups)
    BY DEF SumOfGroups, SumOver, SumFunction
  <2> HIDE DEF g
  <2> QED  BY <2>1
<1> HIDE DEF g, p, K
<1> QED  BY <1>1, <1>3, <1>5, <1>6

\* What some sales sold of a product, and what each of them sold, at some price.
OfProduct(S, price, x) == SumFunctionOnSet([s \in S |-> SaleData[s].items[x] * price[x]], S)
EachSold(S, price) ==
    [s \in S |-> SumFunctionOnSet([x \in Products |-> SaleData[s].items[x] * price[x]], Products)]

\* What was sold of each product adds up to what each sale sold, at any price.
LEMMA ProductsAddUp ==
    ASSUME NEW S, S \subseteq Sales, NEW price \in [Products -> Nat], NEW g,
           \A x \in Products : g[x] = OfProduct(S, price, x)
    PROVE  SumFunctionOnSet(g, {y \in Products : \E s \in S : Has(s, y)})
             = SumFunctionOnSet(EachSold(S, price), S)
<1> DEFINE e == [s \in S |-> [x \in Products |-> SaleData[s].items[x] * price[x]]]
           Y == {y \in Products : \E s \in S : Has(s, y)}
           rows == [s \in S |-> SumFunctionOnSet(e[s], Products)]
           cols == [x \in Products |-> SumFunctionOnSet([s \in S |-> e[s][x]], S)]
<1>0. IsFiniteSet(S) /\ IsFiniteSet(Products) /\ Y \subseteq Products
  BY FS_Subset, SalesAssumption, PlacesAssumption
<1>1. \A s \in S : \A x \in Products : SaleData[s].items[x] \in Nat /\ price[x] \in Nat
  BY SaleFields
<1>2. \A s \in S : \A x \in Products : e[s][x] = SaleData[s].items[x] * price[x] /\ e[s][x] \in Int
  BY <1>1
<1>3. SumFunctionOnSet(rows, S) = SumFunctionOnSet(cols, Products)
  <2>1. IsFiniteSet(S) /\ IsFiniteSet(Products) /\ \A s \in S : \A x \in Products : e[s][x] \in Int
    BY <1>0, <1>2
  <2>2. rows = SumsOfRows(e, S, Products) /\ cols = SumsOfColumns(e, S, Products)
    BY DEF SumsOfRows, SumsOfColumns
  <2> HIDE DEF e, rows, cols
  <2> QED  BY <2>1, <2>2, SumSwap
<1>4. ASSUME NEW x \in Products
      PROVE  g[x] = cols[x] /\ g[x] \in Int /\ (x \notin Y => g[x] = 0)
  <2> DEFINE f == [s \in S |-> SaleData[s].items[x] * price[x]]
             col == [s \in S |-> e[s][x]]
  <2>1. (\A s \in S : f[s] = col[s] /\ f[s] \in Int) /\ g[x] = SumFunctionOnSet(f, S)
    BY <1>2 DEF OfProduct
  <2>2. cols[x] = SumFunctionOnSet(col, S)
    OBVIOUS
  <2>3. SumFunctionOnSet(f, S) = SumFunctionOnSet(col, S) /\ SumFunctionOnSet(f, S) \in Int
    <3> HIDE DEF f, col
    <3> QED  BY <1>0, <2>1, SumSame, SumInt
  <2>4. ASSUME x \notin Y PROVE SumFunctionOnSet(f, S) = 0
    <3>1. \A s \in S : ~(SaleData[s].items[x] > 0)
      BY <2>4 DEF Has
    <3>2. \A s \in S : SaleData[s].items[x] = 0
      BY <1>1, <3>1
    <3>3. \A s \in S : f[s] = 0
      BY <1>1, <3>2
    <3> HIDE DEF f
    <3> QED  BY <1>0, <3>3, SumOfZeroes
  <2> HIDE DEF f, col, cols, Y
  <2> QED  BY <2>1, <2>2, <2>3, <2>4
<1>5. SumFunctionOnSet(g, Products) = SumFunctionOnSet(cols, Products)
  <2> HIDE DEF cols, Y
  <2> QED  BY <1>0, <1>4, SumSame
<1>6. SumFunctionOnSet(g, Products) = SumFunctionOnSet(g, Y)
  <2> HIDE DEF cols, Y
  <2>1. (\A x \in Products : g[x] \in Int) /\ \A x \in Products \ Y : g[x] = 0
    BY <1>4
  <2> QED  BY <1>0, <2>1, SumZeroes
<1> DEFINE each == EachSold(S, price)
<1>7. \A s \in S : rows[s] = each[s]
  BY DEF EachSold
<1>8. SumFunctionOnSet(rows, S) = SumFunctionOnSet(each, S)
  <2> HIDE DEF rows, each
  <2> QED  BY <1>0, <1>7, SumSame
<1>9. SumFunctionOnSet(g, Y) = SumFunctionOnSet(each, S)
  <2> HIDE DEF rows, cols, each, Y
  <2> QED  BY <1>3, <1>5, <1>6, <1>8
<1> QED  BY <1>9

\* That is a number.
LEMMA OfProductIsNat ==
    ASSUME NEW S, S \subseteq Sales, NEW price \in [Products -> Nat], NEW x \in Products
    PROVE  OfProduct(S, price, x) \in Nat
<1> DEFINE g == [s \in S |-> SaleData[s].items[x] * price[x]]
<1>1. \A s \in S : g[s] \in Nat
  <2>1. \A s \in S : SaleData[s].items[x] \in Nat /\ price[x] \in Nat
    BY SaleFields
  <2> QED  BY <2>1
<1>2. IsFiniteSet(S)
  BY FS_Subset, SalesAssumption
<1>3. OfProduct(S, price, x) = SumFunctionOnSet(g, S)
  BY DEF OfProduct
<1> HIDE DEF g
<1> QED  BY <1>1, <1>2, <1>3, SumNat

\* The report by product has some of the products that were sold, and all if it has room for more.
LEMMA FirstRows ==
    ASSUME NEW f, NEW limit \in Limits, NEW report \in SalesByProduct(t, f, limit)
    PROVE  LET S == BuildSalesWhere(t, f)
               sold == {x \in Products : \E s \in S : Has(s, x)}
           IN  /\ DOMAIN report \subseteq sold
               /\ Cardinality(DOMAIN report) < limit => DOMAIN report = sold
               /\ \A x \in DOMAIN report : report[x] = ItemsOf(S, x)
<1> DEFINE S == BuildSalesWhere(t, f)
           sold == {x \in Products : \E s \in S : Has(s, x)}
           length == IF Cardinality(sold) < limit THEN Cardinality(sold) ELSE limit
<1>1. PICK rows \in SUBSET sold : Cardinality(rows) = length /\ report = [x \in rows |-> ItemsOf(S, x)]
  BY DEF SalesByProduct
<1>2. DOMAIN report = rows /\ \A x \in rows : report[x] = ItemsOf(S, x)
  BY <1>1
<1>3. IsFiniteSet(sold)
  BY FS_Subset, PlacesAssumption
<1>4. limit \in Int
  BY PlacesAssumption
<1>5. ASSUME Cardinality(rows) < limit PROVE rows = sold
  <2>1. Cardinality(rows) = Cardinality(sold)
    BY <1>1, <1>4, <1>5
  <2> HIDE DEF sold
  <2> QED  BY <1>3, <2>1, FS_Subset
<1> QED  BY <1>2, <1>5

\* A part of a sum of natural numbers is no more than the sum.
LEMMA PartOfSum ==
    ASSUME NEW S, IsFiniteSet(S), NEW g, \A x \in S : g[x] \in Nat,
           NEW T, T \subseteq S, NEW h, \A x \in T : h[x] = g[x]
    PROVE  /\ SumFunctionOnSet(h, T) <= SumFunctionOnSet(g, S)
           /\ T = S => SumFunctionOnSet(h, T) = SumFunctionOnSet(g, S)
<1>1. IsFiniteSet(T) /\ IsFiniteSet(S \ T)
  BY FS_Subset
<1>2. SumFunctionOnSet(h, T) = SumFunctionOnSet(g, T)
  BY <1>1, SumSame
<1>3. SumFunctionOnSet(g, S) = SumFunctionOnSet(g, T) + SumFunctionOnSet(g, S \ T)
  BY SumSplit
<1>4. SumFunctionOnSet(g, T) \in Nat /\ SumFunctionOnSet(g, S \ T) \in Nat
  BY <1>1, SumNat
<1> QED  BY <1>2, <1>3, <1>4

\* The groups of the reports.
LEMMA GroupsAreSums == TablesInv => GroupsAgree
<1> SUFFICES ASSUME TablesInv PROVE GroupsAgree
  OBVIOUS
<1> DEFINE R == RealSales
<1>1. R \subseteq Sales /\ BuildSalesWhere(t, NoFilter) = R /\ Sold(NoFilter) = Total(R)
  BY ListsOfOne DEF RealSales, Sold
<1>2. SumOfGroups(SalesByUser(t, NoFilter)) = Sold(NoFilter)
  <2> DEFINE groups == SalesByUser(t, NoFilter)
             h == [s \in Sales |-> SaleData[s].user]
  <2> HIDE DEF R
  <2>1. groups = [k \in {SaleData[s].user : s \in R} |->
                    [total |-> Total({s \in R : SaleData[s].user = k}),
                     count |-> Cardinality({s \in R : SaleData[s].user = k})]]
    BY <1>1 DEF SalesByUser, GroupBy
  <2>2. \A s \in R : h[s] = SaleData[s].user
    BY <1>1
  <2>3. {SaleData[s].user : s \in R} = {h[s] : s \in R}
    BY <2>2
  <2>4. \A k : {s \in R : SaleData[s].user = k} = {s \in R : h[s] = k}
    BY <2>2
  <2>5. DOMAIN groups = {h[s] : s \in R}
    BY <2>1, <2>3
  <2>6. \A k \in DOMAIN groups : groups[k].total = Total({s \in R : h[s] = k})
    <3>1. SUFFICES ASSUME NEW k \in DOMAIN groups PROVE groups[k].total = Total({s \in R : h[s] = k})
      OBVIOUS
    <3> DEFINE A == {s \in R : SaleData[s].user = k}
               B == {s \in R : h[s] = k}
    <3>2. groups[k].total = Total(A)
      BY <2>1
    <3>3. A = B
      BY <2>4
    <3> HIDE DEF A, B
    <3>4. groups[k].total = Total(B)
      BY <3>2, <3>3
    <3> QED  BY <3>4 DEF B
  <2> HIDE DEF groups, h
  <2>7. SumOfGroups(groups) = Total(R)
    BY <1>1, <2>5, <2>6, GroupsAddUp
  <2> QED  BY <1>1, <2>7 DEF groups
<1>3. ASSUME NEW d \in Moments
      PROVE  Sold(Between(Unset, d)) + Sold(Between(d, Unset))
               = Sold(NoFilter) + Sold(Between(d, d))
  <2> DEFINE before == {s \in R : SaleData[s].moment <= d}
             after == {s \in R : SaleData[s].moment >= d}
             both == {s \in R : SaleData[s].moment >= d /\ SaleData[s].moment <= d}
  <2>1. /\ Sold(Between(Unset, d)) = Total(before)
        /\ Sold(Between(d, Unset)) = Total(after)
        /\ Sold(Between(d, d)) = Total(both)
    BY ListsOfOne DEF Sold
  <2>2. before \subseteq R /\ both \subseteq after /\ after \subseteq R /\ after \ both = R \ before
    <3>1. \A s \in R : SaleData[s].moment \in Int /\ d \in Int
      BY <1>1, SaleFields, PlacesAssumption
    <3> QED  BY <3>1
  <2>3. /\ Total(before) = SumFunctionOnSet(TotalOfSale, before)
        /\ Total(after) = SumFunctionOnSet(TotalOfSale, after)
        /\ Total(both) = SumFunctionOnSet(TotalOfSale, both)
        /\ Total(R) = SumFunctionOnSet(TotalOfSale, R)
        /\ IsFiniteSet(R) /\ IsFiniteSet(after) /\ IsFiniteSet(before) /\ IsFiniteSet(both)
        /\ \A s \in R : TotalOfSale[s] \in Int
    <3> HIDE DEF before, after, both, R
    <3>1. before \subseteq Sales /\ after \subseteq Sales /\ both \subseteq Sales
      BY <1>1, <2>2
    <3> QED  BY <1>1, <3>1, TotalIs
  <2> HIDE DEF before, after, both, R
  <2>4. /\ SumFunctionOnSet(TotalOfSale, R)
             = SumFunctionOnSet(TotalOfSale, before) + SumFunctionOnSet(TotalOfSale, R \ before)
        /\ SumFunctionOnSet(TotalOfSale, after)
             = SumFunctionOnSet(TotalOfSale, both) + SumFunctionOnSet(TotalOfSale, after \ both)
    BY <2>2, <2>3, SumSplit
  <2>5. /\ SumFunctionOnSet(TotalOfSale, before) \in Int /\ SumFunctionOnSet(TotalOfSale, both) \in Int
        /\ SumFunctionOnSet(TotalOfSale, R \ before) \in Int
    <3>1. IsFiniteSet(R \ before) /\ \A s \in R \ before : TotalOfSale[s] \in Int
      BY <2>3, FS_Subset
    <3> QED  BY <2>2, <2>3, <3>1, SumInt
  <2>6. Total(before) + Total(after) = Total(R) + Total(both)
    <3> DEFINE x == SumFunctionOnSet(TotalOfSale, before)
               y == SumFunctionOnSet(TotalOfSale, both)
               z == SumFunctionOnSet(TotalOfSale, R \ before)
    <3>1. Total(before) = x /\ Total(both) = y /\ Total(R) = x + z
      BY <2>3, <2>4
    <3>2. Total(after) = y + z
      BY <2>2, <2>3, <2>4
    <3>3. x \in Int /\ y \in Int /\ z \in Int
      BY <2>5
    <3> HIDE DEF x, y, z
    <3> QED  BY <3>1, <3>2, <3>3
  <2> QED  BY <1>1, <2>1, <2>6
<1>4. ASSUME NEW b \in Branches
      PROVE  LET rows == SalesByBranch(t, NoFilter)
             IN /\ Sold(At(b)) = IF b \in DOMAIN rows THEN rows[b].total ELSE 0
                /\ Sold(At(b)) = SumOfGroups(SalesByPos(t, At(b)))
                /\ \A limit \in Limits : \A report \in SalesByProduct(t, At(b), limit) :
                      ShowsUpTo(report, limit, SumOfGroups(report),
                                Sold(At(b)) + SumOver(BuildSalesWhere(t, At(b)), LAMBDA s : SaleData[s].discount))
  <2> DEFINE S == {s \in R : BranchOf[SaleData[s].terminal] = b}
             f == At(b)
  <2>1. S \subseteq Sales /\ BuildSalesWhere(t, f) = S /\ Sold(f) = Total(S)
    BY <1>1, ListsOfOne DEF Sold
  <2>2. Sold(f) = IF b \in DOMAIN SalesByBranch(t, NoFilter) THEN SalesByBranch(t, NoFilter)[b].total ELSE 0
    <3> DEFINE rows == SalesByBranch(t, NoFilter)
               K == {BranchOf[SaleData[s].terminal] : s \in R}
    <3>1. rows = [k \in K |->
                    [total |-> Total({s \in R : BranchOf[SaleData[s].terminal] = k}),
                     count |-> Cardinality({s \in R : BranchOf[SaleData[s].terminal] = k})]]
      <4> HIDE DEF R
      <4> QED  BY <1>1 DEF SalesByBranch, GroupBy
    <3>2. CASE b \in K
      <4>1. DOMAIN rows = K /\ rows[b].total = Total(S)
        BY <3>1, <3>2
      <4> QED  BY <2>1, <3>2, <4>1
    <3>3. CASE b \notin K
      <4>1. S = {}
        BY <3>3
      <4>2. Total(S) = 0
        <5>1. {} \subseteq Sales /\ SumFunctionOnSet(TotalOfSale, {}) = 0
          BY SumEmpty
        <5>2. Total({}) = 0
          BY <5>1, TotalIs
        <5> QED  BY <4>1, <5>2
      <4>3. DOMAIN rows = K
        BY <3>1
      <4> QED  BY <2>1, <3>3, <4>2, <4>3
    <3> QED  BY <3>2, <3>3
  <2> HIDE DEF S, f
  <2>3. Sold(f) = SumOfGroups(SalesByPos(t, f))
    <3> DEFINE groups == SalesByPos(t, f)
               h == [s \in Sales |-> SaleData[s].terminal]
    <3>1. groups = [k \in {SaleData[s].terminal : s \in S} |->
                      [total |-> Total({s \in S : SaleData[s].terminal = k}),
                       count |-> Cardinality({s \in S : SaleData[s].terminal = k})]]
      BY <2>1 DEF SalesByPos, GroupBy
    <3>2. \A s \in S : h[s] = SaleData[s].terminal
      BY <2>1
    <3>3. {SaleData[s].terminal : s \in S} = {h[s] : s \in S}
      BY <3>2
    <3>4. \A k : {s \in S : SaleData[s].terminal = k} = {s \in S : h[s] = k}
      BY <3>2
    <3>5. DOMAIN groups = {h[s] : s \in S}
      BY <3>1, <3>3
    <3>6. \A k \in DOMAIN groups : groups[k].total = Total({s \in S : h[s] = k})
      <4>1. SUFFICES ASSUME NEW k \in DOMAIN groups PROVE groups[k].total = Total({s \in S : h[s] = k})
        OBVIOUS
      <4> DEFINE A == {s \in S : SaleData[s].terminal = k}
                 B == {s \in S : h[s] = k}
      <4>2. groups[k].total = Total(A)
        BY <3>1
      <4>3. A = B
        BY <3>4
      <4> HIDE DEF A, B
      <4>4. groups[k].total = Total(B)
        BY <4>2, <4>3
      <4> QED  BY <4>4 DEF B
    <3> HIDE DEF groups, h
    <3>7. SumOfGroups(groups) = Total(S)
      BY <2>1, <3>5, <3>6, GroupsAddUp
    <3> QED  BY <2>1, <3>7 DEF groups
  <2>4. ASSUME NEW limit \in Limits, NEW report \in SalesByProduct(t, f, limit)
        PROVE  ShowsUpTo(report, limit, SumOfGroups(report),
                         Sold(f) + SumOver(BuildSalesWhere(t, f), LAMBDA s : SaleData[s].discount))
    <3> DEFINE Y == {y \in Products : \E s \in S : Has(s, y)}
               Z == DOMAIN report
               g == [x \in Products |-> OfProduct(S, Price, x)]
               totals == [x \in Z |-> report[x].total]
               each == EachSold(S, Price)
               off == [s \in S |-> SaleData[s].discount]
    <3>0. IsFiniteSet(S) /\ Total(S) = SumFunctionOnSet(TotalOfSale, S)
          /\ \A s \in S : TotalOfSale[s] = TotalOf(s)
      BY <2>1, TotalIs
    <3>1. /\ Z \subseteq Y
          /\ Cardinality(Z) < limit => Z = Y
          /\ \A x \in Z : report[x] = ItemsOf(S, x)
      BY <2>1, FirstRows
    <3>2. \A x \in Z : totals[x] = g[x]
      <4>1. SUFFICES ASSUME NEW x \in Z PROVE totals[x] = g[x]
        OBVIOUS
      <4>2. x \in Products /\ report[x].total = SumFunctionOnSet([s \in S |-> SaleData[s].items[x] * Price[x]], S)
        <5>1. x \in Products /\ report[x] = ItemsOf(S, x)
          BY <3>1
        <5>2. ItemsOf(S, x).total = SumFunctionOnSet([s \in S |-> SaleData[s].items[x] * Price[x]], S)
          BY DEF ItemsOf, SumOver, SumFunction
        <5> HIDE DEF Z
        <5> QED  BY <5>1, <5>2
      <4> QED  BY <4>2 DEF OfProduct
    <3>3. SumFunctionOnSet(g, Y) = SumFunctionOnSet(each, S)
      <4>1. Price \in [Products -> Nat]
        BY PlacesAssumption
      <4>2. \A x \in Products : g[x] = OfProduct(S, Price, x)
        OBVIOUS
      <4> HIDE DEF g
      <4> QED  BY <2>1, <4>1, <4>2, ProductsAddUp
    <3>4. SumOfGroups(report) = SumFunctionOnSet(totals, Z)
      BY DEF SumOfGroups, SumOver, SumFunction
    <3>10. IsFiniteSet(Y) /\ \A x \in Y : g[x] \in Nat
      <4>1. Price \in [Products -> Nat] /\ IsFiniteSet(Products)
        BY PlacesAssumption
      <4> QED  BY <2>1, <4>1, OfProductIsNat, FS_Subset
    <3>5. \A s \in S : each[s] = TotalOfSale[s] + off[s] /\ TotalOfSale[s] \in Int /\ off[s] \in Int
      <4>1. SUFFICES ASSUME NEW s \in S
            PROVE  each[s] = TotalOfSale[s] + off[s] /\ TotalOfSale[s] \in Int /\ off[s] \in Int
        OBVIOUS
      <4> DEFINE gross == SumFunction([x \in Products |-> SaleData[s].items[x] * Price[x]])
      <4>2. gross \in Nat /\ TotalOf(s) = gross - SaleData[s].discount /\ TotalOf(s) \in Nat
            /\ SaleData[s].discount \in Nat
        BY <2>1, TotalsAreNat, SaleFields
      <4>3. each[s] = gross
        BY DEF SumFunction, EachSold
      <4>4. off[s] = SaleData[s].discount /\ TotalOfSale[s] = TotalOf(s)
        BY <3>0
      <4> HIDE DEF gross, each, off
      <4> QED  BY <4>2, <4>3, <4>4
    <3>6. SumFunctionOnSet(each, S) = SumFunctionOnSet(TotalOfSale, S) + SumFunctionOnSet(off, S)
      <4> HIDE DEF each, off
      <4> QED  BY <3>0, <3>5, SumPlus
    <3>7. SumFunctionOnSet(TotalOfSale, S) \in Int /\ SumFunctionOnSet(off, S) \in Int
      <4> HIDE DEF off, each
      <4> QED  BY <3>0, <3>5, SumInt
    <3>8. SumOver(BuildSalesWhere(t, f), LAMBDA s : SaleData[s].discount) = SumFunctionOnSet(off, S)
      BY <2>1 DEF SumOver, SumFunction
    <3> HIDE DEF Z, g, totals, each, off, Y
    <3>9. SumFunctionOnSet(g, Y) = Total(S) + SumFunctionOnSet(off, S)
      BY <3>0, <3>3, <3>6, <3>7
    <3>11. /\ SumFunctionOnSet(totals, Z) <= SumFunctionOnSet(g, Y)
           /\ Z = Y => SumFunctionOnSet(totals, Z) = SumFunctionOnSet(g, Y)
      BY <3>1, <3>2, <3>10, PartOfSum
    <3> QED  BY <2>1, <3>1, <3>4, <3>8, <3>9, <3>11 DEF ShowsUpTo, Z
  <2> QED  BY <2>2, <2>3, <2>4 DEF f
<1> QED  BY <1>2, <1>3, <1>4 DEF GroupsAgree

\* There are finitely many types of entries.
LEMMA TypesAreFinite == IsFiniteSet(IncreaseTypes) /\ IsFiniteSet(DecreaseTypes)
<1>1. \A a, b : IsFiniteSet({a, b})
  <2>1. SUFFICES ASSUME NEW a, NEW b PROVE IsFiniteSet({a, b})
    OBVIOUS
  <2>2. IsFiniteSet({} \union {a})
    BY FS_EmptySet, OneMore
  <2>3. IsFiniteSet(({} \union {a}) \union {b})
    BY <2>2, OneMore
  <2>4. ({} \union {a}) \union {b} = {a, b}
    OBVIOUS
  <2> QED  BY <2>3, <2>4
<1>2. IsFiniteSet({"CASH_OUT", "EXPENSE"} \union {"PAYABLE_PAYMENT", "SALE_REFUND"})
  BY <1>1, FS_Union
<1>3. DecreaseTypes = {"CASH_OUT", "EXPENSE"} \union {"PAYABLE_PAYMENT", "SALE_REFUND"}
  BY DEF DecreaseTypes
<1> QED  BY <1>1, <1>2, <1>3 DEF IncreaseTypes

\* A sum of entries of a till.
LEMMA EntriesAreNat ==
    ASSUME t \in TableSet
    PROVE  \A r \in Terminals :
             /\ SumFunctionOnSet([y \in IncreaseTypes |-> t.book[r][y]], IncreaseTypes) \in Nat
             /\ SumFunctionOnSet([y \in DecreaseTypes |-> t.book[r][y]], DecreaseTypes) \in Nat
<1>1. IsFiniteSet(IncreaseTypes) /\ IsFiniteSet(DecreaseTypes)
  BY TypesAreFinite
<1>2. ASSUME NEW r \in Terminals, NEW types \in {IncreaseTypes, DecreaseTypes}
      PROVE  SumFunctionOnSet([y \in types |-> t.book[r][y]], types) \in Nat
  <2> DEFINE g == [y \in types |-> t.book[r][y]]
  <2>1. IsFiniteSet(types) /\ \A y \in types : g[y] \in Nat
    BY <1>1 DEF TableSet, Books
  <2> HIDE DEF g
  <2>2. SumFunctionOnSet(g, types) \in Nat
    BY <2>1, SumNat
  <2> QED  BY <2>2 DEF g
<1> QED  BY <1>2

\* The tills of the reports.
LEMMA TillsAreSums == TablesInv /\ ReportsTypeOK => TillsAgree
<1> SUFFICES ASSUME TablesInv, ReportsTypeOK PROVE TillsAgree
  OBVIOUS
<1>0. t \in TableSet /\ CashBooked /\ ClosedAreEmpty /\ openTills \subseteq Terminals
  BY TypesOf DEF TablesInv
<1>1. PaymentMethodsReport(t, NoFilter)["CASH"] = CashMovementReport(t, NoFilter, {"SALE_PAYMENT"}) + apart
  <2> DEFINE S == {s \in Sales : /\ NoFilter.terminal \in {Unset, SaleData[s].terminal}
                                 /\ NoFilter.branch # Unset => AtBranch(s, NoFilter.branch)}
             R == CashRegisterScope(NoFilter)
             tills == [r \in R |-> SumFunctionOnSet([y \in {"SALE_PAYMENT"} |-> t.book[r][y]], {"SALE_PAYMENT"})]
  <2>1. S = Sales /\ R = Terminals
    BY DEF NoFilter, CashRegisterScope
  <2>2. PaymentMethodsReport(t, NoFilter)["CASH"] = SumFunctionOnSet([s \in S |-> t.paid[s]["CASH"]], S)
    BY PlacesAssumption DEF PaymentMethodsReport, SumOver, SumFunction
  <2>3. CashMovementReport(t, NoFilter, {"SALE_PAYMENT"}) = SumFunctionOnSet(tills, R)
    BY DEF CashMovementReport, SumOver, SumFunction
  <2> HIDE DEF S, R
  <2>4. PaymentMethodsReport(t, NoFilter)["CASH"] = SumFunctionOnSet(CashOfSales, Sales)
    BY <2>1, <2>2 DEF CashOfSales
  <2>5. ASSUME NEW r \in Terminals PROVE tills[r] = CashOfTills[r]
    <3> DEFINE g == [y \in {"SALE_PAYMENT"} |-> t.book[r][y]]
    <3>1. g["SALE_PAYMENT"] = t.book[r]["SALE_PAYMENT"] /\ g["SALE_PAYMENT"] \in Int
      BY <1>0 DEF TableSet, Books, IncreaseTypes
    <3>2. tills[r] = SumFunctionOnSet(g, {"SALE_PAYMENT"})
      BY <2>1
    <3> HIDE DEF g, tills
    <3>3. SumFunctionOnSet(g, {"SALE_PAYMENT"}) = g["SALE_PAYMENT"]
      BY <3>1, SumSingle
    <3> QED  BY <3>1, <3>2, <3>3 DEF CashOfTills
  <2> HIDE DEF tills
  <2>6. SumFunctionOnSet(tills, Terminals) = SumFunctionOnSet(CashOfTills, Terminals)
    BY <2>5, SumSame, PlacesAssumption
  <2> QED  BY <1>0, <2>1, <2>3, <2>4, <2>6 DEF CashBooked
<1>2. ASSUME NEW f \in {NoFilter} \union {At(b) : b \in Branches}
      PROVE  IncomeReport(t, f) - ExpensesReport(t, f)
               = SumOver(DOMAIN CashReport(t, openTills, f), LAMBDA r : CashReport(t, openTills, f)[r] - Opening[r])
  <2> DEFINE R == CashRegisterScope(f)
             D == R \cap openTills
             earned == [r \in R |-> SumFunctionOnSet([y \in IncreaseTypes |-> t.book[r][y]], IncreaseTypes)]
             spent == [r \in R |-> SumFunctionOnSet([y \in DecreaseTypes |-> t.book[r][y]], DecreaseTypes)]
             report == CashReport(t, openTills, f)
             gained == [r \in DOMAIN report |-> report[r] - Opening[r]]
             inTill(r) == SumFunctionOnSet([y \in IncreaseTypes |-> t.book[r][y]], IncreaseTypes)
             outTill(r) == SumFunctionOnSet([y \in DecreaseTypes |-> t.book[r][y]], DecreaseTypes)
  <2>1. f.terminal = Unset /\ (f.branch = Unset \/ f.branch \in Branches)
    BY DEF NoFilter, At
  <2>2. /\ R \subseteq Terminals
        /\ D = {r \in openTills : IF f.branch # Unset THEN BranchOf[r] = f.branch
                                 ELSE f.terminal \in {Unset, r}}
    BY <1>0, <2>1 DEF CashRegisterScope
  <2>3. report = [r \in D |-> Opening[r] + inTill(r) - outTill(r)]
    BY <2>2 DEF CashReport, SumOver, SumFunction
  <2>4. IncomeReport(t, f) = SumFunctionOnSet(earned, R) /\ ExpensesReport(t, f) = SumFunctionOnSet(spent, R)
    BY DEF IncomeReport, ExpensesReport, CashMovementReport, SumOver, SumFunction
  <2>5. SumOver(DOMAIN report, LAMBDA r : report[r] - Opening[r]) = SumFunctionOnSet(gained, DOMAIN report)
    BY DEF SumOver, SumFunction
  <2>6. \A r \in R : /\ earned[r] = inTill(r) /\ spent[r] = outTill(r) /\ inTill(r) \in Nat /\ outTill(r) \in Nat
                     /\ Opening[r] \in Nat
    BY <1>0, <2>2, EntriesAreNat, PlacesAssumption
  <2>7. DOMAIN report = D /\ \A r \in D : gained[r] = (Opening[r] + inTill(r) - outTill(r)) - Opening[r]
    <3>1. DOMAIN report = D /\ \A r \in D : report[r] = Opening[r] + inTill(r) - outTill(r)
      BY <2>3
    <3>2. \A r \in DOMAIN report : gained[r] = report[r] - Opening[r]
      <4> HIDE DEF report
      <4> QED  OBVIOUS
    <3>3. ASSUME NEW r \in D PROVE gained[r] = (Opening[r] + inTill(r) - outTill(r)) - Opening[r]
      <4>1. r \in DOMAIN report /\ report[r] = Opening[r] + inTill(r) - outTill(r)
        BY <3>1
      <4>2. gained[r] = report[r] - Opening[r]
        BY <3>2, <4>1
      <4> HIDE DEF D, inTill, outTill, report, gained
      <4> QED  BY <4>1, <4>2
    <3> QED  BY <3>1, <3>3
  <2>8. IsFiniteSet(R) /\ IsFiniteSet(D) /\ D \subseteq R
    BY <2>2, FS_Subset, PlacesAssumption
  <2>e. \A r \in R \ D : earned[r] = 0 /\ spent[r] = 0
    <3>1. SUFFICES ASSUME NEW r \in R \ D PROVE inTill(r) = 0 /\ outTill(r) = 0
      BY <2>6
    <3> DEFINE a == [y \in IncreaseTypes |-> t.book[r][y]]
               b == [y \in DecreaseTypes |-> t.book[r][y]]
    <3>2. (\A y \in IncreaseTypes : a[y] = 0) /\ \A y \in DecreaseTypes : b[y] = 0
      BY <1>0, <2>2 DEF ClosedAreEmpty
    <3>3. IsFiniteSet(IncreaseTypes) /\ IsFiniteSet(DecreaseTypes)
      BY TypesAreFinite
    <3> HIDE DEF a, b
    <3>4. SumFunctionOnSet(a, IncreaseTypes) = 0 /\ SumFunctionOnSet(b, DecreaseTypes) = 0
      BY <3>2, <3>3, SumOfZeroes
    <3> QED  BY <3>4 DEF a, b
  <2> HIDE DEF R, D, inTill, outTill, report, gained, earned, spent
  <2>9. /\ \A r \in D : spent[r] \in Int /\ gained[r] \in Int /\ earned[r] = spent[r] + gained[r]
        /\ \A r \in R : spent[r] \in Int /\ earned[r] \in Int
    BY <2>6, <2>7, <2>8
  <2>10. SumFunctionOnSet(earned, D) = SumFunctionOnSet(spent, D) + SumFunctionOnSet(gained, D)
    BY <2>8, <2>9, SumPlus
  <2>11. SumFunctionOnSet(spent, D) \in Int /\ SumFunctionOnSet(gained, D) \in Int
    BY <2>8, <2>9, SumInt
  <2>z. /\ SumFunctionOnSet(earned, R) = SumFunctionOnSet(earned, D)
        /\ SumFunctionOnSet(spent, R) = SumFunctionOnSet(spent, D)
    BY <2>8, <2>9, <2>e, SumZeroes
  <2>12. IncomeReport(t, f) - ExpensesReport(t, f) = SumFunctionOnSet(gained, D)
    BY <2>4, <2>10, <2>11, <2>z
  <2> QED  BY <2>5, <2>7, <2>12 DEF report
<1> QED  BY <1>1, <1>2 DEF TillsAgree

\* The stock of the reports.
LEMMA ReportOfStock ==
    ASSUME NEW moment
    PROVE  InventoryReport(moment, NoFilter) = ValueOf(moment.stock)
<1> DEFINE W == {w \in Warehouses : NoFilter.warehouse \in {Unset, w} /\ NoFilter.branch \in {Unset, BranchOf[w]}}
           X == {x \in Products : /\ NoFilter.product \in {Unset, x}
                                  /\ NoFilter.category \in {Unset, CategoryOf[x]}}
<1>1. W = Warehouses /\ X = Products
  BY DEF NoFilter
<1>2. InventoryReport(moment, NoFilter)
        = SumFunctionOnSet([w \in W |-> SumFunctionOnSet([x \in X |-> moment.stock[w][x] * Cost[x]], X)], W)
  BY DEF InventoryReport, SumOver, SumFunction
<1> HIDE DEF W, X
<1> QED  BY <1>1, <1>2 DEF ValueOf, Costs, CostIn, CostsIn

\* Stock and goods sold, at cost.
LEMMA StockIsKept == TablesInv => StockValueAgrees
<1> SUFFICES ASSUME TablesInv PROVE StockValueAgrees
  OBVIOUS
<1> DEFINE R == RealSales
           Y == {y \in Products : \E s \in R : Has(s, y)}
           g == [x \in Products |-> OfProduct(R, Cost, x)]
<1>0. R \subseteq Sales /\ BuildSalesWhere(t, NoFilter) = R /\ IsFiniteSet(R) /\ IsFiniteSet(Sales)
      /\ IsFiniteSet(Y) /\ Y \subseteq Products
  BY ListsOfOne, FS_Subset, SalesAssumption, PlacesAssumption DEF RealSales
<1>2. /\ Cost \in [Products -> Nat] /\ \A x \in Products : g[x] = OfProduct(R, Cost, x)
      /\ \A x \in Y : g[x] \in Nat
  BY <1>0, OfProductIsNat, PlacesAssumption
<1>3. ASSUME NEW x \in Y PROVE ItemsOf(R, x).quantity * Cost[x] = g[x]
  <2> DEFINE a == [s \in R |-> SaleData[s].items[x]]
             b == [s \in R |-> SaleData[s].items[x] * Cost[x]]
             quantity == ItemsOf(R, x).quantity
  <2>1. x \in Products /\ Cost[x] \in Int
    BY PlacesAssumption
  <2>2. \A s \in R : a[s] \in Int /\ b[s] = Cost[x] * a[s]
    <3>1. \A s \in R : SaleData[s].items[x] \in Nat
      BY <1>0, <2>1, SaleFields
    <3>2. \A s \in R : a[s] = SaleData[s].items[x] /\ b[s] = SaleData[s].items[x] * Cost[x]
      OBVIOUS
    <3> HIDE DEF a, b, R
    <3> QED  BY <2>1, <3>1, <3>2
  <2>3. g[x] = SumFunctionOnSet(b, R) /\ quantity = SumFunctionOnSet(a, R)
    BY <2>1 DEF OfProduct, ItemsOf, SumOver, SumFunction
  <2> HIDE DEF a, b, R, g, quantity
  <2>5. SumFunctionOnSet(b, R) = Cost[x] * SumFunctionOnSet(a, R)
    <3>1. IsFiniteSet(R)
      BY <1>0
    <3> DEFINE c == Cost[x]
    <3>2. c \in Int /\ \A s \in R : a[s] \in Int /\ b[s] = c * a[s]
      BY <2>1, <2>2
    <3> HIDE DEF c
    <3>3. SumFunctionOnSet(b, R) = c * SumFunctionOnSet(a, R)
      BY <3>1, <3>2, SumFactor
    <3> QED  BY <3>3 DEF c
  <2>6. SumFunctionOnSet(a, R) \in Int
    BY <1>0, <2>2, SumInt
  <2>7. quantity * Cost[x] = g[x]
    BY <2>1, <2>3, <2>5, <2>6
  <2> QED  BY <2>7 DEF quantity
<1>4. SumFunctionOnSet(g, Y) = SumFunctionOnSet(EachSold(R, Cost), R)
  <2> HIDE DEF g, R
  <2> QED  BY <1>0, <1>2, ProductsAddUp
<1>5. SumFunctionOnSet(GoodsSold, Sales) = SumFunctionOnSet(EachSold(R, Cost), R)
  <2>1. \A s \in R : EachSold(R, Cost)[s] = CostOfSale(s) /\ CostOfSale(s) \in Int
    BY <1>0, CostsAreNat DEF EachSold, CostOfSale, CostsOfSale, TablesInv, TableSet
  <2>2. \A s \in Sales : GoodsSold[s] = IF s \in R THEN EachSold(R, Cost)[s] ELSE 0
    BY <2>1 DEF GoodsSold, RealSales
  <2> HIDE DEF R
  <2> QED  BY <1>0, <2>1, <2>2, SumPicked
<1>8. InventoryReport(t, NoFilter) = ValueOf(t.stock) /\ InventoryReport(Tables0, NoFilter) = ValueOf(Stock0)
  BY ReportOfStock DEF Tables0
<1>9. GoodsKept
  BY DEF TablesInv
<1>10. ValueOf(t.stock) \in Nat /\ SumFunctionOnSet(GoodsSold, Sales) = SumFunctionOnSet(g, Y)
       /\ SumFunctionOnSet(g, Y) \in Nat
  <2>1. t.stock \in [Warehouses -> [Products -> Nat]]
    BY DEF TablesInv, TableSet
  <2> HIDE DEF R, Y, g
  <2> QED  BY <1>0, <1>2, <1>4, <1>5, <2>1, CostsAreNat, SumNat
<1> DEFINE gone == InventoryReport(Tables0, NoFilter) - InventoryReport(t, NoFilter)
<1>11. gone = SumFunctionOnSet(g, Y)
  <2> HIDE DEF g, Y, R
  <2> QED  BY <1>8, <1>9, <1>10 DEF GoodsKept
<1>12. ASSUME NEW limit \in Limits, NEW report \in SalesByProduct(t, NoFilter, limit)
       PROVE  ShowsUpTo(report, limit, SumOver(DOMAIN report, LAMBDA x : report[x].quantity * Cost[x]), gone)
  <2> DEFINE Z == DOMAIN report
             value == [x \in Z |-> report[x].quantity * Cost[x]]
  <2>1. /\ Z \subseteq Y
        /\ Cardinality(Z) < limit => Z = Y
        /\ \A x \in Z : report[x] = ItemsOf(R, x)
    BY <1>0, FirstRows
  <2>2. \A x \in Z : value[x] = g[x]
    <3> HIDE DEF g, R, Y
    <3> QED  BY <1>3, <2>1
  <2>3. SumOver(DOMAIN report, LAMBDA x : report[x].quantity * Cost[x]) = SumFunctionOnSet(value, Z)
    BY DEF SumOver, SumFunction
  <2> HIDE DEF Z, value, g, Y, R, gone
  <2>4. /\ SumFunctionOnSet(value, Z) <= SumFunctionOnSet(g, Y)
        /\ Z = Y => SumFunctionOnSet(value, Z) = SumFunctionOnSet(g, Y)
    BY <1>0, <1>2, <2>1, <2>2, PartOfSum
  <2> QED  BY <1>11, <2>1, <2>3, <2>4 DEF ShowsUpTo, Z
<1> QED  BY <1>12 DEF StockValueAgrees

\* The tables keep the debts, the cash of the sales and the value of the goods.
THEOREM TablesInvariance == ReportsSpec => []TablesInv
<1>1. ReportsInit => TablesInv
  BY TablesInit
<1>2. ReadInv /\ TablesInv /\ [ReportsNext]_reportsVars => TablesInv'
  BY TablesNext DEF ReadInv
<1> QED  BY <1>1, <1>2, ReadingInvariance, PTL DEF ReportsSpec

\* The reports of one moment agree.
THEOREM ReportsSayTheSame == ReportsSpec => []ReportsAgree
<1>1. ReadInv /\ TablesInv => ReportsAgree
  BY SoldAgrees, GroupsAreSums, TillsAreSums, StockIsKept DEF ReadInv, ReportsAgree
<1> QED  BY <1>1, ReadingInvariance, TablesInvariance, PTL
=============================================================================
