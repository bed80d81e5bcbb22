----------------------------- MODULE SalesProofs -----------------------------
(***************************************************************************)
(* The safety of Sales, for any number of sales, products, tills, keys,    *)
(* requests and transactions, any totals and any quantities.               *)
(*                                                                         *)
(* A transaction writes only when it commits, so what has to be known is   *)
(* what it has gathered and why that is still true at its commit: because  *)
(* nobody else writes the rows it holds.  Fit says so of one transaction,  *)
(* Apart of two of them, TablesRight of the tables.                        *)
(***************************************************************************)
EXTENDS Sales, FiniteTheorems

Gathered == [key : Keys \cup Sales, reg : Registers,
             type : {"SALE_PAYMENT", "SALE_REFUND"}, amount : Nat]

Tx == [pc : Steps, req : Requests \cup {None}, i : Nat,
       held : SUBSET (Sales \cup Products \cup Registers),
       pays : SUBSET Row, moves : SUBSET Gathered,
       till : Registers \cup {None}, ans : Answers]

Movement == [key : Keys \cup ManualKeys \cup Sales, reg : Registers,
             type : IncreaseTypes \cup DecreaseTypes, amount : Nat]

\* Past the lock of its sale, and not ended.
Working(t) == t.pc \notin {"idle", "lock", "resolve", "done"}

\* The row of payments for the n-th payment of a request.
RowFor(q, n) == [key |-> q.pays[n].key, sale |-> q.sale, method |-> q.pays[n].method,
                 amount |-> q.pays[n].amount]

-----------------------------------------------------------------------------
(* What is true of one transaction.                                        *)

\* Which stages an operation goes through, and that nothing is kept after it.
Staged(t) ==
    /\ t.pc # "idle" => t.req # None
    /\ Working(t) => t.req.sale \in t.held /\ t.req.op # "cancel"
    /\ ~Working(t) => t.held = {} /\ t.pays = {} /\ t.moves = {} /\ t.i = 1
    /\ t.pc = "stock" => t.req.op # "pay" /\ t.pays = {} /\ t.moves = {}
    /\ t.pc \in {"pay", "insert"} => t.req.op # "return"
    /\ t.pc = "refund" => t.req.op = "return"
    /\ t.pc = "resolve" => t.req.op \in {"confirm", "pay"}
    /\ Working(t) /\ t.req.op = "return" => t.pays = {}
    /\ IsFiniteSet(t.pays) /\ IsFiniteSet(t.moves)
    /\ t.i >= 1

\* Its sale is still as the operation found it.
FoundAs(t) ==
    Working(t) => /\ t.req.op = "confirm" => sale[t.req.sale] = "DRAFT"
                  /\ t.req.op \in {"pay", "return"} => sale[t.req.sale] \in OpenForPayment

\* The rows it has inserted: of its sale, under keys no payment has, within the total.
Inserted(t) ==
    /\ \A y \in t.pays : y.sale = t.req.sale /\ WithKey(y.key, payments) = {}
    /\ Working(t) /\ t.req.op # "return" =>
          Paid(t.req.sale) + SumOf(t.pays) <= Total[t.req.sale]

\* The payment it is at.
AtPayment(t) ==
    /\ t.pc = "insert" =>
          /\ t.i \in 1..Len(t.req.pays)
          /\ WithKey(t.req.pays[t.i].key, t.pays) = {}
          /\ Paid(t.req.sale) + SumOf(t.pays) + t.req.pays[t.i].amount <= Total[t.req.sale]
    /\ t.pc \in {"find", "till"} /\ t.req.op # "return" =>
          /\ t.i \in 1..Len(t.req.pays)
          /\ t.req.pays[t.i].method = "CASH"
          /\ RowFor(t.req, t.i) \in t.pays

\* A single payment is inserted once, and is new to its sale.
OnePayment(t) ==
    Working(t) /\ t.req.op = "pay" =>
        /\ t.pays = IF t.pc = "insert" \/ (t.pc = "pay" /\ t.i = 1) THEN {}
                    ELSE {RowFor(t.req, 1)}
        /\ WithKey(t.req.pays[1].key, PaymentsOf(t.req.sale)) = {}

\* The goods it takes are there and are held by it; so are those it brings back.
Goods(t) ==
    /\ Working(t) /\ t.req.op # "pay" /\ t.pc # "stock" =>
          \A x \in Products : Items[t.req.sale][x] > 0 => x \in t.held
    /\ Working(t) /\ t.req.op = "confirm" =>
          \A x \in Products \cap t.held : EnoughStock(t.req.sale, x)

\* Cash goes through a till of the terminal, for a payment that it has inserted
\* or for all the cash of the sale.
Cash(t) ==
    /\ t.pc = "till" => /\ t.till \in Registers
                        /\ register[t.till].status # "NONE"
                        /\ register[t.till].terminal = TerminalFor(t.req)
    /\ \A m \in t.moves : register[m.reg].status # "NONE"
    /\ Working(t) /\ t.req.op # "return" =>
          \A m \in t.moves :
              /\ m.type = "SALE_PAYMENT" /\ m.key \in Keys
              /\ register[m.reg].terminal = TerminalOf[t.req.sale]
              /\ \E y \in t.pays : y.key = m.key /\ y.method = "CASH" /\ y.amount = m.amount
    /\ Working(t) /\ t.req.op = "return" =>
          \A m \in t.moves : /\ m.type = "SALE_REFUND" /\ m.key = t.req.sale
                             /\ m.amount = CashToRefund(t.req.sale)

\* The keys of payments, of manual movements and of refunds are no common ones.
KeysApart == Keys \cap (ManualKeys \cup Sales) = {}

\* What it answers, or is about to: a conflict is one with another sale.
Answered(t) ==
    KeysApart =>
        /\ t.pc = "done" /\ t.ans = "ok" =>
              /\ t.req.op = "pay" => RowFor(t.req, 1) \in payments
              /\ t.req.op = "confirm" => sale[t.req.sale] \notin {"NONE", "DRAFT"}
        /\ t.pc = "resolve" =>
              \E n \in 1..Len(t.req.pays) : PaidElsewhere(t.req.pays[n].key, t.req.sale)

Fit(t) == /\ Staged(t) /\ FoundAs(t) /\ Inserted(t) /\ AtPayment(t) /\ OnePayment(t)
          /\ Goods(t) /\ Cash(t) /\ Answered(t)

\* What is true of two transactions: no lock and no key of theirs is the same.
Apart(t, u) == /\ t.held \cap u.held = {}
               /\ \A y \in t.pays, z \in u.pays : y.key # z.key

-----------------------------------------------------------------------------
(* What is true of the tables.                                             *)

Typed ==
    /\ sale \in [Sales -> Statuses]
    /\ payments \subseteq Row
    /\ refunds \subseteq [id : Nat, sale : Sales, amount : Nat]
    /\ receivable \in [Sales -> {"NONE", "PENDING", "PAID", "CANCELLED"}]
    /\ stock \in [Products -> Nat]
    /\ register \in [Registers -> [status : {"NONE", "OPEN", "CLOSED"},
                                   terminal : Terminals \cup {None}, expected : Int]]
    /\ movements \subseteq Movement

Finite == /\ IsFiniteSet(payments) /\ IsFiniteSet(refunds) /\ IsFiniteSet(movements)
          /\ IsFiniteSet(SoldSales)

\* The status of a sale, its payments and its receivable.
Tallies ==
    \A s \in Sales :
        /\ sale[s] \in {"NONE", "DRAFT", "CANCELLED"} =>
              PaymentsOf(s) = {} /\ receivable[s] = "NONE"
        /\ sale[s] \in OpenForPayment => sale[s] = StatusFor(s, Paid(s))
        /\ Paid(s) <= Total[s]
        /\ sale[s] \in {"CONFIRMED", "PARTIALLY_PAID"} => receivable[s] \in {"NONE", "PENDING"}

\* The movements of cash, each under the keys of its type.
Trail ==
    \A m \in movements :
        /\ register[m.reg].status # "NONE"
        /\ \/ m.type \in {"CASH_IN", "CASH_OUT"} /\ m.key \in ManualKeys
           \/ m.type = "SALE_PAYMENT" /\ m.key \in Keys
           \/ m.type = "SALE_REFUND" /\ m.key \in Sales

TablesRight == /\ Typed /\ Finite /\ Tallies /\ Trail /\ CashTrailMatches
               /\ RefundedOnce /\ RefundedInFull /\ DebtTells /\ StockConserved

Transactions == /\ tx \in [Procs -> Tx]
                /\ \A p \in Procs : Fit(tx[p])
                /\ \A p, q \in Procs : p # q => Apart(tx[p], tx[q])

IInv == TablesRight /\ Transactions

-----------------------------------------------------------------------------
(* Facts about the data.                                                   *)

LEMMA SumOfEmpty == SumOf({}) = 0
<1> DEFINE g == [row \in {} |-> row.amount]
<1>1. DOMAIN g = {}
  OBVIOUS
<1> HIDE DEF g
<1>2. SumFunction(g) = 0
  BY <1>1, SumEmpty DEF SumFunction
<1> QED  BY <1>2 DEF SumOf, g

\* Rows with amounts add up to a number.
LEMMA SumOfNat ==
    ASSUME NEW S, IsFiniteSet(S), \A y \in S : y.amount \in Nat
    PROVE  SumOf(S) \in Nat
<1> DEFINE g == [row \in S |-> row.amount]
<1>1. DOMAIN g = S /\ \A y \in S : g[y] \in Nat
  OBVIOUS
<1> HIDE DEF g
<1>2. SumFunction(g) \in Nat
  BY <1>1, SumNat DEF SumFunction
<1> QED  BY <1>2 DEF SumOf, g

\* One more row adds its amount.
LEMMA SumOfAdd ==
    ASSUME NEW S, IsFiniteSet(S), NEW y, y \notin S, \A z \in S \cup {y} : z.amount \in Nat
    PROVE  SumOf(S \cup {y}) = SumOf(S) + y.amount
<1> DEFINE T == S \cup {y}
           g == [row \in S |-> row.amount]
           h == [row \in T |-> row.amount]
<1>1. /\ DOMAIN g = S /\ DOMAIN h = T
      /\ \A z \in S : g[z] = h[z] /\ h[z] \in Int
      /\ \A z \in T : h[z] \in Int
      /\ h[y] = y.amount
  OBVIOUS
<1> HIDE DEF g, h
<1>2. SumFunctionOnSet(h, T) = h[y] + SumFunctionOnSet(h, S)
  BY <1>1, SumAdd
<1>3. SumFunctionOnSet(h, S) = SumFunctionOnSet(g, S)
  BY <1>1, SumSame
<1>4. SumFunctionOnSet(h, S) \in Int
  BY <1>1, SumInt
<1>5. SumFunction(h) = SumFunction(g) + y.amount /\ SumFunction(h) \in Int
  BY <1>1, <1>2, <1>3, <1>4 DEF SumFunction
<1> QED  BY <1>5 DEF SumOf, g, h

LEMMA SumOfOne ==
    ASSUME NEW y, y.amount \in Nat
    PROVE  SumOf({y}) = y.amount
<1>1. IsFiniteSet({}) /\ y \notin {} /\ {y} = {} \cup {y}
  BY FS_EmptySet
<1>2. SumOf({} \cup {y}) = SumOf({}) + y.amount
  BY <1>1, SumOfAdd
<1> QED  BY <1>1, <1>2, SumOfEmpty

\* What a request is made of.
LEMMA RequestFields ==
    ASSUME NEW q \in Requests
    PROVE  /\ q # None
           /\ q.op \in {"confirm", "pay", "cancel", "return"} /\ q.sale \in Sales
           /\ q.pays \in Seq(Payment) /\ Len(q.pays) \in Nat
           /\ q.op = "pay" => Len(q.pays) = 1
           /\ \A n \in 1..Len(q.pays) :
                 /\ q.pays[n] \in Payment /\ RowFor(q, n) \in Row
                 /\ q.pays[n].amount \in Nat \ {0} /\ q.pays[n].key \in Keys
                 /\ RowFor(q, n).key = q.pays[n].key /\ RowFor(q, n).sale = q.sale
                 /\ RowFor(q, n).amount = q.pays[n].amount
                 /\ RowFor(q, n).method = q.pays[n].method
<1>1. q \in Request /\ q # None /\ (q.op = "pay" => Len(q.pays) = 1)
  BY RequestsAssumption
<1>2. q.pays \in Seq(Payment) /\ Len(q.pays) \in Nat
  BY <1>1 DEF Request
<1>3. \A n \in 1..Len(q.pays) : q.pays[n] \in Payment
  BY <1>2
<1>4. \A n \in 1..Len(q.pays) :
         /\ RowFor(q, n) \in Row
         /\ q.pays[n].amount \in Nat \ {0} /\ q.pays[n].key \in Keys
         /\ RowFor(q, n).key = q.pays[n].key /\ RowFor(q, n).sale = q.sale
         /\ RowFor(q, n).amount = q.pays[n].amount
         /\ RowFor(q, n).method = q.pays[n].method
  BY <1>1, <1>3 DEF Request, Payment, RowFor, Row
<1> QED  BY <1>1, <1>2, <1>3, <1>4 DEF Request

\* What a sale has been paid, in all and in cash.
LEMMA PaidFields ==
    ASSUME Typed, Finite, NEW s
    PROVE  /\ IsFiniteSet(PaymentsOf(s)) /\ PaymentsOf(s) \subseteq Row
           /\ Paid(s) \in Nat /\ CashToRefund(s) \in Nat
<1>1. /\ PaymentsOf(s) \subseteq payments /\ CashOf(PaymentsOf(s)) \subseteq payments
  BY DEF PaymentsOf, CashOf
<1>2. IsFiniteSet(PaymentsOf(s)) /\ IsFiniteSet(CashOf(PaymentsOf(s)))
  BY <1>1, FS_Subset DEF Finite
<1>3. \A y \in payments : y.amount \in Nat
  BY DEF Typed, Row
<1>4. SumOf(PaymentsOf(s)) \in Nat
  BY <1>1, <1>2, <1>3, SumOfNat
<1>5. SumOf(CashOf(PaymentsOf(s))) \in Nat
  BY <1>1, <1>2, <1>3, SumOfNat
<1> QED  BY <1>1, <1>2, <1>4, <1>5 DEF Typed, Paid, CashToRefund

\* The empty transaction.
LEMMA IdleFields ==
    /\ IdleTx \in Tx
    /\ IdleTx.pc = "idle" /\ IdleTx.req = None /\ IdleTx.i = 1 /\ IdleTx.held = {}
    /\ IdleTx.pays = {} /\ IdleTx.moves = {} /\ IdleTx.till = None /\ IdleTx.ans = "none"
BY DEF IdleTx, Tx, Steps, Answers

\* A transaction at work.
LEMMA AtWork ==
    ASSUME IInv, NEW p \in Procs, Working(tx[p])
    PROVE  /\ tx[p] \in Tx /\ Fit(tx[p])
           /\ tx[p].req \in Requests /\ tx[p].req.sale \in Sales
           /\ tx[p].req.op \in {"confirm", "pay", "return"}
           /\ tx[p].i \in Nat \ {0}
           /\ tx[p].pays \subseteq Row /\ SumOf(tx[p].pays) \in Nat
           /\ Paid(tx[p].req.sale) \in Nat /\ Total[tx[p].req.sale] \in Nat
<1>1. tx[p] \in Tx /\ Fit(tx[p])
  BY DEF IInv, Transactions
<1>2. Staged(tx[p])
  BY <1>1 DEF Fit
<1>3. tx[p].req \in Requests
  BY <1>1, <1>2 DEF Tx, Staged, Working
<1>4. tx[p].req.sale \in Sales /\ tx[p].req.op \in {"confirm", "pay", "return"}
  BY <1>2, <1>3, RequestFields DEF Staged
<1>5. tx[p].pays \subseteq Row /\ IsFiniteSet(tx[p].pays) /\ tx[p].i \in Nat \ {0}
  BY <1>1, <1>2 DEF Tx, Staged
<1>6. SumOf(tx[p].pays) \in Nat
  BY <1>5, SumOfNat DEF Row
<1> QED  BY <1>1, <1>3, <1>4, <1>5, <1>6, PaidFields, TotalAssumption DEF IInv, TablesRight

\* Debts and refunds are what sales and payments make them.
LEMMA DebtsStay ==
    ASSUME IInv, UNCHANGED <<sale, payments, refunds, receivable>>
    PROVE  DebtTells' /\ RefundedInFull'
<1>1. \A z : Paid(z)' = Paid(z)
  BY DEF Paid, PaymentsOf
<1>2. DebtTells'
  BY <1>1 DEF IInv, TablesRight, DebtTells
<1>3. RefundedInFull'
  BY <1>1 DEF IInv, TablesRight, RefundedInFull
<1> QED  BY <1>2, <1>3

-----------------------------------------------------------------------------
(* Steps that change one transaction and no table.                         *)

\* A transaction that is as it should be after the step leaves all as it should be.
LEMMA Frame ==
    ASSUME IInv, NEW p \in Procs, NEW new \in Tx, tx' = [tx EXCEPT ![p] = new],
           UNCHANGED tables, Fit(new), \A q \in Procs \ {p} : Apart(new, tx[q])
    PROVE  IInv'
<1>1. /\ tx' \in [Procs -> Tx]
      /\ tx'[p] = new
      /\ \A q \in Procs : q # p => tx'[q] = tx[q]
  BY DEF IInv, Transactions
<1>2. /\ sale' = sale /\ payments' = payments /\ refunds' = refunds /\ receivable' = receivable
      /\ stock' = stock /\ register' = register /\ movements' = movements
  BY DEF tables
<1>3. TablesRight'
  <2>1. Typed' /\ Finite'
    BY <1>2 DEF IInv, TablesRight, Typed, Finite, SoldSales
  <2>2. Tallies'
    BY <1>2 DEF IInv, TablesRight, Tallies, PaymentsOf, Paid
  <2>3. Trail' /\ RefundedOnce'
    BY <1>2 DEF IInv, TablesRight, Trail, RefundedOnce
  <2>4. CashTrailMatches'
    BY <1>2 DEF IInv, TablesRight, CashTrailMatches
  <2>5. StockConserved'
    BY <1>2 DEF IInv, TablesRight, StockConserved, SoldSales
  <2> QED  BY <1>2, <2>1, <2>2, <2>3, <2>4, <2>5, DebtsStay DEF TablesRight
<1>4. ASSUME NEW q \in Procs
      PROVE  Fit(tx[q])'
  <2>1. Fit(tx'[q])
    BY <1>1 DEF IInv, Transactions
  <2>2. Staged(tx[q])' /\ FoundAs(tx[q])'
    BY <1>2, <2>1 DEF Fit, Staged, FoundAs, Working
  <2>3. Inserted(tx[q])' /\ AtPayment(tx[q])' /\ OnePayment(tx[q])'
    BY <1>2, <2>1 DEF Fit, Inserted, AtPayment, OnePayment, Paid, PaymentsOf, WithKey, Working, RowFor
  <2>4. Goods(tx[q])' /\ Cash(tx[q])'
    BY <1>2, <2>1 DEF Fit, Goods, Cash, EnoughStock, CashToRefund, PaymentsOf, CashOf, Working
  <2>5. Answered(tx[q])'
    BY <1>2, <2>1 DEF Fit, Answered, PaidElsewhere, WithKey, RowFor
  <2> QED  BY <2>2, <2>3, <2>4, <2>5 DEF Fit
<1>5. ASSUME NEW q \in Procs, NEW r \in Procs, q # r
      PROVE  Apart(tx[q], tx[r])'
  <2>1. Apart(tx[q], tx[r])
    BY <1>5 DEF IInv, Transactions
  <2> QED  BY <1>1, <1>5, <2>1 DEF Apart
<1> QED  BY <1>1, <1>3, <1>4, <1>5 DEF IInv, Transactions

LEMMA RequestKnown ==
    ASSUME IInv, NEW p \in Procs
    PROVE  /\ tx[p] \in Tx /\ Fit(tx[p]) /\ Staged(tx[p])
           /\ tx[p].pc # "idle" => tx[p].req \in Requests
BY DEF IInv, Transactions, Fit, Staged, Tx

\* The end of a transaction, whatever it comes to.
LEMMA EndStep ==
    ASSUME IInv, NEW p \in Procs, NEW new \in Tx, tx' = [tx EXCEPT ![p] = new],
           UNCHANGED tables, ~Working(new),
           new.held = {}, new.pays = {}, new.moves = {}, new.i = 1,
           new.pc # "idle" => new.req # None,
           new.pc = "resolve" => new.req.op \in {"confirm", "pay"}, Answered(new)
    PROVE  IInv'
<1>1. Staged(new)
  BY FS_EmptySet DEF Staged, Working
<1>2. FoundAs(new) /\ Inserted(new) /\ AtPayment(new) /\ OnePayment(new) /\ Goods(new) /\ Cash(new)
  BY DEF FoundAs, Inserted, AtPayment, OnePayment, Goods, Cash, Working
<1>3. \A q \in Procs \ {p} : Apart(new, tx[q])
  BY DEF Apart
<1> QED  BY <1>1, <1>2, <1>3, Frame DEF Fit

\* The same, when it has its answer.
LEMMA DoneStep ==
    ASSUME IInv, NEW p \in Procs, tx[p].pc # "idle", NEW answer \in Answers, Done(p, answer),
           UNCHANGED tables,
           answer = "ok" /\ KeysApart =>
               /\ tx[p].req.op = "pay" => RowFor(tx[p].req, 1) \in payments
               /\ tx[p].req.op = "confirm" => sale[tx[p].req.sale] \notin {"NONE", "DRAFT"}
    PROVE  IInv'
<1> DEFINE new == [IdleTx EXCEPT !.pc = "done", !.req = tx[p].req, !.ans = answer]
<1>1. tx[p].req \in Requests /\ tx[p].req # None
  BY RequestKnown, RequestFields
<1>2. /\ new \in Tx
      /\ new.pc = "done" /\ new.req = tx[p].req /\ new.ans = answer /\ new.i = 1
      /\ new.held = {} /\ new.pays = {} /\ new.moves = {}
  BY <1>1, IdleFields DEF Tx, Steps
<1>3. tx' = [tx EXCEPT ![p] = new]
  BY DEF Done
<1> HIDE DEF new
<1>4. Answered(new) /\ ~Working(new)
  BY <1>2 DEF Answered, Working
<1> QED  BY <1>1, <1>2, <1>3, <1>4, EndStep

\* The same, when it was undone by a key that somebody else has used.
LEMMA UndoneStep ==
    ASSUME IInv, NEW p \in Procs, Working(tx[p]), Undone(p), UNCHANGED tables,
           tx[p].req.op # "return" /\ KeysApart =>
               \E n \in 1..Len(tx[p].req.pays) :
                   PaidElsewhere(tx[p].req.pays[n].key, tx[p].req.sale)
    PROVE  IInv'
<1> DEFINE new == [IdleTx EXCEPT !.pc = "resolve", !.req = tx[p].req]
<1>1. /\ tx[p].req \in Requests /\ tx[p].req # None
      /\ tx[p].req.op \in {"confirm", "pay", "return"} /\ tx[p].pc # "idle"
  BY AtWork, RequestFields DEF Working
<1>2. CASE tx[p].req.op = "return"
  BY <1>1, <1>2, DoneStep DEF Undone, Done, Answers
<1>3. CASE tx[p].req.op # "return"
  <2>1. /\ new \in Tx
        /\ new.pc = "resolve" /\ new.req = tx[p].req /\ new.i = 1
        /\ new.held = {} /\ new.pays = {} /\ new.moves = {}
    BY <1>1, IdleFields DEF Tx, Steps
  <2>2. tx' = [tx EXCEPT ![p] = new]
    BY <1>3 DEF Undone
  <2> HIDE DEF new
  <2>3. Answered(new) /\ ~Working(new)
    BY <1>3, <2>1 DEF Answered, Working
  <2> QED  BY <1>1, <1>3, <2>1, <2>2, <2>3, EndStep
<1> QED  BY <1>2, <1>3

\* A request begins, its answer goes out, or it dies.
LEMMA Edges ==
    ASSUME IInv, NEW p \in Procs,
           (\E q \in Requests : Begin(p, q)) \/ Finish(p) \/ Abort(p)
    PROVE  IInv'
<1>1. ASSUME NEW q \in Requests, Begin(p, q)
      PROVE  IInv'
  <2> DEFINE new == [IdleTx EXCEPT !.pc = "lock", !.req = q]
  <2>1. /\ new \in Tx /\ q # None
        /\ new.pc = "lock" /\ new.req = q /\ new.i = 1
        /\ new.held = {} /\ new.pays = {} /\ new.moves = {}
    BY IdleFields, RequestFields DEF Tx, Steps
  <2>2. tx' = [tx EXCEPT ![p] = new] /\ UNCHANGED tables
    BY <1>1 DEF Begin
  <2> HIDE DEF new
  <2>3. Answered(new) /\ ~Working(new)
    BY <2>1 DEF Answered, Working
  <2> QED  BY <2>1, <2>2, <2>3, EndStep
<1>2. CASE Finish(p) \/ Abort(p)
  <2>1. tx' = [tx EXCEPT ![p] = IdleTx] /\ UNCHANGED tables
    BY <1>2 DEF Finish, Abort
  <2>2. Answered(IdleTx) /\ ~Working(IdleTx)
    BY IdleFields DEF Answered, Working
  <2> QED  BY <2>1, <2>2, IdleFields, EndStep
<1> QED  BY <1>1, <1>2

\* A transaction at work that goes on with the same rows, and may take one lock more.
LEMMA WorkStep ==
    ASSUME IInv, NEW p \in Procs, Working(tx[p]), NEW new \in Tx, tx' = [tx EXCEPT ![p] = new],
           UNCHANGED tables, Working(new),
           new.req = tx[p].req, new.pays = tx[p].pays, new.moves = tx[p].moves,
           tx[p].held \subseteq new.held, \A q \in Procs \ {p} : new.held \cap tx[q].held = {},
           new.i >= 1,
           new.pc = "stock" => tx[p].pc = "stock",
           new.pc \in {"pay", "insert"} => tx[p].req.op # "return",
           new.pc = "refund" => tx[p].req.op = "return",
           new.pc = "till" => /\ new.till \in Registers
                              /\ register[new.till].status # "NONE"
                              /\ register[new.till].terminal = TerminalFor(new.req),
           AtPayment(new), OnePayment(new), Goods(new)
    PROVE  IInv'
<1>1. Fit(tx[p])
  BY RequestKnown
<1>2. Staged(new)
  BY <1>1 DEF Fit, Staged, Working
<1>3. FoundAs(new) /\ Inserted(new) /\ Answered(new)
  BY <1>1 DEF Fit, FoundAs, Inserted, Answered, Working
<1>4. Cash(new)
  BY <1>1 DEF Fit, Cash
<1>5. \A q \in Procs \ {p} : Apart(new, tx[q])
  BY DEF IInv, Transactions, Apart
<1> QED  BY <1>2, <1>3, <1>4, <1>5, Frame DEF Fit

\* The sale is locked, and is what the operation needs.
LEMMA LockStep ==
    ASSUME IInv, NEW p \in Procs, tx[p].pc = "lock", ~HeldByOther(p, tx[p].req.sale),
           NEW step, Hold(p, tx[p].req.sale, step), UNCHANGED tables,
           \/ step = "stock" /\ tx[p].req.op = "confirm" /\ sale[tx[p].req.sale] = "DRAFT"
           \/ step = "stock" /\ tx[p].req.op = "return" /\ sale[tx[p].req.sale] \in OpenForPayment
           \/ /\ step = "pay" /\ tx[p].req.op = "pay" /\ sale[tx[p].req.sale] \in OpenForPayment
              /\ WithKey(tx[p].req.pays[1].key, payments) = {}
    PROVE  IInv'
<1> DEFINE s == tx[p].req.sale
           new == [tx[p] EXCEPT !.pc = step, !.held = @ \cup {s}]
<1>0. /\ tx[p] \in Tx /\ Staged(tx[p]) /\ Fit(tx[p]) /\ tx[p].req \in Requests /\ s \in Sales
      /\ step \in Steps
  BY RequestKnown, RequestFields DEF Steps
<1>1. tx[p].held = {} /\ tx[p].pays = {} /\ tx[p].moves = {} /\ tx[p].i = 1
  BY <1>0 DEF Staged, Working
<1>2. /\ new \in Tx
      /\ new.pc = step /\ new.req = tx[p].req /\ new.i = 1 /\ new.held = {s}
      /\ new.pays = {} /\ new.moves = {}
  BY <1>0, <1>1 DEF Tx
<1>3. tx' = [tx EXCEPT ![p] = new]
  BY DEF Hold
<1>4. Paid(s) \in Nat /\ Paid(s) <= Total[s] /\ Total[s] \in Nat
  BY <1>0, PaidFields, TotalAssumption DEF IInv, TablesRight, Tallies
<1>5. WithKey(tx[p].req.pays[1].key, payments) = {} =>
          WithKey(tx[p].req.pays[1].key, PaymentsOf(s)) = {}
  BY DEF WithKey, PaymentsOf
<1>6. s \notin Products
  BY <1>0, NamesAssumption
<1>7. new.req # None
  BY <1>0, <1>2, RequestFields
<1>8. \A q \in Procs \ {p} : s \notin tx[q].held
  BY DEF HeldByOther
<1> HIDE DEF new
<1>9. Working(new)
  BY <1>2 DEF Working
<1>10. Staged(new)
  BY <1>2, <1>7, <1>9, FS_EmptySet DEF Staged, s
<1>11. FoundAs(new) /\ Answered(new) /\ AtPayment(new) /\ Cash(new) /\ Goods(new)
  BY <1>2, <1>6 DEF FoundAs, Answered, AtPayment, Cash, Goods, s
<1>12. Inserted(new)
  BY <1>2, <1>4, SumOfEmpty DEF Inserted, s
<1>13. OnePayment(new)
  BY <1>2, <1>5 DEF OnePayment, s
<1>14. \A q \in Procs \ {p} : Apart(new, tx[q])
  BY <1>2, <1>8 DEF Apart
<1> QED  BY <1>2, <1>3, <1>10, <1>11, <1>12, <1>13, <1>14, Frame DEF Fit

LEMMA ConfirmBegins ==
    ASSUME IInv, NEW p \in Procs, ConfirmBegin(p)
    PROVE  IInv'
<1>1. /\ tx[p].pc = "lock" /\ tx[p].req.op = "confirm" /\ UNCHANGED tables
      /\ ~HeldByOther(p, tx[p].req.sale)
  BY DEF ConfirmBegin, At
<1>2. CASE sale[tx[p].req.sale] = "DRAFT" /\ Hold(p, tx[p].req.sale, "stock")
  BY <1>1, <1>2, LockStep
<1>3. CASE sale[tx[p].req.sale] # "DRAFT"
  <2> PICK answer \in {"missing", "ok", "conflict"} :
           Done(p, answer) /\ (answer = "ok" => sale[tx[p].req.sale] \in OpenForPayment)
    BY <1>3 DEF ConfirmBegin
  <2> QED  BY <1>1, DoneStep DEF Answers, OpenForPayment
<1> QED  BY <1>2, <1>3 DEF ConfirmBegin, OpenForPayment

LEMMA PaymentBegins ==
    ASSUME IInv, NEW p \in Procs, AddPaymentBegin(p)
    PROVE  IInv'
<1> DEFINE s == tx[p].req.sale
           pay == tx[p].req.pays[1]
           found == WithKey(pay.key, payments)
<1>1. /\ tx[p].pc = "lock" /\ tx[p].req.op = "pay" /\ UNCHANGED tables /\ ~HeldByOther(p, s)
  BY DEF AddPaymentBegin, At
<1>2. CASE Done(p, "missing") \/ Done(p, "conflict")
  BY <1>1, <1>2, DoneStep DEF Answers
<1>3. ASSUME NEW row \in found, SamePayment(row, s, pay), Done(p, "ok")
      PROVE  IInv'
  <2>1. row \in payments /\ row \in Row /\ row.key = pay.key
    BY <1>3 DEF WithKey, IInv, TablesRight, Typed
  <2>2. row = RowFor(tx[p].req, 1)
    BY <1>3, <2>1 DEF SamePayment, RowFor, Row
  <2> QED  BY <1>1, <1>3, <2>1, <2>2, DoneStep DEF Answers
<1>4. CASE found = {} /\ sale[s] \in OpenForPayment /\ Hold(p, s, "pay")
  BY <1>1, <1>4, LockStep
<1> QED  BY <1>2, <1>3, <1>4 DEF AddPaymentBegin

LEMMA ReturnBegins ==
    ASSUME IInv, NEW p \in Procs, ReturnBegin(p)
    PROVE  IInv'
<1>1. /\ tx[p].pc = "lock" /\ tx[p].req.op = "return" /\ UNCHANGED tables
      /\ ~HeldByOther(p, tx[p].req.sale)
  BY DEF ReturnBegin, At
<1>2. CASE sale[tx[p].req.sale] \in Returnable /\ Hold(p, tx[p].req.sale, "stock")
  BY <1>1, <1>2, LockStep DEF Returnable, OpenForPayment
<1>3. CASE sale[tx[p].req.sale] \notin Returnable
  <2> PICK answer \in {"missing", "ok", "conflict"} : Done(p, answer)
    BY <1>3 DEF ReturnBegin
  <2> QED  BY <1>1, DoneStep DEF Answers
<1> QED  BY <1>2, <1>3 DEF ReturnBegin

\* The stock is locked, product after product.
LEMMA StockMoves ==
    ASSUME IInv, NEW p \in Procs, MoveStock(p)
    PROVE  IInv'
<1> DEFINE s == tx[p].req.sale
<1>1. tx[p].pc = "stock" /\ Working(tx[p]) /\ UNCHANGED tables
  BY DEF MoveStock, Working
<1>2. /\ tx[p] \in Tx /\ Fit(tx[p]) /\ tx[p].req \in Requests /\ s \in Sales
      /\ tx[p].req.op \in {"confirm", "return"} /\ tx[p].i \in Nat \ {0}
  BY <1>1, AtWork DEF Fit, Staged
<1>3. \A q \in Procs \ {p} : tx[p].held \cap tx[q].held = {}
  BY DEF IInv, Transactions, Apart
<1>4. CASE /\ ProductsLeft(p) = {}
           /\ GoTo(p, IF tx[p].req.op = "confirm" THEN "pay" ELSE "refund")
  <2> DEFINE step == IF tx[p].req.op = "confirm" THEN "pay" ELSE "refund"
             new == [tx[p] EXCEPT !.pc = step]
  <2>1. /\ new \in Tx
        /\ new.pc = step /\ new.req = tx[p].req /\ new.i = tx[p].i /\ new.held = tx[p].held
        /\ new.pays = tx[p].pays /\ new.moves = tx[p].moves
    BY <1>2 DEF Tx, Steps
  <2>2. tx' = [tx EXCEPT ![p] = new]
    BY <1>2, <1>4 DEF GoTo, IInv, Transactions
  <2>3. \A x \in Products : Items[s][x] > 0 => x \in tx[p].held
    BY <1>4 DEF ProductsLeft
  <2> HIDE DEF new
  <2>4. Working(new) /\ AtPayment(new) /\ OnePayment(new)
    BY <1>2, <2>1 DEF Working, AtPayment, OnePayment
  <2>5. Goods(new)
    BY <1>1, <1>2, <2>1, <2>3 DEF Fit, Goods
  <2>6. /\ new.i >= 1 /\ new.pc \notin {"stock", "insert", "till"}
        /\ new.pc = "pay" => tx[p].req.op # "return"
        /\ new.pc = "refund" => tx[p].req.op = "return"
    BY <1>2, <2>1
  <2> HIDE DEF step, s
  <2> QED  BY <1>1, <1>3, <2>1, <2>2, <2>4, <2>5, <2>6, WorkStep
<1>5. ASSUME NEW x \in NextProducts(ProductsLeft(p)), ~HeldByOther(p, x),
             IF tx[p].req.op = "confirm" /\ ~EnoughStock(s, x)
             THEN Done(p, "conflict") ELSE Hold(p, x, "stock")
      PROVE  IInv'
  <2>1. x \in Products
    BY DEF NextProducts, ProductsLeft
  <2>2. CASE Done(p, "conflict")
    BY <1>1, <2>2, DoneStep DEF Answers
  <2>3. CASE /\ tx[p].req.op = "confirm" => EnoughStock(s, x)
             /\ Hold(p, x, "stock")
    <3> DEFINE new == [tx[p] EXCEPT !.pc = "stock", !.held = @ \cup {x}]
    <3>1. /\ new \in Tx
          /\ new.pc = "stock" /\ new.req = tx[p].req /\ new.i = tx[p].i
          /\ new.held = tx[p].held \cup {x}
          /\ new.pays = tx[p].pays /\ new.moves = tx[p].moves
      BY <1>2, <2>1 DEF Tx, Steps
    <3>2. tx' = [tx EXCEPT ![p] = new]
      BY <2>3 DEF Hold
    <3>3. \A q \in Procs \ {p} : x \notin tx[q].held
      BY <1>5 DEF HeldByOther
    <3> HIDE DEF new
    <3>4. Working(new) /\ AtPayment(new) /\ OnePayment(new)
      BY <1>2, <3>1 DEF Working, AtPayment, OnePayment
    <3>5. Goods(new)
      BY <1>1, <1>2, <2>3, <3>1 DEF Fit, Goods
    <3>6. \A q \in Procs \ {p} : new.held \cap tx[q].held = {}
      BY <1>3, <3>1, <3>3
    <3>7. new.i >= 1 /\ tx[p].held \subseteq new.held
      BY <1>2, <3>1
    <3> QED  BY <1>1, <3>1, <3>2, <3>4, <3>5, <3>6, <3>7, WorkStep
  <2> QED  BY <1>5, <2>2, <2>3
<1> QED  BY <1>4, <1>5 DEF MoveStock

\* On to another stage, with the same rows and locks.
LEMMA GoOn ==
    ASSUME IInv, NEW p \in Procs, Working(tx[p]), tx[p].pc # "stock",
           NEW new \in Tx, tx' = [tx EXCEPT ![p] = new], UNCHANGED tables,
           new.pc \in {"pay", "insert", "find", "till", "commit"},
           new.req = tx[p].req, new.held = tx[p].held,
           new.pays = tx[p].pays, new.moves = tx[p].moves, new.i >= 1,
           new.pc \in {"pay", "insert"} => tx[p].req.op # "return",
           new.pc = "till" => /\ new.till \in Registers
                              /\ register[new.till].status # "NONE"
                              /\ register[new.till].terminal = TerminalFor(new.req),
           AtPayment(new), OnePayment(new)
    PROVE  IInv'
<1>1. Working(new) /\ new.pc \notin {"stock", "refund"}
  BY DEF Working
<1>2. Goods(tx[p])
  BY RequestKnown DEF Fit
<1>3. Goods(new)
  BY <1>1, <1>2 DEF Goods
<1>4. \A q \in Procs \ {p} : new.held \cap tx[q].held = {}
  BY DEF IInv, Transactions, Apart
<1>5. tx[p].held \subseteq new.held
  OBVIOUS
<1> QED  BY <1>1, <1>3, <1>4, <1>5, WorkStep

LEMMA NextPaymentStep ==
    ASSUME IInv, NEW p \in Procs, tx[p].pc \in {"pay", "find", "till"}, tx[p].req.op # "return",
           tx[p].req.op = "pay" => tx[p].pays = {RowFor(tx[p].req, 1)},
           NextPayment(p), UNCHANGED tables
    PROVE  IInv'
<1> DEFINE new == [tx[p] EXCEPT !.pc = "pay", !.i = @ + 1, !.till = None]
<1>1. Working(tx[p])
  BY DEF Working
<1>2. /\ tx[p] \in Tx /\ Fit(tx[p]) /\ tx[p].i \in Nat \ {0} /\ tx[p].i + 1 \in Nat
  BY <1>1, AtWork
<1>3. /\ new \in Tx
      /\ new.pc = "pay" /\ new.req = tx[p].req /\ new.i = tx[p].i + 1 /\ new.held = tx[p].held
      /\ new.pays = tx[p].pays /\ new.moves = tx[p].moves
  BY <1>2 DEF Tx, Steps
<1>4. tx' = [tx EXCEPT ![p] = new]
  BY DEF NextPayment
<1> HIDE DEF new
<1>5. AtPayment(new)
  BY <1>3 DEF AtPayment
<1>6. new.i >= 1 /\ new.i # 1
  BY <1>2, <1>3
<1>7. OnePayment(new)
  BY <1>1, <1>2, <1>3, <1>6 DEF Fit, OnePayment
<1>8. tx[p].pc # "stock"
  OBVIOUS
<1> QED  BY <1>1, <1>3, <1>4, <1>5, <1>6, <1>7, <1>8, GoOn

\* On to a stage past the payments, or past the one that has just been inserted.
LEMMA CommitNext ==
    ASSUME IInv, NEW p \in Procs, Working(tx[p]), tx[p].pc # "stock",
           NEW step \in {"commit", "find"}, GoTo(p, step), UNCHANGED tables,
           step = "find" => tx[p].req.op = "return",
           tx[p].req.op = "pay" => tx[p].pays = {RowFor(tx[p].req, 1)}
    PROVE  IInv'
<1> DEFINE new == [tx[p] EXCEPT !.pc = step]
<1>1. /\ tx[p] \in Tx /\ Fit(tx[p]) /\ tx[p].i \in Nat \ {0}
  BY AtWork
<1>2. /\ new \in Tx
      /\ new.pc = step /\ new.req = tx[p].req /\ new.i = tx[p].i /\ new.held = tx[p].held
      /\ new.pays = tx[p].pays /\ new.moves = tx[p].moves
  BY <1>1 DEF Tx, Steps
<1>3. tx' = [tx EXCEPT ![p] = new]
  BY <1>1 DEF GoTo, IInv, Transactions
<1> HIDE DEF new
<1>4. AtPayment(new) /\ OnePayment(new)
  BY <1>1, <1>2 DEF Fit, AtPayment, OnePayment, Working
<1>5. new.i >= 1
  BY <1>1, <1>2
<1>6. new.pc \in {"commit", "find"}
  BY <1>2
<1> QED  BY <1>2, <1>3, <1>4, <1>5, <1>6, GoOn

LEMMA PaymentChecked ==
    ASSUME IInv, NEW p \in Procs, CheckPayment(p)
    PROVE  IInv'
<1> DEFINE q == tx[p].req
           pay == q.pays[tx[p].i]
           found == WithKey(pay.key, payments \cup tx[p].pays)
<1>1. tx[p].pc = "pay" /\ Working(tx[p]) /\ UNCHANGED tables
  BY DEF CheckPayment, Working
<1>2. /\ tx[p] \in Tx /\ Fit(tx[p]) /\ Staged(tx[p]) /\ q \in Requests /\ q.sale \in Sales
      /\ q.op \in {"confirm", "pay"} /\ tx[p].i \in Nat \ {0}
      /\ SumOf(tx[p].pays) \in Nat /\ Paid(q.sale) \in Nat /\ Total[q.sale] \in Nat
  BY <1>1, AtWork DEF Fit, Staged
<1>3. Len(q.pays) \in Nat /\ (q.op = "pay" => Len(q.pays) = 1)
  BY <1>2, RequestFields
<1>4. q.op = "pay" => /\ tx[p].i # 1 => tx[p].pays = {RowFor(q, 1)}
                      /\ tx[p].i = 1 => tx[p].pays = {}
                      /\ WithKey(q.pays[1].key, PaymentsOf(q.sale)) = {}
  BY <1>1, <1>2 DEF Fit, OnePayment
<1>5. CASE tx[p].i > Len(q.pays) /\ GoTo(p, "commit")
  <2>1. q.op = "pay" => tx[p].pays = {RowFor(q, 1)}
    BY <1>3, <1>4, <1>5
  <2> QED  BY <1>1, <1>2, <1>5, <2>1, CommitNext
<1>6. CASE Done(p, "conflict") \/ Done(p, "refused")
  BY <1>1, <1>6, DoneStep DEF Answers
<1>7. ASSUME tx[p].i <= Len(q.pays), NEW row \in found, SamePayment(row, q.sale, pay), NextPayment(p)
      PROVE  IInv'
  <2>1. q.op # "pay"
    <3> SUFFICES ASSUME q.op = "pay"
                 PROVE  FALSE
      OBVIOUS
    <3>1. tx[p].i = 1 /\ tx[p].pays = {}
      BY <1>2, <1>3, <1>4, <1>7
    <3>2. row \in WithKey(q.pays[1].key, PaymentsOf(q.sale))
      BY <1>7, <3>1 DEF WithKey, PaymentsOf, SamePayment
    <3> QED  BY <1>4, <3>2
  <2> QED  BY <1>1, <1>2, <1>7, <2>1, NextPaymentStep
<1>8. CASE /\ tx[p].i <= Len(q.pays) /\ found = {} /\ FitsBalance(p, pay.amount)
           /\ GoTo(p, "insert")
  <2> DEFINE new == [tx[p] EXCEPT !.pc = "insert"]
  <2>1. /\ new \in Tx
        /\ new.pc = "insert" /\ new.req = q /\ new.i = tx[p].i /\ new.held = tx[p].held
        /\ new.pays = tx[p].pays /\ new.moves = tx[p].moves
    BY <1>2 DEF Tx, Steps
  <2>2. tx' = [tx EXCEPT ![p] = new]
    BY <1>2, <1>8 DEF GoTo, IInv, Transactions
  <2>3. tx[p].i \in 1..Len(q.pays)
    BY <1>2, <1>3, <1>8
  <2>4. pay.amount \in Nat /\ Paid(q.sale) + SumOf(tx[p].pays) + pay.amount <= Total[q.sale]
    <3>1. pay.amount \in Nat
      BY <1>2, <2>3, RequestFields
    <3>2. CASE q.op = "pay"
      <4>1. pay.amount <= Total[q.sale] - Paid(q.sale) - SumOf(tx[p].pays)
        BY <1>8, <3>2 DEF FitsBalance, PaidBefore, Paid
      <4> QED  BY <1>2, <3>1, <4>1
    <3>3. CASE q.op = "confirm"
      <4>1. PaymentsOf(q.sale) = {}
        BY <1>1, <1>2, <3>3 DEF Fit, FoundAs, IInv, TablesRight, Tallies
      <4>2. Paid(q.sale) = 0
        BY <4>1, SumOfEmpty DEF Paid
      <4>3. pay.amount <= Total[q.sale] - 0 - SumOf(tx[p].pays)
        BY <1>8, <3>3 DEF FitsBalance, PaidBefore
      <4> QED  BY <1>2, <3>1, <4>2, <4>3
    <3> QED  BY <1>2, <3>1, <3>2, <3>3
  <2>5. WithKey(pay.key, tx[p].pays) = {}
    BY <1>8 DEF WithKey
  <2> HIDE DEF new
  <2>6. AtPayment(new)
    BY <2>1, <2>3, <2>4, <2>5 DEF AtPayment
  <2>7. OnePayment(new)
    BY <1>2, <1>3, <1>4, <1>8, <2>1 DEF OnePayment
  <2>8. new.i >= 1 /\ tx[p].pc # "stock"
    BY <1>1, <1>2, <2>1
  <2>9. q.op # "return"
    BY <1>2
  <2> HIDE DEF q
  <2> QED  BY <1>1, <2>1, <2>2, <2>6, <2>7, <2>8, <2>9, GoOn DEF q
<1> QED  BY <1>5, <1>6, <1>7, <1>8 DEF CheckPayment

\* A row of payments is inserted, or somebody else's was there before.
LEMMA PaymentInserted ==
    ASSUME IInv, NEW p \in Procs, InsertPayment(p)
    PROVE  IInv'
<1> DEFINE q == tx[p].req
           n == tx[p].i
           pay == q.pays[n]
           row == RowFor(q, n)
           next == IF pay.method = "CASH" THEN "find" ELSE "pay"
<1>1. tx[p].pc = "insert" /\ Working(tx[p]) /\ UNCHANGED tables /\ KeyTakenBy(p, pay.key) = {}
  BY DEF InsertPayment, Working
<1>2. /\ tx[p] \in Tx /\ Fit(tx[p]) /\ Staged(tx[p]) /\ q \in Requests /\ q.sale \in Sales
      /\ q.op \in {"confirm", "pay"} /\ n \in Nat \ {0} /\ n + 1 \in Nat
      /\ tx[p].pays \subseteq Row /\ IsFiniteSet(tx[p].pays)
      /\ SumOf(tx[p].pays) \in Nat /\ Paid(q.sale) \in Nat /\ Total[q.sale] \in Nat
  BY <1>1, AtWork DEF Fit, Staged
<1>3. /\ n \in 1..Len(q.pays) /\ WithKey(pay.key, tx[p].pays) = {}
      /\ Paid(q.sale) + SumOf(tx[p].pays) + pay.amount <= Total[q.sale]
  BY <1>1, <1>2 DEF Fit, AtPayment
<1>4. /\ row \in Row /\ row.key = pay.key /\ row.sale = q.sale /\ row.amount = pay.amount
      /\ row.method = pay.method /\ pay.amount \in Nat
  BY <1>2, <1>3, RequestFields
<1>5. q.op = "pay" => n = 1 /\ tx[p].pays = {} /\ WithKey(q.pays[1].key, PaymentsOf(q.sale)) = {}
  <2>1. q.op = "pay" => Len(q.pays) = 1
    BY <1>2, RequestFields
  <2> QED  BY <1>1, <1>2, <1>3, <2>1 DEF Fit, OnePayment
<1>6. CASE WithKey(pay.key, payments) # {}
  <2>u. Undone(p)
    BY <1>6 DEF InsertPayment
  <2> PICK y \in payments : y.key = pay.key
    BY <1>6 DEF WithKey
  <2>1. y.sale # q.sale
    <3> SUFFICES ASSUME y.sale = q.sale
                 PROVE  FALSE
      OBVIOUS
    <3>1. y \in PaymentsOf(q.sale)
      BY DEF PaymentsOf
    <3>2. CASE q.op = "confirm"
      BY <1>1, <1>2, <3>1, <3>2 DEF Fit, FoundAs, IInv, TablesRight, Tallies
    <3>3. CASE q.op = "pay"
      BY <1>5, <3>1, <3>3 DEF WithKey
    <3> QED  BY <1>2, <3>2, <3>3
  <2>2. PaidElsewhere(pay.key, q.sale)
    BY <2>1 DEF PaidElsewhere, WithKey
  <2> QED  BY <1>1, <1>3, <2>u, <2>2, UndoneStep
<1>7. CASE WithKey(pay.key, payments) = {}
  <2>0. PICK new \in Tx :
           /\ tx' = [tx EXCEPT ![p] = new]
           /\ new.req = q /\ new.held = tx[p].held /\ new.moves = tx[p].moves
           /\ new.pays = tx[p].pays \cup {row} /\ new.pc = next
           /\ new.i = IF pay.method = "CASH" THEN n ELSE n + 1
    <3>1. CASE pay.method = "CASH"
      <4> DEFINE new == [tx[p] EXCEPT !.pays = @ \cup {row}, !.pc = "find"]
      <4>1. /\ new \in Tx
            /\ new.pc = "find" /\ new.req = q /\ new.i = n /\ new.held = tx[p].held
            /\ new.pays = tx[p].pays \cup {row} /\ new.moves = tx[p].moves
        BY <1>2, <1>4 DEF Tx, Steps
      <4>2. tx' = [tx EXCEPT ![p] = new]
        BY <1>7, <3>1 DEF InsertPayment, RowFor
      <4> HIDE DEF new
      <4> QED  BY <3>1, <4>1, <4>2
    <3>2. CASE pay.method # "CASH"
      <4> DEFINE new == [tx[p] EXCEPT !.pays = @ \cup {row}, !.pc = "pay", !.i = @ + 1]
      <4>1. /\ new \in Tx
            /\ new.pc = "pay" /\ new.req = q /\ new.i = n + 1 /\ new.held = tx[p].held
            /\ new.pays = tx[p].pays \cup {row} /\ new.moves = tx[p].moves
        BY <1>2, <1>4 DEF Tx, Steps
      <4>2. tx' = [tx EXCEPT ![p] = new]
        BY <1>7, <3>2 DEF InsertPayment, RowFor
      <4> HIDE DEF new
      <4> QED  BY <3>2, <4>1, <4>2
    <3> QED  BY <3>1, <3>2
  <2> HIDE DEF row
  <2>f. /\ new.req = q /\ new.held = tx[p].held /\ new.moves = tx[p].moves
        /\ new.pays = tx[p].pays \cup {row}
        /\ new.pc \in {"find", "pay"} /\ Working(new) /\ new.i \in Nat \ {0}
        /\ new.pc = "pay" => new.i = n + 1
        /\ new.pc = "find" => new.i = n /\ pay.method = "CASH"
    BY <1>2, <2>0 DEF Working
  <2>1. row \notin tx[p].pays
    BY <1>3, <1>4 DEF WithKey
  <2>2. IsFiniteSet(new.pays) /\ SumOf(new.pays) = SumOf(tx[p].pays) + pay.amount
    <3>1. \A z \in tx[p].pays \cup {row} : z.amount \in Nat
      BY <1>2, <1>4 DEF Row
    <3>2. SumOf(tx[p].pays \cup {row}) = SumOf(tx[p].pays) + row.amount
      BY <1>2, <2>1, <3>1, SumOfAdd
    <3>3. IsFiniteSet(tx[p].pays \cup {row})
      BY <1>2, FS_AddElement
    <3> QED  BY <1>4, <2>f, <3>2, <3>3
  <2> HIDE DEF pay, next
  <2>4. Staged(new)
    <3>1. /\ q # None /\ q.op # "cancel" /\ q.op # "return" /\ q.sale \in tx[p].held
          /\ IsFiniteSet(tx[p].moves)
      BY <1>1, <1>2, RequestFields DEF Staged
    <3> QED  BY <2>2, <2>f, <3>1 DEF Staged
  <2>5. FoundAs(new) /\ Goods(new) /\ Answered(new)
    BY <1>1, <1>2, <2>f DEF Fit, FoundAs, Goods, Answered, Working
  <2>6. Inserted(new)
    <3>1. \A y \in new.pays : y.sale = q.sale /\ WithKey(y.key, payments) = {}
      BY <1>2, <1>4, <1>7, <2>f DEF Fit, Inserted
    <3>2. Paid(q.sale) + SumOf(new.pays) <= Total[q.sale]
      <4>1. /\ Paid(q.sale) \in Nat /\ SumOf(tx[p].pays) \in Nat
            /\ pay.amount \in Nat /\ Total[q.sale] \in Nat
        BY <1>2, <1>4
      <4> QED  BY <1>3, <2>2, <4>1
    <3> QED  BY <2>f, <3>1, <3>2 DEF Inserted
  <2>7. AtPayment(new)
    BY <1>2, <1>3, <2>f DEF AtPayment, row, pay
  <2>8. OnePayment(new)
    <3>1. q.op = "pay" => new.pays = {RowFor(q, 1)} /\ (new.pc = "pay" => new.i # 1)
      BY <1>5, <2>f DEF row
    <3> QED  BY <1>5, <2>f, <3>1 DEF OnePayment
  <2>9. Cash(new)
    BY <1>1, <1>2, <2>f DEF Fit, Cash, Working
  <2>10. \A r \in Procs \ {p} : Apart(new, tx[r])
    <3>1. \A r \in Procs \ {p} : WithKey(row.key, tx[r].pays) = {}
      BY <1>1, <1>4 DEF KeyTakenBy
    <3>2. \A r \in Procs \ {p} : Apart(tx[p], tx[r])
      BY DEF IInv, Transactions
    <3> QED  BY <2>f, <3>1, <3>2 DEF Apart, WithKey
  <2>11. Fit(new)
    BY <2>4, <2>5, <2>6, <2>7, <2>8, <2>9 DEF Fit
  <2> QED  BY <1>1, <2>0, <2>10, <2>11, Frame
<1> QED  BY <1>6, <1>7

\* The cash hook lets the cash be: no till is open, or it cannot take the movement.
LEMMA HookEnds ==
    ASSUME IInv, NEW p \in Procs, tx[p].pc \in {"find", "till"}, CashDone(p), UNCHANGED tables
    PROVE  IInv'
<1>1. Working(tx[p]) /\ tx[p].pc # "stock"
  BY DEF Working
<1>2. tx[p].req.op = "pay" => tx[p].pays = {RowFor(tx[p].req, 1)}
  BY <1>1, AtWork DEF Fit, OnePayment
<1>3. CASE tx[p].req.op = "return"
  BY <1>1, <1>3, <1>2, CommitNext DEF CashDone
<1>4. CASE tx[p].req.op # "return"
  BY <1>2, <1>4, NextPaymentStep DEF CashDone
<1> QED  BY <1>3, <1>4

LEMMA TillFound ==
    ASSUME IInv, NEW p \in Procs, FindTill(p)
    PROVE  IInv'
<1> DEFINE open == OpenAt(TerminalFor(tx[p].req))
<1>1. tx[p].pc = "find" /\ Working(tx[p]) /\ UNCHANGED tables
  BY DEF FindTill, Working
<1>2. /\ tx[p] \in Tx /\ Fit(tx[p]) /\ tx[p].i \in Nat \ {0}
  BY <1>1, AtWork
<1>3. CASE open = {} /\ CashDone(p)
  BY <1>1, <1>3, HookEnds
<1>4. ASSUME NEW r \in open, tx' = [tx EXCEPT ![p].pc = "till", ![p].till = r]
      PROVE  IInv'
  <2> DEFINE new == [tx[p] EXCEPT !.pc = "till", !.till = r]
  <2>1. /\ r \in Registers /\ register[r].status # "NONE"
        /\ register[r].terminal = TerminalFor(tx[p].req)
    BY <1>4 DEF OpenAt
  <2>2. /\ new \in Tx
        /\ new.pc = "till" /\ new.till = r /\ new.req = tx[p].req /\ new.i = tx[p].i
        /\ new.held = tx[p].held /\ new.pays = tx[p].pays /\ new.moves = tx[p].moves
    BY <1>2, <2>1 DEF Tx, Steps
  <2>3. tx' = [tx EXCEPT ![p] = new]
    BY <1>4
  <2> HIDE DEF new
  <2>4. AtPayment(new) /\ OnePayment(new)
    BY <1>1, <1>2, <2>2 DEF Fit, AtPayment, OnePayment, Working
  <2>5. new.i >= 1 /\ tx[p].pc # "stock" /\ new.pc \notin {"pay", "insert"}
    BY <1>1, <1>2, <2>2
  <2> QED  BY <1>1, <2>1, <2>2, <2>3, <2>4, <2>5, GoOn
<1> QED  BY <1>3, <1>4 DEF FindTill

LEMMA RefundBegins ==
    ASSUME IInv, NEW p \in Procs, Refund(p)
    PROVE  IInv'
<1>1. tx[p].pc = "refund" /\ Working(tx[p]) /\ UNCHANGED tables /\ tx[p].pc # "stock"
  BY DEF Refund, Working
<1>2. tx[p].req.op = "return"
  BY <1>1, AtWork DEF Fit, Staged
<1>3. PICK step \in {"commit", "find"} : GoTo(p, step)
  BY DEF Refund
<1> QED  BY <1>1, <1>2, <1>3, CommitNext

LEMMA ConflictResolved ==
    ASSUME IInv, NEW p \in Procs, ResolveConflict(p)
    PROVE  IInv'
<1>1. tx[p].pc = "resolve" /\ UNCHANGED tables /\ Fit(tx[p])
  BY RequestKnown DEF ResolveConflict
<1>2. PICK answer \in {"ok", "conflict"} :
         /\ Done(p, answer)
         /\ answer = "ok" => ~\E n \in 1..Len(tx[p].req.pays) :
                                  PaidElsewhere(tx[p].req.pays[n].key, tx[p].req.sale)
  BY DEF ResolveConflict
<1>3. answer = "ok" => ~KeysApart
  BY <1>1, <1>2 DEF Fit, Answered
<1> QED  BY <1>1, <1>2, <1>3, DoneStep DEF Answers

\* The movement that the hook makes.
LEMMA MovementMade ==
    ASSUME IInv, NEW p \in Procs, tx[p].pc = "till"
    PROVE  /\ MovementOf(p) \in Gathered /\ MovementOf(p).reg = tx[p].till
           /\ tx[p].req.op = "return" =>
                 /\ MovementOf(p).type = "SALE_REFUND" /\ MovementOf(p).key = tx[p].req.sale
                 /\ MovementOf(p).amount = CashToRefund(tx[p].req.sale)
           /\ tx[p].req.op # "return" =>
                 /\ MovementOf(p).type = "SALE_PAYMENT" /\ MovementOf(p).key \in Keys
                 /\ tx[p].i \in 1..Len(tx[p].req.pays)
                 /\ MovementOf(p).key = tx[p].req.pays[tx[p].i].key
                 /\ \E y \in tx[p].pays : /\ y.key = MovementOf(p).key /\ y.method = "CASH"
                                          /\ y.amount = MovementOf(p).amount
<1> DEFINE q == tx[p].req
           n == tx[p].i
<1>1. Working(tx[p])
  BY DEF Working
<1>2. Fit(tx[p]) /\ q \in Requests /\ q.sale \in Sales /\ tx[p].till \in Registers
  BY <1>1, AtWork DEF Fit, Cash
<1>3. CASE q.op = "return"
  <2>1. CashToRefund(q.sale) \in Nat
    BY PaidFields DEF IInv, TablesRight
  <2> QED  BY <1>2, <1>3, <2>1 DEF MovementOf, Gathered
<1>4. CASE q.op # "return"
  <2>1. n \in 1..Len(q.pays) /\ q.pays[n].method = "CASH" /\ RowFor(q, n) \in tx[p].pays
    BY <1>2, <1>4 DEF Fit, AtPayment
  <2>2. /\ RowFor(q, n).key = q.pays[n].key /\ RowFor(q, n).method = q.pays[n].method
        /\ RowFor(q, n).amount = q.pays[n].amount
        /\ q.pays[n].key \in Keys /\ q.pays[n].amount \in Nat
    BY <1>2, <2>1, RequestFields
  <2>3. /\ MovementOf(p) = [key |-> q.pays[n].key, reg |-> tx[p].till, type |-> "SALE_PAYMENT",
                            amount |-> q.pays[n].amount]
    BY <1>4 DEF MovementOf
  <2>4. /\ MovementOf(p) \in Gathered /\ MovementOf(p).reg = tx[p].till
        /\ MovementOf(p).type = "SALE_PAYMENT" /\ MovementOf(p).key = q.pays[n].key
        /\ MovementOf(p).amount = q.pays[n].amount
    BY <1>2, <2>2, <2>3 DEF Gathered
  <2> QED  BY <1>4, <2>1, <2>2, <2>4
<1> QED  BY <1>3, <1>4

\* The till takes the movement, or does not, or has one under its key already.
LEMMA TillUsed ==
    ASSUME IInv, NEW p \in Procs, UseTill(p)
    PROVE  IInv'
<1> DEFINE q == tx[p].req
           r == tx[p].till
           row == MovementOf(p)
           next == IF q.op = "return" THEN "commit" ELSE "pay"
<1>1. tx[p].pc = "till" /\ Working(tx[p]) /\ UNCHANGED tables /\ ~HeldByOther(p, r)
  BY DEF UseTill, Working
<1>2. /\ tx[p] \in Tx /\ Fit(tx[p]) /\ q \in Requests /\ q.sale \in Sales
      /\ q.op \in {"confirm", "pay", "return"} /\ tx[p].i \in Nat \ {0} /\ tx[p].i + 1 \in Nat
  BY <1>1, AtWork
<1>3. /\ r \in Registers /\ register[r].status # "NONE"
      /\ q.op # "return" => register[r].terminal = TerminalOf[q.sale]
  BY <1>1, <1>2 DEF Fit, Cash, TerminalFor
<1>4. CASE ~TillTakes(p) /\ CashDone(p)
  BY <1>1, <1>4, HookEnds
<1>5. CASE WithKey(row.key, movements) # {} /\ Undone(p)
  <2>1. ASSUME q.op # "return", KeysApart
        PROVE  FALSE
    <3>1. PICK m \in movements : m.key = row.key
      BY <1>5 DEF WithKey
    <3>2. /\ m.key \in Keys
          /\ \E y \in tx[p].pays : y.key = row.key
      BY <1>1, <2>1, <3>1, MovementMade
    <3>3. m.type = "SALE_PAYMENT"
      BY <2>1, <3>2 DEF KeysApart, IInv, TablesRight, Trail
    <3>4. \E y \in payments : y.key = m.key
      BY <3>3 DEF IInv, TablesRight, CashTrailMatches
    <3> QED  BY <1>2, <3>1, <3>2, <3>4 DEF Fit, Inserted, WithKey
  <2> QED  BY <1>1, <1>5, <2>1, UndoneStep
<1>6. CASE tx' = [tx EXCEPT ![p].moves = @ \cup {row}, ![p].held = @ \cup {r},
                            ![p].till = None, ![p].pc = next, ![p].i = @ + 1]
  <2> DEFINE new == [tx[p] EXCEPT !.moves = @ \cup {row}, !.held = @ \cup {r},
                                  !.till = None, !.pc = next, !.i = @ + 1]
  <2>1. row \in Gathered /\ row.reg = r
    BY <1>1, MovementMade
  <2> HIDE DEF row
  <2>2. /\ new \in Tx
        /\ new.pc = next /\ new.till = None /\ new.req = q /\ new.i = tx[p].i + 1
        /\ new.held = tx[p].held \cup {r} /\ new.pays = tx[p].pays
        /\ new.moves = tx[p].moves \cup {row}
    BY <1>2, <1>3, <2>1 DEF Tx, Steps
  <2>3. tx' = [tx EXCEPT ![p] = new]
    BY <1>6
  <2> HIDE DEF new
  <2>4. /\ Working(new) /\ new.pc \in {"commit", "pay"} /\ (new.pc = "pay" => q.op # "return")
        /\ new.i >= 1 /\ new.i # 1
    BY <1>2, <2>2 DEF Working
  <2> HIDE DEF next
  <2>5. Staged(new)
    <3>1. Staged(tx[p])
      BY <1>2 DEF Fit
    <3>2. IsFiniteSet(new.moves)
      BY <2>2, <3>1, FS_AddElement DEF Staged
    <3> QED  BY <1>1, <2>2, <2>4, <3>1, <3>2 DEF Staged
  <2>6. FoundAs(new) /\ Inserted(new) /\ Answered(new) /\ AtPayment(new)
    BY <1>1, <1>2, <2>2, <2>4 DEF Fit, FoundAs, Inserted, Answered, AtPayment, Working
  <2>7. OnePayment(new)
    BY <1>1, <1>2, <2>2, <2>4 DEF Fit, OnePayment, Working
  <2>8. Goods(new)
    <3>1. r \notin Products
      BY <1>3, NamesAssumption
    <3> QED  BY <1>1, <1>2, <2>2, <2>4, <3>1 DEF Fit, Goods, Working
  <2>9. Cash(new)
    <3>1. ASSUME NEW m \in new.moves
          PROVE  register[m.reg].status # "NONE"
      BY <1>2, <1>3, <2>1, <2>2 DEF Fit, Cash
    <3>2. ASSUME q.op # "return", NEW m \in new.moves
          PROVE  /\ m.type = "SALE_PAYMENT" /\ m.key \in Keys
                 /\ register[m.reg].terminal = TerminalOf[q.sale]
                 /\ \E y \in new.pays : y.key = m.key /\ y.method = "CASH" /\ y.amount = m.amount
      <4>1. CASE m = row
        BY <1>1, <1>3, <2>1, <2>2, <3>2, <4>1, MovementMade DEF row
      <4>2. CASE m \in tx[p].moves
        BY <1>1, <1>2, <2>2, <3>2, <4>2 DEF Fit, Cash
      <4> QED  BY <2>2, <4>1, <4>2
    <3>3. ASSUME q.op = "return", NEW m \in new.moves
          PROVE  m.type = "SALE_REFUND" /\ m.key = q.sale /\ m.amount = CashToRefund(q.sale)
      <4>1. CASE m = row
        BY <1>1, <3>3, <4>1, MovementMade DEF row
      <4>2. CASE m \in tx[p].moves
        BY <1>1, <1>2, <3>3, <4>2 DEF Fit, Cash
      <4> QED  BY <2>2, <4>1, <4>2
    <3> QED  BY <2>2, <2>4, <3>1, <3>2, <3>3 DEF Cash
  <2>10. \A z \in Procs \ {p} : Apart(new, tx[z])
    <3>1. \A z \in Procs \ {p} : r \notin tx[z].held
      BY <1>1 DEF HeldByOther
    <3>2. \A z \in Procs \ {p} : Apart(tx[p], tx[z])
      BY DEF IInv, Transactions
    <3> QED  BY <2>2, <3>1, <3>2 DEF Apart
  <2>11. Fit(new)
    BY <2>5, <2>6, <2>7, <2>8, <2>9 DEF Fit
  <2> QED  BY <1>1, <2>2, <2>3, <2>10, <2>11, Frame
<1> QED  BY <1>4, <1>5, <1>6 DEF UseTill

-----------------------------------------------------------------------------
(* Steps that change the tables.                                           *)

\* What a step has to leave alone for a transaction that does not take it.
LEMMA OtherFits ==
    ASSUME IInv, NEW q \in Procs, tx'[q] = tx[q],
           Working(tx[q]) => /\ sale'[tx[q].req.sale] = sale[tx[q].req.sale]
                             /\ PaymentsOf(tx[q].req.sale)' = PaymentsOf(tx[q].req.sale),
           payments \subseteq payments',
           \A y \in payments' \ payments, z \in tx[q].pays : z.key # y.key,
           \A s \in Sales : sale[s] \notin {"NONE", "DRAFT"} => sale'[s] \notin {"NONE", "DRAFT"},
           \A x \in Products \cap tx[q].held : stock'[x] = stock[x],
           \A r \in Registers : register[r].status # "NONE" =>
               /\ register'[r].status # "NONE" /\ register'[r].terminal = register[r].terminal
    PROVE  Fit(tx[q])'
<1> DEFINE s == tx[q].req.sale
<1>0. /\ tx[q] \in Tx /\ Fit(tx[q]) /\ Staged(tx[q])
      /\ tx[q].pc # "idle" => tx[q].req \in Requests /\ s \in Sales
      /\ tx[q].moves \subseteq Gathered
  BY RequestKnown, RequestFields DEF Tx
<1>1. Staged(tx[q])' /\ FoundAs(tx[q])'
  BY <1>0 DEF Fit, Staged, FoundAs, Working
<1>2. (Paid(s)' = Paid(s) /\ CashToRefund(s)' = CashToRefund(s)) \/ ~Working(tx[q])
  BY DEF Paid, CashToRefund
<1>3. Inserted(tx[q])'
  <2>1. \A z \in tx[q].pays : z.sale = s /\ WithKey(z.key, payments) = {}
    BY <1>0 DEF Fit, Inserted
  <2>2. \A z \in tx[q].pays : z.sale = s /\ WithKey(z.key, payments') = {}
    BY <2>1 DEF WithKey
  <2>3. Working(tx[q]) /\ tx[q].req.op # "return" => Paid(s)' + SumOf(tx[q].pays) <= Total[s]
    BY <1>0, <1>2 DEF Fit, Inserted
  <2> QED  BY <2>2, <2>3 DEF Inserted, Working
<1>4. AtPayment(tx[q])'
  <2>1. tx[q].pc = "insert" => Paid(s)' = Paid(s)
    BY <1>2 DEF Working
  <2> QED  BY <1>0, <2>1 DEF Fit, AtPayment, RowFor
<1>5. OnePayment(tx[q])'
  BY <1>0 DEF Fit, OnePayment, Working, RowFor
<1>6. Goods(tx[q])'
  BY <1>0 DEF Fit, Goods, Working, EnoughStock
<1>7. Cash(tx[q])'
  <2>1. tx[q].pc = "till" => Working(tx[q])
    BY DEF Working
  <2>2. \A m \in tx[q].moves : m.reg \in Registers
    BY <1>0 DEF Gathered
  <2>3. Cash(tx[q])
    BY <1>0 DEF Fit
  <2>4. tx[q].pc = "till" => /\ tx'[q].till \in Registers
                             /\ register'[tx'[q].till].status # "NONE"
                             /\ register'[tx'[q].till].terminal = TerminalFor(tx'[q].req)
    BY <2>3 DEF Cash
  <2>5. \A m \in tx[q].moves : register'[m.reg].status # "NONE"
    BY <2>2, <2>3 DEF Cash
  <2>6. Working(tx[q]) /\ tx[q].req.op # "return" =>
          \A m \in tx'[q].moves :
              /\ m.type = "SALE_PAYMENT" /\ m.key \in Keys
              /\ register'[m.reg].terminal = TerminalOf[tx'[q].req.sale]
              /\ \E y \in tx'[q].pays : y.key = m.key /\ y.method = "CASH" /\ y.amount = m.amount
    BY <2>2, <2>3 DEF Cash
  <2>7. Working(tx[q]) /\ tx[q].req.op = "return" =>
          \A m \in tx'[q].moves : /\ m.type = "SALE_REFUND" /\ m.key = s
                                  /\ m.amount = CashToRefund(s)'
    BY <1>2, <2>3 DEF Cash
  <2> QED  BY <2>4, <2>5, <2>6, <2>7 DEF Cash, Working
<1>8. Answered(tx[q])'
  <2>1. tx[q].pc = "done" => s \in Sales
    BY <1>0
  <2>2. \A k, z : PaidElsewhere(k, z) => PaidElsewhere(k, z)'
    BY DEF PaidElsewhere, WithKey
  <2> QED  BY <1>0, <2>1, <2>2 DEF Fit, Answered, RowFor
<1> QED  BY <1>1, <1>3, <1>4, <1>5, <1>6, <1>7, <1>8 DEF Fit

\* Somebody else's step that changes one sale nobody is at work on, or none.
LEMMA AloneFits ==
    ASSUME IInv, UNCHANGED <<tx, payments, stock>>,
           \A q \in Procs : Working(tx[q]) => sale'[tx[q].req.sale] = sale[tx[q].req.sale],
           \A s \in Sales : sale[s] \notin {"NONE", "DRAFT"} => sale'[s] \notin {"NONE", "DRAFT"},
           \A r \in Registers : register[r].status # "NONE" =>
               /\ register'[r].status # "NONE" /\ register'[r].terminal = register[r].terminal
    PROVE  Transactions'
<1>1. \A s : PaymentsOf(s)' = PaymentsOf(s)
  BY DEF PaymentsOf
<1>2. ASSUME NEW q \in Procs
      PROVE  Fit(tx[q])'
  BY <1>1, OtherFits
<1> QED  BY <1>2 DEF IInv, Transactions, Apart

\* A transaction that ends with its work done leaves the others as they should be: it
\* writes a sale and stock that nobody else holds, and payments with keys of their own.
LEMMA WriteFrame ==
    ASSUME IInv, NEW p \in Procs, tx[p].pc # "idle", Done(p, "ok"),
           \A q \in Procs \ {p} : tx[p].req.sale \notin tx[q].held,
           tx[p].req.op = "pay" => RowFor(tx[p].req, 1) \in payments',
           NEW status \in Statuses \ {"NONE", "DRAFT"},
           sale' = [sale EXCEPT ![tx[p].req.sale] = status],
           payments' = payments \cup tx[p].pays, UNCHANGED register,
           \A x \in Products \ tx[p].held : stock'[x] = stock[x]
    PROVE  Transactions'
<1> DEFINE s == tx[p].req.sale
           new == [IdleTx EXCEPT !.pc = "done", !.req = tx[p].req, !.ans = "ok"]
<1>1. /\ Fit(tx[p]) /\ tx[p].req \in Requests /\ tx[p].req # None /\ s \in Sales
  BY RequestKnown, RequestFields
<1>2. /\ new \in Tx
      /\ new.pc = "done" /\ new.req = tx[p].req /\ new.ans = "ok" /\ new.i = 1
      /\ new.held = {} /\ new.pays = {} /\ new.moves = {}
  BY <1>1, IdleFields DEF Tx, Steps, Answers
<1>3. tx' = [tx EXCEPT ![p] = new]
  BY DEF Done
<1> HIDE DEF new
<1>4. /\ tx' \in [Procs -> Tx] /\ tx'[p] = new
      /\ \A q \in Procs : q # p => tx'[q] = tx[q]
  BY <1>2, <1>3 DEF IInv, Transactions
<1>5. sale'[s] = status /\ \A z \in Sales : z # s => sale'[z] = sale[z]
  BY <1>1 DEF IInv, TablesRight, Typed
<1>6. ASSUME NEW q \in Procs, q # p
      PROVE  Fit(tx[q])'
  <2>1. Apart(tx[p], tx[q]) /\ tx'[q] = tx[q] /\ Staged(tx[q])
    BY <1>4, <1>6, RequestKnown DEF IInv, Transactions
  <2>2. Working(tx[q]) => tx[q].req.sale \in tx[q].held /\ tx[q].req.sale \in Sales
    BY <2>1, AtWork DEF Staged
  <2>3. Working(tx[q]) => tx[q].req.sale # s
    BY <1>6, <2>2
  <2>4. \A y \in tx[p].pays : y.sale = s
    BY <1>1 DEF Fit, Inserted
  <2>5. Working(tx[q]) => /\ sale'[tx[q].req.sale] = sale[tx[q].req.sale]
                          /\ PaymentsOf(tx[q].req.sale)' = PaymentsOf(tx[q].req.sale)
    <3> SUFFICES ASSUME Working(tx[q])
                 PROVE  /\ sale'[tx[q].req.sale] = sale[tx[q].req.sale]
                        /\ PaymentsOf(tx[q].req.sale)' = PaymentsOf(tx[q].req.sale)
      OBVIOUS
    <3>1. sale'[tx[q].req.sale] = sale[tx[q].req.sale]
      BY <1>5, <2>2, <2>3
    <3>2. {y \in payments' : y.sale = tx[q].req.sale} = {y \in payments : y.sale = tx[q].req.sale}
      BY <2>3, <2>4
    <3> QED  BY <2>1, <3>1, <3>2 DEF PaymentsOf
  <2>6. \A y \in payments' \ payments, z \in tx[q].pays : z.key # y.key
    BY <2>1 DEF Apart
  <2>7. \A z \in Sales : sale[z] \notin {"NONE", "DRAFT"} => sale'[z] \notin {"NONE", "DRAFT"}
    BY <1>5
  <2>8. \A x \in Products \cap tx[q].held : stock'[x] = stock[x]
    BY <2>1 DEF Apart
  <2> QED  BY <2>1, <2>5, <2>6, <2>7, <2>8, OtherFits
<1>7. Fit(tx[p])'
  <2>1. /\ tx'[p].pc = "done" /\ tx'[p].req = tx[p].req /\ tx'[p].i = 1
        /\ tx'[p].held = {} /\ tx'[p].pays = {} /\ tx'[p].moves = {}
    BY <1>2, <1>4
  <2>2. Staged(tx[p])'
    BY <1>1, <2>1, FS_EmptySet DEF Staged, Working
  <2>3. /\ tx[p].req.op = "pay" => RowFor(tx[p].req, 1) \in payments'
        /\ sale'[s] \notin {"NONE", "DRAFT"}
    BY <1>1, <1>5
  <2>4. Answered(tx[p])'
    BY <2>1, <2>3 DEF Answered, RowFor
  <2>5. FoundAs(tx[p])' /\ Inserted(tx[p])' /\ AtPayment(tx[p])'
    BY <2>1 DEF FoundAs, Inserted, AtPayment, Working
  <2>6. OnePayment(tx[p])' /\ Goods(tx[p])' /\ Cash(tx[p])'
    BY <2>1 DEF OnePayment, Goods, Cash, Working
  <2> QED  BY <2>2, <2>4, <2>5, <2>6 DEF Fit
<1>8. \A q, z \in Procs : q # z => Apart(tx[q], tx[z])'
  BY <1>2, <1>4 DEF IInv, Transactions, Apart
<1>9. \A q \in Procs : Fit(tx[q])'
  BY <1>6, <1>7
<1> QED  BY <1>4, <1>8, <1>9 DEF Transactions

\* In particular a commit: it holds its sale.
LEMMA CommitFrame ==
    ASSUME IInv, NEW p \in Procs, tx[p].pc = "commit", Done(p, "ok"),
           NEW status \in Statuses \ {"NONE", "DRAFT"},
           sale' = [sale EXCEPT ![tx[p].req.sale] = status],
           payments' = payments \cup tx[p].pays, UNCHANGED register,
           \A x \in Products \ tx[p].held : stock'[x] = stock[x]
    PROVE  Transactions'
<1>1. Working(tx[p]) /\ tx[p].pc # "idle"
  BY DEF Working
<1>2. Fit(tx[p]) /\ tx[p].req.sale \in tx[p].held
  BY <1>1, AtWork DEF Fit, Staged
<1>3. \A q \in Procs \ {p} : tx[p].req.sale \notin tx[q].held
  BY <1>2 DEF IInv, Transactions, Apart
<1>4. tx[p].req.op = "pay" => RowFor(tx[p].req, 1) \in payments'
  BY <1>1, <1>2 DEF Fit, OnePayment
<1> QED  BY <1>1, <1>3, <1>4, WriteFrame

\* What a set of sales takes of a product.
GoodsOf(S, x) == SumFunction([s \in S |-> Items[s][x]])

LEMMA GoodsAdd ==
    ASSUME NEW S \in SUBSET Sales, IsFiniteSet(S), NEW s \in Sales \ S, NEW x \in Products
    PROVE  /\ GoodsOf(S \cup {s}, x) = GoodsOf(S, x) + Items[s][x]
           /\ GoodsOf(S, x) \in Int /\ Items[s][x] \in Nat
<1> DEFINE T == S \cup {s}
           g == [z \in S |-> Items[z][x]]
           h == [z \in T |-> Items[z][x]]
<1>1. /\ DOMAIN g = S /\ DOMAIN h = T
      /\ \A z \in S : g[z] = h[z]
      /\ \A z \in T : h[z] \in Int
      /\ h[s] = Items[s][x] /\ Items[s][x] \in Nat
  BY ItemsAssumption
<1> HIDE DEF g, h
<1>2. SumFunctionOnSet(h, T) = h[s] + SumFunctionOnSet(h, S)
  BY <1>1, SumAdd
<1>3. SumFunctionOnSet(h, S) = SumFunctionOnSet(g, S)
  BY <1>1, SumSame
<1>4. SumFunctionOnSet(h, S) \in Int
  BY <1>1, SumInt
<1>5. SumFunction(h) = SumFunction(g) + Items[s][x] /\ SumFunction(g) \in Int
  BY <1>1, <1>2, <1>3, <1>4 DEF SumFunction
<1> QED  BY <1>1, <1>5 DEF GoodsOf, g, h

\* A transaction at its commit.
LEMMA AtCommit ==
    ASSUME IInv, NEW p \in Procs, tx[p].pc = "commit"
    PROVE  /\ Working(tx[p]) /\ Fit(tx[p])
           /\ tx[p].req \in Requests /\ tx[p].req.sale \in Sales
           /\ sale[tx[p].req.sale] \in {"DRAFT"} \cup OpenForPayment
           /\ tx[p].req.op \in {"confirm", "pay", "return"}
           /\ tx[p].req.op = "confirm" => sale[tx[p].req.sale] = "DRAFT"
           /\ tx[p].req.op # "confirm" => sale[tx[p].req.sale] \in OpenForPayment
           /\ tx[p].pays \subseteq Row /\ IsFiniteSet(tx[p].pays)
           /\ \A y \in tx[p].pays : y.sale = tx[p].req.sale /\ y \notin payments
           /\ tx[p].moves \subseteq Gathered /\ tx[p].moves \subseteq Movement
<1>1. Working(tx[p])
  BY DEF Working
<1>2. /\ tx[p] \in Tx /\ Fit(tx[p]) /\ tx[p].req \in Requests /\ tx[p].req.sale \in Sales
      /\ tx[p].req.op \in {"confirm", "pay", "return"} /\ tx[p].pays \subseteq Row
  BY <1>1, AtWork
<1>3. /\ tx[p].req.op = "confirm" => sale[tx[p].req.sale] = "DRAFT"
      /\ tx[p].req.op # "confirm" => sale[tx[p].req.sale] \in OpenForPayment
  BY <1>1, <1>2 DEF Fit, FoundAs
<1>4. IsFiniteSet(tx[p].pays)
  BY <1>2 DEF Fit, Staged
<1>5. \A y \in tx[p].pays : y.sale = tx[p].req.sale /\ y \notin payments
  BY <1>2 DEF Fit, Inserted, WithKey
<1>6. tx[p].moves \subseteq Gathered /\ Gathered \subseteq Movement
  BY <1>2 DEF Tx, Gathered, Movement, IncreaseTypes, DecreaseTypes
<1> QED  BY <1>1, <1>2, <1>3, <1>4, <1>5, <1>6

\* The movements of a commit go with its payments, or with its refund.
LEMMA CommitTrail ==
    ASSUME IInv, NEW p \in Procs, tx[p].pc = "commit",
           NEW status, sale' = [sale EXCEPT ![tx[p].req.sale] = status],
           tx[p].req.op = "return" => status = "REFUNDED",
           payments' = payments \cup tx[p].pays, movements' = movements \cup tx[p].moves,
           UNCHANGED register
    PROVE  Trail' /\ CashTrailMatches'
<1> DEFINE s == tx[p].req.sale
<1>1. /\ Working(tx[p]) /\ Fit(tx[p]) /\ s \in Sales /\ sale[s] # "REFUNDED"
      /\ \A y \in tx[p].pays : y.sale = s
      /\ tx[p].moves \subseteq Gathered
      /\ tx[p].req.op = "return" => tx[p].pays = {}
  BY AtCommit DEF OpenForPayment, Fit, Staged
<1>2. sale'[s] = status /\ \A z \in Sales : z # s => sale'[z] = sale[z]
  BY <1>1 DEF IInv, TablesRight, Typed
<1>3. Trail'
  <2>1. \A m \in tx[p].moves :
           /\ register[m.reg].status # "NONE"
           /\ \/ m.type = "SALE_PAYMENT" /\ m.key \in Keys
              \/ m.type = "SALE_REFUND" /\ m.key \in Sales
    BY <1>1 DEF Fit, Cash
  <2> QED  BY <2>1 DEF IInv, TablesRight, Trail
<1>4. ASSUME NEW m \in movements
      PROVE  /\ m.type = "SALE_PAYMENT" =>
                   \E y \in payments' : /\ y.key = m.key /\ y.method = "CASH"
                                        /\ y.amount = m.amount
                                        /\ register[m.reg].terminal = TerminalOf[y.sale]
             /\ m.type = "SALE_REFUND" =>
                   /\ sale'[m.key] = "REFUNDED"
                   /\ m.amount = SumOf({y \in payments' : y.sale = m.key /\ y.method = "CASH"})
  <2>1. CASE m.type = "SALE_PAYMENT"
    BY <2>1 DEF IInv, TablesRight, CashTrailMatches
  <2>2. CASE m.type = "SALE_REFUND"
    <3>1. /\ sale[m.key] = "REFUNDED" /\ m.key \in Sales
          /\ m.amount = SumOf({y \in payments : y.sale = m.key /\ y.method = "CASH"})
      BY <2>2 DEF IInv, TablesRight, CashTrailMatches, Trail
    <3>2. m.key # s
      BY <1>1, <3>1
    <3>3. {y \in payments' : y.sale = m.key /\ y.method = "CASH"}
             = {y \in payments : y.sale = m.key /\ y.method = "CASH"}
      BY <1>1, <3>2
    <3> QED  BY <1>2, <2>2, <3>1, <3>2, <3>3
  <2> QED  BY <2>1, <2>2
<1>5. ASSUME NEW m \in tx[p].moves
      PROVE  /\ m.type = "SALE_PAYMENT" =>
                   \E y \in payments' : /\ y.key = m.key /\ y.method = "CASH"
                                        /\ y.amount = m.amount
                                        /\ register[m.reg].terminal = TerminalOf[y.sale]
             /\ m.type = "SALE_REFUND" =>
                   /\ sale'[m.key] = "REFUNDED"
                   /\ m.amount = SumOf({y \in payments' : y.sale = m.key /\ y.method = "CASH"})
  <2>1. CASE tx[p].req.op = "return"
    <3>1. m.type = "SALE_REFUND" /\ m.key = s /\ m.amount = CashToRefund(s)
      BY <1>1, <2>1 DEF Fit, Cash
    <3>2. {y \in payments' : y.sale = s /\ y.method = "CASH"} = CashOf(PaymentsOf(s))
      BY <1>1, <2>1 DEF CashOf, PaymentsOf
    <3> QED  BY <1>2, <2>1, <3>1, <3>2 DEF CashToRefund
  <2>2. CASE tx[p].req.op # "return"
    BY <1>1, <2>2 DEF Fit, Cash
  <2> QED  BY <2>1, <2>2
<1>6. CashTrailMatches'
  BY <1>4, <1>5 DEF CashTrailMatches
<1> QED  BY <1>3, <1>6

\* What the ledger sees of a write to the rows of one sale, or to none.
LEMMA LedgerPaid ==
    ASSUME NEW s \in Sales, NEW amount, Paid(s)' = amount,
           \A z \in Sales : z # s => PaymentsOf(z)' = PaymentsOf(z)
    PROVE  PaidOf' = [PaidOf EXCEPT ![s] = amount]
<1>1. PaidOf'[s] = amount /\ DOMAIN PaidOf' = Sales
  BY DEF PaidOf, Paid
<1>2. \A z \in Sales : z # s => PaidOf'[z] = PaidOf[z]
  BY DEF PaidOf
<1> QED  BY <1>1, <1>2 DEF PaidOf

LEMMA LedgerUnpaid ==
    ASSUME UNCHANGED payments
    PROVE  UNCHANGED PaidOf
<1>1. \A z : PaymentsOf(z)' = PaymentsOf(z)
  BY DEF PaymentsOf
<1> QED  BY <1>1 DEF PaidOf

LEMMA LedgerUnrefunded ==
    ASSUME UNCHANGED refunds
    PROVE  UNCHANGED RefundedOf
BY DEF RefundedOf

LEMMA ConfirmCommits ==
    ASSUME IInv, NEW p \in Procs, CommitConfirm(p)
    PROVE  IInv' /\ Ledger!Next
<1>0. PICK s \in Sales : s = tx[p].req.sale
  BY AtCommit DEF CommitConfirm, At
<1> DEFINE paid == SumOf(tx[p].pays)
           status == StatusFor(s, paid)
<1>1. /\ tx[p].pc = "commit" /\ tx[p].req.op = "confirm"
      /\ sale' = [sale EXCEPT ![s] = status]
      /\ stock' = [x \in Products |-> stock[x] - Items[s][x]]
      /\ payments' = payments \cup tx[p].pays
      /\ movements' = movements \cup tx[p].moves
      /\ receivable' = [receivable EXCEPT ![s] = ReceivableMade(s, status)]
      /\ Done(p, "ok")
      /\ UNCHANGED <<refunds, register>>
  BY <1>0 DEF CommitConfirm, At
<1>2. /\ Working(tx[p]) /\ Fit(tx[p]) /\ s \in Sales /\ sale[s] = "DRAFT"
      /\ tx[p].pays \subseteq Row /\ IsFiniteSet(tx[p].pays)
      /\ \A y \in tx[p].pays : y.sale = s
      /\ tx[p].moves \subseteq Movement
  BY <1>0, <1>1, AtCommit
<1>3. /\ PaymentsOf(s) = {} /\ receivable[s] = "NONE" /\ Paid(s) = 0
  BY <1>2, SumOfEmpty DEF IInv, TablesRight, Tallies, Paid
<1>4. paid \in Nat /\ paid <= Total[s] /\ Total[s] \in Nat
  <2>1. paid \in Nat /\ Total[s] \in Nat
    BY <1>0, <1>2, AtWork
  <2>2. Paid(s) + paid <= Total[s]
    BY <1>0, <1>1, <1>2 DEF Fit, Inserted
  <2> QED  BY <1>3, <2>1, <2>2
<1>5. status \in OpenForPayment /\ (status # "PAID" <=> paid < Total[s])
  BY <1>4 DEF StatusFor, OpenForPayment
<1>6. /\ PaymentsOf(s)' = tx[p].pays
      /\ \A z \in Sales : z # s => PaymentsOf(z)' = PaymentsOf(z)
  <2>1. {y \in payments' : y.sale = s} = tx[p].pays
    BY <1>1, <1>2, <1>3 DEF PaymentsOf
  <2>2. \A z \in Sales : z # s => {y \in payments' : y.sale = z} = {y \in payments : y.sale = z}
    BY <1>1, <1>2
  <2> QED  BY <2>1, <2>2 DEF PaymentsOf
<1>7. /\ sale'[s] = status /\ \A z \in Sales : z # s => sale'[z] = sale[z]
      /\ receivable'[s] = ReceivableMade(s, status)
      /\ \A z \in Sales : z # s => receivable'[z] = receivable[z]
  BY <1>1, <1>2 DEF IInv, TablesRight, Typed
<1>8. ReceivableMade(s, status) \in {"NONE", "PENDING"}
  BY <1>3 DEF ReceivableMade
<1>9. \A x \in Products : /\ Items[s][x] \in Nat /\ Items[s][x] <= stock[x]
                          /\ Items[s][x] > 0 => x \in tx[p].held
  <2>1. \A x \in Products : Items[s][x] \in Nat /\ stock[x] \in Nat
    BY <1>2, ItemsAssumption DEF IInv, TablesRight, Typed
  <2>2. \A x \in Products : Items[s][x] > 0 => x \in tx[p].held
    BY <1>0, <1>1, <1>2 DEF Fit, Goods
  <2>3. \A x \in Products \cap tx[p].held : stock[x] >= Items[s][x]
    BY <1>0, <1>1, <1>2 DEF Fit, Goods, EnoughStock
  <2> QED  BY <2>1, <2>2, <2>3
<1>10. Typed'
  <2>1. \A x \in Products : stock[x] - Items[s][x] \in Nat
    BY <1>9 DEF IInv, TablesRight, Typed
  <2>2. stock' \in [Products -> Nat]
    BY <1>1, <2>1
  <2>3. status \in Statuses
    BY <1>5 DEF OpenForPayment, Statuses
  <2> QED  BY <1>1, <1>2, <1>8, <2>2, <2>3 DEF IInv, TablesRight, Typed
<1>11. SoldSales' = SoldSales \cup {s} /\ s \notin SoldSales /\ SoldSales \subseteq Sales
  BY <1>2, <1>5, <1>7 DEF SoldSales, OpenForPayment
<1>12. Finite'
  <2>1. tx[p].moves \subseteq movements'
    BY <1>1
  <2>2. IsFiniteSet(tx[p].moves)
    BY <1>1, <1>2 DEF Fit, Staged
  <2>3. IsFiniteSet(payments') /\ IsFiniteSet(movements')
    BY <1>1, <1>2, <2>2, FS_Union DEF IInv, TablesRight, Finite
  <2>4. IsFiniteSet(SoldSales')
    BY <1>11, FS_AddElement DEF IInv, TablesRight, Finite
  <2> QED  BY <1>1, <2>3, <2>4 DEF IInv, TablesRight, Finite
<1>13. Tallies'
  <2> SUFFICES ASSUME NEW z \in Sales
               PROVE  (/\ sale[z] \in {"NONE", "DRAFT", "CANCELLED"} =>
                             PaymentsOf(z) = {} /\ receivable[z] = "NONE"
                       /\ sale[z] \in OpenForPayment => sale[z] = StatusFor(z, Paid(z))
                       /\ Paid(z) <= Total[z]
                       /\ sale[z] \in {"CONFIRMED", "PARTIALLY_PAID"} =>
                             receivable[z] \in {"NONE", "PENDING"})'
    BY DEF Tallies
  <2>1. CASE z = s
    BY <1>4, <1>5, <1>6, <1>7, <1>8, <2>1 DEF Paid, OpenForPayment, StatusFor
  <2>2. CASE z # s
    BY <1>6, <1>7, <2>2 DEF IInv, TablesRight, Tallies, Paid, StatusFor
  <2> QED  BY <2>1, <2>2
<1>14. Trail' /\ CashTrailMatches'
  BY <1>0, <1>1, CommitTrail
<1>15. RefundedOnce'
  <2>1. \A a \in refunds : a.sale \in Sales
    BY DEF IInv, TablesRight, Typed
  <2> QED  BY <1>1, <1>2, <1>7, <2>1 DEF IInv, TablesRight, RefundedOnce
<1>16. StockConserved'
  <2> SUFFICES ASSUME NEW x \in Products
               PROVE  stock'[x] + GoodsOf(SoldSales', x) = Stock0[x]
    BY DEF StockConserved, GoodsOf
  <2>1. stock[x] + GoodsOf(SoldSales, x) = Stock0[x] /\ stock[x] \in Nat
    BY DEF IInv, TablesRight, Typed, StockConserved, GoodsOf
  <2>2. /\ GoodsOf(SoldSales \cup {s}, x) = GoodsOf(SoldSales, x) + Items[s][x]
        /\ GoodsOf(SoldSales, x) \in Int /\ Items[s][x] \in Nat
    BY <1>2, <1>11, GoodsAdd DEF IInv, TablesRight, Finite
  <2>3. stock'[x] = stock[x] - Items[s][x]
    BY <1>1
  <2> QED  BY <1>11, <2>1, <2>2, <2>3
<1>17. Transactions'
  <2>1. \A x \in Products \ tx[p].held : stock'[x] = stock[x]
    BY <1>1, <1>9 DEF IInv, TablesRight, Typed
  <2>2. status \in Statuses \ {"NONE", "DRAFT"}
    BY <1>5 DEF OpenForPayment, Statuses
  <2> QED  BY <1>0, <1>1, <2>1, <2>2, CommitFrame
<1>18. Ledger!Confirm(s, paid)
  <2>1. PaidOf' = [PaidOf EXCEPT ![s] = paid]
    BY <1>6, LedgerPaid DEF Paid
  <2>2. UNCHANGED RefundedOf
    BY <1>1, LedgerUnrefunded
  <2>3. status = Ledger!StatusFor(s, paid)
    BY <1>4 DEF StatusFor, Ledger!StatusFor
  <2>4. ReceivableMade(s, status) =
           IF s \in Credit /\ paid < Total[s] THEN "PENDING" ELSE receivable[s]
    BY <1>5 DEF ReceivableMade
  <2> HIDE DEF paid, status
  <2> QED  BY <1>1, <1>2, <1>4, <1>9, <2>1, <2>2, <2>3, <2>4 DEF Ledger!Confirm, IInv, TablesRight, Typed
<1>19. Ledger!Next
  <2>1. paid \in 0..Total[s]
    BY <1>4
  <2> QED  BY <1>18, <2>1 DEF Ledger!Next
<1>20. Paid(s)' = paid /\ \A z \in Sales : z # s => Paid(z)' = Paid(z)
  BY <1>6 DEF Paid
<1>21. DebtTells'
  <2>1. ASSUME NEW z \in Sales, z # s
        PROVE  sale'[z] = sale[z] /\ receivable'[z] = receivable[z] /\ Paid(z)' = Paid(z)
    BY <1>7, <1>20, <2>1
  <2>2. /\ receivable'[s] = "PENDING" <=> s \in Credit /\ Paid(s)' < Total[s]
        /\ receivable'[s] \in {"NONE", "PENDING"} /\ sale'[s] \in OpenForPayment
    BY <1>3, <1>5, <1>7, <1>8, <1>20 DEF ReceivableMade
  <2> HIDE DEF paid, status
  <2> QED  BY <2>1, <2>2 DEF IInv, TablesRight, DebtTells
<1>22. RefundedInFull'
  <2>1. \A a \in refunds : a.sale \in Sales \ {s}
    BY <1>2 DEF IInv, TablesRight, Typed, RefundedOnce
  <2>2. sale'[s] # "REFUNDED"
    BY <1>5, <1>7 DEF OpenForPayment
  <2> HIDE DEF paid, status
  <2> QED  BY <1>1, <1>7, <1>20, <2>1, <2>2 DEF IInv, TablesRight, RefundedInFull
<1> QED  BY <1>10, <1>12, <1>13, <1>14, <1>15, <1>16, <1>17, <1>19, <1>21, <1>22 DEF IInv, TablesRight

LEMMA PaymentCommits ==
    ASSUME IInv, NEW p \in Procs, CommitPayment(p)
    PROVE  IInv' /\ Ledger!Next
<1>0. PICK s \in Sales : s = tx[p].req.sale
  BY AtCommit DEF CommitPayment, At
<1> DEFINE q == tx[p].req
           row == RowFor(q, 1)
           amount == q.pays[1].amount
           status == IF Paid(s) + amount >= Total[s] THEN "PAID" ELSE "PARTIALLY_PAID"
<1>1. /\ tx[p].pc = "commit" /\ q.op = "pay"
      /\ sale' = [sale EXCEPT ![s] = status]
      /\ payments' = payments \cup tx[p].pays
      /\ movements' = movements \cup tx[p].moves
      /\ receivable' = [receivable EXCEPT ![s] = ReceivableAfter(s, status)]
      /\ Done(p, "ok")
      /\ UNCHANGED <<refunds, stock, register>>
  BY <1>0 DEF CommitPayment, At, PaidBefore, Paid
<1>2. /\ Working(tx[p]) /\ Fit(tx[p]) /\ q \in Requests /\ sale[s] \in OpenForPayment
      /\ tx[p].pays \subseteq Row /\ IsFiniteSet(tx[p].pays)
      /\ tx[p].moves \subseteq Movement
  BY <1>0, <1>1, AtCommit
<1>3. /\ row \in Row /\ row.sale = s /\ row.amount = amount /\ amount \in Nat \ {0}
  <2>1. 1 \in 1..Len(q.pays)
    BY <1>1, <1>2, RequestFields
  <2> QED  BY <1>0, <1>2, <2>1, RequestFields
<1>4. tx[p].pays = {row}
  BY <1>1, <1>2 DEF Fit, OnePayment
<1>5. row \notin payments
  BY <1>0, <1>1, <1>4, AtCommit
<1> HIDE DEF row, amount
<1>6. /\ PaymentsOf(s)' = PaymentsOf(s) \cup {row} /\ row \notin PaymentsOf(s)
      /\ \A z \in Sales : z # s => PaymentsOf(z)' = PaymentsOf(z)
  <2>1. {y \in payments' : y.sale = s} = {y \in payments : y.sale = s} \cup {row}
    BY <1>1, <1>3, <1>4
  <2>2. \A z \in Sales : z # s => {y \in payments' : y.sale = z} = {y \in payments : y.sale = z}
    BY <1>1, <1>3, <1>4
  <2> QED  BY <1>5, <2>1, <2>2 DEF PaymentsOf
<1>7. /\ Paid(s) \in Nat /\ Total[s] \in Nat /\ Paid(s)' = Paid(s) + amount
      /\ Paid(s) + amount <= Total[s]
  <2>1. IsFiniteSet(PaymentsOf(s)) /\ PaymentsOf(s) \subseteq Row /\ Paid(s) \in Nat /\ Total[s] \in Nat
    BY PaidFields, TotalAssumption DEF IInv, TablesRight
  <2>2. \A z \in PaymentsOf(s) \cup {row} : z.amount \in Nat
    BY <1>3, <2>1 DEF Row
  <2>3. SumOf(PaymentsOf(s) \cup {row}) = SumOf(PaymentsOf(s)) + amount
    BY <1>3, <1>6, <2>1, <2>2, SumOfAdd
  <2>4. SumOf(tx[p].pays) = amount
    BY <1>3, <1>4, SumOfOne
  <2>5. Paid(s) + SumOf(tx[p].pays) <= Total[s]
    BY <1>0, <1>1, <1>2 DEF Fit, Inserted
  <2> QED  BY <1>6, <2>1, <2>3, <2>4, <2>5 DEF Paid
<1>8. /\ status \in OpenForPayment /\ status # "CONFIRMED" /\ status = StatusFor(s, Paid(s)')
      /\ sale[s] \in {"CONFIRMED", "PARTIALLY_PAID"}
  <2>1. status = StatusFor(s, Paid(s)')
    BY <1>3, <1>7 DEF StatusFor
  <2>2. sale[s] = StatusFor(s, Paid(s)) /\ Paid(s) < Total[s]
    BY <1>2, <1>3, <1>7 DEF IInv, TablesRight, Tallies
  <2> QED  BY <1>7, <2>1, <2>2 DEF StatusFor, OpenForPayment
<1>9. /\ sale'[s] = status /\ \A z \in Sales : z # s => sale'[z] = sale[z]
      /\ receivable'[s] = ReceivableAfter(s, status)
      /\ \A z \in Sales : z # s => receivable'[z] = receivable[z]
  BY <1>1 DEF IInv, TablesRight, Typed
<1>10. /\ ReceivableAfter(s, status) \in {"NONE", "PENDING", "PAID"}
       /\ status # "PAID" => ReceivableAfter(s, status) \in {"NONE", "PENDING"}
  BY DEF ReceivableAfter
<1>11. Typed'
  <2>1. status \in Statuses
    BY <1>8 DEF OpenForPayment, Statuses
  <2> QED  BY <1>1, <1>2, <1>10, <2>1 DEF IInv, TablesRight, Typed
<1>12. SoldSales' = SoldSales
  <2>1. s \in SoldSales /\ s \in SoldSales'
    BY <1>2, <1>8, <1>9 DEF SoldSales
  <2> QED  BY <1>9, <2>1 DEF SoldSales
<1>13. Finite'
  <2>1. IsFiniteSet(tx[p].moves)
    BY <1>2 DEF Fit, Staged
  <2> QED  BY <1>1, <1>2, <1>12, <2>1, FS_Union DEF IInv, TablesRight, Finite
<1>14. Tallies'
  <2> SUFFICES ASSUME NEW z \in Sales
               PROVE  (/\ sale[z] \in {"NONE", "DRAFT", "CANCELLED"} =>
                             PaymentsOf(z) = {} /\ receivable[z] = "NONE"
                       /\ sale[z] \in OpenForPayment => sale[z] = StatusFor(z, Paid(z))
                       /\ Paid(z) <= Total[z]
                       /\ sale[z] \in {"CONFIRMED", "PARTIALLY_PAID"} =>
                             receivable[z] \in {"NONE", "PENDING"})'
    BY DEF Tallies
  <2>1. CASE z = s
    BY <1>7, <1>8, <1>9, <1>10, <2>1 DEF OpenForPayment, StatusFor
  <2>2. CASE z # s
    BY <1>6, <1>9, <2>2 DEF IInv, TablesRight, Tallies, Paid, StatusFor
  <2> QED  BY <2>1, <2>2
<1>15. Trail' /\ CashTrailMatches'
  BY <1>0, <1>1, CommitTrail
<1>16. RefundedOnce'
  <2>1. \A a \in refunds : a.sale \in Sales /\ sale[a.sale] = "REFUNDED"
    BY DEF IInv, TablesRight, Typed, RefundedOnce
  <2>2. sale[s] # "REFUNDED"
    BY <1>8
  <2> QED  BY <1>1, <1>9, <2>1, <2>2 DEF IInv, TablesRight, RefundedOnce
<1>17. StockConserved'
  BY <1>1, <1>12 DEF IInv, TablesRight, StockConserved
<1>18. Transactions'
  <2>1. status \in Statuses \ {"NONE", "DRAFT"}
    BY <1>8 DEF OpenForPayment, Statuses
  <2> QED  BY <1>0, <1>1, <2>1, CommitFrame
<1>19. Ledger!Pay(s, amount)
  <2>0. PaidOf[s] = Paid(s)
    BY DEF PaidOf, Paid
  <2>1. PaidOf' = [PaidOf EXCEPT ![s] = @ + amount]
    BY <1>6, <1>7, <2>0, LedgerPaid
  <2>2. UNCHANGED RefundedOf
    BY <1>1, LedgerUnrefunded
  <2>3. status = Ledger!StatusFor(s, PaidOf[s] + amount)
    BY <1>3, <1>7, <2>0 DEF Ledger!StatusFor
  <2>4. receivable[s] \in {"NONE", "PENDING"}
    BY <1>8 DEF IInv, TablesRight, Tallies
  <2>5. ReceivableAfter(s, status) =
           IF receivable[s] # "NONE" /\ PaidOf[s] + amount = Total[s] THEN "PAID" ELSE receivable[s]
    BY <1>3, <1>7, <2>0, <2>4 DEF ReceivableAfter
  <2>6. amount > 0 /\ PaidOf[s] + amount <= Total[s]
    BY <1>3, <1>7, <2>0
  <2> HIDE DEF status
  <2> QED  BY <1>1, <1>8, <2>1, <2>2, <2>3, <2>5, <2>6 DEF Ledger!Pay
<1>20. Ledger!Next
  <2>1. amount \in 0..Total[s]
    BY <1>3, <1>7
  <2> QED  BY <1>19, <2>1 DEF Ledger!Next
<1>21. \A z \in Sales : z # s => Paid(z)' = Paid(z)
  BY <1>6 DEF Paid
<1>22. DebtTells'
  <2>1. ASSUME NEW z \in Sales, z # s
        PROVE  sale'[z] = sale[z] /\ receivable'[z] = receivable[z] /\ Paid(z)' = Paid(z)
    BY <1>9, <1>21, <2>1
  <2>2. Paid(s) < Total[s]
    BY <1>3, <1>7
  <2>3. IF s \in Credit THEN receivable[s] = "PENDING" ELSE receivable[s] = "NONE"
    BY <1>8, <2>2 DEF IInv, TablesRight, Typed, DebtTells, OpenForPayment
  <2>4. /\ receivable'[s] = "PENDING" <=> s \in Credit /\ status # "PAID"
        /\ receivable'[s] = "PAID" => s \in Credit /\ status = "PAID"
        /\ receivable'[s] # "CANCELLED"
    BY <1>9, <2>3 DEF ReceivableAfter
  <2>5. status # "PAID" <=> Paid(s)' < Total[s]
    BY <1>3, <1>7
  <2> HIDE DEF status
  <2> QED  BY <1>8, <1>9, <2>1, <2>4, <2>5 DEF IInv, TablesRight, DebtTells
<1>23. RefundedInFull'
  <2>1. \A a \in refunds : a.sale \in Sales \ {s}
    BY <1>8 DEF IInv, TablesRight, Typed, RefundedOnce
  <2>2. sale'[s] # "REFUNDED"
    BY <1>8, <1>9 DEF OpenForPayment
  <2> HIDE DEF status
  <2> QED  BY <1>1, <1>9, <1>21, <2>1, <2>2 DEF IInv, TablesRight, RefundedInFull
<1> QED  BY <1>11, <1>13, <1>14, <1>15, <1>16, <1>17, <1>18, <1>20, <1>22, <1>23 DEF IInv, TablesRight

LEMMA ReturnCommits ==
    ASSUME IInv, NEW p \in Procs, CommitReturn(p)
    PROVE  IInv' /\ Ledger!Next
<1>0. PICK s \in Sales : s = tx[p].req.sale
  BY AtCommit DEF CommitReturn, At
<1> DEFINE paid == Paid(s)
           new == RefundOf(s, paid)
<1>1. /\ tx[p].pc = "commit" /\ tx[p].req.op = "return"
      /\ sale' = [sale EXCEPT ![s] = "REFUNDED"]
      /\ stock' = [x \in Products |-> stock[x] + Items[s][x]]
      /\ refunds' = IF paid > 0 THEN refunds \cup {new} ELSE refunds
      /\ movements' = movements \cup tx[p].moves
      /\ receivable' = [receivable EXCEPT ![s] = ReceivableDropped(s)]
      /\ Done(p, "ok")
      /\ UNCHANGED <<payments, register>>
  BY <1>0 DEF CommitReturn, At, Paid
<1>2. /\ Working(tx[p]) /\ Fit(tx[p]) /\ sale[s] \in OpenForPayment
      /\ tx[p].moves \subseteq Movement /\ tx[p].pays = {}
  BY <1>0, <1>1, AtCommit DEF Fit, Staged
<1>3. payments' = payments \cup tx[p].pays
  BY <1>1, <1>2
<1>4. /\ sale'[s] = "REFUNDED" /\ \A z \in Sales : z # s => sale'[z] = sale[z]
      /\ receivable'[s] = ReceivableDropped(s)
      /\ \A z \in Sales : z # s => receivable'[z] = receivable[z]
  BY <1>1 DEF IInv, TablesRight, Typed
<1>5. \A x \in Products : /\ Items[s][x] \in Nat
                          /\ Items[s][x] > 0 => x \in tx[p].held
  <2>1. \A x \in Products : Items[s][x] \in Nat
    BY ItemsAssumption
  <2> QED  BY <1>0, <1>1, <1>2, <2>1 DEF Fit, Goods
<1>6. /\ new \in [id : Nat, sale : Sales, amount : Nat] /\ new.sale = s /\ paid \in Nat
  <2>1. Paid(s) \in Nat
    BY PaidFields DEF IInv, TablesRight
  <2>2. Cardinality(refunds) \in Nat
    BY FS_CardinalityType DEF IInv, TablesRight, Finite
  <2> QED  BY <2>1, <2>2 DEF RefundOf
<1> HIDE DEF new
<1>7. Typed'
  <2>1. stock' \in [Products -> Nat]
    BY <1>1, <1>5 DEF IInv, TablesRight, Typed
  <2>2. ReceivableDropped(s) \in {"NONE", "CANCELLED"} /\ "REFUNDED" \in Statuses
    BY DEF ReceivableDropped, Statuses
  <2> QED  BY <1>1, <1>2, <1>6, <2>1, <2>2 DEF IInv, TablesRight, Typed
<1>8. /\ SoldSales' = SoldSales \ {s} /\ s \in SoldSales /\ SoldSales \subseteq Sales
      /\ IsFiniteSet(SoldSales \ {s})
  <2>1. SoldSales' = SoldSales \ {s} /\ s \in SoldSales /\ SoldSales \subseteq Sales
    BY <1>2, <1>4 DEF SoldSales, OpenForPayment
  <2> QED  BY <2>1, FS_Subset DEF IInv, TablesRight, Finite
<1>9. Finite'
  <2>1. IsFiniteSet(tx[p].moves)
    BY <1>2 DEF Fit, Staged
  <2>2. IsFiniteSet(refunds')
    BY <1>1, FS_AddElement DEF IInv, TablesRight, Finite
  <2> QED  BY <1>1, <1>8, <2>1, <2>2, FS_Union DEF IInv, TablesRight, Finite
<1>10. \A z : PaymentsOf(z)' = PaymentsOf(z)
  BY <1>1 DEF PaymentsOf
<1>11. Tallies'
  BY <1>4, <1>10 DEF IInv, TablesRight, Tallies, Paid, OpenForPayment, StatusFor
<1>12. Trail' /\ CashTrailMatches'
  BY <1>0, <1>1, <1>3, CommitTrail
<1>13. RefundedOnce'
  <2>1. \A a \in refunds : a.sale \in Sales /\ sale[a.sale] = "REFUNDED" /\ a.sale # s
    BY <1>2 DEF IInv, TablesRight, Typed, RefundedOnce, OpenForPayment
  <2> QED  BY <1>1, <1>4, <1>6, <2>1 DEF IInv, TablesRight, RefundedOnce
<1>14. StockConserved'
  <2> SUFFICES ASSUME NEW x \in Products
               PROVE  stock'[x] + GoodsOf(SoldSales', x) = Stock0[x]
    BY DEF StockConserved, GoodsOf
  <2>1. stock[x] + GoodsOf(SoldSales, x) = Stock0[x] /\ stock[x] \in Nat
    BY DEF IInv, TablesRight, Typed, StockConserved, GoodsOf
  <2>2. (SoldSales \ {s}) \cup {s} = SoldSales
    BY <1>8
  <2>3. /\ GoodsOf((SoldSales \ {s}) \cup {s}, x) = GoodsOf(SoldSales \ {s}, x) + Items[s][x]
        /\ GoodsOf(SoldSales \ {s}, x) \in Int /\ Items[s][x] \in Nat
    BY <1>8, GoodsAdd
  <2>4. stock'[x] = stock[x] + Items[s][x]
    BY <1>1
  <2>5. GoodsOf(SoldSales, x) = GoodsOf(SoldSales', x) + Items[s][x]
    BY <1>8, <2>2, <2>3
  <2>6. GoodsOf(SoldSales', x) \in Int /\ Items[s][x] \in Nat
    BY <1>8, <2>3
  <2> QED  BY <2>1, <2>4, <2>5, <2>6
<1>15. Transactions'
  <2>1. \A x \in Products \ tx[p].held : stock'[x] = stock[x]
    BY <1>1, <1>5 DEF IInv, TablesRight, Typed
  <2>2. "REFUNDED" \in Statuses \ {"NONE", "DRAFT"}
    BY DEF Statuses
  <2> QED  BY <1>0, <1>1, <1>3, <2>1, <2>2, CommitFrame
<1>16. RefundedOf' = [RefundedOf EXCEPT ![s] = paid]
  <2>1. \A a \in refunds : a.sale # s
    BY <1>2 DEF IInv, TablesRight, RefundedOnce, OpenForPayment
  <2>2. SumOf({f \in refunds' : f.sale = s}) = paid
    <3>1. CASE paid > 0
      <4>1. {f \in refunds' : f.sale = s} = {new}
        BY <1>1, <1>6, <2>1, <3>1
      <4>2. new.amount = paid
        BY DEF new, RefundOf
      <4> QED  BY <1>6, <4>1, <4>2, SumOfOne
    <3>2. CASE ~ (paid > 0)
      <4>1. {f \in refunds' : f.sale = s} = {}
        BY <1>1, <2>1, <3>2
      <4> QED  BY <1>6, <3>2, <4>1, SumOfEmpty
    <3> QED  BY <3>1, <3>2
  <2>3. \A z \in Sales : z # s => {f \in refunds' : f.sale = z} = {f \in refunds : f.sale = z}
    BY <1>1, <1>6
  <2>4. RefundedOf'[s] = paid /\ \A z \in Sales : z # s => RefundedOf'[z] = RefundedOf[z]
    BY <2>2, <2>3 DEF RefundedOf
  <2> HIDE DEF paid
  <2> QED  BY <2>4 DEF RefundedOf
<1>17. Ledger!Return(s)
  <2>1. UNCHANGED PaidOf
    BY <1>1, LedgerUnpaid
  <2>2. PaidOf[s] = paid
    BY DEF PaidOf, Paid
  <2>3. ReceivableDropped(s) = IF receivable[s] = "NONE" THEN receivable[s] ELSE "CANCELLED"
    BY DEF ReceivableDropped
  <2> HIDE DEF paid
  <2> QED  BY <1>1, <1>2, <1>16, <2>1, <2>2, <2>3 DEF Ledger!Return, OpenForPayment
<1>18. \A z : Paid(z)' = Paid(z)
  BY <1>10 DEF Paid
<1>19. DebtTells'
  <2>1. ASSUME NEW z \in Sales, z # s
        PROVE  sale'[z] = sale[z] /\ receivable'[z] = receivable[z] /\ Paid(z)' = Paid(z)
    BY <1>4, <1>18, <2>1
  <2>2. s \in Credit \/ receivable[s] = "NONE"
    BY DEF IInv, TablesRight, Typed, DebtTells
  <2>3. /\ receivable'[s] \in {"NONE", "CANCELLED"} /\ sale'[s] \notin OpenForPayment
        /\ receivable'[s] = "CANCELLED" => s \in Credit /\ sale'[s] = "REFUNDED"
    BY <1>4, <2>2 DEF ReceivableDropped, OpenForPayment
  <2> HIDE DEF paid
  <2> QED  BY <2>1, <2>3 DEF IInv, TablesRight, DebtTells
<1>20. RefundedInFull'
  <2>1. new.amount = paid
    BY DEF new, RefundOf
  <2> HIDE DEF paid
  <2>2. \A a \in refunds' : a.amount = Paid(a.sale)'
    BY <1>1, <1>6, <1>18, <2>1 DEF IInv, TablesRight, RefundedInFull, paid
  <2>3. ASSUME NEW z \in Sales, sale'[z] = "REFUNDED", Paid(z)' > 0
        PROVE  \E a \in refunds' : a.sale = z
    <3>1. CASE z = s
      BY <1>1, <1>6, <1>18, <2>3, <3>1 DEF paid
    <3>2. CASE z # s
      BY <1>1, <1>4, <1>18, <2>3, <3>2 DEF IInv, TablesRight, RefundedInFull
    <3> QED  BY <3>1, <3>2
  <2> QED  BY <2>2, <2>3 DEF RefundedInFull
<1> QED  BY <1>7, <1>9, <1>11, <1>12, <1>13, <1>14, <1>15, <1>17, <1>19, <1>20
         DEF IInv, TablesRight, Ledger!Next

\* A sale that is made or cancelled has no rows anywhere.
LEMMA DraftTables ==
    ASSUME IInv, NEW s \in Sales, NEW status \in {"DRAFT", "CANCELLED"},
           sale[s] \in {"NONE", "DRAFT"}, sale' = [sale EXCEPT ![s] = status],
           UNCHANGED <<payments, refunds, receivable, stock, register, movements>>
    PROVE  TablesRight'
<1>1. sale'[s] = status /\ \A z \in Sales : z # s => sale'[z] = sale[z]
  BY DEF IInv, TablesRight, Typed
<1>2. \A z : PaymentsOf(z)' = PaymentsOf(z)
  BY DEF PaymentsOf
<1>3. SoldSales' = SoldSales
  BY <1>1 DEF SoldSales, OpenForPayment
<1>4. Typed' /\ Finite'
  BY <1>3 DEF IInv, TablesRight, Typed, Finite, Statuses
<1>5. Tallies'
  BY <1>1, <1>2 DEF IInv, TablesRight, Tallies, Paid, OpenForPayment, StatusFor
<1>6. Trail' /\ CashTrailMatches'
  BY <1>1 DEF IInv, TablesRight, Trail, CashTrailMatches
<1>7. RefundedOnce'
  <2>1. \A a \in refunds : a.sale \in Sales
    BY DEF IInv, TablesRight, Typed
  <2> QED  BY <1>1, <2>1 DEF IInv, TablesRight, RefundedOnce
<1>8. StockConserved'
  BY <1>3 DEF IInv, TablesRight, StockConserved
<1>9. DebtTells' /\ RefundedInFull'
  BY <1>1, <1>2 DEF IInv, TablesRight, Typed, DebtTells, RefundedInFull, Paid, OpenForPayment
<1> QED  BY <1>4, <1>5, <1>6, <1>7, <1>8, <1>9 DEF TablesRight

LEMMA Creates ==
    ASSUME IInv, NEW s \in Sales, Create(s)
    PROVE  IInv' /\ Ledger!Next
<1>1. /\ sale[s] = "NONE" /\ sale' = [sale EXCEPT ![s] = "DRAFT"]
      /\ UNCHANGED <<payments, refunds, receivable, stock, register, movements, tx>>
  BY DEF Create
<1>2. TablesRight'
  BY <1>1, DraftTables
<1>3. sale'[s] = "DRAFT" /\ \A z \in Sales : z # s => sale'[z] = sale[z]
  BY <1>1 DEF IInv, TablesRight, Typed
<1>4. ASSUME NEW q \in Procs, Working(tx[q])
      PROVE  sale'[tx[q].req.sale] = sale[tx[q].req.sale]
  <2>1. tx[q].req.sale \in Sales /\ sale[tx[q].req.sale] \in {"DRAFT"} \cup OpenForPayment
    BY <1>4, AtWork DEF Fit, FoundAs
  <2> QED  BY <1>1, <1>3, <2>1 DEF OpenForPayment
<1>5. Transactions'
  BY <1>1, <1>3, <1>4, AloneFits
<1>6. Ledger!Create(s)
  BY <1>1, LedgerUnpaid, LedgerUnrefunded DEF Ledger!Create
<1> QED  BY <1>2, <1>5, <1>6 DEF IInv, Ledger!Next

LEMMA Cancels ==
    ASSUME IInv, NEW p \in Procs, Cancel(p)
    PROVE  IInv' /\ (Ledger!Next \/ UNCHANGED tables)
<1> DEFINE s == tx[p].req.sale
<1>1. /\ tx[p].pc = "lock" /\ tx[p].req.op = "cancel" /\ ~HeldByOther(p, s)
      /\ UNCHANGED <<payments, refunds, receivable, stock, register, movements>>
  BY DEF Cancel, At
<1>2. Staged(tx[p]) /\ s \in Sales
  BY <1>1, RequestKnown, RequestFields
<1>3. CASE sale[s] = "DRAFT"
  <2>1. sale' = [sale EXCEPT ![s] = "CANCELLED"] /\ Done(p, "ok")
    BY <1>3 DEF Cancel
  <2>2. TablesRight'
    BY <1>1, <1>2, <1>3, <2>1, DraftTables
  <2>3. \A q \in Procs \ {p} : s \notin tx[q].held
    BY <1>1 DEF HeldByOther
  <2>4. payments' = payments \cup tx[p].pays
    BY <1>1, <1>2 DEF Staged, Working
  <2>5. "CANCELLED" \in Statuses \ {"NONE", "DRAFT"}
    BY DEF Statuses
  <2>6. Transactions'
    BY <1>1, <2>1, <2>3, <2>4, <2>5, WriteFrame
  <2>7. Ledger!Cancel(s)
    BY <1>1, <1>3, <2>1, LedgerUnpaid, LedgerUnrefunded DEF Ledger!Cancel
  <2> QED  BY <1>2, <2>2, <2>6, <2>7 DEF IInv, Ledger!Next
<1>4. CASE sale[s] # "DRAFT"
  <2>1. UNCHANGED tables
    BY <1>1, <1>4 DEF Cancel, tables
  <2>2. PICK answer \in {"missing", "ok", "conflict"} : Done(p, answer)
    BY <1>4 DEF Cancel
  <2> QED  BY <1>1, <2>1, <2>2, DoneStep DEF Answers
<1> QED  BY <1>3, <1>4

-----------------------------------------------------------------------------
(* The tills, used by others.                                              *)

\* The balance of a till is a number.
LEMMA BalanceInt ==
    ASSUME Typed, Finite, NEW r
    PROVE  Balance(r) \in Int
<1> DEFINE of == RowsOf(r, movements)
           g == [m \in of |-> Signed(m)]
<1>1. IsFiniteSet(of) /\ \A m \in of : Signed(m) \in Int
  BY FS_Subset DEF Typed, Finite, RowsOf, Movement, Signed
<1>2. DOMAIN g = of /\ \A m \in of : g[m] \in Int
  BY <1>1
<1> HIDE DEF g, of
<1>3. SumFunction(g) \in Int
  BY <1>1, <1>2, SumInt DEF SumFunction
<1> QED  BY <1>3 DEF Balance, ComputeBalance, g, of

\* A till that opens, or one that closes at the same terminal.
LEMMA TillsChange ==
    ASSUME IInv, NEW r \in Registers, (\E t \in Terminals : OpenTill(r, t)) \/ CloseTill(r)
    PROVE  IInv'
<1>1. UNCHANGED <<sale, payments, refunds, receivable, stock, movements, tx>>
  BY DEF OpenTill, CloseTill
<1>2. /\ register' \in [Registers -> [status : {"NONE", "OPEN", "CLOSED"},
                                      terminal : Terminals \cup {None}, expected : Int]]
      /\ \A z \in Registers : register[z].status # "NONE" =>
            register'[z].status # "NONE" /\ register'[z].terminal = register[z].terminal
  <2>1. CASE \E t \in Terminals : OpenTill(r, t)
    <3>1. PICK t \in Terminals : OpenTill(r, t)
      BY <2>1
    <3> DEFINE new == [NoTill EXCEPT !.status = "OPEN", !.terminal = t]
    <3>0. NoTill \in [status : {"NONE", "OPEN", "CLOSED"}, terminal : Terminals \cup {None}, expected : Int]
      BY DEF NoTill
    <3>2. new \in [status : {"NONE", "OPEN", "CLOSED"}, terminal : Terminals \cup {None}, expected : Int]
      BY <3>0
    <3>3. register' = [register EXCEPT ![r] = new] /\ register[r].status = "NONE"
      BY <3>1 DEF OpenTill
    <3> HIDE DEF new
    <3> QED  BY <3>2, <3>3 DEF IInv, TablesRight, Typed
  <2>2. CASE CloseTill(r)
    <3>1. Balance(r) \in Int
      BY BalanceInt DEF IInv, TablesRight
    <3> QED  BY <2>2, <3>1 DEF CloseTill, IInv, TablesRight, Typed
  <2> QED  BY <2>1, <2>2
<1>3. \A m \in movements : m.reg \in Registers
  BY DEF IInv, TablesRight, Typed, Movement
<1>4. \A z : PaymentsOf(z)' = PaymentsOf(z)
  BY <1>1 DEF PaymentsOf
<1>5. Typed' /\ Finite' /\ RefundedOnce' /\ StockConserved'
  BY <1>1, <1>2 DEF IInv, TablesRight, Typed, Finite, SoldSales, RefundedOnce, StockConserved
<1>6. Tallies'
  BY <1>1, <1>4 DEF IInv, TablesRight, Tallies, Paid, StatusFor
<1>7. Trail' /\ CashTrailMatches'
  <2>1. Trail'
    BY <1>1, <1>2, <1>3 DEF IInv, TablesRight, Trail
  <2>2. \A m \in movements : register'[m.reg].terminal = register[m.reg].terminal
    BY <1>2, <1>3 DEF IInv, TablesRight, Trail
  <2>3. CashTrailMatches'
    BY <1>1, <2>2 DEF IInv, TablesRight, CashTrailMatches
  <2> QED  BY <2>1, <2>3
<1>8. Transactions'
  BY <1>1, <1>2, AloneFits
<1> QED  BY <1>1, <1>5, <1>6, <1>7, <1>8, DebtsStay DEF IInv, TablesRight

LEMMA ManualMoves ==
    ASSUME IInv, NEW r \in Registers, NEW k \in ManualKeys, NEW type \in {"CASH_IN", "CASH_OUT"},
           ManualMovement(r, k, type)
    PROVE  IInv'
<1> DEFINE row == [key |-> k, reg |-> r, type |-> type, amount |-> 1]
<1>1. /\ UNCHANGED <<sale, payments, refunds, receivable, stock, register, tx>>
      /\ movements' = movements \cup {row} /\ register[r].status = "OPEN"
  BY DEF ManualMovement
<1>2. row \in Movement /\ row.type = type /\ row.reg = r /\ row.key = k
  BY DEF Movement, IncreaseTypes, DecreaseTypes
<1> HIDE DEF row
<1>3. IsFiniteSet(movements')
  BY <1>1, FS_AddElement DEF IInv, TablesRight, Finite
<1>4. \A z : PaymentsOf(z)' = PaymentsOf(z)
  BY <1>1 DEF PaymentsOf
<1>5. Typed' /\ Finite' /\ RefundedOnce' /\ StockConserved'
  BY <1>1, <1>2, <1>3 DEF IInv, TablesRight, Typed, Finite, SoldSales, RefundedOnce, StockConserved
<1>6. Tallies'
  BY <1>1, <1>4 DEF IInv, TablesRight, Tallies, Paid, StatusFor
<1>7. Trail' /\ CashTrailMatches'
  BY <1>1, <1>2 DEF IInv, TablesRight, Trail, CashTrailMatches
<1>8. Transactions'
  BY <1>1, AloneFits
<1> QED  BY <1>1, <1>5, <1>6, <1>7, <1>8, DebtsStay DEF IInv, TablesRight

-----------------------------------------------------------------------------
(* The theorems.                                                           *)

LEMMA InitHolds ==
    ASSUME Init
    PROVE  IInv
<1>1. Typed
  BY StockAssumption DEF Init, Typed, NoTill, Statuses
<1>2. SoldSales = {} /\ \A s : PaymentsOf(s) = {}
  BY DEF Init, SoldSales, OpenForPayment, PaymentsOf
<1>3. Finite
  BY <1>2, FS_EmptySet DEF Init, Finite
<1>4. Tallies
  BY <1>2, SumOfEmpty, TotalAssumption DEF Init, Tallies, Paid, OpenForPayment
<1>5. Trail /\ CashTrailMatches /\ RefundedOnce /\ RefundedInFull /\ DebtTells
  BY DEF Init, Trail, CashTrailMatches, RefundedOnce, RefundedInFull, DebtTells, OpenForPayment
<1>6. StockConserved
  <2> SUFFICES ASSUME NEW x \in Products
               PROVE  stock[x] + GoodsOf(SoldSales, x) = Stock0[x]
    BY DEF StockConserved, GoodsOf
  <2> DEFINE g == [s \in {} |-> Items[s][x]]
  <2>1. DOMAIN g = {}
    OBVIOUS
  <2> HIDE DEF g
  <2>2. SumFunction(g) = 0
    BY <2>1, SumEmpty DEF SumFunction
  <2>3. GoodsOf({}, x) = 0
    BY <2>2 DEF GoodsOf, g
  <2>4. stock[x] = Stock0[x] /\ Stock0[x] \in Nat
    BY StockAssumption DEF Init
  <2> QED  BY <1>2, <2>3, <2>4
<1>7. Transactions
  <2>1. tx \in [Procs -> Tx] /\ \A p \in Procs : tx[p] = IdleTx
    BY IdleFields DEF Init
  <2>2. Fit(IdleTx)
    BY IdleFields, FS_EmptySet DEF Fit, Staged, FoundAs, Inserted, AtPayment, OnePayment, Goods,
                                   Cash, Answered, Working
  <2>3. Apart(IdleTx, IdleTx)
    BY IdleFields DEF Apart
  <2> QED  BY <2>1, <2>2, <2>3 DEF Transactions
<1> QED  BY <1>1, <1>3, <1>4, <1>5, <1>6, <1>7 DEF IInv, TablesRight

LEMMA NextKeeps ==
    ASSUME IInv, [Next]_vars
    PROVE  IInv'
<1>1. ASSUME NEW p \in Procs, Step(p)
      PROVE  IInv'
  BY <1>1, ConfirmBegins, ConfirmCommits, PaymentBegins, PaymentCommits, Cancels, ReturnBegins,
     RefundBegins, ReturnCommits, StockMoves, PaymentChecked, PaymentInserted, TillFound, TillUsed,
     ConflictResolved
     DEF Step, Confirm, AddPayment, ReturnSale, ApplyPayment, CashHook
<1>2. ASSUME NEW p \in Procs, (\E q \in Requests : Begin(p, q)) \/ Finish(p) \/ Abort(p)
      PROVE  IInv'
  BY <1>2, Edges
<1>3. CASE Others
  BY <1>3, Creates, TillsChange, ManualMoves DEF Others
<1>4. CASE UNCHANGED vars
  <2>1. UNCHANGED <<sale, payments, refunds, receivable, stock, register, movements, tx>>
    BY <1>4 DEF vars, tables
  <2>2. \A z : PaymentsOf(z)' = PaymentsOf(z)
    BY <2>1 DEF PaymentsOf
  <2>3. TablesRight'
    BY <2>1, <2>2, DebtsStay
                  DEF IInv, TablesRight, Typed, Finite, SoldSales, Tallies, Paid, StatusFor,
                      Trail, CashTrailMatches, RefundedOnce, StockConserved
  <2>4. Transactions'
    BY <2>1, AloneFits
  <2> QED  BY <2>3, <2>4 DEF IInv
<1> QED  BY <1>1, <1>2, <1>3, <1>4 DEF Next

\* What the proofs rest on holds in every state.
THEOREM Invariance == Spec => []IInv
<1>1. Init => IInv
  BY InitHolds
<1>2. IInv /\ [Next]_vars => IInv'
  BY NextKeeps
<1> QED  BY <1>1, <1>2, PTL DEF Spec

\* Status, payments, refund, receivable and movements of cash tell one story of each sale,
\* however confirmations, payments, returns and tills that open and close run into each
\* other (sales.service.ts).
THEOREM RecordsStayTrue == Spec => []RecordsAgree
<1>1. IInv => RecordsAgree
  <2> SUFFICES ASSUME IInv
               PROVE  RecordsAgree
    OBVIOUS
  <2>1. tx \in [Procs -> Tx] /\ Typed /\ CashTrailMatches /\ RefundedOnce
    BY DEF IInv, TablesRight, Transactions
  <2>2. \A p \in Procs : /\ tx[p].pc # "idle" => tx[p].req # None
                         /\ tx[p].pc \notin {"idle", "lock", "resolve", "done"} =>
                               tx[p].req.sale \in tx[p].held
    BY DEF IInv, Transactions, Fit, Staged, Working
  <2>3. TypeOK
    BY <2>1, <2>2 DEF TypeOK, Typed, Tx, Gathered, Movement
  <2>4. StatusTells
    BY DEF IInv, TablesRight, Tallies, StatusTells
  <2> QED  BY <2>1, <2>3, <2>4 DEF RecordsAgree, IInv, TablesRight
<1> QED  BY <1>1, Invariance, PTL

\* What was in stock is in stock or in a sale that stands (confirm, returnSale).
THEOREM StockStays == Spec => []StockConserved
<1>1. IInv => StockConserved
  BY DEF IInv, TablesRight
<1> QED  BY <1>1, Invariance, PTL

\* A client told ok has its payment on record as it named it, or its sale confirmed,
\* when no key of a payment is also the key of a manual movement or of a refund
\* (addPayment, runOrResolvePaymentConflict).
THEOREM AnswersTrue ==
    ASSUME KeysApart
    PROVE  Spec => []AnswersAreTrue
<1>1. IInv => AnswersAreTrue
  BY DEF IInv, Transactions, Fit, Answered, AnswersAreTrue, RowFor
<1> QED  BY <1>1, Invariance, PTL

-----------------------------------------------------------------------------
(* The concurrent service implements SaleLedger: a commit is one operation *)
(* of the ledger, whatever else a transaction does is none.                *)

LEMMA LedgerStutters ==
    ASSUME UNCHANGED <<sale, payments, refunds, receivable, stock>>
    PROVE  UNCHANGED Ledger!vars
BY LedgerUnpaid, LedgerUnrefunded DEF Ledger!vars

LEMMA LedgerStep ==
    ASSUME IInv, [Next]_vars
    PROVE  Ledger!Next \/ UNCHANGED Ledger!vars
<1>1. CASE UNCHANGED tables
  BY <1>1, LedgerStutters DEF tables
<1>2. ASSUME NEW p \in Procs, Step(p)
      PROVE  Ledger!Next \/ UNCHANGED tables
  <2>1. CASE CommitConfirm(p) \/ CommitPayment(p) \/ CommitReturn(p) \/ Cancel(p)
    BY <2>1, ConfirmCommits, PaymentCommits, ReturnCommits, Cancels
  <2>2. CASE \/ ConfirmBegin(p) \/ AddPaymentBegin(p) \/ ReturnBegin(p) \/ Refund(p)
             \/ MoveStock(p) \/ ApplyPayment(p) \/ CashHook(p) \/ ResolveConflict(p)
    BY <2>2 DEF ConfirmBegin, AddPaymentBegin, ReturnBegin, Refund, MoveStock, ApplyPayment,
                CheckPayment, InsertPayment, CashHook, FindTill, UseTill, ResolveConflict
  <2> QED  BY <1>2, <2>1, <2>2 DEF Step, Confirm, AddPayment, ReturnSale
<1>3. ASSUME NEW p \in Procs, (\E q \in Requests : Begin(p, q)) \/ Finish(p) \/ Abort(p)
      PROVE  UNCHANGED tables
  BY <1>3 DEF Begin, Finish, Abort
<1>4. CASE Others
  <2>1. ASSUME NEW s \in Sales, Create(s)
        PROVE  Ledger!Next
    BY <2>1, Creates
  <2>2. ASSUME NEW r \in Registers,
               \/ \E t \in Terminals : OpenTill(r, t)
               \/ CloseTill(r)
               \/ \E k \in ManualKeys, type \in {"CASH_IN", "CASH_OUT"} : ManualMovement(r, k, type)
        PROVE  UNCHANGED <<sale, payments, refunds, receivable, stock>>
    BY <2>2 DEF OpenTill, CloseTill, ManualMovement
  <2> QED  BY <1>4, <2>1, <2>2, LedgerStutters DEF Others
<1>5. CASE UNCHANGED vars
  BY <1>1, <1>5 DEF vars
<1> QED  BY <1>1, <1>2, <1>3, <1>4, <1>5 DEF Next

\* The sales of the service are those of the ledger, operation by operation.
THEOREM ImplementsTheLedger == Spec => KeepsTheLedger
<1>1. Init => Ledger!Init
  <2> SUFFICES ASSUME Init
               PROVE  Ledger!Init
    OBVIOUS
  <2>1. \A s \in Sales : PaymentsOf(s) = {} /\ {f \in refunds : f.sale = s} = {}
    BY DEF Init, PaymentsOf
  <2>2. PaidOf = [s \in Sales |-> 0] /\ RefundedOf = [s \in Sales |-> 0]
    BY <2>1, SumOfEmpty DEF PaidOf, RefundedOf
  <2> QED  BY <2>2 DEF Init, Ledger!Init
<1>2. IInv /\ [Next]_vars => [Ledger!Next]_(Ledger!vars)
  BY LedgerStep
<1> QED  BY <1>1, <1>2, Invariance, PTL DEF Spec, KeepsTheLedger, Ledger!Spec
=============================================================================
