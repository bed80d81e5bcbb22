--------------------------- MODULE PurchasingProofs ---------------------------
(***************************************************************************)
(* The safety of Purchasing, for any number of purchases, products,        *)
(* requests and transactions, any quantities and any prices.               *)
(*                                                                         *)
(* A transaction writes at its commit only, and what it found is still     *)
(* true there because it holds the row it found it in (Fits, Apart).  That *)
(* a debt covers what was paid needs more: a delivery never makes it       *)
(* smaller, since more units are worth more (Worth), and the order in full *)
(* is worth its total to the centavo.                                      *)
(***************************************************************************)
EXTENDS Purchasing, FiniteTheorems

-----------------------------------------------------------------------------
(* What units are worth.                                                   *)

Ordered(o) == {x \in Products : o.quantity[x] > 0}

Scale(o) == ProductOnSet([x \in Ordered(o) |-> o.quantity[x]], Ordered(o))

LineWorth(o, units) ==
    [x \in Ordered(o) |-> units[x] * o.subtotal[x] * (Scale(o) \div o.quantity[x])]

Net(o, units) == SumFunction(LineWorth(o, units))

\* The definition, its parts named.
LEMMA WorthIs ==
    ASSUME NEW o, NEW units
    PROVE  Worth(o, units) = HalfUp(Net(o, units) * o.total, Scale(o) * SumFunction(o.subtotal))
<1> DEFINE of == [x \in Ordered(o) |-> o.quantity[x]]
<1>1. FoldFunction(LAMBDA a, b : a * b, 1, of) = Scale(o)
  <2>1. DOMAIN of = Ordered(o)
    OBVIOUS
  <2> QED  BY <2>1 DEF FoldFunction, Scale, ProductOnSet
<1> QED  BY <1>1 DEF Worth, Net, LineWorth, Ordered

\* Rounding: never negative, never less for more, and exact where nothing is to round.
LEMMA HalfUpFacts ==
    ASSUME NEW d \in Nat, d > 0
    PROVE  /\ \A n \in Nat : HalfUp(n, d) \in Nat
           /\ \A m, n \in Nat : m <= n => HalfUp(m, d) <= HalfUp(n, d)
           /\ \A n \in Nat : HalfUp(d * n, d) = n
           /\ HalfUp(0, d) = 0
<1>1. ASSUME NEW n \in Nat
      PROVE  HalfUp(n, d) \in Nat
  BY DEF HalfUp
<1>2. ASSUME NEW m \in Nat, NEW n \in Nat, m <= n
      PROVE  HalfUp(m, d) <= HalfUp(n, d)
  <2>1. 2 * m + d <= 2 * n + d /\ 2 * m + d \in Nat /\ 2 * n + d \in Nat /\ 2 * d \in Nat /\ 2 * d > 0
    BY <1>2
  <2>2. \A a, b, c \in Nat : c > 0 /\ a <= b => a \div c <= b \div c
    OBVIOUS
  <2> QED  BY <2>1, <2>2 DEF HalfUp
<1>3. ASSUME NEW n \in Nat
      PROVE  HalfUp(d * n, d) = n
  BY DEF HalfUp
<1>4. HalfUp(0, d) = 0
  BY DEF HalfUp
<1> QED  BY <1>1, <1>2, <1>3, <1>4

\* What is known of an order.
LEMMA OrderFields ==
    ASSUME NEW o \in Orders
    PROVE  /\ \A x \in Products : o.quantity[x] \in Nat /\ o.subtotal[x] \in Nat
           /\ \A x \in Products \ Ordered(o) : o.subtotal[x] = 0
           /\ o.quantity \in Lines
           /\ o.total \in Nat /\ SumFunction(o.subtotal) \in Nat /\ SumFunction(o.subtotal) > 0
           /\ SumFunction(o.subtotal) = SumFunctionOnSet(o.subtotal, Products)
           /\ Ordered(o) \subseteq Products /\ IsFiniteSet(Products) /\ IsFiniteSet(Ordered(o))
<1>1. /\ o.quantity \in Lines /\ o.subtotal \in Lines /\ o.total \in Nat
      /\ SumFunction(o.subtotal) > 0
      /\ \A x \in Products : o.quantity[x] = 0 => o.subtotal[x] = 0
  BY OrdersAssumption
<1>2. \A x \in Products : o.quantity[x] \in Nat /\ o.subtotal[x] \in Nat
  BY <1>1 DEF Lines
<1>3. SumFunction(o.subtotal) = SumFunctionOnSet(o.subtotal, Products)
  BY <1>1 DEF SumFunction, Lines
<1>4. SumFunction(o.subtotal) \in Nat
  BY <1>2, <1>3, SumNat, ProductsAssumption
<1>5. Ordered(o) \subseteq Products /\ IsFiniteSet(Ordered(o))
  BY FS_Subset, ProductsAssumption DEF Ordered
<1>6. \A x \in Products \ Ordered(o) : o.subtotal[x] = 0
  BY <1>1, <1>2 DEF Ordered
<1> QED  BY <1>1, <1>2, <1>3, <1>4, <1>5, <1>6, ProductsAssumption

\* The common denominator is one.
LEMMA ScaleDivides ==
    ASSUME NEW o \in Orders
    PROVE  /\ Scale(o) \in Nat \ {0}
           /\ \A x \in Ordered(o) : /\ Scale(o) \div o.quantity[x] \in Nat
                                    /\ o.quantity[x] * (Scale(o) \div o.quantity[x]) = Scale(o)
<1> DEFINE g == [x \in Ordered(o) |-> o.quantity[x]]
<1>1. \A x \in Ordered(o) : g[x] = o.quantity[x] /\ g[x] \in Nat \ {0}
  BY OrderFields DEF Ordered
<1>2. Scale(o) = ProductOnSet(g, Ordered(o))
  BY DEF Scale
<1> HIDE DEF g
<1>3. /\ Scale(o) \in Nat \ {0}
      /\ \A x \in Ordered(o) : \E k \in Nat : Scale(o) = g[x] * k
  BY <1>1, <1>2, OrderFields, ProductDivides
<1>4. ASSUME NEW x \in Ordered(o)
      PROVE  /\ Scale(o) \div o.quantity[x] \in Nat
             /\ o.quantity[x] * (Scale(o) \div o.quantity[x]) = Scale(o)
  <2>1. PICK k \in Nat : Scale(o) = o.quantity[x] * k
    BY <1>1, <1>3
  <2>2. o.quantity[x] \in Nat /\ o.quantity[x] > 0
    BY <1>1
  <2>3. Scale(o) \div o.quantity[x] = k
    BY <2>1, <2>2
  <2> QED  BY <2>1, <2>3
<1> QED  BY <1>3, <1>4

LEMMA NetFields ==
    ASSUME NEW o \in Orders, NEW units \in Lines
    PROVE  /\ \A x \in Ordered(o) : LineWorth(o, units)[x] \in Nat
           /\ Net(o, units) = SumFunctionOnSet(LineWorth(o, units), Ordered(o))
           /\ Net(o, units) \in Nat
<1> DEFINE g == LineWorth(o, units)
<1>1. \A x \in Ordered(o) : g[x] \in Nat
  <2> SUFFICES ASSUME NEW x \in Ordered(o)
               PROVE  g[x] \in Nat
    OBVIOUS
  <2>1. x \in Products /\ o.subtotal[x] \in Nat /\ Scale(o) \div o.quantity[x] \in Nat
    BY OrderFields, ScaleDivides
  <2>2. units[x] \in Nat
    BY <2>1 DEF Lines
  <2>3. \A a, b, c \in Nat : a * b * c \in Nat
    OBVIOUS
  <2>4. units[x] * o.subtotal[x] * (Scale(o) \div o.quantity[x]) \in Nat
    BY <2>1, <2>2, <2>3
  <2> QED  BY <2>4 DEF LineWorth
<1>2. Net(o, units) = SumFunctionOnSet(g, Ordered(o))
  BY DEF Net, SumFunction, LineWorth
<1> HIDE DEF g
<1>3. SumFunctionOnSet(g, Ordered(o)) \in Nat
  BY <1>1, OrderFields, SumNat
<1> QED  BY <1>1, <1>2, <1>3 DEF g

\* The order in full, before the discount on it, is the sum of its lines.
LEMMA NetOfAll ==
    ASSUME NEW o \in Orders
    PROVE  Net(o, o.quantity) = Scale(o) * SumFunction(o.subtotal)
<1> DEFINE g == LineWorth(o, o.quantity)
<1>1. ASSUME NEW x \in Ordered(o)
      PROVE  g[x] = Scale(o) * o.subtotal[x]
  <2>1. /\ o.quantity[x] \in Nat /\ o.subtotal[x] \in Nat
        /\ Scale(o) \div o.quantity[x] \in Nat
        /\ o.quantity[x] * (Scale(o) \div o.quantity[x]) = Scale(o)
    BY OrderFields, ScaleDivides
  <2>2. \A a, b, c \in Nat : a * b * c = (a * c) * b
    OBVIOUS
  <2>3. o.quantity[x] * o.subtotal[x] * (Scale(o) \div o.quantity[x])
           = (o.quantity[x] * (Scale(o) \div o.quantity[x])) * o.subtotal[x]
    BY <2>1, <2>2
  <2> QED  BY <2>1, <2>3 DEF LineWorth
<1> HIDE DEF g
<1>2. Scale(o) \in Int /\ \A x \in Products : o.subtotal[x] \in Int
  BY ScaleDivides, OrderFields
<1>3. SumFunctionOnSet(g, Ordered(o)) = Scale(o) * SumFunctionOnSet(o.subtotal, Ordered(o))
  BY <1>1, <1>2, OrderFields, SumFactor
<1>4. SumFunctionOnSet(o.subtotal, Products) = SumFunctionOnSet(o.subtotal, Ordered(o))
  BY <1>2, OrderFields, SumZeroes
<1>5. Net(o, o.quantity) = SumFunctionOnSet(g, Ordered(o))
  BY NetFields, OrderFields DEF g
<1>6. SumFunction(o.subtotal) = SumFunctionOnSet(o.subtotal, Products)
  BY OrderFields
<1> QED  BY <1>3, <1>4, <1>5, <1>6, Zenon

LEMMA NothingIsLines == Nothing \in Lines /\ \A x \in Products : Nothing[x] = 0
BY DEF Nothing, Lines

\* Worth in centavos: nothing is worth nothing, more is worth no less, and all that
\* was ordered is worth the total of the order.
THEOREM WorthFacts ==
    ASSUME NEW o \in Orders
    PROVE  /\ \A units \in Lines : Worth(o, units) \in Nat
           /\ \A units, more \in Lines :
                 (\A x \in Products : units[x] <= more[x]) => Worth(o, units) <= Worth(o, more)
           /\ Worth(o, o.quantity) = o.total
           /\ Worth(o, Nothing) = 0
<1> DEFINE d == Scale(o) * SumFunction(o.subtotal)
           total == o.total
<1>1. d \in Nat /\ d > 0 /\ total \in Nat
  <2>1. \A a, b \in Nat : a > 0 /\ b > 0 => a * b \in Nat /\ a * b > 0
    OBVIOUS
  <2>2. Scale(o) \in Nat /\ Scale(o) > 0
    BY ScaleDivides
  <2> QED  BY <2>1, <2>2, OrderFields
<1>2. \A units : Worth(o, units) = HalfUp(Net(o, units) * total, d)
  BY WorthIs
<1> HIDE DEF d, total
<1>3. \A a, b \in Nat : a * b \in Nat
  OBVIOUS
<1>4. ASSUME NEW units \in Lines
      PROVE  Worth(o, units) \in Nat
  <2>1. Net(o, units) * total \in Nat
    BY <1>1, <1>3, NetFields
  <2> QED  BY <1>1, <1>2, <2>1, HalfUpFacts
<1>5. ASSUME NEW units \in Lines, NEW more \in Lines, \A x \in Products : units[x] <= more[x]
      PROVE  Worth(o, units) <= Worth(o, more)
  <2> DEFINE g == LineWorth(o, units)
             h == LineWorth(o, more)
  <2>1. ASSUME NEW x \in Ordered(o)
        PROVE  g[x] <= h[x]
    <3>1. /\ x \in Products /\ o.subtotal[x] \in Nat /\ Scale(o) \div o.quantity[x] \in Nat
      BY OrderFields, ScaleDivides
    <3>2. units[x] \in Nat /\ more[x] \in Nat /\ units[x] <= more[x]
      BY <1>5, <3>1 DEF Lines
    <3>3. \A a, b, c, e \in Nat : a <= b => a * c * e <= b * c * e
      <4>1. \A a, b, c \in Nat : a <= b => a * c <= b * c
        OBVIOUS
      <4> QED  BY <1>3, <4>1
    <3>4. units[x] * o.subtotal[x] * (Scale(o) \div o.quantity[x])
             <= more[x] * o.subtotal[x] * (Scale(o) \div o.quantity[x])
      BY <3>1, <3>2, <3>3
    <3> QED  BY <3>4 DEF LineWorth
  <2>2. \A x \in Ordered(o) : g[x] \in Int /\ h[x] \in Int
    BY NetFields
  <2>3. Net(o, units) = SumFunctionOnSet(g, Ordered(o)) /\ Net(o, more) = SumFunctionOnSet(h, Ordered(o))
    BY NetFields
  <2> HIDE DEF g, h
  <2>4. Net(o, units) <= Net(o, more)
    BY <2>1, <2>2, <2>3, OrderFields, SumGrows
  <2>5. \A a, b, c \in Nat : a <= b => a * c <= b * c
    OBVIOUS
  <2>6. Net(o, units) * total <= Net(o, more) * total
    BY <1>1, <2>4, <2>5, NetFields
  <2>7. Net(o, units) * total \in Nat /\ Net(o, more) * total \in Nat
    BY <1>1, <1>3, NetFields
  <2> QED  BY <1>1, <1>2, <2>6, <2>7, HalfUpFacts
<1>6. Worth(o, o.quantity) = total
  <2>1. Net(o, o.quantity) = d
    BY NetOfAll DEF d
  <2> QED  BY <1>1, <1>2, <2>1, HalfUpFacts
<1>7. Worth(o, Nothing) = 0
  <2> DEFINE g == LineWorth(o, Nothing)
  <2>1. ASSUME NEW x \in Ordered(o)
        PROVE  g[x] = 0
    <3>1. /\ x \in Products /\ o.subtotal[x] \in Nat /\ Scale(o) \div o.quantity[x] \in Nat
      BY OrderFields, ScaleDivides
    <3>2. 0 * o.subtotal[x] * (Scale(o) \div o.quantity[x]) = 0
      BY <3>1
    <3> QED  BY <3>1, <3>2, NothingIsLines DEF LineWorth
  <2>2. Net(o, Nothing) = SumFunctionOnSet(g, Ordered(o))
    BY NetFields, NothingIsLines
  <2> HIDE DEF g
  <2>3. SumFunctionOnSet(g, Ordered(o)) = SumFunctionOnSet(g, {})
    BY <2>1, OrderFields, SumZeroes
  <2>4. Net(o, Nothing) * total = 0
    BY <1>1, <2>2, <2>3, SumEmpty
  <2> QED  BY <1>1, <1>2, <2>4, HalfUpFacts
<1> QED  BY <1>4, <1>5, <1>6, <1>7 DEF total

-----------------------------------------------------------------------------
(* What is true of one transaction.                                        *)

Goods == [key : Keys, purchase : Purchases, lines : Lines]
Payment == [key : Keys, purchase : Purchases, amount : Nat]

Tx == [pc : Steps, req : Requests \cup {None}, held : SUBSET Locks,
       inserted : BOOLEAN, paidOut : Nat,
       ans : {"none", "ok", "conflict", "refused", "missing"}]

\* Past its first lock, and not ended.
Working(t) == t.pc \notin {"idle", "lock", "resolve", "done"}

Stages(op) == CASE op = "receive" -> {"insert", "stock", "payable", "commit"}
                [] op = "return" -> {"payable", "insert", "stock", "commit"}
                [] op = "pay" -> {"insert", "find", "till", "commit"}

\* It holds the row of the debt.
AtDebt(t) == \/ t.req.op = "receive" /\ t.pc = "commit"
             \/ t.req.op = "return" /\ t.pc # "payable"
             \/ t.req.op = "pay"

\* Which stages an operation goes through, with which locks, and that nothing is
\* kept after it.
Staged(t) ==
    /\ t.pc # "idle" => t.req \in Requests
    /\ Working(t) => t.pc \in Stages(t.req.op)
    /\ ~Working(t) => t.held = {} /\ ~t.inserted /\ t.paidOut = 0
    /\ t.pc # "done" => t.ans = "none"
    /\ Working(t) /\ t.req.op # "pay" => PurchaseRow(t.req.purchase) \in t.held
    /\ Working(t) /\ AtDebt(t) => PayableRow(t.req.purchase) \in t.held
    /\ Working(t) => (t.inserted <=> ~ \/ t.pc = "insert"
                                       \/ t.pc = "payable" /\ t.req.op = "return")
    /\ t.paidOut > 0 => TillRow \in t.held
    /\ t.pc \in {"find", "till"} => t.req.cash

\* Its purchase and its debt are still as the operation found them, and its key is new.
FoundAs(t) ==
    LET q == t.req
        u == q.purchase
    IN  Working(t) =>
            /\ q.op = "receive" => status[u] \in Receivable /\ FitsPending(u, q.lines)
            /\ q.op = "return" => status[u] \in Returnable /\ FitsReturnable(u, q.lines)
            /\ q.op = "return" /\ AtDebt(t) =>
                   payable[u].amount - Worth(order[u], q.lines) >= PaidFor(u)
            /\ q.op = "pay" => payable[u].status # "NONE" /\ FitsBalance(u, q.amount)
            /\ \A row \in WithKey(q.key, DocumentsOf(q.op)) : row.purchase # u
            /\ t.inserted => WithKey(q.key, DocumentsOf(q.op)) = {}

\* The goods it takes are there, and are held by it.
Taken(t) ==
    Working(t) /\ t.req.op = "return" =>
        /\ \A x \in Products : StockLock(x) \in t.held => t.req.lines[x] <= stock[x]
        /\ t.pc = "commit" => \A x \in Products : t.req.lines[x] > 0 => StockLock(x) \in t.held

\* So is the cash it pays out, and no movement has its key.
Cash(t) == /\ t.paidOut > 0 => t.paidOut <= drawer.cash
           /\ TillRow \in t.held => t.req.key \in Keys /\ movements[t.req.key] = "NONE"

\* What it answers, or is about to: a conflict is one with another purchase, or with a
\* manual movement at the till.
Answered(t) ==
    LET found == WithKey(t.req.key, DocumentsOf(t.req.op))
    IN  /\ t.ans = "ok" =>
              \/ KeyOfManualMovement(t.req)
              \/ \E row \in found :
                    /\ row.purchase = t.req.purchase
                    /\ t.req.op = "receive" => row.lines = t.req.lines
        /\ t.pc = "resolve" =>
              \/ KeyOfManualMovement(t.req)
              \/ \E row \in found : row.purchase # t.req.purchase

Fits(t) == Staged(t) /\ FoundAs(t) /\ Taken(t) /\ Cash(t) /\ Answered(t)

\* What is true of two transactions: no lock is held by both, and no key inserted by both.
Apart(t, u) == /\ t.held \cap u.held = {}
               /\ t.inserted /\ u.inserted /\ t.req.op = u.req.op => t.req.key # u.req.key

-----------------------------------------------------------------------------
(* What is true of the tables.                                             *)

Typed ==
    /\ status \in [Purchases -> {"NONE", "DRAFT", "CONFIRMED", "PARTIALLY_RECEIVED",
                                 "RECEIVED", "CANCELLED"}]
    /\ order \in [Purchases -> Orders]
    /\ received \in [Purchases -> Lines] /\ returned \in [Purchases -> Lines]
    /\ receipts \subseteq Goods /\ returns \subseteq Goods /\ payments \subseteq Payment
    /\ payable \in [Purchases -> [status : {"NONE", "PENDING", "PAID"}, amount : Nat]]
    /\ stock \in Lines
    /\ drawer \in [open : BOOLEAN, cash : Nat]

Finite == IsFiniteSet(receipts) /\ IsFiniteSet(returns) /\ IsFiniteSet(payments)

\* A purchase with no delivery has no debt, and no debt is larger than what was
\* delivered is worth.
Owed ==
    \A u \in Purchases :
        /\ status[u] \notin Returnable => /\ received[u] = Nothing /\ returned[u] = Nothing
                                          /\ payable[u].status = "NONE"
        /\ status[u] \in Returnable => payable[u].status # "NONE"
        /\ payable[u].status = "NONE" => payable[u].amount = 0
        /\ payable[u].amount <= Worth(order[u], received[u])

TablesRight == /\ Typed /\ Finite /\ Owed
               /\ GoodsAccounted /\ NeverOverpaid /\ DebtStatusTrue /\ ReceivedInFullOwesTotal

\* A movement of a payment at the till is of a payment on record.
MovementsRight == /\ movements \in [Keys -> {"NONE", "CASH_IN", "PAYABLE_PAYMENT"}]
                  /\ CashOutIsPaid

Transactions == /\ tx \in [Procs -> Tx]
                /\ \A p \in Procs : Fits(tx[p])
                /\ \A p, q \in Procs : p # q => Apart(tx[p], tx[q])

IInv == TablesRight /\ MovementsRight /\ Transactions

-----------------------------------------------------------------------------
(* Facts about the data.                                                   *)

\* What is paid for a purchase by these payments.
PaidBy(u, rows) == SumFunction([y \in {z \in rows : z.purchase = u} |-> y.amount])

\* Rows with a number each, and one more of them.
LEMMA LinesNat ==
    ASSUME NEW rows, IsFiniteSet(rows), rows \subseteq Goods, NEW x \in Products, NEW u
    PROVE  LinesOf(u, rows, x) \in Nat
<1> DEFINE S == {d \in rows : d.purchase = u}
           g == [row \in S |-> row.lines[x]]
<1>1. IsFiniteSet(S)
  BY FS_Subset
<1>2. DOMAIN g = S /\ \A y \in S : g[y] \in Nat
  BY DEF Goods, Lines
<1> HIDE DEF g
<1>3. SumFunction(g) \in Nat
  BY <1>1, <1>2, SumNat DEF SumFunction
<1> QED  BY <1>3 DEF LinesOf, g

LEMMA LinesOfAdd ==
    ASSUME NEW rows, IsFiniteSet(rows), rows \subseteq Goods, NEW x \in Products, NEW u,
           NEW row \in Goods, row \notin rows
    PROVE  LinesOf(u, rows \cup {row}, x)
               = LinesOf(u, rows, x) + (IF row.purchase = u THEN row.lines[x] ELSE 0)
<1> DEFINE S == {d \in rows : d.purchase = u}
           T == {d \in rows \cup {row} : d.purchase = u}
           g == [d \in S |-> d.lines[x]]
           h == [d \in T |-> d.lines[x]]
<1>1. IsFiniteSet(S) /\ row \notin S
  BY FS_Subset
<1>2. LinesOf(u, rows, x) \in Nat
  BY LinesNat
<1>3. CASE row.purchase = u
  <2>1. T = S \cup {row}
    BY <1>3
  <2>2. /\ DOMAIN g = S /\ DOMAIN h = T
        /\ \A d \in S : g[d] = h[d]
        /\ h[row] = row.lines[x]
    BY <2>1
  <2>3. \A d \in S \cup {row} : h[d] \in Int
    BY <2>1 DEF Goods, Lines
  <2> HIDE DEF g, h
  <2>4. SumFunctionOnSet(h, T) = h[row] + SumFunctionOnSet(h, S)
    BY <1>1, <2>1, <2>3, SumAdd
  <2>5. SumFunctionOnSet(h, S) = SumFunctionOnSet(g, S)
    BY <1>1, <2>2, SumSame
  <2>6. LinesOf(u, rows, x) = SumFunctionOnSet(g, S)
    BY <2>2 DEF LinesOf, SumFunction, g
  <2>7. LinesOf(u, rows \cup {row}, x) = SumFunctionOnSet(h, T)
    BY <2>2 DEF LinesOf, SumFunction, h
  <2>8. row.lines[x] \in Nat
    BY DEF Goods, Lines
  <2> QED  BY <1>2, <1>3, <2>2, <2>4, <2>5, <2>6, <2>7, <2>8
<1>4. CASE row.purchase # u
  <2>1. T = S
    BY <1>4
  <2>2. LinesOf(u, rows \cup {row}, x) = LinesOf(u, rows, x)
    BY <2>1 DEF LinesOf
  <2> QED  BY <1>2, <1>4, <2>2
<1> QED  BY <1>3, <1>4

LEMMA PaidNat ==
    ASSUME NEW rows, IsFiniteSet(rows), rows \subseteq Payment, NEW u
    PROVE  PaidBy(u, rows) \in Nat
<1> DEFINE S == {d \in rows : d.purchase = u}
           g == [row \in S |-> row.amount]
<1>1. IsFiniteSet(S)
  BY FS_Subset
<1>2. DOMAIN g = S /\ \A y \in S : g[y] \in Nat
  BY DEF Payment
<1> HIDE DEF g
<1>3. SumFunction(g) \in Nat
  BY <1>1, <1>2, SumNat DEF SumFunction
<1> QED  BY <1>3 DEF PaidBy, g

LEMMA PaidByAdd ==
    ASSUME NEW rows, IsFiniteSet(rows), rows \subseteq Payment, NEW u,
           NEW row \in Payment, row \notin rows
    PROVE  PaidBy(u, rows \cup {row})
               = PaidBy(u, rows) + (IF row.purchase = u THEN row.amount ELSE 0)
<1> DEFINE S == {d \in rows : d.purchase = u}
           T == {d \in rows \cup {row} : d.purchase = u}
           g == [d \in S |-> d.amount]
           h == [d \in T |-> d.amount]
<1>1. IsFiniteSet(S) /\ row \notin S
  BY FS_Subset
<1>2. PaidBy(u, rows) \in Nat
  BY PaidNat
<1>3. CASE row.purchase = u
  <2>1. T = S \cup {row}
    BY <1>3
  <2>2. /\ DOMAIN g = S /\ DOMAIN h = T
        /\ \A d \in S : g[d] = h[d]
        /\ h[row] = row.amount
    BY <2>1
  <2>3. \A d \in S \cup {row} : h[d] \in Int
    BY <2>1 DEF Payment
  <2> HIDE DEF g, h
  <2>4. SumFunctionOnSet(h, T) = h[row] + SumFunctionOnSet(h, S)
    BY <1>1, <2>1, <2>3, SumAdd
  <2>5. SumFunctionOnSet(h, S) = SumFunctionOnSet(g, S)
    BY <1>1, <2>2, SumSame
  <2>6. PaidBy(u, rows) = SumFunctionOnSet(g, S)
    BY <2>2 DEF PaidBy, SumFunction, g
  <2>7. PaidBy(u, rows \cup {row}) = SumFunctionOnSet(h, T)
    BY <2>2 DEF PaidBy, SumFunction, h
  <2>8. row.amount \in Nat
    BY DEF Payment
  <2> QED  BY <1>2, <1>3, <2>2, <2>4, <2>5, <2>6, <2>7, <2>8
<1>4. CASE row.purchase # u
  <2>1. T = S
    BY <1>4
  <2>2. PaidBy(u, rows \cup {row}) = PaidBy(u, rows)
    BY <2>1 DEF PaidBy
  <2> QED  BY <1>2, <1>4, <2>2
<1> QED  BY <1>3, <1>4

\* What a request is made of.
LEMMA RequestFields ==
    ASSUME NEW q \in Requests
    PROVE  /\ q.op \in {"receive", "return", "pay"} /\ q.purchase \in Purchases
           /\ q.key \in Keys /\ q.lines \in Lines /\ q.amount \in Nat /\ q.cash \in BOOLEAN
           /\ \A x \in Products : q.lines[x] \in Nat
<1>1. q \in Request
  BY RequestsAssumption
<1> QED  BY <1>1 DEF Request, Lines

\* The empty transaction.
LEMMA IdleFields ==
    /\ IdleTx \in Tx
    /\ IdleTx.pc = "idle" /\ IdleTx.req = None /\ IdleTx.held = {}
    /\ IdleTx.inserted = FALSE /\ IdleTx.paidOut = 0 /\ IdleTx.ans = "none"
BY DEF IdleTx, Tx, Steps

LEMMA RequestKnown ==
    ASSUME IInv, NEW p \in Procs
    PROVE  /\ tx[p] \in Tx /\ Fits(tx[p]) /\ Staged(tx[p])
           /\ tx[p].pc # "idle" => /\ tx[p].req \in Requests
                                   /\ tx[p].req.purchase \in Purchases
                                   /\ tx[p].req.op \in {"receive", "return", "pay"}
BY RequestFields DEF IInv, Transactions, Fits, Staged

\* The documents of each operation.
LEMMA Documents ==
    /\ DocumentsOf("receive") = receipts /\ DocumentsOf("return") = returns
    /\ DocumentsOf("pay") = payments
BY DEF DocumentsOf

\* What is known of the purchase that a transaction is at.
LEMMA PurchaseFields ==
    ASSUME TablesRight, NEW u \in Purchases
    PROVE  /\ order[u] \in Orders
           /\ received[u] \in Lines /\ returned[u] \in Lines
           /\ \A x \in Products : received[u][x] \in Nat /\ returned[u][x] \in Nat
           /\ payable[u].status \in {"NONE", "PENDING", "PAID"} /\ payable[u].amount \in Nat
           /\ PaidFor(u) \in Nat /\ PaidFor(u) = PaidBy(u, payments)
           /\ PaidFor(u) <= payable[u].amount
<1>1. PaidFor(u) = PaidBy(u, payments)
  BY DEF PaidFor, PaidBy
<1>2. PaidBy(u, payments) \in Nat
  BY PaidNat DEF TablesRight, Typed, Finite
<1>3. received[u] \in Lines /\ returned[u] \in Lines
  BY DEF TablesRight, Typed
<1>4. \A x \in Products : received[u][x] \in Nat /\ returned[u][x] \in Nat
  BY <1>3 DEF Lines
<1>5. order[u] \in Orders /\ payable[u].status \in {"NONE", "PENDING", "PAID"}
      /\ payable[u].amount \in Nat
  BY DEF TablesRight, Typed
<1>6. PaidFor(u) <= payable[u].amount
  BY DEF TablesRight, NeverOverpaid
<1> QED  BY <1>1, <1>2, <1>3, <1>4, <1>5, <1>6

-----------------------------------------------------------------------------
(* Steps of others leave a transaction as it should be, when they leave    *)
(* alone the rows it holds and the keys it has inserted.                   *)

\* Of its purchase, its debt, its stock and its till, what it holds is as it was.
Untouched(t) ==
    LET u == t.req.purchase
    IN  /\ Working(t) /\ t.req.op # "pay" =>
              /\ status'[u] = status[u] /\ order'[u] = order[u]
              /\ received'[u] = received[u] /\ returned'[u] = returned[u]
        /\ Working(t) /\ AtDebt(t) => payable'[u] = payable[u] /\ PaidBy(u, payments') = PaidBy(u, payments)
        /\ \A x \in Products : StockLock(x) \in t.held => stock'[x] >= stock[x]
        /\ TillRow \in t.held => drawer' = drawer /\ movements' = movements

\* A movement stays.
CashInsStay == \A k \in Keys : movements[k] = "CASH_IN" => movements'[k] = "CASH_IN"

LEMMA MovementsStay ==
    ASSUME IInv, movements' = movements, payments \subseteq payments'
    PROVE  MovementsRight' /\ CashInsStay
BY DEF IInv, MovementsRight, CashOutIsPaid, CashInsStay, WithKey

\* Documents are added, none of its purchase while it holds it, none under its key.
Added(t, before, after) ==
    /\ before \subseteq after
    /\ Working(t) => \A row \in after \ before :
           /\ row.purchase # t.req.purchase
           /\ t.inserted => row.key # t.req.key

AddedAll(t) ==
    /\ t.req.op = "receive" => Added(t, receipts, receipts')
    /\ t.req.op = "return" => Added(t, returns, returns')
    /\ t.req.op = "pay" => Added(t, payments, payments')

LEMMA OtherFits ==
    ASSUME IInv, NEW q \in Procs, tx'[q] = tx[q], Untouched(tx[q]), AddedAll(tx[q]),
           stock' \in Lines, CashInsStay
    PROVE  Fits(tx[q])'
<1> DEFINE r == tx[q].req
           u == r.purchase
           docs == DocumentsOf(r.op)
<1>1. Fits(tx[q]) /\ (tx[q].pc # "idle" => r \in Requests /\ u \in Purchases
                                           /\ r.op \in {"receive", "return", "pay"})
  BY RequestKnown
<1>2. Staged(tx[q])'
  BY <1>1 DEF Fits, Staged, Working, AtDebt
<1>3. tx[q].pc # "idle" => Added(tx[q], DocumentsOf(r.op), DocumentsOf(r.op)')
  BY <1>1 DEF AddedAll, DocumentsOf
<1>4. ASSUME Working(tx[q])
      PROVE  FoundAs(tx[q])'
  <2>0. /\ r \in Requests /\ r.op \in {"receive", "return", "pay"} /\ FoundAs(tx[q])
        /\ Added(tx[q], DocumentsOf(r.op), DocumentsOf(r.op)')
    BY <1>1, <1>3, <1>4 DEF Working, Fits
  <2>1. r.op = "receive" => status'[u] \in Receivable /\ FitsPending(u, r.lines)'
    BY <1>4, <2>0 DEF FoundAs, Untouched, FitsPending
  <2>2. r.op = "return" => status'[u] \in Returnable /\ FitsReturnable(u, r.lines)'
    BY <1>4, <2>0 DEF FoundAs, Untouched, FitsReturnable
  <2>3. r.op = "return" /\ AtDebt(tx[q]) =>
            payable'[u].amount - Worth(order'[u], r.lines) >= PaidFor(u)'
    BY <1>4, <2>0 DEF FoundAs, Untouched, PaidFor, PaidBy
  <2>4. r.op = "pay" => payable'[u].status # "NONE" /\ FitsBalance(u, r.amount)'
    BY <1>4, <2>0 DEF FoundAs, Untouched, AtDebt, FitsBalance, LeftToPay, PaidFor, PaidBy
  <2>5. \A row \in WithKey(r.key, DocumentsOf(r.op)') : row.purchase # u
    BY <1>4, <2>0 DEF FoundAs, Added, WithKey
  <2>6. tx[q].inserted => WithKey(r.key, DocumentsOf(r.op)') = {}
    BY <1>4, <2>0 DEF FoundAs, Added, WithKey
  <2>7. tx'[q].req = r
    OBVIOUS
  <2> QED  BY <2>1, <2>2, <2>3, <2>4, <2>5, <2>6, <2>7 DEF FoundAs, AtDebt, WithKey
<1>5. ASSUME ~Working(tx[q])
      PROVE  FoundAs(tx[q])'
  BY <1>5 DEF FoundAs, Working
<1>6. Taken(tx[q])'
  <2>1. ASSUME NEW x \in Products, Working(tx[q]), r.op = "return", StockLock(x) \in tx[q].held
        PROVE  r.lines[x] <= stock'[x]
    <3>1. r.lines[x] <= stock[x] /\ stock'[x] >= stock[x]
      BY <1>1, <2>1 DEF Fits, Taken, Untouched
    <3>2. stock[x] \in Nat /\ stock'[x] \in Nat
      BY DEF IInv, TablesRight, Typed, Lines
    <3>3. r.lines[x] \in Nat
      BY <1>1, <2>1, RequestFields DEF Working
    <3> QED  BY <3>1, <3>2, <3>3
  <2> QED  BY <1>1, <2>1 DEF Fits, Taken, Working
<1>7. Cash(tx[q])'
  BY <1>1 DEF Fits, Cash, Staged, Untouched
<1>8. Answered(tx[q])'
  <2>1. CASE tx[q].pc = "idle"
    BY <1>1, <2>1 DEF Fits, Answered, Staged
  <2>2. CASE tx[q].pc # "idle"
    <3>1. WithKey(r.key, DocumentsOf(r.op)) \subseteq WithKey(r.key, DocumentsOf(r.op)')
      BY <1>3, <2>2 DEF Added, WithKey
    <3>2. KeyOfManualMovement(r) => KeyOfManualMovement(r)'
      BY <1>1, <2>2, RequestFields DEF KeyOfManualMovement, CashInsStay
    <3> QED  BY <1>1, <3>1, <3>2 DEF Fits, Answered, WithKey
  <2> QED  BY <2>1, <2>2
<1> QED  BY <1>2, <1>4, <1>5, <1>6, <1>7, <1>8 DEF Fits

-----------------------------------------------------------------------------
(* Steps that change one transaction and no table.                         *)

\* A transaction that is as it should be after the step leaves all as it should be.
LEMMA Frame ==
    ASSUME IInv, NEW p \in Procs, NEW new \in Tx, tx' = [tx EXCEPT ![p] = new],
           UNCHANGED tables, Fits(new), \A q \in Procs \ {p} : Apart(new, tx[q])
    PROVE  IInv'
<1>1. /\ tx' \in [Procs -> Tx]
      /\ tx'[p] = new
      /\ \A q \in Procs : q # p => tx'[q] = tx[q]
  BY DEF IInv, Transactions
<1>2. /\ status' = status /\ order' = order /\ received' = received /\ returned' = returned
      /\ receipts' = receipts /\ returns' = returns /\ payments' = payments
      /\ payable' = payable /\ stock' = stock /\ drawer' = drawer /\ movements' = movements
  BY DEF tables, documents
<1>3. TablesRight'
  <2>1. Typed' /\ Finite' /\ Owed'
    BY <1>2 DEF IInv, TablesRight, Typed, Finite, Owed
  <2>2. GoodsAccounted'
    BY <1>2 DEF IInv, TablesRight, GoodsAccounted
  <2>3. NeverOverpaid' /\ DebtStatusTrue' /\ ReceivedInFullOwesTotal'
    BY <1>2 DEF IInv, TablesRight, NeverOverpaid, DebtStatusTrue, ReceivedInFullOwesTotal, PaidFor
  <2> QED  BY <2>1, <2>2, <2>3 DEF TablesRight
<1>4. Fits(new)'
  BY <1>2 DEF Fits, Staged, FoundAs, Taken, Cash, Answered, Working, AtDebt, FitsPending,
              FitsReturnable, FitsBalance, LeftToPay, PaidFor, DocumentsOf, WithKey,
              KeyOfManualMovement
<1>5. MovementsRight' /\ CashInsStay
  BY <1>2, MovementsStay
<1>6. ASSUME NEW q \in Procs, q # p
      PROVE  Fits(tx[q])'
  <2>1. tx'[q] = tx[q]
    BY <1>1, <1>6
  <2>2. stock \in Lines /\ \A x \in Products : stock[x] \in Nat
    BY DEF IInv, TablesRight, Typed, Lines
  <2>3. Untouched(tx[q])
    BY <1>2, <2>1, <2>2 DEF Untouched
  <2>4. AddedAll(tx[q])
    BY <1>2 DEF AddedAll, Added
  <2> QED  BY <1>2, <1>5, <2>1, <2>2, <2>3, <2>4, OtherFits
<1>7. ASSUME NEW q \in Procs, NEW r \in Procs, q # r
      PROVE  Apart(tx[q], tx[r])'
  <2>1. Apart(tx[q], tx[r])
    BY <1>7 DEF IInv, Transactions
  <2> QED  BY <1>1, <1>7, <2>1 DEF Apart
<1> QED  BY <1>1, <1>3, <1>4, <1>5, <1>6, <1>7 DEF IInv, Transactions

\* The end of a transaction, whatever it comes to.
LEMMA EndStep ==
    ASSUME IInv, NEW p \in Procs, NEW new \in Tx, tx' = [tx EXCEPT ![p] = new],
           UNCHANGED tables, ~Working(new),
           new.held = {}, new.inserted = FALSE, new.paidOut = 0,
           new.pc # "idle" => new.req \in Requests, new.pc # "done" => new.ans = "none",
           Answered(new)
    PROVE  IInv'
<1>1. Staged(new)
  BY DEF Staged, Working
<1>2. FoundAs(new) /\ Taken(new) /\ Cash(new)
  BY DEF FoundAs, Taken, Cash
<1>3. \A q \in Procs \ {p} : Apart(new, tx[q])
  BY DEF Apart
<1> QED  BY <1>1, <1>2, <1>3, Frame DEF Fits

\* The same, when it has its answer.
LEMMA DoneStep ==
    ASSUME IInv, NEW p \in Procs, tx[p].pc # "idle",
           NEW answer \in {"ok", "conflict", "refused", "missing"}, Done(p, answer),
           UNCHANGED tables,
           answer = "ok" =>
               \/ KeyOfManualMovement(tx[p].req)
               \/ \E row \in WithKey(tx[p].req.key, DocumentsOf(tx[p].req.op)) :
                     /\ row.purchase = tx[p].req.purchase
                     /\ tx[p].req.op = "receive" => row.lines = tx[p].req.lines
    PROVE  IInv'
<1> DEFINE new == [IdleTx EXCEPT !.pc = "done", !.req = tx[p].req, !.ans = answer]
<1>1. tx[p].req \in Requests
  BY RequestKnown
<1>2. /\ new \in Tx
      /\ new.pc = "done" /\ new.req = tx[p].req /\ new.ans = answer
      /\ new.held = {} /\ new.inserted = FALSE /\ new.paidOut = 0
  BY <1>1, IdleFields DEF Tx, Steps
<1>3. tx' = [tx EXCEPT ![p] = new]
  BY DEF Done
<1> HIDE DEF new
<1>4. Answered(new) /\ ~Working(new)
  BY <1>2 DEF Answered, Working
<1> QED  BY <1>1, <1>2, <1>3, <1>4, EndStep

\* A request begins, its answer goes out, or it dies.
LEMMA Edges ==
    ASSUME IInv, NEW p \in Procs,
           (\E q \in Requests : Begin(p, q)) \/ Finish(p) \/ Abort(p)
    PROVE  IInv'
<1>1. ASSUME NEW q \in Requests, Begin(p, q)
      PROVE  IInv'
  <2> DEFINE new == [IdleTx EXCEPT !.pc = "lock", !.req = q]
  <2>1. /\ new \in Tx
        /\ new.pc = "lock" /\ new.req = q /\ new.ans = "none"
        /\ new.held = {} /\ new.inserted = FALSE /\ new.paidOut = 0
    BY IdleFields DEF Tx, Steps
  <2>2. tx' = [tx EXCEPT ![p] = new] /\ UNCHANGED tables
    BY <1>1 DEF Begin
  <2> HIDE DEF new
  <2>3. Answered(new) /\ ~Working(new)
    BY <2>1 DEF Answered, Working
  <2> QED  BY <2>1, <2>2, <2>3, EndStep
<1>2. CASE Finish(p) \/ Abort(p)
  <2>1. tx' = [tx EXCEPT ![p] = IdleTx] /\ UNCHANGED tables
    BY <1>2 DEF Finish, Abort
  <2>2. Answered(IdleTx) /\ ~Working(IdleTx)
    BY IdleFields DEF Answered, Working
  <2> QED  BY <2>1, <2>2, IdleFields, EndStep
<1> QED  BY <1>1, <1>2

\* The row is locked, and what is found in it is what the operation needs.
LEMMA LockStep ==
    ASSUME IInv, NEW p \in Procs, tx[p].pc = "lock", UNCHANGED tables,
           NEW lock, lock \in Locks, ~HeldByOther(p, lock), NEW step, Hold(p, lock, step),
           WithKey(tx[p].req.key, DocumentsOf(tx[p].req.op)) = {},
           LET q == tx[p].req
               u == q.purchase
           IN  \/ /\ q.op = "receive" /\ lock = PurchaseRow(u) /\ step = "insert"
                  /\ status[u] \in Receivable /\ FitsPending(u, q.lines)
               \/ /\ q.op = "return" /\ lock = PurchaseRow(u) /\ step = "payable"
                  /\ status[u] \in Returnable /\ FitsReturnable(u, q.lines)
               \/ /\ q.op = "pay" /\ lock = PayableRow(u) /\ step = "insert"
                  /\ payable[u].status # "NONE" /\ FitsBalance(u, q.amount)
    PROVE  IInv'
<1> DEFINE new == [tx[p] EXCEPT !.pc = step, !.held = @ \cup {lock}]
<1>0. /\ tx[p] \in Tx /\ Staged(tx[p]) /\ tx[p].req \in Requests /\ step \in Steps
  BY RequestKnown DEF Steps
<1>1. tx[p].held = {} /\ ~tx[p].inserted /\ tx[p].paidOut = 0 /\ tx[p].ans = "none"
  BY <1>0 DEF Staged, Working
<1>2. /\ new \in Tx
      /\ new.pc = step /\ new.req = tx[p].req /\ new.held = {lock}
      /\ new.inserted = tx[p].inserted /\ new.paidOut = 0 /\ new.ans = "none"
  BY <1>0, <1>1 DEF Tx
<1>3. tx' = [tx EXCEPT ![p] = new]
  BY DEF Hold
<1>4. \A q \in Procs \ {p} : lock \notin tx[q].held
  BY DEF HeldByOther
<1>5. lock # TillRow /\ \A x : lock # StockLock(x)
  BY DEF StockLock, PurchaseRow, PayableRow, TillRow
<1> HIDE DEF new
<1>6. Working(new)
  BY <1>2 DEF Working
<1>7. Staged(new)
  BY <1>0, <1>1, <1>2, <1>6 DEF Staged, Stages, AtDebt
<1>8. FoundAs(new)
  BY <1>1, <1>2 DEF FoundAs, AtDebt
<1>9. Taken(new) /\ Cash(new) /\ Answered(new)
  BY <1>2, <1>5 DEF Taken, Cash, Answered
<1>10. \A q \in Procs \ {p} : Apart(new, tx[q])
  BY <1>1, <1>2, <1>4 DEF Apart
<1> QED  BY <1>2, <1>3, <1>7, <1>8, <1>9, <1>10, Frame DEF Fits

LEMMA LocksTyped ==
    /\ \A u \in Purchases : PurchaseRow(u) \in Locks /\ PayableRow(u) \in Locks
    /\ \A x \in Products : StockLock(x) \in Locks
    /\ TillRow \in Locks
    /\ \A u, x : PurchaseRow(u) # StockLock(x) /\ PayableRow(u) # StockLock(x)
    /\ \A u : TillRow # StockLock(u) /\ TillRow # PurchaseRow(u) /\ TillRow # PayableRow(u)
    /\ \A u, v : PurchaseRow(u) # PayableRow(v)
    /\ \A u, v : PurchaseRow(u) = PurchaseRow(v) => u = v
    /\ \A u, v : PayableRow(u) = PayableRow(v) => u = v
    /\ \A u, v : StockLock(u) = StockLock(v) => u = v
BY DEF PurchaseRow, PayableRow, StockLock, TillRow, Locks

LEMMA ReceiveBegins ==
    ASSUME IInv, NEW p \in Procs, ReceiveBegin(p)
    PROVE  IInv'
<1> DEFINE q == tx[p].req
           u == q.purchase
           found == WithKey(q.key, receipts)
<1>1. /\ tx[p].pc = "lock" /\ q.op = "receive" /\ UNCHANGED tables
      /\ ~HeldByOther(p, PurchaseRow(u)) /\ DocumentsOf(q.op) = receipts /\ u \in Purchases
  BY RequestKnown, Documents DEF ReceiveBegin
<1>2. CASE Done(p, "missing") \/ Done(p, "conflict") \/ Done(p, "refused")
  BY <1>1, <1>2, DoneStep
<1>3. ASSUME NEW row \in found, SameReceipt(row, q), Done(p, "ok")
      PROVE  IInv'
  BY <1>1, <1>3, DoneStep DEF SameReceipt
<1>4. CASE /\ found = {} /\ status[u] \in Receivable /\ FitsPending(u, q.lines)
           /\ Hold(p, PurchaseRow(u), "insert")
  BY <1>1, <1>4, LockStep, LocksTyped
<1> QED  BY <1>2, <1>3, <1>4 DEF ReceiveBegin

LEMMA ReturnBegins ==
    ASSUME IInv, NEW p \in Procs, ReturnBegin(p)
    PROVE  IInv'
<1> DEFINE q == tx[p].req
           u == q.purchase
           found == WithKey(q.key, returns)
<1>1. /\ tx[p].pc = "lock" /\ q.op = "return" /\ UNCHANGED tables
      /\ ~HeldByOther(p, PurchaseRow(u)) /\ DocumentsOf(q.op) = returns /\ u \in Purchases
  BY RequestKnown, Documents DEF ReturnBegin
<1>2. CASE Done(p, "missing") \/ Done(p, "conflict") \/ Done(p, "refused")
  BY <1>1, <1>2, DoneStep
<1>3. ASSUME NEW row \in found, row.purchase = u, Done(p, "ok")
      PROVE  IInv'
  BY <1>1, <1>3, DoneStep
<1>4. CASE /\ found = {} /\ status[u] \in Returnable /\ FitsReturnable(u, q.lines)
           /\ Hold(p, PurchaseRow(u), "payable")
  BY <1>1, <1>4, LockStep, LocksTyped
<1> QED  BY <1>2, <1>3, <1>4 DEF ReturnBegin

LEMMA PayBegins ==
    ASSUME IInv, NEW p \in Procs, PayBegin(p)
    PROVE  IInv'
<1> DEFINE q == tx[p].req
           u == q.purchase
           found == WithKey(q.key, payments)
<1>1. /\ tx[p].pc = "lock" /\ q.op = "pay" /\ UNCHANGED tables
      /\ ~HeldByOther(p, PayableRow(u)) /\ DocumentsOf(q.op) = payments /\ u \in Purchases
  BY RequestKnown, Documents DEF PayBegin
<1>2. CASE Done(p, "missing") \/ Done(p, "conflict") \/ Done(p, "refused")
  BY <1>1, <1>2, DoneStep
<1>3. ASSUME NEW row \in found, row.purchase = u, Done(p, "ok")
      PROVE  IInv'
  BY <1>1, <1>3, DoneStep
<1>4. CASE /\ found = {} /\ payable[u].status # "NONE" /\ FitsBalance(u, q.amount)
           /\ Hold(p, PayableRow(u), "insert")
  BY <1>1, <1>4, LockStep, LocksTyped
<1> QED  BY <1>2, <1>3, <1>4 DEF PayBegin

\* A transaction at work that goes on, and may take a lock more or insert its key.
LEMMA WorkStep ==
    ASSUME IInv, NEW p \in Procs, Working(tx[p]), NEW new \in Tx, tx' = [tx EXCEPT ![p] = new],
           UNCHANGED tables, Working(new), new.req = tx[p].req, Staged(new),
           \A q \in Procs \ {p} : new.held \cap tx[q].held = {},
           new.inserted => \/ tx[p].inserted
                           \/ /\ WithKey(new.req.key, DocumentsOf(new.req.op)) = {}
                              /\ KeyTakenBy(p) = {},
           new.req.op = "return" /\ AtDebt(new) => AtDebt(tx[p]) \/ LeavesPaidCovered(p),
           Taken(new), Cash(new)
    PROVE  IInv'
<1>1. Fits(tx[p]) /\ tx[p].req \in Requests
  BY RequestKnown DEF Working
<1>2. FoundAs(new)
  BY <1>1 DEF Fits, FoundAs, LeavesPaidCovered
<1>3. Answered(new)
  BY DEF Staged, Working, Answered
<1>4. ASSUME NEW q \in Procs \ {p}
      PROVE  Apart(new, tx[q])
  <2>1. Apart(tx[p], tx[q])
    BY DEF IInv, Transactions
  <2> QED  BY <2>1 DEF Apart, KeyTakenBy
<1> QED  BY <1>2, <1>3, <1>4, Frame DEF Fits

LEMMA AtWork ==
    ASSUME IInv, NEW p \in Procs, Working(tx[p])
    PROVE  /\ tx[p] \in Tx /\ Fits(tx[p]) /\ Staged(tx[p])
           /\ tx[p].req \in Requests /\ tx[p].req.purchase \in Purchases
           /\ tx[p].req.op \in {"receive", "return", "pay"}
           /\ tx[p].ans = "none" /\ tx[p].pc # "idle"
           /\ \A q \in Procs \ {p} : tx[p].held \cap tx[q].held = {}
BY RequestKnown DEF Working, Staged, IInv, Transactions, Apart

LEMMA ConflictResolved ==
    ASSUME IInv, NEW p \in Procs, ResolveConflict(p)
    PROVE  IInv'
<1>1. tx[p].pc = "resolve" /\ UNCHANGED tables
  BY DEF ResolveConflict
<1>2. \/ KeyOfManualMovement(tx[p].req)
      \/ \E row \in WithKey(tx[p].req.key, DocumentsOf(tx[p].req.op)) :
            AnotherPurchase(row, tx[p].req.purchase)
  BY <1>1, RequestKnown DEF Fits, Answered, AnotherPurchase
<1>3. CASE \E row \in WithKey(tx[p].req.key, DocumentsOf(tx[p].req.op)) :
              AnotherPurchase(row, tx[p].req.purchase)
  <2>1. Done(p, "conflict")
    BY <1>3, Zenon DEF ResolveConflict
  <2> QED  BY <1>1, <2>1, DoneStep
<1>4. CASE KeyOfManualMovement(tx[p].req)
  <2>1. Done(p, "conflict") \/ Done(p, "ok")
    BY DEF ResolveConflict
  <2> QED  BY <1>1, <1>4, <2>1, DoneStep
<1> QED  BY <1>2, <1>3, <1>4

LEMMA DocumentInserted ==
    ASSUME IInv, NEW p \in Procs, InsertDocument(p)
    PROVE  IInv'
<1> DEFINE q == tx[p].req
<1>1. tx[p].pc = "insert" /\ Working(tx[p]) /\ UNCHANGED tables /\ KeyTakenBy(p) = {}
  BY DEF InsertDocument, Working
<1>2. /\ tx[p] \in Tx /\ Fits(tx[p]) /\ Staged(tx[p]) /\ q \in Requests
      /\ q.op \in {"receive", "return", "pay"} /\ tx[p].ans = "none"
      /\ \A r \in Procs \ {p} : tx[p].held \cap tx[r].held = {}
  BY <1>1, AtWork
<1>3. CASE WithKey(q.key, DocumentsOf(q.op)) = {}
  <2> DEFINE new == [tx[p] EXCEPT !.inserted = TRUE, !.pc = AfterInsert(q)]
  <2>0. /\ AfterInsert(q) \in {"find", "commit", "stock"}
        /\ AfterInsert(q) \in Stages(q.op)
        /\ q.op = "receive" => AfterInsert(q) = "stock"
        /\ q.op = "return" => AfterInsert(q) = "stock"
        /\ AfterInsert(q) = "find" => q.cash
    BY <1>2, RequestFields DEF AfterInsert, Stages
  <2>1. /\ new \in Tx
        /\ new.pc = AfterInsert(q) /\ new.req = q /\ new.held = tx[p].held
        /\ new.inserted = TRUE /\ new.paidOut = tx[p].paidOut /\ new.ans = "none"
    BY <1>2, <2>0 DEF Tx, Steps
  <2>2. tx' = [tx EXCEPT ![p] = new]
    BY <1>3 DEF InsertDocument
  <2> HIDE DEF new
  <2>3. Working(new)
    BY <2>0, <2>1 DEF Working
  <2>4. Staged(new)
    BY <1>1, <1>2, <2>0, <2>1, <2>3 DEF Staged, AtDebt
  <2>5. Taken(new) /\ Cash(new)
    BY <1>1, <1>2, <2>0, <2>1 DEF Fits, Taken, Cash
  <2>6. new.req.op = "return" /\ AtDebt(new) => AtDebt(tx[p]) \/ LeavesPaidCovered(p)
    BY <1>1, <2>1 DEF AtDebt
  <2>7. \A r \in Procs \ {p} : new.held \cap tx[r].held = {}
    BY <1>2, <2>1
  <2>8. new.inserted => \/ tx[p].inserted
                        \/ /\ WithKey(new.req.key, DocumentsOf(new.req.op)) = {}
                           /\ KeyTakenBy(p) = {}
    BY <1>1, <1>3, <2>1
  <2>9. new \in Tx /\ new.req = tx[p].req
    BY <2>1
  <2> QED  BY <1>1, <2>2, <2>3, <2>4, <2>5, <2>6, <2>7, <2>8, <2>9, WorkStep
<1>4. CASE WithKey(q.key, DocumentsOf(q.op)) # {}
  <2> DEFINE new == [IdleTx EXCEPT !.pc = "resolve", !.req = q]
  <2>1. /\ new \in Tx
        /\ new.pc = "resolve" /\ new.req = q /\ new.held = {}
        /\ new.inserted = FALSE /\ new.paidOut = 0 /\ new.ans = "none"
    BY <1>2, IdleFields DEF Tx, Steps
  <2>2. tx' = [tx EXCEPT ![p] = new]
    BY <1>4 DEF InsertDocument
  <2> HIDE DEF new
  <2>3. \E row \in WithKey(q.key, DocumentsOf(q.op)) : row.purchase # q.purchase
    BY <1>1, <1>2, <1>4 DEF Fits, FoundAs
  <2>4. Answered(new) /\ ~Working(new)
    BY <2>1, <2>3 DEF Answered, Working
  <2> QED  BY <1>1, <1>2, <2>1, <2>2, <2>4, EndStep
<1> QED  BY <1>3, <1>4

\* The stock is locked, product after product.
LEMMA StockMoves ==
    ASSUME IInv, NEW p \in Procs, MoveStock(p)
    PROVE  IInv'
<1> DEFINE q == tx[p].req
<1>1. tx[p].pc = "stock" /\ Working(tx[p]) /\ UNCHANGED tables
  BY DEF MoveStock, Working
<1>2. /\ tx[p] \in Tx /\ Fits(tx[p]) /\ Staged(tx[p]) /\ q \in Requests
      /\ q.op \in {"receive", "return"} /\ tx[p].ans = "none"
      /\ \A r \in Procs \ {p} : tx[p].held \cap tx[r].held = {}
  BY <1>1, AtWork DEF Staged, Stages
<1>3. CASE ProductsLeft(p) = {} /\ GoTo(p, IF q.op = "receive" THEN "payable" ELSE "commit")
  <2> DEFINE step == IF q.op = "receive" THEN "payable" ELSE "commit"
             new == [tx[p] EXCEPT !.pc = step]
  <2>0. step \in {"payable", "commit"} /\ (q.op = "receive" <=> step = "payable")
    OBVIOUS
  <2>1. /\ new \in Tx
        /\ new.pc = step /\ new.req = q /\ new.held = tx[p].held
        /\ new.inserted = tx[p].inserted /\ new.paidOut = tx[p].paidOut /\ new.ans = "none"
    BY <1>2 DEF Tx, Steps
  <2>2. tx' = [tx EXCEPT ![p] = new]
    BY <1>2, <1>3 DEF GoTo, IInv, Transactions
  <2>3. \A x \in Products : q.lines[x] > 0 => StockLock(x) \in tx[p].held
    BY <1>3 DEF ProductsLeft
  <2> HIDE DEF new, step
  <2>4. Working(new)
    BY <2>0, <2>1 DEF Working
  <2>5. Staged(new)
    BY <1>1, <1>2, <2>0, <2>1, <2>4 DEF Staged, AtDebt, Stages
  <2>6. Taken(new) /\ Cash(new)
    BY <1>1, <1>2, <2>1, <2>3 DEF Fits, Taken, Cash
  <2>7. q.op = "return" => AtDebt(tx[p])
    BY <1>1 DEF AtDebt
  <2> QED  BY <1>1, <1>2, <2>1, <2>2, <2>4, <2>5, <2>6, <2>7, WorkStep
<1>4. ASSUME NEW x \in NextProducts(ProductsLeft(p)), ~HeldByOther(p, StockLock(x)),
             IF q.op = "return" /\ stock[x] < q.lines[x] THEN Done(p, "conflict")
             ELSE Hold(p, StockLock(x), "stock")
      PROVE  IInv'
  <2>1. x \in Products
    BY DEF NextProducts, ProductsLeft
  <2>2. CASE Done(p, "conflict")
    BY <1>1, <2>2, DoneStep
  <2>3. CASE /\ q.op = "return" => ~(stock[x] < q.lines[x])
             /\ Hold(p, StockLock(x), "stock")
    <3> DEFINE new == [tx[p] EXCEPT !.pc = "stock", !.held = @ \cup {StockLock(x)}]
    <3>0. StockLock(x) \in Locks
      BY <2>1, LocksTyped
    <3>1. /\ new \in Tx
          /\ new.pc = "stock" /\ new.req = q /\ new.held = tx[p].held \cup {StockLock(x)}
          /\ new.inserted = tx[p].inserted /\ new.paidOut = tx[p].paidOut /\ new.ans = "none"
      <4> DEFINE lock == StockLock(x)
      <4> HIDE DEF lock
      <4> QED  BY <1>2, <3>0 DEF Tx, Steps
    <3>2. tx' = [tx EXCEPT ![p] = new]
      BY <2>3 DEF Hold
    <3>3. \A r \in Procs \ {p} : StockLock(x) \notin tx[r].held
      BY <1>4 DEF HeldByOther
    <3> HIDE DEF new
    <3>4. Working(new)
      BY <3>1 DEF Working
    <3>5. Staged(new)
      BY <1>1, <1>2, <3>1, <3>4 DEF Staged, AtDebt
    <3>6. Cash(new)
      BY <1>1, <1>2, <3>1, LocksTyped DEF Fits, Cash
    <3>7. Taken(new)
      <4>1. q.op = "return" => q.lines[x] <= stock[x]
        BY <1>2, <2>1, <2>3, RequestFields DEF IInv, TablesRight, Typed, Lines
      <4>2. \A y \in Products : StockLock(y) = StockLock(x) => y = x
        BY LocksTyped
      <4> QED  BY <1>1, <1>2, <3>1, <4>1, <4>2 DEF Fits, Taken
    <3>8. q.op = "return" => AtDebt(tx[p])
      BY <1>1 DEF AtDebt
    <3>9. \A r \in Procs \ {p} : new.held \cap tx[r].held = {}
      BY <1>2, <3>1, <3>3
    <3> QED  BY <1>1, <3>1, <3>2, <3>4, <3>5, <3>6, <3>7, <3>8, <3>9, WorkStep
  <2> QED  BY <1>4, <2>2, <2>3
<1> QED  BY <1>2, <1>3, <1>4 DEF MoveStock

\* The debt is locked.
LEMMA DebtLocked ==
    ASSUME IInv, NEW p \in Procs, LockPayable(p)
    PROVE  IInv'
<1> DEFINE q == tx[p].req
           row == PayableRow(q.purchase)
<1>1. tx[p].pc = "payable" /\ Working(tx[p]) /\ UNCHANGED tables /\ ~HeldByOther(p, row)
  BY DEF LockPayable, Working
<1>2. /\ tx[p] \in Tx /\ Fits(tx[p]) /\ Staged(tx[p]) /\ q \in Requests
      /\ q.op \in {"receive", "return"} /\ tx[p].ans = "none" /\ row \in Locks
      /\ \A r \in Procs \ {p} : tx[p].held \cap tx[r].held = {}
  BY <1>1, AtWork, LocksTyped DEF Staged, Stages
<1>3. CASE Done(p, "conflict")
  BY <1>1, <1>3, DoneStep
<1>4. ASSUME NEW step, Hold(p, row, step),
             \/ q.op = "receive" /\ step = "commit"
             \/ q.op = "return" /\ step = "insert" /\ LeavesPaidCovered(p)
      PROVE  IInv'
  <2> DEFINE new == [tx[p] EXCEPT !.pc = step, !.held = @ \cup {row}]
  <2>1. /\ new \in Tx
        /\ new.pc = step /\ new.req = q /\ new.held = tx[p].held \cup {row}
        /\ new.inserted = tx[p].inserted /\ new.paidOut = tx[p].paidOut /\ new.ans = "none"
    BY <1>2, <1>4 DEF Tx, Steps
  <2>2. tx' = [tx EXCEPT ![p] = new]
    BY <1>4 DEF Hold
  <2>3. \A r \in Procs \ {p} : row \notin tx[r].held
    BY <1>1 DEF HeldByOther
  <2> HIDE DEF new
  <2>4. Working(new)
    BY <1>4, <2>1 DEF Working
  <2>5. Staged(new)
    BY <1>1, <1>2, <1>4, <2>1, <2>4 DEF Staged, AtDebt, Stages
  <2>6. Cash(new)
    BY <1>1, <1>2, <2>1, LocksTyped DEF Fits, Cash
  <2>7. Taken(new)
    BY <1>1, <1>2, <1>4, <2>1, LocksTyped DEF Fits, Taken
  <2>8. \A r \in Procs \ {p} : new.held \cap tx[r].held = {}
    BY <1>2, <2>1, <2>3
  <2> QED  BY <1>1, <1>4, <2>1, <2>2, <2>4, <2>5, <2>6, <2>7, <2>8, WorkStep
<1> QED  BY <1>2, <1>3, <1>4 DEF LockPayable

\* Cash is paid out of a till.
LEMMA TillSteps ==
    ASSUME IInv, NEW p \in Procs, FindTill(p) \/ UseTill(p)
    PROVE  IInv'
<1> DEFINE q == tx[p].req
<1>1. tx[p].pc \in {"find", "till"} /\ Working(tx[p]) /\ UNCHANGED tables
  BY DEF FindTill, UseTill, Working
<1>2. /\ tx[p] \in Tx /\ Fits(tx[p]) /\ Staged(tx[p]) /\ q \in Requests
      /\ q.op = "pay" /\ tx[p].ans = "none" /\ tx[p].inserted = TRUE
      /\ \A r \in Procs \ {p} : tx[p].held \cap tx[r].held = {}
  BY <1>1, AtWork DEF Staged, Stages, Tx
<1>3. ASSUME NEW step \in {"till", "commit"}, GoTo(p, step)
      PROVE  IInv'
  <2> DEFINE new == [tx[p] EXCEPT !.pc = step]
  <2>1. /\ new \in Tx
        /\ new.pc = step /\ new.req = q /\ new.held = tx[p].held
        /\ new.inserted = TRUE /\ new.paidOut = tx[p].paidOut /\ new.ans = "none"
    BY <1>2 DEF Tx, Steps
  <2>2. tx' = [tx EXCEPT ![p] = new]
    BY <1>3 DEF GoTo
  <2> HIDE DEF new
  <2>3. Working(new)
    BY <2>1 DEF Working
  <2>4. Staged(new)
    BY <1>1, <1>2, <2>1, <2>3 DEF Staged, AtDebt, Stages
  <2>5. Taken(new) /\ Cash(new)
    BY <1>2, <2>1 DEF Fits, Taken, Cash
  <2> QED  BY <1>1, <1>2, <2>1, <2>2, <2>3, <2>4, <2>5, WorkStep
<1>4. CASE Done(p, "refused")
  BY <1>1, <1>4, DoneStep DEF Working
<1>5. CASE /\ tx[p].pc = "till" /\ ~HeldByOther(p, TillRow) /\ TillHolds(q.amount)
           /\ movements[q.key] = "NONE"
           /\ tx' = [tx EXCEPT ![p].pc = "commit", ![p].paidOut = q.amount,
                               ![p].held = @ \cup {TillRow}]
  <2> DEFINE new == [tx[p] EXCEPT !.pc = "commit", !.paidOut = q.amount,
                                  !.held = @ \cup {TillRow}]
  <2>1. /\ new \in Tx
        /\ new.pc = "commit" /\ new.req = q /\ new.held = tx[p].held \cup {TillRow}
        /\ new.inserted = TRUE /\ new.paidOut = q.amount /\ new.ans = "none"
    BY <1>2, RequestFields, LocksTyped DEF Tx, Steps
  <2>2. tx' = [tx EXCEPT ![p] = new]
    BY <1>5
  <2>3. \A r \in Procs \ {p} : TillRow \notin tx[r].held
    BY <1>5 DEF HeldByOther
  <2> HIDE DEF new
  <2>4. Working(new)
    BY <2>1 DEF Working
  <2>5. Staged(new)
    BY <1>1, <1>2, <2>1, <2>4 DEF Staged, AtDebt, Stages
  <2>6. Taken(new) /\ Cash(new)
    BY <1>2, <1>5, <2>1, RequestFields DEF Taken, Cash, TillHolds
  <2>7. \A r \in Procs \ {p} : new.held \cap tx[r].held = {}
    BY <1>2, <2>1, <2>3
  <2> QED  BY <1>1, <1>2, <2>1, <2>2, <2>4, <2>5, <2>6, <2>7, WorkStep
<1>6. CASE /\ tx[p].pc = "till" /\ movements[q.key] # "NONE"
           /\ tx' = [tx EXCEPT ![p] = [IdleTx EXCEPT !.pc = "resolve", !.req = q]]
  <2> DEFINE new == [IdleTx EXCEPT !.pc = "resolve", !.req = q]
  <2>1. /\ new \in Tx
        /\ new.pc = "resolve" /\ new.req = q /\ new.held = {}
        /\ new.inserted = FALSE /\ new.paidOut = 0 /\ new.ans = "none"
    BY <1>2, IdleFields DEF Tx, Steps
  <2>2. tx' = [tx EXCEPT ![p] = new]
    BY <1>6
  <2> HIDE DEF new
  <2>3. WithKey(q.key, payments) = {}
    BY <1>1, <1>2, Documents DEF Fits, FoundAs
  <2>4. q.key \in Keys /\ movements[q.key] \in {"NONE", "CASH_IN", "PAYABLE_PAYMENT"}
    BY <1>2, RequestFields DEF IInv, MovementsRight
  <2>5. movements[q.key] = "CASH_IN"
    BY <1>6, <2>3, <2>4 DEF IInv, MovementsRight, CashOutIsPaid
  <2>6. KeyOfManualMovement(q)
    BY <1>2, <1>6, <2>5 DEF Staged, KeyOfManualMovement
  <2>7. Answered(new) /\ ~Working(new)
    BY <2>1, <2>6 DEF Answered, Working
  <2> QED  BY <1>1, <1>2, <2>1, <2>2, <2>7, EndStep
<1> QED  BY <1>3, <1>4, <1>5, <1>6 DEF FindTill, UseTill

-----------------------------------------------------------------------------
(* Commits.                                                                *)

\* Two transactions at work have different purchases, debts and keys.
LEMMA OthersElsewhere ==
    ASSUME IInv, NEW p \in Procs, Working(tx[p]), NEW q \in Procs \ {p}, Working(tx[q])
    PROVE  /\ tx[p].req.op # "pay" /\ tx[q].req.op # "pay" =>
                  tx[q].req.purchase # tx[p].req.purchase
           /\ AtDebt(tx[p]) /\ AtDebt(tx[q]) => tx[q].req.purchase # tx[p].req.purchase
           /\ tx[p].inserted /\ tx[q].inserted /\ tx[p].req.op = tx[q].req.op =>
                  tx[q].req.key # tx[p].req.key
<1>1. Staged(tx[p]) /\ Staged(tx[q]) /\ Apart(tx[p], tx[q])
  BY RequestKnown DEF IInv, Transactions
<1> QED  BY <1>1 DEF Staged, Apart

\* A transaction that ends with its work done leaves the others as they should be.
LEMMA WriteFrame ==
    ASSUME IInv, NEW p \in Procs, tx[p].pc # "idle", Done(p, "ok"), stock' \in Lines,
           CashInsStay,
           \A q \in Procs \ {p} : Untouched(tx[q]) /\ AddedAll(tx[q]),
           NEW req, req = tx[p].req,
           \E row \in WithKey(req.key, DocumentsOf(req.op)') :
               /\ row.purchase = req.purchase
               /\ req.op = "receive" => row.lines = req.lines
    PROVE  Transactions'
<1> DEFINE new == [IdleTx EXCEPT !.pc = "done", !.req = tx[p].req, !.ans = "ok"]
<1>1. tx[p].req \in Requests
  BY RequestKnown
<1>2. /\ new \in Tx
      /\ new.pc = "done" /\ new.req = tx[p].req /\ new.ans = "ok"
      /\ new.held = {} /\ new.inserted = FALSE /\ new.paidOut = 0
  BY <1>1, IdleFields DEF Tx, Steps
<1>3. tx' = [tx EXCEPT ![p] = new]
  BY DEF Done
<1> HIDE DEF new
<1>4. /\ tx' \in [Procs -> Tx] /\ tx'[p] = new
      /\ \A q \in Procs : q # p => tx'[q] = tx[q]
  BY <1>2, <1>3 DEF IInv, Transactions
<1>5. ASSUME NEW q \in Procs, q # p
      PROVE  Fits(tx[q])'
  BY <1>4, <1>5, OtherFits
<1>6. Fits(tx[p])'
  <2>1. /\ tx'[p].pc = "done" /\ tx'[p].req = tx[p].req /\ tx'[p].ans = "ok"
        /\ tx'[p].held = {} /\ tx'[p].inserted = FALSE /\ tx'[p].paidOut = 0
    BY <1>2, <1>4
  <2>2. Staged(tx[p])' /\ FoundAs(tx[p])' /\ Taken(tx[p])' /\ Cash(tx[p])'
    BY <1>1, <2>1 DEF Staged, FoundAs, Taken, Cash, Working
  <2>3. Answered(tx[p])'
    BY <2>1 DEF Answered, WithKey, DocumentsOf
  <2> QED  BY <2>2, <2>3 DEF Fits
<1>7. \A q, r \in Procs : q # r => Apart(tx[q], tx[r])'
  BY <1>2, <1>4 DEF IInv, Transactions, Apart
<1> QED  BY <1>4, <1>5, <1>6, <1>7 DEF Transactions

LEMMA PlusFields ==
    ASSUME NEW a \in Lines, NEW b \in Lines
    PROVE  /\ Plus(a, b) \in Lines
           /\ \A x \in Products : /\ Plus(a, b)[x] = a[x] + b[x]
                                  /\ a[x] \in Nat /\ b[x] \in Nat
BY DEF Plus, Lines

\* A delivery leaves the tables right.
LEMMA DeliveryRight ==
    ASSUME IInv, NEW p \in Procs, CommitReceive(p)
    PROVE  TablesRight'
<1> DEFINE q == tx[p].req
           u == q.purchase
           now == Plus(received[u], q.lines)
           row == [key |-> q.key, purchase |-> u, lines |-> q.lines]
           debt == DebtAfterDelivery(u, AmountAfterDelivery(u, q.lines))
           after == IF \A x \in Products : now[x] >= order[u].quantity[x]
                    THEN "RECEIVED" ELSE "PARTIALLY_RECEIVED"
<1>1. /\ tx[p].pc = "commit" /\ q.op = "receive" /\ Working(tx[p])
      /\ received' = [received EXCEPT ![u] = now] /\ receipts' = receipts \cup {row}
      /\ stock' = Plus(stock, q.lines) /\ status' = [status EXCEPT ![u] = after]
      /\ payable' = [payable EXCEPT ![u] = debt]
      /\ UNCHANGED <<order, returned, returns, payments, drawer, movements>>
  BY DEF CommitReceive, Working
<1>2. /\ q \in Requests /\ u \in Purchases /\ Staged(tx[p]) /\ FoundAs(tx[p])
      /\ q.key \in Keys /\ q.lines \in Lines /\ tx[p].inserted
  BY <1>1, AtWork, RequestFields DEF Fits, Staged
<1>3. /\ WithKey(q.key, receipts) = {} /\ FitsPending(u, q.lines) /\ status[u] \in Receivable
  BY <1>1, <1>2, Documents DEF FoundAs
<1>4. row \in Goods /\ row \notin receipts /\ row.purchase = u /\ row.lines = q.lines
  BY <1>2, <1>3 DEF Goods, WithKey
<1>5. TablesRight
  BY DEF IInv
<1>6. /\ order[u] \in Orders /\ received[u] \in Lines /\ returned[u] \in Lines
      /\ PaidFor(u) \in Nat /\ PaidFor(u) <= payable[u].amount /\ payable[u].amount \in Nat
  BY <1>2, <1>5, PurchaseFields
<1>7. now \in Lines /\ \A x \in Products : /\ now[x] = received[u][x] + q.lines[x]
                                           /\ received[u][x] \in Nat /\ q.lines[x] \in Nat
  BY <1>2, <1>6, PlusFields
<1>8. debt.amount = Worth(order[u], now) /\ debt.amount \in Nat
      /\ debt.status \in {"PENDING", "PAID"}
      /\ (debt.status = "PAID" <=> payable[u].status # "NONE" /\ debt.amount <= PaidFor(u))
      /\ debt \in [status : {"NONE", "PENDING", "PAID"}, amount : Nat]
  BY <1>6, <1>7, WorthFacts DEF DebtAfterDelivery, AmountAfterDelivery
<1>9. after \in {"RECEIVED", "PARTIALLY_RECEIVED"} /\ after \in Returnable
      /\ (after = "RECEIVED" => \A x \in Products : now[x] >= order[u].quantity[x])
  BY DEF Returnable
<1> HIDE DEF row, debt, after, now
<1>10. /\ received'[u] = now /\ status'[u] = after /\ payable'[u] = debt
       /\ \A v \in Purchases : v # u => /\ received'[v] = received[v] /\ status'[v] = status[v]
                                        /\ payable'[v] = payable[v]
       /\ order' = order /\ returned' = returned /\ \A v : PaidFor(v)' = PaidFor(v)
  BY <1>1, <1>2, <1>5 DEF TablesRight, Typed, PaidFor
<1>11. Typed' /\ Finite'
  <2>1. stock' \in Lines
    BY <1>1, <1>2, <1>5, PlusFields DEF TablesRight, Typed
  <2>2. receipts' \subseteq Goods /\ IsFiniteSet(receipts')
    BY <1>1, <1>4, <1>5, FS_AddElement DEF TablesRight, Typed, Finite
  <2> QED  BY <1>1, <1>5, <1>7, <1>8, <1>9, <2>1, <2>2 DEF TablesRight, Typed, Finite
<1>12. Worth(order[u], received[u]) <= Worth(order[u], now)
       /\ Worth(order[u], received[u]) \in Nat
  <2>1. \A x \in Products : received[u][x] <= now[x]
    BY <1>7
  <2> QED  BY <1>6, <1>7, <2>1, WorthFacts
<1>13. Owed'
  BY <1>5, <1>8, <1>9, <1>10 DEF TablesRight, Owed
<1>14. payable[u].amount <= debt.amount
  BY <1>2, <1>5, <1>6, <1>8, <1>12 DEF TablesRight, Owed
<1>15. NeverOverpaid'
  BY <1>5, <1>6, <1>8, <1>10, <1>14 DEF TablesRight, NeverOverpaid
<1>16. DebtStatusTrue'
  <2> SUFFICES ASSUME NEW v \in Purchases, payable'[v].amount > 0
               PROVE  payable'[v].status = "PAID" <=> PaidFor(v)' = payable'[v].amount
    BY DEF DebtStatusTrue
  <2>1. CASE v # u
    BY <1>5, <1>10, <2>1 DEF TablesRight, DebtStatusTrue
  <2>2. CASE v = u
    <3>1. payable'[v] = debt /\ PaidFor(v)' = PaidFor(v) /\ debt.amount > 0
      BY <1>10, <2>2
    <3>2. payable[u].status = "NONE" => payable[u].amount = 0
      BY <1>2, <1>5 DEF TablesRight, Owed
    <3>3. PaidFor(u) <= debt.amount
      BY <1>6, <1>8, <1>14
    <3>4. debt.status = "PAID" <=> PaidFor(u) = debt.amount
      BY <1>6, <1>8, <3>1, <3>2, <3>3
    <3>5. PaidFor(v) = PaidFor(u)
      BY <2>2
    <3> QED  BY <3>1, <3>4, <3>5
  <2> QED  BY <2>1, <2>2
<1>17. ReceivedInFullOwesTotal'
  <2> SUFFICES ASSUME NEW v \in Purchases, status'[v] = "RECEIVED", returned'[v] = Nothing
               PROVE  payable'[v].amount = order'[v].total
    BY DEF ReceivedInFullOwesTotal, Nothing
  <2>1. CASE v # u
    BY <1>5, <1>10, <2>1 DEF TablesRight, ReceivedInFullOwesTotal
  <2>2. CASE v = u
    <3>1. order[u].quantity \in Lines /\ \A x \in Products : order[u].quantity[x] \in Nat
      BY <1>6, OrderFields
    <3>2. \A x \in Products : now[x] >= order[u].quantity[x]
      BY <1>9, <1>10, <2>2
    <3>3. \A x \in Products : now[x] <= order[u].quantity[x]
      BY <1>3, <1>7, <3>1 DEF FitsPending
    <3>4. \A x \in Products : now[x] \in Nat
      BY <1>7
    <3>5. \A x \in Products : now[x] = order[u].quantity[x]
      BY <3>1, <3>2, <3>3, <3>4
    <3>6. now = order[u].quantity
      BY <1>7, <3>1, <3>5 DEF Lines
    <3> QED  BY <1>6, <1>8, <1>10, <2>2, <3>6, WorthFacts
  <2> QED  BY <2>1, <2>2
<1>18. GoodsAccounted'
  <2> SUFFICES ASSUME NEW v \in Purchases, NEW x \in Products
               PROVE  /\ received'[v][x] = LinesOf(v, receipts', x)
                      /\ returned'[v][x] = LinesOf(v, returns', x)
                      /\ returned'[v][x] <= received'[v][x]
                      /\ received'[v][x] <= order'[v].quantity[x]
                      /\ status'[v] = "CANCELLED" => received'[v][x] = 0
    BY DEF GoodsAccounted, LinesOf
  <2>1. LinesOf(v, receipts \cup {row}, x)
            = LinesOf(v, receipts, x) + (IF row.purchase = v THEN row.lines[x] ELSE 0)
        /\ LinesOf(v, receipts, x) \in Nat
    <3>1. receipts \subseteq Goods /\ IsFiniteSet(receipts)
      BY <1>5 DEF TablesRight, Typed, Finite
    <3> QED  BY <1>4, <3>1, LinesOfAdd, LinesNat
  <2>2. /\ received[v][x] = LinesOf(v, receipts, x)
        /\ returned[v][x] = LinesOf(v, returns, x)
        /\ returned[v][x] <= received[v][x]
        /\ received[v][x] <= order[v].quantity[x]
        /\ status[v] = "CANCELLED" => received[v][x] = 0
    BY <1>5 DEF TablesRight, GoodsAccounted
  <2>3. CASE v # u
    BY <1>1, <1>4, <1>10, <2>1, <2>2, <2>3
  <2>4. CASE v = u
    <3>1. /\ received'[v][x] = received[u][x] + q.lines[x]
          /\ q.lines[x] <= order[u].quantity[x] - received[u][x]
          /\ received[u][x] \in Nat /\ q.lines[x] \in Nat /\ returned[u][x] \in Nat
          /\ order[u].quantity[x] \in Nat
      BY <1>2, <1>3, <1>5, <1>6, <1>7, <1>10, <2>4, OrderFields, PurchaseFields DEF FitsPending
    <3>2. received'[v][x] = LinesOf(v, receipts', x)
      BY <1>1, <1>4, <2>1, <2>2, <2>4, <3>1
    <3>3. returned'[v][x] <= received'[v][x] /\ received'[v][x] <= order'[v].quantity[x]
      BY <1>10, <2>2, <2>4, <3>1
    <3>4. status'[v] # "CANCELLED"
      BY <1>9, <1>10, <2>4
    <3>5. returned'[v][x] = LinesOf(v, returns', x)
      BY <1>1, <1>10, <2>2
    <3> QED  BY <3>2, <3>3, <3>4, <3>5
  <2> QED  BY <2>3, <2>4
<1> QED  BY <1>11, <1>13, <1>15, <1>16, <1>17, <1>18 DEF TablesRight

LEMMA DeliveryCommits ==
    ASSUME IInv, NEW p \in Procs, CommitReceive(p)
    PROVE  IInv'
<1>1. PICK q \in Requests : q = tx[p].req
  BY RequestKnown DEF CommitReceive
<1>2. PICK u \in Purchases : u = q.purchase
  BY <1>1, RequestFields
<1>3. PICK row \in Goods : row = [key |-> q.key, purchase |-> u, lines |-> q.lines]
  BY <1>1, <1>2, RequestFields DEF Goods
<1>4. /\ tx[p].pc = "commit" /\ q.op = "receive" /\ Working(tx[p])
      /\ receipts' = receipts \cup {row} /\ stock' = Plus(stock, q.lines)
      /\ UNCHANGED <<order, returned, returns, payments, drawer, movements>>
      /\ Done(p, "ok")
  BY <1>1, <1>2, <1>3 DEF CommitReceive, Working
<1>5. /\ \A v \in Purchases : v # u => /\ received'[v] = received[v] /\ status'[v] = status[v]
                                       /\ payable'[v] = payable[v]
  BY <1>1, <1>2, <1>4 DEF CommitReceive, IInv, TablesRight, Typed
<1>6. stock' \in Lines /\ \A x \in Products : stock'[x] >= stock[x]
  <2>1. stock \in Lines /\ q.lines \in Lines
    BY <1>1, RequestFields DEF IInv, TablesRight, Typed
  <2> QED  BY <1>4, <2>1, PlusFields
<1>7. ASSUME NEW r \in Procs \ {p}
      PROVE  Untouched(tx[r]) /\ AddedAll(tx[r])
  <2>1. Working(tx[r]) => /\ tx[r].req.purchase \in Purchases
                          /\ tx[r].req.op # "pay" => tx[r].req.purchase # u
                          /\ AtDebt(tx[r]) => tx[r].req.purchase # u
                          /\ tx[r].inserted /\ tx[r].req.op = "receive" => tx[r].req.key # q.key
    <3>1. AtDebt(tx[p]) /\ tx[p].inserted /\ tx[p].req.op = "receive"
      BY <1>1, <1>4, RequestKnown DEF AtDebt, Staged
    <3> QED  BY <1>1, <1>2, <1>4, <3>1, OthersElsewhere, AtWork
  <2>2. Untouched(tx[r])
    BY <1>4, <1>5, <1>6, <2>1 DEF Untouched
  <2>3. tx[r].req.op = "receive" => Added(tx[r], receipts, receipts')
    BY <1>3, <1>4, <2>1 DEF Added
  <2> QED  BY <1>4, <2>2, <2>3 DEF AddedAll, Added
<1>8. row \in WithKey(q.key, DocumentsOf(q.op)')
  BY <1>3, <1>4, Documents DEF DocumentsOf, WithKey
<1>9. row.purchase = q.purchase /\ row.lines = q.lines /\ tx[p].pc # "idle"
  BY <1>2, <1>3, <1>4
<1>10. Transactions'
  BY <1>1, <1>4, <1>6, <1>7, <1>8, <1>9, MovementsStay, WriteFrame
<1> QED  BY <1>4, <1>10, DeliveryRight, MovementsStay DEF IInv

\* A return leaves the tables right.
LEMMA ReturnRight ==
    ASSUME IInv, NEW p \in Procs, CommitReturn(p)
    PROVE  TablesRight'
<1>1. PICK q \in Requests : q = tx[p].req
  BY RequestKnown DEF CommitReturn
<1>2. PICK u \in Purchases : u = q.purchase
  BY <1>1, RequestFields
<1>3. PICK row \in Goods : row = [key |-> q.key, purchase |-> u, lines |-> q.lines]
  BY <1>1, <1>2, RequestFields DEF Goods
<1> DEFINE left == payable[u].amount - Worth(order[u], q.lines)
           debt == [status |-> DebtStatus(u, left), amount |-> left]
           back == Plus(returned[u], q.lines)
<1>4. /\ tx[p].pc = "commit" /\ q.op = "return" /\ Working(tx[p])
      /\ returned' = [returned EXCEPT ![u] = Plus(@, q.lines)]
      /\ returns' = returns \cup {row}
      /\ stock' = [x \in Products |-> stock[x] - q.lines[x]]
      /\ payable' = [payable EXCEPT ![u] = debt]
      /\ UNCHANGED <<status, order, received, receipts, payments, drawer, movements>>
  BY <1>1, <1>2, <1>3 DEF CommitReturn, Working
<1>5. /\ Staged(tx[p]) /\ FoundAs(tx[p]) /\ Taken(tx[p])
      /\ q.key \in Keys /\ q.lines \in Lines /\ tx[p].inserted /\ AtDebt(tx[p])
  BY <1>1, <1>4, AtWork, RequestFields DEF Fits, Staged, AtDebt
<1>6. /\ WithKey(q.key, returns) = {} /\ FitsReturnable(u, q.lines) /\ status[u] \in Returnable
      /\ left >= PaidFor(u)
  BY <1>1, <1>2, <1>4, <1>5, Documents DEF FoundAs
<1>7. row \notin returns
  BY <1>3, <1>6 DEF WithKey
<1>8. TablesRight
  BY DEF IInv
<1>9. /\ order[u] \in Orders /\ received[u] \in Lines /\ returned[u] \in Lines
      /\ PaidFor(u) \in Nat /\ payable[u].amount \in Nat
      /\ \A x \in Products : received[u][x] \in Nat /\ returned[u][x] \in Nat /\ q.lines[x] \in Nat
  BY <1>5, <1>8, PurchaseFields DEF Lines
<1>10. back \in Lines /\ \A x \in Products : back[x] = returned[u][x] + q.lines[x]
  BY <1>5, <1>9, PlusFields
<1>11. Worth(order[u], q.lines) \in Nat /\ (q.lines = Nothing => Worth(order[u], q.lines) = 0)
  BY <1>5, <1>9, WorthFacts
<1>12. left \in Nat /\ left <= payable[u].amount
       /\ (Worth(order[u], q.lines) = 0 => left = payable[u].amount)
  BY <1>6, <1>9, <1>11
<1>13. debt.amount = left /\ debt.status \in {"PENDING", "PAID"}
       /\ (debt.status = "PAID" <=> left <= PaidFor(u))
       /\ debt \in [status : {"NONE", "PENDING", "PAID"}, amount : Nat]
  BY <1>12 DEF DebtStatus
<1> HIDE DEF left, debt, back
<1>14. /\ returned'[u] = back /\ payable'[u] = debt
       /\ \A v \in Purchases : v # u => returned'[v] = returned[v] /\ payable'[v] = payable[v]
       /\ status' = status /\ order' = order /\ received' = received
       /\ \A v : PaidFor(v)' = PaidFor(v)
  BY <1>4, <1>8 DEF TablesRight, Typed, PaidFor, back
<1>15. Typed' /\ Finite'
  <2>1. stock' \in Lines
    <3>1. ASSUME NEW x \in Products
          PROVE  stock[x] - q.lines[x] \in Nat
      <4>1. stock[x] \in Nat /\ q.lines[x] \in Nat
        BY <1>8, <1>9 DEF TablesRight, Typed, Lines
      <4>2. q.lines[x] > 0 => q.lines[x] <= stock[x]
        BY <1>1, <1>4, <1>5 DEF Taken
      <4> QED  BY <4>1, <4>2
    <3> QED  BY <1>4, <3>1 DEF Lines
  <2>2. returns' \subseteq Goods /\ IsFiniteSet(returns')
    BY <1>4, <1>8, FS_AddElement DEF TablesRight, Typed, Finite
  <2>3. returned' \in [Purchases -> Lines]
    BY <1>4, <1>8, <1>10 DEF TablesRight, Typed, back
  <2> QED  BY <1>4, <1>8, <1>13, <2>1, <2>2, <2>3 DEF TablesRight, Typed, Finite
<1>16. Owed'
  <2>1. Worth(order[u], received[u]) \in Nat /\ payable[u].amount <= Worth(order[u], received[u])
    BY <1>8, <1>9, WorthFacts DEF TablesRight, Owed
  <2>2. debt.amount <= Worth(order[u], received[u])
    BY <1>9, <1>12, <1>13, <2>1
  <2> QED  BY <1>6, <1>8, <1>13, <1>14, <2>2 DEF TablesRight, Owed
<1>17. NeverOverpaid'
  BY <1>6, <1>8, <1>13, <1>14 DEF TablesRight, NeverOverpaid
<1>18. DebtStatusTrue'
  <2> SUFFICES ASSUME NEW v \in Purchases, payable'[v].amount > 0
               PROVE  payable'[v].status = "PAID" <=> PaidFor(v)' = payable'[v].amount
    BY DEF DebtStatusTrue
  <2>1. CASE v # u
    BY <1>8, <1>14, <2>1 DEF TablesRight, DebtStatusTrue
  <2>2. CASE v = u
    <3>1. payable'[u] = debt /\ PaidFor(u)' = PaidFor(u)
      BY <1>14
    <3>2. debt.status = "PAID" <=> PaidFor(u) = debt.amount
      BY <1>6, <1>9, <1>12, <1>13
    <3> QED  BY <2>2, <3>1, <3>2
  <2> QED  BY <2>1, <2>2
<1>19. ReceivedInFullOwesTotal'
  <2> SUFFICES ASSUME NEW v \in Purchases, status'[v] = "RECEIVED", returned'[v] = Nothing
               PROVE  payable'[v].amount = order'[v].total
    BY DEF ReceivedInFullOwesTotal, Nothing
  <2>1. CASE v # u
    BY <1>8, <1>14, <2>1 DEF TablesRight, ReceivedInFullOwesTotal
  <2>2. CASE v = u
    <3>1. \A x \in Products : back[x] = 0
      BY <1>14, <2>2, NothingIsLines
    <3>2. \A x \in Products : q.lines[x] = 0 /\ returned[u][x] = 0
      <4> SUFFICES ASSUME NEW x \in Products
                   PROVE  q.lines[x] = 0 /\ returned[u][x] = 0
        OBVIOUS
      <4> QED  BY <1>9, <1>10, <3>1
    <3>3. q.lines = Nothing /\ returned[u] = Nothing
      BY <1>5, <1>9, <3>2, NothingIsLines DEF Lines
    <3>4. payable[u].amount = order[u].total
      BY <1>8, <1>14, <2>2, <3>3 DEF TablesRight, ReceivedInFullOwesTotal
    <3> QED  BY <1>11, <1>12, <1>13, <1>14, <2>2, <3>3, <3>4
  <2> QED  BY <2>1, <2>2
<1>20. GoodsAccounted'
  <2> SUFFICES ASSUME NEW v \in Purchases, NEW x \in Products
               PROVE  /\ received'[v][x] = LinesOf(v, receipts', x)
                      /\ returned'[v][x] = LinesOf(v, returns', x)
                      /\ returned'[v][x] <= received'[v][x]
                      /\ received'[v][x] <= order'[v].quantity[x]
                      /\ status'[v] = "CANCELLED" => received'[v][x] = 0
    BY DEF GoodsAccounted, LinesOf
  <2>1. LinesOf(v, returns \cup {row}, x)
            = LinesOf(v, returns, x) + (IF row.purchase = v THEN row.lines[x] ELSE 0)
        /\ LinesOf(v, returns, x) \in Nat
    <3>1. returns \subseteq Goods /\ IsFiniteSet(returns)
      BY <1>8 DEF TablesRight, Typed, Finite
    <3> QED  BY <1>7, <3>1, LinesOfAdd, LinesNat
  <2>2. /\ received[v][x] = LinesOf(v, receipts, x)
        /\ returned[v][x] = LinesOf(v, returns, x)
        /\ returned[v][x] <= received[v][x]
        /\ received[v][x] <= order[v].quantity[x]
        /\ status[v] = "CANCELLED" => received[v][x] = 0
    BY <1>8 DEF TablesRight, GoodsAccounted
  <2>3. row.purchase = u /\ row.lines = q.lines
    BY <1>3
  <2>4. CASE v # u
    BY <1>4, <1>14, <2>1, <2>2, <2>3, <2>4
  <2>5. CASE v = u
    <3>1. /\ returned'[v][x] = returned[u][x] + q.lines[x]
          /\ q.lines[x] <= received[u][x] - returned[u][x]
          /\ received[u][x] \in Nat /\ q.lines[x] \in Nat /\ returned[u][x] \in Nat
      BY <1>6, <1>9, <1>10, <1>14, <2>5 DEF FitsReturnable
    <3>2. returned'[v][x] = LinesOf(v, returns', x)
      BY <1>4, <2>1, <2>2, <2>3, <2>5, <3>1
    <3>3. returned'[v][x] <= received'[v][x]
      BY <1>14, <2>5, <3>1
    <3> QED  BY <1>4, <1>14, <2>2, <3>2, <3>3
  <2> QED  BY <2>4, <2>5
<1> QED  BY <1>15, <1>16, <1>17, <1>18, <1>19, <1>20 DEF TablesRight

LEMMA ReturnCommits ==
    ASSUME IInv, NEW p \in Procs, CommitReturn(p)
    PROVE  IInv'
<1>1. PICK q \in Requests : q = tx[p].req
  BY RequestKnown DEF CommitReturn
<1>2. PICK u \in Purchases : u = q.purchase
  BY <1>1, RequestFields
<1>3. PICK row \in Goods : row = [key |-> q.key, purchase |-> u, lines |-> q.lines]
  BY <1>1, <1>2, RequestFields DEF Goods
<1>4. /\ tx[p].pc = "commit" /\ q.op = "return" /\ Working(tx[p])
      /\ returns' = returns \cup {row}
      /\ stock' = [x \in Products |-> stock[x] - q.lines[x]]
      /\ UNCHANGED <<status, order, received, receipts, payments, drawer, movements>>
      /\ Done(p, "ok")
  BY <1>1, <1>2, <1>3 DEF CommitReturn, Working
<1>5. /\ \A v \in Purchases : v # u => returned'[v] = returned[v] /\ payable'[v] = payable[v]
  BY <1>1, <1>2, <1>4 DEF CommitReturn, IInv, TablesRight, Typed
<1>6. /\ Staged(tx[p]) /\ Taken(tx[p]) /\ AtDebt(tx[p]) /\ tx[p].inserted
  BY <1>1, <1>4, RequestKnown DEF AtDebt, Staged, Fits
<1>7. stock' \in Lines
  BY ReturnRight DEF TablesRight, Typed
<1>8. \A x \in Products : stock[x] \in Nat /\ q.lines[x] \in Nat
  BY RequestFields DEF IInv, TablesRight, Typed, Lines
<1>9. ASSUME NEW r \in Procs \ {p}
      PROVE  Untouched(tx[r]) /\ AddedAll(tx[r])
  <2>1. Working(tx[r]) => /\ tx[r].req.purchase \in Purchases
                          /\ tx[r].req.op # "pay" => tx[r].req.purchase # u
                          /\ AtDebt(tx[r]) => tx[r].req.purchase # u
                          /\ tx[r].inserted /\ tx[r].req.op = "return" => tx[r].req.key # q.key
    BY <1>1, <1>2, <1>4, <1>6, OthersElsewhere, AtWork
  <2>2. ASSUME NEW x \in Products, StockLock(x) \in tx[r].held
        PROVE  stock'[x] >= stock[x]
    <3>1. StockLock(x) \notin tx[p].held
      BY <1>4, <2>2, AtWork
    <3>2. ~(q.lines[x] > 0)
      BY <1>1, <1>4, <1>6, <3>1 DEF Taken
    <3> QED  BY <1>4, <1>8, <3>2
  <2>3. Untouched(tx[r])
    BY <1>4, <1>5, <2>1, <2>2 DEF Untouched
  <2>4. tx[r].req.op = "return" => Added(tx[r], returns, returns')
    BY <1>3, <1>4, <2>1 DEF Added
  <2> QED  BY <1>4, <2>3, <2>4 DEF AddedAll, Added
<1>10. row \in WithKey(q.key, DocumentsOf(q.op)')
  BY <1>3, <1>4, Documents DEF DocumentsOf, WithKey
<1>11. row.purchase = q.purchase /\ tx[p].pc # "idle" /\ q.op # "receive"
  BY <1>2, <1>3, <1>4
<1>12. Transactions'
  BY <1>1, <1>4, <1>7, <1>9, <1>10, <1>11, MovementsStay, WriteFrame
<1> QED  BY <1>4, <1>12, ReturnRight, MovementsStay DEF IInv

LEMMA PaymentCommits ==
    ASSUME IInv, NEW p \in Procs, CommitPayment(p)
    PROVE  IInv'
<1>1. PICK q \in Requests : q = tx[p].req
  BY RequestKnown DEF CommitPayment
<1>2. PICK u \in Purchases : u = q.purchase
  BY <1>1, RequestFields
<1>3. PICK row \in Payment : row = [key |-> q.key, purchase |-> u, amount |-> q.amount]
  BY <1>1, <1>2, RequestFields DEF Payment
<1> DEFINE after == IF PaidFor(u) + q.amount >= payable[u].amount THEN "PAID" ELSE "PENDING"
<1>4. /\ tx[p].pc = "commit" /\ q.op = "pay" /\ Working(tx[p])
      /\ payments' = payments \cup {row}
      /\ payable' = [payable EXCEPT ![u].status = after]
      /\ drawer' = [drawer EXCEPT !.cash = @ - tx[p].paidOut]
      /\ movements' = IF TillRow \in tx[p].held
                      THEN [movements EXCEPT ![q.key] = "PAYABLE_PAYMENT"] ELSE movements
      /\ Done(p, "ok")
      /\ UNCHANGED <<status, order, received, returned, receipts, returns, stock>>
  BY <1>1, <1>2, <1>3 DEF CommitPayment, Working
<1>5. /\ tx[p] \in Tx /\ Staged(tx[p]) /\ FoundAs(tx[p]) /\ Cash(tx[p]) /\ AtDebt(tx[p])
      /\ tx[p].inserted /\ q.amount \in Nat
  BY <1>1, <1>4, RequestKnown, RequestFields DEF AtDebt, Staged, Fits
<1>6. /\ WithKey(q.key, payments) = {} /\ payable[u].status # "NONE"
      /\ q.amount <= payable[u].amount - PaidFor(u)
  BY <1>1, <1>2, <1>4, <1>5, Documents DEF FoundAs, FitsBalance, LeftToPay
<1>7. row \notin payments /\ row.purchase = u /\ row.amount = q.amount /\ row.key = q.key
  BY <1>3, <1>6 DEF WithKey
<1>8. TablesRight
  BY DEF IInv
<1>9. PaidFor(u) \in Nat /\ payable[u].amount \in Nat
  BY <1>8, PurchaseFields
<1>10. after \in {"PENDING", "PAID"}
       /\ (after = "PAID" <=> PaidFor(u) + q.amount >= payable[u].amount)
  OBVIOUS
<1> HIDE DEF after
<1>11. /\ payable'[u].status = after /\ payable'[u].amount = payable[u].amount
       /\ payable' \in [Purchases -> [status : {"NONE", "PENDING", "PAID"}, amount : Nat]]
       /\ \A v \in Purchases : v # u => payable'[v] = payable[v]
  BY <1>4, <1>8, <1>10 DEF TablesRight, Typed
<1>12. \A v : /\ PaidBy(v, payments') = PaidBy(v, payments) + (IF v = u THEN q.amount ELSE 0)
              /\ PaidBy(v, payments) \in Nat
  <2>1. payments \subseteq Payment /\ IsFiniteSet(payments)
    BY <1>8 DEF TablesRight, Typed, Finite
  <2>2. ASSUME NEW v
        PROVE  /\ PaidBy(v, payments') = PaidBy(v, payments) + (IF v = u THEN q.amount ELSE 0)
               /\ PaidBy(v, payments) \in Nat
    BY <1>4, <1>7, <2>1, PaidByAdd, PaidNat
  <2> QED  BY <2>2
<1>13. \A v : PaidFor(v) = PaidBy(v, payments) /\ PaidFor(v)' = PaidBy(v, payments')
  BY DEF PaidFor, PaidBy
<1>14. /\ PaidBy(u, payments') = PaidFor(u) + q.amount
       /\ PaidBy(u, payments') <= payable[u].amount
       /\ \A v : v # u => PaidBy(v, payments') = PaidBy(v, payments)
  BY <1>5, <1>6, <1>9, <1>12, <1>13
<1>15. drawer' \in [open : BOOLEAN, cash : Nat]
  <2>1. drawer.cash \in Nat /\ tx[p].paidOut \in Nat /\ tx[p].paidOut <= drawer.cash
    BY <1>5, <1>8 DEF TablesRight, Typed, Cash, Tx
  <2>2. drawer.cash - tx[p].paidOut \in Nat
    BY <2>1
  <2> QED  BY <1>4, <1>8, <2>2 DEF TablesRight, Typed
<1>16. TablesRight'
  <2>1. Typed' /\ Finite'
    <3>1. payments' \subseteq Payment /\ IsFiniteSet(payments')
      BY <1>4, <1>8, FS_AddElement DEF TablesRight, Typed, Finite
    <3> QED  BY <1>4, <1>8, <1>11, <1>15, <3>1 DEF TablesRight, Typed, Finite
  <2>2. Owed'
    BY <1>4, <1>6, <1>8, <1>10, <1>11 DEF TablesRight, Owed
  <2>3. GoodsAccounted'
    BY <1>4, <1>8 DEF TablesRight, GoodsAccounted
  <2>4. NeverOverpaid'
    BY <1>8, <1>11, <1>13, <1>14 DEF TablesRight, NeverOverpaid
  <2>5. DebtStatusTrue'
    <3> SUFFICES ASSUME NEW v \in Purchases, payable'[v].amount > 0
                 PROVE  payable'[v].status = "PAID" <=> PaidFor(v)' = payable'[v].amount
      BY DEF DebtStatusTrue
    <3>1. CASE v # u
      BY <1>8, <1>11, <1>13, <1>14, <3>1 DEF TablesRight, DebtStatusTrue
    <3>2. CASE v = u
      <4>1. PaidFor(v)' = PaidFor(u) + q.amount
        BY <1>13, <1>14, <3>2
      <4>2. after = "PAID" <=> PaidFor(u) + q.amount = payable[u].amount
        BY <1>5, <1>6, <1>9, <1>10
      <4> QED  BY <1>11, <3>2, <4>1, <4>2
    <3> QED  BY <3>1, <3>2
  <2>6. ReceivedInFullOwesTotal'
    BY <1>4, <1>8, <1>11 DEF TablesRight, ReceivedInFullOwesTotal, Nothing
  <2> QED  BY <2>1, <2>2, <2>3, <2>4, <2>5, <2>6 DEF TablesRight
<1>17. ASSUME NEW r \in Procs \ {p}
       PROVE  Untouched(tx[r]) /\ AddedAll(tx[r])
  <2>1. Working(tx[r]) => /\ tx[r].req.purchase \in Purchases
                          /\ AtDebt(tx[r]) => tx[r].req.purchase # u
                          /\ tx[r].inserted /\ tx[r].req.op = "pay" => tx[r].req.key # q.key
    BY <1>1, <1>2, <1>4, <1>5, OthersElsewhere, AtWork
  <2>2. TillRow \in tx[r].held => drawer' = drawer /\ movements' = movements
    <3>1. TillRow \in tx[r].held => TillRow \notin tx[p].held
      BY <1>4, AtWork
    <3>2. TillRow \notin tx[p].held => tx[p].paidOut = 0
      BY <1>5 DEF Staged, Tx
    <3>3. tx[p].paidOut = 0 => drawer' = drawer
      BY <1>4, <1>8 DEF TablesRight, Typed
    <3> QED  BY <1>4, <3>1, <3>2, <3>3
  <2>3. \A x \in Products : stock'[x] >= stock[x]
    BY <1>4, <1>8 DEF TablesRight, Typed, Lines
  <2>4. Untouched(tx[r])
    BY <1>4, <1>11, <1>14, <2>1, <2>2, <2>3 DEF Untouched
  <2>5. tx[r].req.op = "pay" => Added(tx[r], payments, payments')
    BY <1>4, <1>7, <2>1 DEF Added, AtDebt
  <2> QED  BY <1>4, <2>4, <2>5 DEF AddedAll, Added
<1>18. row \in WithKey(q.key, DocumentsOf(q.op)')
  BY <1>4, <1>7, Documents DEF DocumentsOf, WithKey
<1>19. row.purchase = q.purchase /\ tx[p].pc # "idle" /\ q.op # "receive"
  BY <1>2, <1>4, <1>7
<1>20. stock' \in Lines
  BY <1>16 DEF TablesRight, Typed
<1>21. MovementsRight' /\ CashInsStay
  <2>1. CASE TillRow \notin tx[p].held
    BY <1>4, <2>1, MovementsStay
  <2>2. CASE TillRow \in tx[p].held
    <3>1. /\ q.key \in Keys /\ movements[q.key] = "NONE"
          /\ movements' = [movements EXCEPT ![q.key] = "PAYABLE_PAYMENT"]
      BY <1>1, <1>4, <1>5, <2>2 DEF Cash
    <3>2. WithKey(q.key, payments') # {} /\ payments \subseteq payments'
      BY <1>4, <1>7 DEF WithKey
    <3> QED  BY <3>1, <3>2 DEF IInv, MovementsRight, CashOutIsPaid, CashInsStay, WithKey
  <2> QED  BY <2>1, <2>2
<1>22. Transactions'
  BY <1>1, <1>4, <1>17, <1>18, <1>19, <1>20, <1>21, WriteFrame
<1> QED  BY <1>16, <1>21, <1>22 DEF IInv

-----------------------------------------------------------------------------
(* The order itself, the stock and the till, changed by others.            *)

LEMMA AloneFits ==
    ASSUME IInv, UNCHANGED <<tx, receipts, returns, payments>>, stock' \in Lines,
           CashInsStay, \A q \in Procs : Untouched(tx[q])
    PROVE  Transactions'
<1>1. \A q \in Procs : Fits(tx[q])'
  BY OtherFits DEF AddedAll, Added
<1> QED  BY <1>1 DEF IInv, Transactions, Apart

\* An order that changes while nobody is at work on it, before anything is received.
LEMMA OrderChanges ==
    ASSUME IInv, NEW u \in Purchases,
           status[u] \notin Returnable,
           \A q \in Procs : Working(tx[q]) /\ tx[q].req.op # "pay" => tx[q].req.purchase # u,
           NEW s \in {"DRAFT", "CONFIRMED", "CANCELLED"}, SetStatus(u, s),
           NEW o \in Orders, order' = [order EXCEPT ![u] = o]
    PROVE  IInv'
<1>1. /\ status' = [status EXCEPT ![u] = s]
      /\ UNCHANGED <<received, returned, receipts, returns, payments, payable, stock, drawer,
                     movements, tx>>
  BY DEF SetStatus, documents
<1>2. TablesRight
  BY DEF IInv
<1>3. /\ status'[u] = s /\ order'[u] = o
      /\ \A v \in Purchases : v # u => status'[v] = status[v] /\ order'[v] = order[v]
      /\ \A v : PaidFor(v)' = PaidFor(v)
  BY <1>1, <1>2 DEF TablesRight, Typed, PaidFor
<1>4. received[u] = Nothing /\ returned[u] = Nothing /\ payable[u].status = "NONE"
      /\ payable[u].amount = 0
  BY <1>2 DEF TablesRight, Owed
<1>5. Typed' /\ Finite'
  BY <1>1, <1>2 DEF TablesRight, Typed, Finite
<1>6. Owed'
  <2>1. Worth(o, Nothing) = 0
    BY WorthFacts
  <2> QED  BY <1>1, <1>2, <1>3, <1>4, <2>1 DEF TablesRight, Owed, Returnable, Nothing
<1>7. GoodsAccounted'
  <2>1. \A x \in Products : o.quantity[x] \in Nat /\ Nothing[x] = 0
    BY OrderFields, NothingIsLines
  <2> QED  BY <1>1, <1>2, <1>3, <1>4, <2>1 DEF TablesRight, GoodsAccounted
<1>8. NeverOverpaid' /\ DebtStatusTrue'
  BY <1>1, <1>2, <1>3 DEF TablesRight, NeverOverpaid, DebtStatusTrue
<1>9. ReceivedInFullOwesTotal'
  BY <1>1, <1>2, <1>3 DEF TablesRight, ReceivedInFullOwesTotal, Nothing
<1>10. ASSUME NEW q \in Procs
       PROVE  Untouched(tx[q])
  <2>1. Working(tx[q]) => tx[q].req.purchase \in Purchases
    BY AtWork
  <2>2. \A x \in Products : stock'[x] >= stock[x]
    BY <1>1, <1>2 DEF TablesRight, Typed, Lines
  <2> QED  BY <1>1, <1>3, <2>1, <2>2 DEF Untouched
<1>11. MovementsRight' /\ CashInsStay
  BY <1>1, MovementsStay
<1>12. Transactions'
  BY <1>1, <1>2, <1>10, <1>11, AloneFits DEF TablesRight, Typed
<1> QED  BY <1>5, <1>6, <1>7, <1>8, <1>9, <1>11, <1>12 DEF IInv, TablesRight

LEMMA OrdersChange ==
    ASSUME IInv, NEW u \in Purchases,
           (\E o \in Orders : Create(u, o) \/ Update(u, o)) \/ Confirm(u) \/ Cancel(u)
    PROVE  IInv'
<1>1. order[u] \in Orders /\ order = [order EXCEPT ![u] = order[u]]
  BY DEF IInv, TablesRight, Typed
<1>2. ASSUME NEW q \in Procs, Working(tx[q]), tx[q].req.op # "pay", tx[q].req.purchase = u
      PROVE  /\ status[u] \in Receivable \cup Returnable
             /\ PurchaseRow(u) \in tx[q].held
  BY <1>2, AtWork DEF Staged, Fits, FoundAs
<1>3. status[u] \in {"NONE", "DRAFT"} => status[u] \notin Receivable \cup Returnable
  BY DEF Receivable, Returnable
<1>4. ASSUME NEW o \in Orders, Create(u, o) \/ Update(u, o)
      PROVE  IInv'
  <2>1. /\ status[u] \in {"NONE", "DRAFT"} /\ status[u] \notin Returnable
        /\ order' = [order EXCEPT ![u] = o] /\ SetStatus(u, "DRAFT")
    BY <1>3, <1>4 DEF Create, Update
  <2> QED  BY <1>2, <1>3, <2>1, OrderChanges
<1>5. ASSUME NEW s \in {"CONFIRMED", "CANCELLED"}, SetStatus(u, s), UNCHANGED order,
             status[u] \in {"DRAFT", "CONFIRMED"}, Unlocked(PurchaseRow(u))
      PROVE  IInv'
  <2>1. status[u] \notin Returnable
    BY <1>5 DEF Returnable
  <2>2. \A q \in Procs : Working(tx[q]) /\ tx[q].req.op # "pay" => tx[q].req.purchase # u
    BY <1>2, <1>5 DEF Unlocked
  <2>3. order' = [order EXCEPT ![u] = order[u]]
    BY <1>1, <1>5
  <2>4. s \in {"DRAFT", "CONFIRMED", "CANCELLED"}
    OBVIOUS
  <2> QED  BY <1>1, <1>5, <2>1, <2>2, <2>3, <2>4, OrderChanges
<1> QED  BY <1>4, <1>5 DEF Confirm, Cancel

\* Sales take from the stock, and cash comes and goes, where nobody holds them.
LEMMA OthersUse ==
    ASSUME IInv, (\E x \in Products : Sell(x)) \/ (\E cash \in 0..MaxCash : OpenTill(cash))
                 \/ (\E k \in ManualKeys \cup {None} : TakeIn(k)) \/ CloseTill
    PROVE  IInv'
<1>1. /\ UNCHANGED <<status, order, received, returned, receipts, returns, payments, payable, tx>>
      /\ \/ stock' = stock
         \/ \E x \in Products : /\ stock[x] > 0 /\ Unlocked(StockLock(x))
                                /\ stock' = [stock EXCEPT ![x] = @ - 1]
      /\ \/ drawer' = drawer /\ movements' = movements
         \/ Unlocked(TillRow) /\ \E open \in BOOLEAN, cash \in Nat :
                                    drawer' = [open |-> open, cash |-> cash]
  <2>1. ASSUME NEW x \in Products, Sell(x)
        PROVE  <1>1!1 /\ <1>1!2!2 /\ drawer' = drawer /\ movements' = movements
    BY <2>1 DEF Sell, documents
  <2>2. ASSUME NEW open \in BOOLEAN, NEW cash \in Nat, UseDrawer(open, cash)
        PROVE  <1>1!1 /\ stock' = stock /\ <1>1!3!2
    BY <2>2 DEF UseDrawer, documents
  <2>3. ASSUME (\E cash \in 0..MaxCash : OpenTill(cash))
               \/ (\E k \in ManualKeys \cup {None} : TakeIn(k)) \/ CloseTill
        PROVE  \E open \in BOOLEAN, cash \in Nat : UseDrawer(open, cash)
    <3>1. drawer.cash + 1 \in Nat /\ 0 \in Nat /\ 0..MaxCash \subseteq Nat
      BY StockAssumption DEF IInv, TablesRight, Typed
    <3> QED  BY <2>3, <3>1 DEF OpenTill, TakeIn, CloseTill
  <2> QED  BY <2>1, <2>2, <2>3
<1>2. TablesRight
  BY DEF IInv
<1>3. stock' \in Lines
  <2>1. ASSUME NEW x \in Products, stock[x] > 0, stock' = [stock EXCEPT ![x] = @ - 1]
        PROVE  stock' \in Lines
    <3>1. stock[x] \in Nat /\ stock \in [Products -> Nat]
      BY <1>2 DEF TablesRight, Typed, Lines
    <3>2. stock[x] - 1 \in Nat
      BY <2>1, <3>1
    <3> QED  BY <2>1, <3>1, <3>2 DEF Lines
  <2> QED  BY <1>1, <1>2, <2>1 DEF TablesRight, Typed
<1>4. drawer' \in [open : BOOLEAN, cash : Nat]
  BY <1>1, <1>2 DEF TablesRight, Typed
<1>5. TablesRight'
  <2>1. Typed' /\ Finite' /\ Owed' /\ GoodsAccounted'
    BY <1>1, <1>2, <1>3, <1>4 DEF TablesRight, Typed, Finite, Owed, GoodsAccounted
  <2>2. NeverOverpaid' /\ DebtStatusTrue' /\ ReceivedInFullOwesTotal'
    BY <1>1, <1>2 DEF TablesRight, NeverOverpaid, DebtStatusTrue, ReceivedInFullOwesTotal, PaidFor
  <2> QED  BY <2>1, <2>2 DEF TablesRight
<1>6. ASSUME NEW q \in Procs
      PROVE  Untouched(tx[q])
  <2>1. ASSUME NEW x \in Products, StockLock(x) \in tx[q].held
        PROVE  stock'[x] >= stock[x]
    <3>1. stock[x] \in Nat /\ stock \in [Products -> Nat]
      BY <1>2 DEF TablesRight, Typed, Lines
    <3>2. stock'[x] = stock[x]
      BY <1>1, <2>1, <3>1 DEF Unlocked
    <3> QED  BY <3>1, <3>2
  <2>2. TillRow \in tx[q].held => drawer' = drawer /\ movements' = movements
    BY <1>1 DEF Unlocked
  <2> QED  BY <1>1, <2>1, <2>2 DEF Untouched
<1>7. MovementsRight' /\ CashInsStay
  <2>1. \/ movements' = movements
        \/ \E k \in Keys : /\ movements[k] = "NONE"
                           /\ movements' = [movements EXCEPT ![k] = "CASH_IN"]
    BY StockAssumption DEF Sell, OpenTill, TakeIn, CloseTill
  <2>2. ASSUME NEW k \in Keys, movements[k] = "NONE",
               movements' = [movements EXCEPT ![k] = "CASH_IN"]
        PROVE  MovementsRight' /\ CashInsStay
    BY <1>1, <2>2 DEF IInv, MovementsRight, CashOutIsPaid, CashInsStay, WithKey
  <2> QED  BY <1>1, <2>1, <2>2, MovementsStay
<1>8. Transactions'
  BY <1>1, <1>3, <1>6, <1>7, AloneFits
<1> QED  BY <1>5, <1>7, <1>8 DEF IInv

-----------------------------------------------------------------------------
(* The theorems.                                                           *)

LEMMA InitHolds ==
    ASSUME Init
    PROVE  IInv
<1>1. Typed /\ Finite
  BY StockAssumption, NothingIsLines, FS_EmptySet DEF Init, Typed, Finite
<1>2. ASSUME NEW u \in Purchases
      PROVE  PaidFor(u) = 0 /\ \A x \in Products : LinesOf(u, {}, x) = 0
  <2>1. ASSUME NEW g, DOMAIN g = {}
        PROVE  SumFunction(g) = 0
    BY <2>1, SumEmpty DEF SumFunction
  <2>2. payments = {}
    BY DEF Init
  <2>3. PaidFor(u) = 0
    <3> DEFINE g == [y \in {z \in payments : z.purchase = u} |-> y.amount]
    <3>1. DOMAIN g = {}
      BY <2>2
    <3> HIDE DEF g
    <3> QED  BY <2>1, <3>1 DEF PaidFor, g
  <2>4. ASSUME NEW x \in Products
        PROVE  LinesOf(u, {}, x) = 0
    <3> DEFINE g == [row \in {d \in {} : d.purchase = u} |-> row.lines[x]]
    <3>1. DOMAIN g = {}
      OBVIOUS
    <3> HIDE DEF g
    <3> QED  BY <2>1, <3>1 DEF LinesOf, g
  <2> QED  BY <2>3, <2>4
<1>3. ASSUME NEW u \in Purchases
      PROVE  /\ order[u] \in Orders /\ Worth(order[u], Nothing) = 0
             /\ \A x \in Products : order[u].quantity[x] \in Nat
  BY WorthFacts, OrderFields DEF Init
<1>4. Owed
  BY <1>3 DEF Init, Owed, Returnable
<1>5. GoodsAccounted
  BY <1>2, <1>3, NothingIsLines DEF Init, GoodsAccounted
<1>6. NeverOverpaid /\ DebtStatusTrue /\ ReceivedInFullOwesTotal
  BY <1>2 DEF Init, NeverOverpaid, DebtStatusTrue, ReceivedInFullOwesTotal
<1>7. Transactions
  <2>1. tx \in [Procs -> Tx] /\ \A p \in Procs : tx[p] = IdleTx
    BY IdleFields DEF Init
  <2>2. Fits(IdleTx)
    BY IdleFields DEF Fits, Staged, FoundAs, Taken, Cash, Answered, Working
  <2>3. Apart(IdleTx, IdleTx)
    BY IdleFields DEF Apart
  <2> QED  BY <2>1, <2>2, <2>3 DEF Transactions
<1>8. MovementsRight
  BY DEF Init, MovementsRight, CashOutIsPaid
<1> QED  BY <1>1, <1>4, <1>5, <1>6, <1>7, <1>8 DEF IInv, TablesRight

LEMMA NextKeeps ==
    ASSUME IInv, [Next]_vars
    PROVE  IInv'
<1>1. ASSUME NEW p \in Procs, Step(p)
      PROVE  IInv'
  BY <1>1, ReceiveBegins, DeliveryCommits, ReturnBegins, ReturnCommits, PayBegins, TillSteps,
     PaymentCommits, DocumentInserted, ConflictResolved, StockMoves, DebtLocked
     DEF Step, Receive, ReturnToSupplier, AddPayment
<1>2. ASSUME NEW p \in Procs, (\E q \in Requests : Begin(p, q)) \/ Finish(p) \/ Abort(p)
      PROVE  IInv'
  BY <1>2, Edges
<1>3. CASE Others
  BY <1>3, OrdersChange, OthersUse DEF Others
<1>4. CASE UNCHANGED vars
  <2>1. UNCHANGED <<status, order, received, returned, receipts, returns, payments, payable, stock,
                    drawer, movements, tx>>
    BY <1>4 DEF vars, tables, documents
  <2>2. TablesRight'
    <3>1. Typed' /\ Finite' /\ Owed' /\ GoodsAccounted'
      BY <2>1 DEF IInv, TablesRight, Typed, Finite, Owed, GoodsAccounted
    <3>2. NeverOverpaid' /\ DebtStatusTrue' /\ ReceivedInFullOwesTotal'
      BY <2>1 DEF IInv, TablesRight, NeverOverpaid, DebtStatusTrue, ReceivedInFullOwesTotal, PaidFor
    <3> QED  BY <3>1, <3>2 DEF TablesRight
  <2>3. \A q \in Procs : Untouched(tx[q])
    BY <2>1 DEF Untouched, IInv, TablesRight, Typed, Lines
  <2>4. MovementsRight' /\ CashInsStay
    BY <2>1, MovementsStay
  <2>5. Transactions'
    BY <2>1, <2>3, <2>4, AloneFits DEF IInv, TablesRight, Typed
  <2> QED  BY <2>2, <2>4, <2>5 DEF IInv
<1> QED  BY <1>1, <1>2, <1>3, <1>4 DEF Next

\* What the proofs rest on holds in every state.
THEOREM Invariance == Spec => []IInv
<1>1. Init => IInv
  BY InitHolds
<1>2. IInv /\ [Next]_vars => IInv'
  BY NextKeeps
<1> QED  BY <1>1, <1>2, PTL DEF Spec

\* Deliveries, returns and payments of an order agree with it and with its debt: no
\* supplier is paid more than is owed, and an order received in full owes its total,
\* however they run into each other (receive, returnToSupplier, addPayment).
THEOREM PurchasesStayTrue == Spec => []PurchasesOK
<1>1. IInv => PurchasesOK
  <2> SUFFICES ASSUME IInv
               PROVE  PurchasesOK
    OBVIOUS
  <2>1. TablesRight /\ MovementsRight /\ tx \in [Procs -> Tx]
    BY DEF IInv, Transactions
  <2>2. ASSUME NEW p \in Procs, tx[p].pc \in {"insert", "commit"}
        PROVE  \/ PurchaseRow(tx[p].req.purchase) \in tx[p].held
               \/ tx[p].req.op = "pay" /\ PayableRow(tx[p].req.purchase) \in tx[p].held
    BY <2>2, AtWork DEF Working, Staged, AtDebt
  <2>3. TypeOK
    BY <2>1, <2>2 DEF TypeOK, TablesRight, MovementsRight, Typed, Goods, Payment, Tx
  <2> QED  BY <2>1, <2>3 DEF PurchasesOK, TablesRight, MovementsRight
<1> QED  BY <1>1, Invariance, PTL

\* A client told ok has what it asked for on record, for the purchase it named, unless it
\* paid in cash under the key of a manual movement at the till.
THEOREM AnswersTrue == Spec => []AnswersAreTrue
<1>1. IInv => AnswersAreTrue
  BY DEF IInv, Transactions, Fits, Answered, AnswersAreTrue
<1> QED  BY <1>1, Invariance, PTL

-----------------------------------------------------------------------------
(* Nobody waits in a circle: a transaction takes its locks and its key in  *)
(* an order common to all, the rank below.                                 *)

\* The locks it holds beside that of its purchase, by stage; products in their order.
InOrder(t) ==
    /\ \A u \in Purchases : PayableRow(u) \in t.held => u = t.req.purchase
    /\ TillRow \in t.held => t.pc = "commit"
    /\ \A x \in Products : StockLock(x) \in t.held =>
          /\ t.pc \in {"stock", "commit"} \/ (t.pc = "payable" /\ t.req.op = "receive")
          /\ t.pc = "stock" => \A y \in Products :
                t.req.lines[y] > 0 /\ StockLock(y) \notin t.held => x < y

AllInOrder == \A p \in Procs : InOrder(tx[p])

LEMMA OrderFrame ==
    ASSUME IInv, AllInOrder, NEW p \in Procs, NEW new, tx' = [tx EXCEPT ![p] = new], InOrder(new)
    PROVE  AllInOrder'
<1>1. tx'[p] = new /\ \A q \in Procs : q # p => tx'[q] = tx[q]
  BY DEF IInv, Transactions
<1> QED  BY <1>1 DEF AllInOrder, InOrder

\* A transaction that ends holds nothing.
LEMMA EndsInOrder ==
    ASSUME IInv, AllInOrder, NEW p \in Procs,
           \/ \E q \in Requests : Begin(p, q)
           \/ Finish(p) \/ Abort(p)
           \/ \E answer : Done(p, answer)
    PROVE  AllInOrder'
<1>1. ASSUME NEW q \in Requests, Begin(p, q)
      PROVE  AllInOrder'
  <2> DEFINE new == [IdleTx EXCEPT !.pc = "lock", !.req = q]
  <2>1. tx' = [tx EXCEPT ![p] = new] /\ new.held = {}
    BY <1>1 DEF Begin, IdleTx
  <2> HIDE DEF new
  <2> QED  BY <2>1, OrderFrame DEF InOrder
<1>2. ASSUME NEW answer, Done(p, answer)
      PROVE  AllInOrder'
  <2> DEFINE new == [IdleTx EXCEPT !.pc = "done", !.req = tx[p].req, !.ans = answer]
  <2>1. tx' = [tx EXCEPT ![p] = new] /\ new.held = {}
    BY <1>2 DEF Done, IdleTx
  <2> HIDE DEF new
  <2> QED  BY <2>1, OrderFrame DEF InOrder
<1>3. CASE Finish(p) \/ Abort(p)
  BY <1>3, IdleFields, OrderFrame DEF Finish, Abort, InOrder
<1> QED  BY <1>1, <1>2, <1>3

\* The first lock of a transaction is the row it names.
LEMMA FirstInOrder ==
    ASSUME IInv, AllInOrder, NEW p \in Procs, tx[p].pc = "lock", NEW step,
           \/ Hold(p, PurchaseRow(tx[p].req.purchase), step)
           \/ Hold(p, PayableRow(tx[p].req.purchase), step)
    PROVE  AllInOrder'
<1> DEFINE u == tx[p].req.purchase
<1>1. tx[p] \in Tx /\ tx[p].held = {}
  BY RequestKnown DEF Staged, Working
<1>2. PICK lock \in {PurchaseRow(u), PayableRow(u)} : Hold(p, lock, step)
  OBVIOUS
<1> DEFINE new == [tx[p] EXCEPT !.pc = step, !.held = @ \cup {lock}]
<1>3. new.req = tx[p].req /\ new.held = {lock}
  BY <1>1 DEF Tx
<1>4. tx' = [tx EXCEPT ![p] = new]
  BY <1>2 DEF Hold
<1> HIDE DEF new
<1>5. InOrder(new)
  BY <1>3, LocksTyped DEF InOrder
<1> QED  BY <1>4, <1>5, OrderFrame

LEMMA StepInOrder ==
    ASSUME IInv, AllInOrder, NEW p \in Procs, Step(p)
    PROVE  AllInOrder'
<1> DEFINE q == tx[p].req
<1>0. tx[p] \in Tx /\ Staged(tx[p]) /\ InOrder(tx[p])
  BY RequestKnown DEF AllInOrder
<1>1. CASE \E answer : Done(p, answer)
  BY <1>1, EndsInOrder
<1>2. CASE ReceiveBegin(p) \/ ReturnBegin(p) \/ PayBegin(p)
  BY <1>1, <1>2, FirstInOrder DEF ReceiveBegin, ReturnBegin, PayBegin
<1>3. CASE CommitReceive(p) \/ CommitReturn(p) \/ CommitPayment(p) \/ ResolveConflict(p)
  BY <1>1, <1>3 DEF CommitReceive, CommitReturn, CommitPayment, ResolveConflict
<1>4. CASE InsertDocument(p)
  <2>1. CASE WithKey(q.key, DocumentsOf(q.op)) = {}
    <3> DEFINE new == [tx[p] EXCEPT !.inserted = TRUE, !.pc = AfterInsert(q)]
    <3>1. tx' = [tx EXCEPT ![p] = new] /\ tx[p].pc = "insert"
      BY <1>4, <2>1 DEF InsertDocument
    <3>2. new.req = q /\ new.held = tx[p].held
      BY <1>0 DEF Tx
    <3> HIDE DEF new
    <3>3. InOrder(new)
      BY <1>0, <3>1, <3>2 DEF InOrder
    <3> QED  BY <3>1, <3>3, OrderFrame
  <2>2. CASE WithKey(q.key, DocumentsOf(q.op)) # {}
    <3> DEFINE new == [IdleTx EXCEPT !.pc = "resolve", !.req = q]
    <3>1. tx' = [tx EXCEPT ![p] = new] /\ new.held = {}
      BY <1>4, <2>2 DEF InsertDocument, IdleTx
    <3> HIDE DEF new
    <3> QED  BY <3>1, OrderFrame DEF InOrder
  <2> QED  BY <2>1, <2>2
<1>5. CASE MoveStock(p)
  <2>0. tx[p].pc = "stock" /\ q \in Requests /\ q.op \in {"receive", "return"}
    <3>1. tx[p].pc = "stock" /\ Working(tx[p])
      BY <1>5 DEF MoveStock, Working
    <3>2. q \in Requests /\ q.op \in {"receive", "return", "pay"} /\ tx[p].pc \in Stages(q.op)
      BY <3>1, AtWork DEF Staged
    <3> QED  BY <3>1, <3>2 DEF Stages
  <2>1. ASSUME NEW step, step = IF q.op = "receive" THEN "payable" ELSE "commit", GoTo(p, step)
        PROVE  AllInOrder'
    <3> DEFINE new == [tx[p] EXCEPT !.pc = step]
    <3>1. tx' = [tx EXCEPT ![p] = new]
      BY <2>1 DEF GoTo
    <3>2. new.req = q /\ new.held = tx[p].held /\ new.pc = step
      BY <1>0 DEF Tx
    <3> HIDE DEF new
    <3>3. InOrder(new)
      BY <1>0, <2>0, <2>1, <3>2 DEF InOrder
    <3> QED  BY <3>1, <3>3, OrderFrame
  <2>2. ASSUME NEW x \in NextProducts(ProductsLeft(p)), Hold(p, StockLock(x), "stock")
        PROVE  AllInOrder'
    <3> DEFINE new == [tx[p] EXCEPT !.pc = "stock", !.held = @ \cup {StockLock(x)}]
    <3>1. tx' = [tx EXCEPT ![p] = new]
      BY <2>2 DEF Hold
    <3>2. new.req = q /\ new.held = tx[p].held \cup {StockLock(x)} /\ new.pc = "stock"
      <4> DEFINE lock == StockLock(x)
      <4> HIDE DEF lock
      <4> QED  BY <1>0 DEF Tx
    <3> HIDE DEF new
    <3>3. x \in Products /\ \A y \in Products :
             q.lines[y] > 0 /\ StockLock(y) \notin tx[p].held => x <= y
      BY DEF NextProducts, ProductsLeft
    <3>4. ASSUME NEW z \in Products, StockLock(z) \in new.held,
                 NEW y \in Products, q.lines[y] > 0, StockLock(y) \notin new.held
          PROVE  z < y
      <4>1. StockLock(y) \notin tx[p].held /\ y # x
        BY <3>2, <3>4
      <4>2. CASE z = x
        <5>1. x <= y /\ x \in Nat /\ y \in Nat
          BY <3>3, <3>4, <4>1, ProductsAssumption
        <5> QED  BY <4>1, <4>2, <5>1
      <4>3. CASE StockLock(z) \in tx[p].held
        BY <1>0, <2>0, <3>4, <4>1, <4>3 DEF InOrder
      <4>4. StockLock(z) \in tx[p].held \/ StockLock(z) = StockLock(x)
        BY <3>2, <3>4
      <4> QED  BY <4>2, <4>3, <4>4, LocksTyped
    <3>5. \A lock : lock \in new.held => lock \in tx[p].held \/ lock = StockLock(x)
      BY <3>2
    <3>6. \A u \in Purchases : PayableRow(u) \in new.held => u = new.req.purchase
      BY <1>0, <3>2, <3>5, LocksTyped DEF InOrder
    <3>7. TillRow \notin new.held
      BY <1>0, <2>0, <3>5, LocksTyped DEF InOrder
    <3>8. InOrder(new)
      BY <3>2, <3>4, <3>6, <3>7 DEF InOrder
    <3> QED  BY <3>1, <3>8, OrderFrame
  <2> QED  BY <1>1, <1>5, <2>1, <2>2 DEF MoveStock
<1>6. CASE LockPayable(p)
  <2> DEFINE lock == PayableRow(q.purchase)
  <2>0. tx[p].pc = "payable" /\ q.op \in {"receive", "return"}
    BY <1>6 DEF LockPayable
  <2>1. ASSUME NEW step, Hold(p, lock, step),
               \/ q.op = "receive" /\ step = "commit"
               \/ q.op = "return" /\ step = "insert"
        PROVE  AllInOrder'
    <3> DEFINE new == [tx[p] EXCEPT !.pc = step, !.held = @ \cup {lock}]
    <3>1. tx' = [tx EXCEPT ![p] = new]
      BY <2>1 DEF Hold
    <3>2. new.req = q /\ new.held = tx[p].held \cup {lock} /\ new.pc = step
      BY <1>0 DEF Tx
    <3> HIDE DEF new
    <3>3. InOrder(new)
      BY <1>0, <2>0, <2>1, <3>2, LocksTyped DEF InOrder
    <3> QED  BY <3>1, <3>3, OrderFrame
  <2>2. \/ Done(p, "conflict")
        \/ q.op = "receive" /\ Hold(p, lock, "commit")
        \/ q.op = "return" /\ Hold(p, lock, "insert")
    BY <1>6 DEF LockPayable
  <2> QED  BY <1>1, <2>1, <2>2
<1>7. CASE FindTill(p) \/ UseTill(p)
  <2>0. tx[p].pc \in {"find", "till"}
    BY <1>7 DEF FindTill, UseTill
  <2>1. ASSUME NEW step, GoTo(p, step)
        PROVE  AllInOrder'
    <3> DEFINE new == [tx[p] EXCEPT !.pc = step]
    <3>1. tx' = [tx EXCEPT ![p] = new]
      BY <2>1 DEF GoTo
    <3>2. new.req = q /\ new.held = tx[p].held
      BY <1>0 DEF Tx
    <3> HIDE DEF new
    <3>3. InOrder(new)
      BY <1>0, <2>0, <3>2 DEF InOrder
    <3> QED  BY <3>1, <3>3, OrderFrame
  <2>2. ASSUME tx' = [tx EXCEPT ![p].pc = "commit", ![p].paidOut = q.amount,
                                ![p].held = @ \cup {TillRow}]
        PROVE  AllInOrder'
    <3> DEFINE new == [tx[p] EXCEPT !.pc = "commit", !.paidOut = q.amount,
                                    !.held = @ \cup {TillRow}]
    <3>1. tx' = [tx EXCEPT ![p] = new]
      BY <2>2
    <3>2. new.req = q /\ new.held = tx[p].held \cup {TillRow} /\ new.pc = "commit"
      BY <1>0 DEF Tx
    <3> HIDE DEF new
    <3>3. InOrder(new)
      BY <1>0, <2>0, <3>2, LocksTyped DEF InOrder
    <3> QED  BY <3>1, <3>3, OrderFrame
  <2>3. ASSUME tx' = [tx EXCEPT ![p] = [IdleTx EXCEPT !.pc = "resolve", !.req = q]]
        PROVE  AllInOrder'
    <3> DEFINE new == [IdleTx EXCEPT !.pc = "resolve", !.req = q]
    <3>1. tx' = [tx EXCEPT ![p] = new] /\ new.held = {}
      BY <2>3 DEF IdleTx
    <3> HIDE DEF new
    <3> QED  BY <3>1, OrderFrame DEF InOrder
  <2> QED  BY <1>1, <1>7, <2>1, <2>2, <2>3 DEF FindTill, UseTill
<1> QED  BY <1>2, <1>3, <1>4, <1>5, <1>6, <1>7
         DEF Step, Receive, ReturnToSupplier, AddPayment

\* Where a transaction stands in the common order, and at which product.
Level(t) == CASE t.pc = "lock" -> 0
              [] t.pc = "insert" /\ t.req.op # "pay" -> 1
              [] t.pc = "stock" -> 2
              [] t.pc = "payable" -> 3
              [] t.pc = "insert" /\ t.req.op = "pay" -> 4
              [] OTHER -> 5

NextFor(p) == NextProducts(ProductsLeft(p))

Number(p) == IF tx[p].pc = "stock" /\ NextFor(p) # {} THEN CHOOSE x \in NextFor(p) : TRUE ELSE 0

LEMMA NumberFacts ==
    ASSUME NEW p
    PROVE  /\ Number(p) \in Int
           /\ \A x \in NextFor(p) : tx[p].pc = "stock" => Number(p) = x
<1>1. NextFor(p) \subseteq Products /\ Products \subseteq Nat
  BY ProductsAssumption DEF NextFor, NextProducts, ProductsLeft
<1>2. ASSUME NEW x \in NextFor(p), NEW y \in NextFor(p)
      PROVE  x = y
  <2>1. x <= y /\ y <= x
    BY DEF NextFor, NextProducts
  <2>2. x \in Nat /\ y \in Nat
    BY <1>1
  <2> QED  BY <2>1, <2>2
<1>3. ASSUME NEW x \in NextFor(p)
      PROVE  x \in Int
  <2>1. x \in Nat
    BY <1>1
  <2> QED  BY <2>1
<1> QED  BY <1>2, <1>3 DEF Number

\* Whom it waits for, if that one waits too, stands later in the order.
LEMMA WaitsUp ==
    ASSUME IInv, AllInOrder, NEW p \in Procs, NEW q \in WaitsFor(p), WaitsFor(q) # {}
    PROVE  \/ Level(tx[p]) < Level(tx[q])
           \/ Level(tx[p]) = Level(tx[q]) /\ Number(p) < Number(q)
<1>1. q \in Procs \ {p} /\ Staged(tx[q]) /\ InOrder(tx[q]) /\ Staged(tx[p])
  BY RequestKnown DEF WaitsFor, KeyTakenBy, AllInOrder
<1>2. tx[q].held # {} \/ tx[q].inserted
  BY DEF WaitsFor, KeyTakenBy
<1>3. Working(tx[q]) /\ tx[q].pc \in Stages(tx[q].req.op)
      /\ tx[q].req.op \in {"receive", "return", "pay"}
  BY <1>1, <1>2, RequestKnown DEF Staged, Working
<1>4. \A o : WaitsFor(o) # {} => tx[o].pc \in {"lock", "insert", "stock", "payable", "till"}
  BY DEF WaitsFor, Wanted
<1>5. /\ tx[p].pc \in {"lock", "insert", "stock", "payable", "till"}
      /\ tx[q].pc \in {"insert", "stock", "payable", "till"}
  BY <1>3, <1>4 DEF Working
<1>6. tx[p].pc # "insert" => Wanted(p) \cap tx[q].held # {}
  BY DEF WaitsFor
<1>7. CASE tx[p].pc = "lock"
  BY <1>5, <1>7 DEF Level
<1>8. CASE tx[p].pc = "insert"
  <2>1. tx[q].inserted /\ tx[q].req.op = tx[p].req.op
    BY <1>8 DEF WaitsFor, Wanted, KeyTakenBy
  <2>2. tx[q].pc # "insert" /\ (tx[q].pc = "payable" => tx[q].req.op # "return")
    BY <1>1, <1>3, <2>1 DEF Staged
  <2>3. tx[q].req.op = "pay" => tx[q].pc = "till"
    BY <1>3, <1>5, <2>2 DEF Stages
  <2> QED  BY <1>5, <1>8, <2>1, <2>2, <2>3 DEF Level
<1>9. CASE tx[p].pc = "stock"
  <2>1. PICK x \in NextFor(p) : StockLock(x) \in tx[q].held
    BY <1>6, <1>9 DEF Wanted, NextFor
  <2>2. x \in Products
    BY DEF NextFor, NextProducts, ProductsLeft
  <2>3. tx[q].pc \in {"stock", "payable"}
    BY <1>1, <1>5, <2>1, <2>2 DEF InOrder
  <2>4. CASE tx[q].pc = "payable"
    BY <1>9, <2>4 DEF Level
  <2>5. CASE tx[q].pc = "stock"
    <3>1. PICK z \in NextFor(q) : TRUE
      BY <2>5 DEF WaitsFor, Wanted, NextFor
    <3>2. z \in Products /\ tx[q].req.lines[z] > 0 /\ StockLock(z) \notin tx[q].held
      BY DEF NextFor, NextProducts, ProductsLeft
    <3>3. x < z
      BY <1>1, <2>1, <2>2, <2>5, <3>2 DEF InOrder
    <3>4. Number(p) = x /\ Number(q) = z
      BY <1>9, <2>5, NumberFacts
    <3> QED  BY <1>9, <2>5, <3>3, <3>4 DEF Level
  <2> QED  BY <2>3, <2>4, <2>5
<1>10. CASE tx[p].pc = "payable"
  <2>1. /\ Working(tx[p]) /\ tx[p].req.op # "pay" /\ tx[p].req.purchase \in Purchases
    BY <1>1, <1>10, AtWork DEF Working, Staged, Stages
  <2>2. PayableRow(tx[p].req.purchase) \in tx[q].held
    BY <1>6, <1>10 DEF Wanted
  <2>3. tx[p].req.purchase = tx[q].req.purchase
    BY <1>1, <2>1, <2>2 DEF InOrder
  <2>4. tx[q].req.op = "pay"
    BY <1>1, <1>3, <2>1, <2>3, OthersElsewhere
  <2>5. tx[q].pc \in {"insert", "till"}
    BY <1>3, <1>5, <2>4 DEF Stages
  <2> QED  BY <1>10, <2>4, <2>5 DEF Level
<1>11. CASE tx[p].pc = "till"
  BY <1>1, <1>5, <1>6, <1>11 DEF Wanted, InOrder
<1> QED  BY <1>5, <1>7, <1>8, <1>9, <1>10, <1>11

LEMMA OrderKept ==
    ASSUME IInv, AllInOrder, [Next]_vars
    PROVE  AllInOrder'
<1>1. CASE UNCHANGED tx
  BY <1>1 DEF AllInOrder, InOrder
<1>2. CASE Others
  BY <1>1, <1>2 DEF Others, Create, Update, Confirm, Cancel, SetStatus, Sell, OpenTill, TakeIn,
                    CloseTill, UseDrawer
<1>3. CASE UNCHANGED vars
  BY <1>1, <1>3 DEF vars
<1> QED  BY <1>2, <1>3, StepInOrder, EndsInOrder DEF Next

\* Deliveries, returns and payments of any orders never wait for each other in a circle
\* (lockPayableByPurchase, the ordered locks of the stock, the unique keys).
THEOREM NeverInACircle == Spec => []NoDeadlock
<1>1. IInv /\ AllInOrder => NoDeadlock
  <2> SUFFICES ASSUME IInv, AllInOrder
               PROVE  NoDeadlock
    OBVIOUS
  <2> DEFINE waits == [p \in Procs |-> WaitsFor(p)]
             level == [p \in Procs |-> Level(tx[p])]
             number == [p \in Procs |-> Number(p)]
  <2>1. DOMAIN waits = Procs /\ \A p \in Procs : /\ waits[p] = WaitsFor(p)
                                                /\ level[p] = Level(tx[p])
                                                /\ number[p] = Number(p)
    OBVIOUS
  <2>2. \A p \in Procs : Level(tx[p]) \in Int
    BY DEF Level
  <2>3. \A p \in Procs : WaitsFor(p) \subseteq Procs
    BY DEF WaitsFor, KeyTakenBy
  <2> HIDE DEF waits, level, number
  <2>4. \A p \in DOMAIN waits : level[p] \in Int /\ number[p] \in Int
    BY <2>1, <2>2, NumberFacts
  <2>5. ASSUME NEW p \in DOMAIN waits, NEW q \in waits[p]
        PROVE  /\ q \in DOMAIN waits
               /\ waits[q] # {} => \/ level[p] < level[q]
                                   \/ level[p] = level[q] /\ number[p] < number[q]
    BY <2>1, <2>3, WaitsUp
  <2>6. InACircle(waits) = {}
    BY <2>4, <2>5, NoCircle
  <2> QED  BY <2>6 DEF NoDeadlock, waits
<1>2. Init => AllInOrder
  BY IdleFields DEF Init, AllInOrder, InOrder
<1>3. IInv /\ AllInOrder /\ [Next]_vars => AllInOrder'
  BY OrderKept
<1> QED  BY <1>1, <1>2, <1>3, Invariance, PTL DEF Spec
=============================================================================
