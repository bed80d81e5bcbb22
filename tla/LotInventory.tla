----------------------------- MODULE LotInventory -----------------------------
(***************************************************************************)
(* The stock of one product: inventory.service.ts, lot-ledger.ts and       *)
(* stock-operations.service.ts.  Each warehouse has a quantity, and lots   *)
(* that account for some of it; what no lot accounts for is loose.         *)
(*                                                                         *)
(* Whatever moves the product holds one advisory lock, in all warehouses,  *)
(* until it commits: Run, Sell, Refund and Track are each a transaction    *)
(* from that lock on.  What is read before the lock, the row of the key    *)
(* and for a stock operation whether lots are required, may be stale.      *)
(*                                                                         *)
(* A delivery moves stock as a RECEIPT does, a return to the supplier as   *)
(* WASTE, a kitchen dispatch or a batch as a sale.  Days are numbers.      *)
(***************************************************************************)
EXTENDS Integers, FiniteSets, Functions

CONSTANTS Warehouses, Codes,
          ReturnCode,      \* DEVOLUCION-SIN-LOTE, one of the codes
          Loose, None,
          Never, LastDay,  \* the expiry of a lot that has none; bound of the calendar
          Sales, HomeOf,   \* the warehouse of each sale
          MaxUnits,        \* the most a sale takes
          Keys, Procs, Requests, Stock0

Manual == {"IN", "OUT", "ADJUST_UP", "ADJUST_DOWN"}
Operations == {"RECEIPT", "CLASSIFY", "COUNT", "WASTE", "STAFF"}
Days == 0..LastDay

\* lot: an existing one; code and expires: a new one; expected: what was counted against
Request == [op : Manual \cup Operations \cup {"TRANSFER"}, key : Keys,
            at : Warehouses, to : Warehouses, units : Nat,
            lot : Codes \cup {None}, code : Codes \cup {None}, expires : Days \cup {Never},
            expected : Nat]

ASSUME CodesAssumption == ReturnCode \in Codes /\ Loose \notin Codes /\ IsFiniteSet(Codes)
\* None is also a block that is left as it is.
ASSUME NoneAssumption == None \notin BOOLEAN
ASSUME CalendarAssumption == LastDay \in Nat /\ Never \in Nat /\ Never > LastDay
ASSUME SalesAssumption == HomeOf \in [Sales -> Warehouses] /\ MaxUnits \in Nat
ASSUME StockAssumption == Stock0 \in [Warehouses -> Nat] /\ IsFiniteSet(Warehouses)
ASSUME RequestsAssumption ==
    /\ Requests \subseteq Request
    /\ \A q \in Requests :
          /\ q.op # "COUNT" => q.units > 0
          /\ q.lot # None => q.code = None
          /\ q.op = "CLASSIFY" => q.code # None
          /\ q.code # None => q.op \in {"RECEIPT", "CLASSIFY"}
          /\ q.lot # None => q.op \in {"RECEIPT", "COUNT", "WASTE", "STAFF"}

VARIABLES stock,         \* inventories.quantity, by warehouse
          lots,          \* stock_lots, by warehouse and code
          strict,        \* products.requireLots
          today,
          log,           \* movements, transfers and operations that have a key
          taken, given,  \* lot_allocations of each sale: sold, and returned
          tx             \* the request each process runs

tables == <<stock, lots, strict, today, log, taken, given>>
vars == <<tables, tx>>

NoLot == [known |-> FALSE, expires |-> Never, blocked |-> FALSE, units |-> 0]

Kinds == Codes \cup {Loose}
Nothing == [c \in Kinds |-> 0]

IdleTx == [pc |-> "idle", req |-> None, strict |-> FALSE, ans |-> "none"]

Init ==
    /\ stock = Stock0
    /\ lots = [w \in Warehouses |-> [c \in Codes |-> NoLot]]
    /\ strict = FALSE
    /\ today = 0
    /\ log = {}
    /\ taken = [s \in Sales |-> Nothing] /\ given = [s \in Sales |-> Nothing]
    /\ tx = [p \in Procs |-> IdleTx]

-----------------------------------------------------------------------------
(* Reads.                                                                  *)

Units(w, set) == SumFunction([c \in set |-> lots[w][c].units])

Untracked(w) == stock[w] - Units(w, Codes)

\* FAULT: a lot is unfit on the day it expires
FitBefore(w, c) == ~lots[w][c].blocked /\ lots[w][c].expires > today

\* What allocateLots may take.
Fit(w, c) == ~lots[w][c].blocked /\ lots[w][c].expires >= today

\* usableBalances
Unavailable(w) ==
    Units(w, {c \in Codes : lots[w][c].blocked \/ lots[w][c].expires < today})

Positive(n) == IF n < 0 THEN 0 ELSE n

Available(w) ==
    Positive(stock[w] - Unavailable(w) - IF strict THEN Positive(Untracked(w)) ELSE 0)

\* assertMatches, or the hash of a stock operation
SameData(row, q) == row.req = q

TableOf(op) == IF op \in Operations THEN "stock_operations"
               ELSE IF op = "TRANSFER" THEN "inventory_transfers" ELSE "inventory_movements"

WithKey(q) == {row \in log : TableOf(row.req.op) = TableOf(q.op) /\ row.req.key = q.key}

-----------------------------------------------------------------------------
(* allocateLots.                                                           *)

\* FAULT: what is in lots counts as loose too
LooseUsableWhole(w, lot) == IF lot = None /\ ~strict THEN stock[w] ELSE 0

LooseUsable(w, lot) == IF lot = None /\ ~strict THEN Untracked(w) ELSE 0

\* The ways to take n units: first the lot that expires first (of equal ones
\* the older), loose stock last.  None: there are not enough.
Allocations(w, n, lot, unfitToo) ==
    LET candidates == {c \in Codes : /\ lots[w][c].known
                                     /\ lot \in {None, c}
                                     /\ unfitToo \/ Fit(w, c)}
        has == [c \in Kinds |-> IF c = Loose THEN LooseUsable(w, lot)
                                ELSE IF c \in candidates THEN lots[w][c].units ELSE 0]
        InOrder(take) ==
            /\ \A c, d \in candidates :
                  lots[w][d].expires < lots[w][c].expires /\ take[c] > 0 => take[d] = has[d]
            /\ take[Loose] > 0 => \A c \in candidates : take[c] = has[c]
            /\ Cardinality({c \in candidates : take[c] \in 1..(has[c] - 1)}) <= 1
    IN  {take \in [Kinds -> 0..n] : /\ \A c \in Kinds : take[c] <= has[c]
                                    /\ SumFunction(take) = n
                                    /\ InOrder(take)}

Without(w, take) ==
    [lots EXCEPT ![w] = [c \in Codes |-> [lots[w][c] EXCEPT !.units = @ - take[c]]]]

\* An existing lot keeps its expiry, and its block when the input names one.
Compatible(w, input) ==
    LET lot == lots[w][input.code]
    IN  lot.known => /\ lot.expires = input.expires
                     /\ input.blocked \in {None, lot.blocked}

\* With lots required, they must cover what comes in.
Covered(inputs, n) ==
    LET assigned == SumFunction([i \in inputs |-> i.units])
    IN  assigned <= n /\ (strict => assigned = n)

Accepts(w, inputs, n) == Covered(inputs, n) /\ \A i \in inputs : Compatible(w, i)

\* The lots at w, given what other lots are, once the inputs have come in.
With(before, w, inputs) ==
    [before EXCEPT ![w] = [c \in Codes |->
        IF \E i \in inputs : i.code = c
        THEN LET i == CHOOSE i \in inputs : i.code = c
             IN  IF before[w][c].known THEN [before[w][c] EXCEPT !.units = @ + i.units]
                 ELSE [known |-> TRUE, expires |-> i.expires,
                       blocked |-> i.blocked = TRUE, units |-> i.units]
        ELSE before[w][c]]]

Input(c, expires, blocked, n) ==
    [code |-> c, expires |-> expires, blocked |-> blocked, units |-> n]

-----------------------------------------------------------------------------
(* Requests with a key: looked up first, then run under the lock.          *)

Done(p, answer) == tx' = [tx EXCEPT ![p].pc = "done", ![p].ans = answer]

\* The answer goes out, or is lost on the way: the client may ask again.
Finish(p) == /\ tx[p].pc = "done"
             /\ tx' = [tx EXCEPT ![p] = IdleTx]
             /\ UNCHANGED tables

\* The process dies, or its transaction times out: it has written nothing.
Abort(p) == /\ tx[p].pc = "run"
            /\ tx' = [tx EXCEPT ![p] = IdleTx]
            /\ UNCHANGED tables

Answer(row, q) == IF SameData(row, q) THEN "ok" ELSE "conflict"

\* A stock operation holds an advisory lock on its key from its look on.
KeyIsFree(q) ==
    q.op \in Operations =>
        \A other \in Procs : ~ /\ tx[other].pc = "run"
                               /\ tx[other].req.op \in Operations
                               /\ tx[other].req.key = q.key

\* The row of the key answers; without one the request goes on, to the lock.
Look(p, q) ==
    LET asked == [IdleTx EXCEPT !.req = q]
        found == WithKey(q)
    IN  /\ tx[p].pc = "idle" /\ KeyIsFree(q)
        /\ \/ \E row \in found :
                tx' = [tx EXCEPT ![p] = [asked EXCEPT !.pc = "done", !.ans = Answer(row, q)]]
           \/ /\ found = {}
              /\ tx' = [tx EXCEPT ![p] = [asked EXCEPT !.pc = "run", !.strict = strict]]
        /\ UNCHANGED tables

\* FAULT: a key is unique only as long as nobody races for it
KeyUsedNever(q) == q.units < 0

KeyUsed(q) == WithKey(q) # {}

\* The movement, transfer or operation is on record, and tx is committed; if
\* its key was used meanwhile (P2002) all is undone, and that row answers.
Resolve(p) ==
    /\ KeyUsed(tx[p].req)
    /\ \E row \in WithKey(tx[p].req) : Done(p, Answer(row, tx[p].req))
    /\ UNCHANGED tables

Refuse(p, refused) == refused /\ Done(p, "refused") /\ UNCHANGED tables

Record(p, change) ==
    /\ ~KeyUsed(tx[p].req)
    /\ log' = log \cup {[req |-> tx[p].req, change |-> change]}
    /\ Done(p, "ok")
    /\ UNCHANGED <<strict, today, taken, given>>

\* applyMovement with DECREASE
TakeOut(p, n, lot, unfitToo) ==
    LET w == tx[p].req.at
        ways == Allocations(w, n, lot, unfitToo)
    IN  \/ Refuse(p, ways = {})
        \/ ways # {} /\ Resolve(p)
        \/ \E take \in ways : /\ stock' = [stock EXCEPT ![w] = @ - n]
                              /\ lots' = Without(w, take)
                              /\ Record(p, -n)

\* applyMovement with INCREASE
BringIn(p, n, inputs) ==
    LET w == tx[p].req.at
    IN  \/ Refuse(p, ~Accepts(w, inputs, n))
        \/ Accepts(w, inputs, n) /\ Resolve(p)
        \/ /\ Accepts(w, inputs, n)
           /\ stock' = [stock EXCEPT ![w] = @ + n]
           /\ lots' = With(lots, w, inputs)
           /\ Record(p, n)

\* Into a lot that is named: whatever its expiry, blocked or not.
IntoLot(w, c, n) == {Input(c, lots[w][c].expires, lots[w][c].blocked, n)}

Running(p, ops) == tx[p].pc = "run" /\ tx[p].req.op \in ops

RegisterManualMovement(p) ==
    LET q == tx[p].req
    IN  \/ Running(p, {"IN", "ADJUST_UP"}) /\ BringIn(p, q.units, {})
        \/ Running(p, {"OUT", "ADJUST_DOWN"}) /\ TakeOut(p, q.units, None, FALSE)

TransferInputs(w, take) ==
    {Input(c, lots[w][c].expires, lots[w][c].blocked, take[c]) :
        c \in {d \in Codes : take[d] > 0}}

\* Lots move with their expiry and block; both halves happen, or neither.
Transfer(p) ==
    LET q == tx[p].req
        ways == Allocations(q.at, q.units, None, TRUE)
        good == {take \in ways : Accepts(q.to, TransferInputs(q.at, take), q.units)}
    IN  /\ Running(p, {"TRANSFER"})
        /\ \/ q.at # q.to /\ Resolve(p)
           \/ Refuse(p, q.at = q.to \/ (~KeyUsed(q) /\ (ways \ good # {} \/ ways = {})))
           \/ /\ q.at # q.to
              /\ \E take \in good :
                    /\ stock' = [stock EXCEPT ![q.at] = @ - q.units, ![q.to] = @ + q.units]
                    /\ lots' = With(Without(q.at, take), q.to, TransferInputs(q.at, take))
                    /\ Record(p, 0)

LotIsThere(q) == q.lot # None => lots[q.at][q.lot].known

Receipt(p) ==
    LET q == tx[p].req
    IN  /\ Running(p, {"RECEIPT"})
        /\ \/ Refuse(p, ~LotIsThere(q))
           \/ /\ LotIsThere(q)
              /\ BringIn(p, q.units, CASE q.lot # None -> IntoLot(q.at, q.lot, q.units)
                                       [] q.code # None -> {Input(q.code, q.expires, None, q.units)}
                                       [] OTHER -> {})

Leave(p) ==
    LET q == tx[p].req
    IN  /\ Running(p, {"WASTE", "STAFF"})
        /\ \/ Refuse(p, ~LotIsThere(q))
           \/ LotIsThere(q) /\ TakeOut(p, q.units, q.lot, q.op = "WASTE")

FitsLoose(q) == q.units <= Untracked(q.at)

\* Loose stock gets a new lot; the quantity does not change.
Classify(p) ==
    LET q == tx[p].req
        allowed == FitsLoose(q) /\ ~lots[q.at][q.code].known
    IN  /\ Running(p, {"CLASSIFY"})
        /\ \/ Refuse(p, ~allowed)
           \/ /\ allowed
              /\ lots' = With(lots, q.at, {Input(q.code, q.expires, None, q.units)})
              /\ Record(p, 0)
              /\ UNCHANGED stock

\* A count of a lot, or of the whole when there is nothing to trace; whether
\* lots are required was read before the lock.
MayCount(p) ==
    LET q == tx[p].req
        before == IF q.lot = None THEN stock[q.at] ELSE lots[q.at][q.lot].units
    IN  /\ LotIsThere(q)
        /\ q.expected = before
        /\ q.lot = None => ~tx[p].strict /\ Units(q.at, Codes) = 0

Count(p) ==
    LET q == tx[p].req
        delta == q.units - q.expected
    IN  /\ Running(p, {"COUNT"})
        /\ \/ Refuse(p, ~MayCount(p))
           \/ MayCount(p) /\ delta = 0 /\ Record(p, 0) /\ UNCHANGED <<stock, lots>>
           \/ /\ MayCount(p) /\ delta > 0
              /\ BringIn(p, delta, IF q.lot = None THEN {} ELSE IntoLot(q.at, q.lot, delta))
           \/ MayCount(p) /\ delta < 0 /\ TakeOut(p, -delta, q.lot, TRUE)

Register(p) == Receipt(p) \/ Leave(p) \/ Classify(p) \/ Count(p)

Run(p) == RegisterManualMovement(p) \/ Transfer(p) \/ Register(p)

-----------------------------------------------------------------------------
(* Sales and their returns; requiring lots; the calendar.                  *)

SoldUnits(s) == SumFunction(taken[s])
ReturnedUnits(s) == SumFunction(given[s])

Sell(s) ==
    LET w == HomeOf[s]
    IN  /\ taken[s] = Nothing
        /\ \E n \in 1..MaxUnits : \E take \in Allocations(w, n, None, FALSE) :
              /\ stock' = [stock EXCEPT ![w] = @ - n]
              /\ lots' = Without(w, take)
              /\ taken' = [taken EXCEPT ![s] = take]
        /\ UNCHANGED <<strict, today, log, given, tx>>

\* FAULT: what earlier lines restored is not looked at
LeftToRestoreAll(s, before) == taken[s]

\* Of each lot the sale took from, what earlier lines have not restored.
LeftToRestore(s, before) == [c \in Kinds |-> Positive(taken[s][c] - before[c])]

\* The ways a line of n units comes back: as it was taken, loose goods last.
Restorations(s, before, n) ==
    LET left == LeftToRestore(s, before)
    IN  {back \in [Kinds -> 0..n] :
            /\ SumFunction(back) = n
            /\ \A c \in Kinds : back[c] <= left[c]
            /\ back[Loose] > 0 => \A c \in Codes : back[c] = left[c]
            /\ Cardinality({c \in Codes : back[c] \in 1..(left[c] - 1)}) <= 1}

\* FAULT: what belongs to a lot that has expired comes back loose
ReturnInputsLoose(w, back) ==
    {Input(c, lots[w][c].expires, lots[w][c].blocked, back[c]) :
        c \in {d \in Codes : back[d] > 0 /\ Fit(w, d)}}

\* Each lot as it is; what had none is blocked apart when lots are required.
ReturnInputs(w, back) ==
    {Input(c, lots[w][c].expires, lots[w][c].blocked, back[c]) :
        c \in {d \in Codes : back[d] > 0}}
    \cup (IF strict /\ back[Loose] > 0 THEN {Input(ReturnCode, Never, TRUE, back[Loose])} ELSE {})

\* The allocations of the return, by lot.
Booked(back) ==
    [back EXCEPT ![Loose] = IF strict THEN 0 ELSE @,
                 ![ReturnCode] = @ + IF strict THEN back[Loose] ELSE 0]

\* One transaction, in one or two lines; a kitchen that has begun keeps some.
Refund(s) ==
    LET w == HomeOf[s]
    IN  /\ given[s] = Nothing
        /\ \E m \in 1..MaxUnits, n \in 0..MaxUnits :
           \E first \in Restorations(s, Nothing, m) :
           \E second \in Restorations(s, Booked(first), n) :
              LET back == [c \in Kinds |-> first[c] + second[c]]
              IN  /\ m + n <= SoldUnits(s)
                  /\ Accepts(w, ReturnInputs(w, back), m + n)
                  /\ stock' = [stock EXCEPT ![w] = @ + m + n]
                  /\ lots' = With(lots, w, ReturnInputs(w, back))
                  /\ given' = [given EXCEPT ![s] = Booked(back)]
        /\ UNCHANGED <<strict, today, log, taken, tx>>

\* tracking: lots are required once no warehouse has loose stock.
Track(required) ==
    /\ required # strict
    /\ required => \A w \in Warehouses : Positive(Untracked(w)) = 0
    /\ strict' = required
    /\ UNCHANGED <<stock, lots, today, log, taken, given, tx>>

NextDay == /\ today < LastDay
           /\ today' = today + 1
           /\ UNCHANGED <<stock, lots, strict, log, taken, given, tx>>

Others == \/ \E s \in Sales : Sell(s) \/ Refund(s)
          \/ \E required \in BOOLEAN : Track(required)
          \/ NextDay

-----------------------------------------------------------------------------
Next == \/ \E p \in Procs : \/ \E q \in Requests : Look(p, q)
                            \/ Run(p) \/ Finish(p) \/ Abort(p)
        \/ Others

Spec == Init /\ [][Next]_vars

-----------------------------------------------------------------------------
(* Properties.                                                             *)

Lot == [known : BOOLEAN, expires : Days \cup {Never}, blocked : BOOLEAN, units : Nat]

\* Every variable has its type: no quantity, of a warehouse or of a lot, goes
\* below zero.
TypeOK ==
    /\ stock \in [Warehouses -> Nat]
    /\ lots \in [Warehouses -> [Codes -> Lot]]
    /\ strict \in BOOLEAN
    /\ today \in Days
    /\ log \subseteq [req : Requests, change : Int]
    /\ taken \in [Sales -> [Kinds -> Nat]] /\ given \in [Sales -> [Kinds -> Nat]]
    /\ tx \in [Procs -> [pc : {"idle", "run", "done"}, req : Requests \cup {None},
                         strict : BOOLEAN, ans : {"none", "ok", "conflict", "refused"}]]

\* The lots of a warehouse never account for more than it holds, so that
\* allocateLots never meets a balance it must refuse to work on.
LotsWithinStock == \A w \in Warehouses : Units(w, Codes) <= stock[w]

\* While lots are required nothing is loose, in any warehouse, though a count
\* decides on a flag read before the lock and old sales come back.
StrictHasNoLoose == strict => \A w \in Warehouses : Untracked(w) = 0

\* Warehouses and lots agree, with the types of all tables.
LotsOK == TypeOK /\ LotsWithinStock /\ StrictHasNoLoose

\* The quantity the stock screens call available is exactly what a sale can
\* take: two computations, of usableBalances and of allocateLots, agree.
AvailableIsSellable ==
    \A w \in Warehouses : \A n \in 1..(stock[w] + 1) :
        Allocations(w, n, None, FALSE) # {} <=> n <= Available(w)

\* The sales that were made.
Sold == {s \in Sales : taken[s] # Nothing}

Available_all == SumFunction([w \in Warehouses |-> Available(w)])

ComesFromOutside(row) ==
    row.req.op \in {"IN", "ADJUST_UP", "RECEIPT", "COUNT"} /\ row.change > 0

Smaller(m, n) == IF m < n THEN m ELSE n

\* What the sale s gives back in a step of what a sale could take: loose goods as
\* loose goods, and units of a lot that is fit to that lot.
CameBackFit(s) ==
    [c \in Kinds |->
        IF c = Loose \/ (lots[HomeOf[s]][c].known /\ Fit(HomeOf[s], c))
        THEN Smaller(given'[s][c], taken[s][c]) - given[s][c] ELSE 0]

\* Goods that are blocked or have expired do not become sellable by being moved,
\* classified, counted, thrown away or given back, nor by switching lots on and
\* off.  Without an entry from outside no more is available than before; but a
\* return adds the goods it brings back loose or to a lot that is fit, and not
\* those of a lot that has expired, nor those that are put apart.
NothingBecomesFitAgain ==
    [][(\A row \in log' \ log : ~ComesFromOutside(row)) =>
          \/ Available_all' <= Available_all
          \/ \E s \in Sales :
                /\ given'[s] # given[s]
                /\ Available_all' <= Available_all + SumFunction(CameBackFit(s))]_vars

\* The stock of a warehouse is what its movements add up to: a request sent
\* twice at once is applied once, a transfer never in half.
StockIsItsHistory ==
    \A w \in Warehouses :
        stock[w] = Stock0[w]
            + SumFunction([row \in {r \in log : r.req.at = w} |-> row.change])
            + SumFunction([row \in {r \in log : r.req.op = "TRANSFER"} |->
                  (IF row.req.to = w THEN row.req.units ELSE 0)
                  - (IF row.req.at = w THEN row.req.units ELSE 0)])
            + SumFunction([s \in {x \in Sold : HomeOf[x] = w} |->
                  ReturnedUnits(s) - SoldUnits(s)])

\* The lines of a return give each lot back no more than the sale took from it,
\* and all of it when everything comes back, whatever became of the lots.
ReturnsRestoreLots ==
    \A s \in Sales : \A c \in Codes \ {ReturnCode} :
        /\ given[s][c] <= taken[s][c]
        /\ ReturnedUnits(s) = SoldUnits(s) => given[s][c] = taken[s][c]

\* A client told ok has its movement, transfer or operation on record with the
\* data it sent.
AnswersAreTrue ==
    \A p \in Procs : tx[p].ans = "ok" => \E row \in log : row.req = tx[p].req

\* What was done is on record once, what is on record is what was done, and what a
\* sale took of a lot is what its returns put back (createMovement, transfer,
\* allocateLots).
HistoryIsTrue == StockIsItsHistory /\ AnswersAreTrue /\ ReturnsRestoreLots
=============================================================================
