---------------------------- MODULE ReportQueries ----------------------------
(* The queries of reports.service.ts as operators on the tables they read:     *)
(* which sales, tills and debts a filter lets in, how they are grouped and     *)
(* added up, and which rows a page shows.  The tables are a parameter: every   *)
(* query of a report may see a later state of them than the query before.      *)
EXTENDS CashBook, FiniteSets, FiniteSetsExt

CONSTANTS
    Sales,         \* ids of the sales, in the order they were made
    SaleData,      \* what a sale keeps from its making: terminal, warehouse,
                   \* user, moment, customer, discount and the quantity of each item
    Products, CategoryOf, Price, Cost,
    Terminals, Warehouses, BranchOf,
    Users, Moments, Methods,
    Limits,        \* of the rows of the report by product
    Opening,       \* of the till of each terminal
    Stock0,        \* of each product in each warehouse
    Unset            \* a filter that is not set

ASSUME PlacesAssumption ==
    /\ IsFiniteSet(Terminals) /\ IsFiniteSet(Warehouses) /\ IsFiniteSet(Products) /\ IsFiniteSet(Methods)
    /\ "CASH" \in Methods /\ Moments \subseteq Int
    \* Unset is none of the values of a filter
    /\ Unset \notin Moments /\ Unset # "PENDING" /\ \A r \in Terminals : BranchOf[r] # Unset
    /\ Price \in [Products -> Nat] /\ Cost \in [Products -> Nat]
    /\ Limits \subseteq Nat \ {0}
    /\ Opening \in [Terminals -> Nat] /\ Stock0 \in [Warehouses -> [Products -> Nat]]

ASSUME SalesAssumption ==
    /\ Sales \subseteq Nat \ {0} /\ IsFiniteSet(Sales)
    /\ SaleData \in [Sales -> [terminal : Terminals, warehouse : Warehouses, user : Users, moment : Moments,
                               customer : BOOLEAN, discount : Nat, items : [Products -> Nat]]]
    \* create refuses a terminal and a warehouse of two branches
    /\ \A s \in Sales : BranchOf[SaleData[s].terminal] = BranchOf[SaleData[s].warehouse]

SaleStatuses == {"DRAFT", "CONFIRMED", "PARTIALLY_PAID", "PAID", "CANCELLED", "REFUNDED"}
RealSaleStatuses == {"CONFIRMED", "PARTIALLY_PAID", "PAID"}

NoFilter == [status |-> Unset, terminal |-> Unset, warehouse |-> Unset, branch |-> Unset, user |-> Unset,
             product |-> Unset, category |-> Unset, method |-> Unset, from |-> Unset, to |-> Unset]

SumOver(S, value(_)) == SumFunction([x \in S |-> value(x)])

TotalOfSale ==
    [s \in Sales |-> SumOver(Products, LAMBDA x : SaleData[s].items[x] * Price[x]) - SaleData[s].discount]
TotalOf(s) == TotalOfSale[s]

\* create refuses a discount beyond the subtotal.
ASSUME DiscountAssumption == \A s \in Sales : TotalOf(s) >= 0

Total(S) == SumOver(S, TotalOf)
PaidOf(t, s) == SumOver(Methods, LAMBDA m : t.paid[s][m])

Has(s, x) == SaleData[s].items[x] > 0
AtBranch(s, b) == b \in {BranchOf[SaleData[s].warehouse], BranchOf[SaleData[s].terminal]}

\* Both ends let in the moment they name; of the last day, which the page sends
\* as its first moment, no more than that moment.
DateRange(moment, f) == /\ f.from # Unset => moment >= f.from
                        /\ f.to # Unset => moment <= f.to

\* FAULT: a sale on credit is no sale until it is paid in part
StatusFitsWithoutCredit(t, s, status) ==
    IF status = Unset THEN t.status[s] \in RealSaleStatuses \ {"CONFIRMED"} ELSE t.status[s] = status

\* The status asked for, or the sales that count.
StatusFits(t, s, status) ==
    IF status = Unset THEN t.status[s] \in RealSaleStatuses ELSE t.status[s] = status

BuildSalesWhere(t, f) ==
    {s \in Sales : LET d == SaleData[s] IN
        /\ StatusFits(t, s, f.status)
        /\ f.terminal \in {Unset, d.terminal} /\ f.warehouse \in {Unset, d.warehouse}
        /\ f.branch # Unset => AtBranch(s, f.branch)
        /\ f.user \in {Unset, d.user}
        /\ f.product # Unset => Has(s, f.product)
        /\ f.category # Unset => \E x \in Products : Has(s, x) /\ CategoryOf[x] = f.category
        /\ f.method # Unset => t.paid[s][f.method] > 0
        /\ DateRange(d.moment, f)}

-----------------------------------------------------------------------------
(* Sales in groups: total and number of each, or quantity and subtotal.        *)

GroupBy(S, group(_)) ==
    [g \in {group(s) : s \in S} |->
        LET members == {s \in S : group(s) = g}
        IN [total |-> Total(members), count |-> Cardinality(members)]]

SalesByBranch(t, f) == GroupBy(BuildSalesWhere(t, f), LAMBDA s : BranchOf[SaleData[s].terminal])
SalesByPos(t, f) == GroupBy(BuildSalesWhere(t, f), LAMBDA s : SaleData[s].terminal)
SalesByUser(t, f) == GroupBy(BuildSalesWhere(t, f), LAMBDA s : SaleData[s].user)

\* Before the discount on the whole sale.
ItemsOf(S, x) == [quantity |-> SumOver(S, LAMBDA s : SaleData[s].items[x]),
                  total |-> SumOver(S, LAMBDA s : SaleData[s].items[x] * Price[x])]

\* The first rows, up to the limit: a set of reports, one for each order of the
\* products that the database may choose.
SalesByProduct(t, f, limit) ==
    LET S == BuildSalesWhere(t, f)
        sold == {x \in Products : \E s \in S : Has(s, x)}
        length == IF Cardinality(sold) < limit THEN Cardinality(sold) ELSE limit
    IN {[x \in rows |-> ItemsOf(S, x)] : rows \in {r \in SUBSET sold : Cardinality(r) = length}}

\* Payments to sales of any state: what a returned sale was paid did come in.
PaymentMethodsReport(t, f) ==
    [m \in Methods |-> SumOver({s \in Sales : /\ f.terminal \in {Unset, SaleData[s].terminal}
                                              /\ f.branch # Unset => AtBranch(s, f.branch)},
                               LAMBDA s : t.paid[s][m])]

-----------------------------------------------------------------------------
(* Debts of customers, tills, and stock at its cost.                           *)

ReceivablesWhere(t, status) == {s \in Sales : /\ t.debt[s] # "NONE"
                                              /\ status \in {Unset, t.debt[s]}}
\* A debt is opened with the total of its sale, and what it was paid is found there.
BalanceOf(t, s) == TotalOf(s) - PaidOf(t, s)
ReceivablesBalance(t, rows) == SumOver(rows, LAMBDA s : BalanceOf(t, s))

CashRegisterScope(f) ==
    IF f.terminal # Unset THEN {f.terminal}
    ELSE {r \in Terminals : f.branch \in {Unset, BranchOf[r]}}

CashMovementReport(t, f, types) ==
    SumOver(CashRegisterScope(f), LAMBDA r : SumOver(types, LAMBDA y : t.book[r][y]))
IncomeReport(t, f) == CashMovementReport(t, f, IncreaseTypes)
ExpensesReport(t, f) == CashMovementReport(t, f, DecreaseTypes)

\* The tills that are open.  Here a branch takes the place of the terminal asked for.
CashReport(t, openTills, f) ==
    [r \in {r \in openTills : IF f.branch # Unset THEN BranchOf[r] = f.branch
                              ELSE f.terminal \in {Unset, r}} |->
        Opening[r] + SumOver(IncreaseTypes, LAMBDA y : t.book[r][y])
                   - SumOver(DecreaseTypes, LAMBDA y : t.book[r][y])]

InventoryReport(t, f) ==
    SumOver({w \in Warehouses : f.warehouse \in {Unset, w} /\ f.branch \in {Unset, BranchOf[w]}},
            LAMBDA w : SumOver({x \in Products : /\ f.product \in {Unset, x}
                                                 /\ f.category \in {Unset, CategoryOf[x]}},
                               LAMBDA x : t.stock[w][x] * Cost[x]))

-----------------------------------------------------------------------------
(* Pages and lots of sales.                                                    *)

\* FAULT: skip counts the page it asks for
PageOfSkippingItself(S, page, size) ==
    {s \in S : LET place == Cardinality({o \in S : o >= s})
               IN page * size - size + 1 < place /\ place <= page * size}

\* skip and take: the rows of a page, the sale made last in the first place.
PageOf(S, page, size) ==
    {s \in S : LET place == Cardinality({o \in S : o >= s})
               IN (page - 1) * size < place /\ place <= page * size}

\* The summary of debts adds up the page that is shown.
ReceivablesSummary(t, status, page, size) ==
    ReceivablesBalance(t, PageOf(ReceivablesWhere(t, status), page, size))

\* FAULT: a lot begins at its cursor
BatchAtCursor(S, cursor, size) ==
    LET rest == {s \in S : s >= cursor}
    IN {s \in rest : Cardinality({o \in rest : o <= s}) <= size}

\* The rows from the cursor on that the filter still lets in, in the order of id.
\* The first is skipped as the cursor, also when the cursor is no longer there.
BatchFrom(S, cursor, size) ==
    LET rest == {s \in S : s >= cursor}
        skip == IF cursor = 0 THEN 0 ELSE 1
    IN {s \in rest : Cardinality({o \in rest : o <= s}) \in skip + 1 .. skip + size}
=============================================================================
