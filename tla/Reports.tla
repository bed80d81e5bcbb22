------------------------------- MODULE Reports -------------------------------
(* The reports of reports.service.ts, read while sales go on.  A report is one *)
(* transaction of several queries at READ COMMITTED, and a list is read page   *)
(* by page in one request each: what a reader sees was never all there at one  *)
(* moment.  The screen is frontend/src/app/reports/page.tsx.                   *)
EXTENDS ReportQueries

CONSTANTS
    BatchSize,     \* SALE_SCAN_BATCH_SIZE
    PageSize,      \* of the screen
    Filters,       \* the filters a user sets
    MaxExpenses    \* bound on the expenses of a till, one centavo each

ASSUME ReadingAssumption ==
    /\ BatchSize \in Nat \ {0} /\ PageSize \in Nat \ {0} /\ MaxExpenses \in Nat
    /\ NoFilter \in Filters
    \* the filter by method is one of the methods
    /\ \A f \in Filters : DOMAIN f = DOMAIN NoFilter /\ f.method \in Methods \union {Unset}

VARIABLES
    t,         \* the tables: status, paid and debt of each sale, book of each till, stock
    openTills, \* the terminals with an open till
    apart,     \* history: the cash that sales took with no open till at their terminal
    form,      \* the filter in the form of the screen, applied or not
    read       \* the report being read

reportsVars == <<t, openTills, apart, form, read>>

-----------------------------------------------------------------------------
(* The sales meanwhile: whole operations of sales.service.ts, one payment at   *)
(* most with a confirmation, and tills that open and stay open.                *)

NothingPaid == [m \in Methods |-> 0]
NoMovement == [y \in IncreaseTypes \union DecreaseTypes |-> 0]

Tables0 == [status |-> [s \in Sales |-> "DRAFT"],
            paid |-> [s \in Sales |-> NothingPaid],
            debt |-> [s \in Sales |-> "NONE"],
            book |-> [r \in Terminals |-> NoMovement],
            stock |-> Stock0]

StatusAfter(s, paid) ==
    IF paid = TotalOf(s) THEN "PAID" ELSE IF paid = 0 THEN "CONFIRMED" ELSE "PARTIALLY_PAID"

\* Where no till is open, nothing is written.
Book(r, type, amount) == IF r \in openTills THEN [t.book EXCEPT ![r][type] = @ + amount] ELSE t.book
StockWith(s, sign) ==
    [t.stock EXCEPT ![SaleData[s].warehouse] = [x \in Products |-> @[x] + sign * SaleData[s].items[x]]]

\* A payment goes on the sale, its debt and, in cash, the open till of its terminal.
Paying(now, s, m, amount) ==
    LET paid == PaidOf(now, s) + amount IN
    [now EXCEPT !.status[s] = StatusAfter(s, paid),
                !.paid[s][m] = @ + amount,
                !.debt[s] = IF @ # "NONE" /\ paid = TotalOf(s) THEN "PAID" ELSE @,
                !.book = IF m = "CASH" THEN Book(SaleData[s].terminal, "SALE_PAYMENT", amount) ELSE @]

\* Cash that no till has entered is on the sale all the same.
TakenApart(s, m, amount) ==
    apart' = IF m = "CASH" /\ SaleData[s].terminal \notin openTills THEN apart + amount ELSE apart

ConfirmDraft(s, m, amount) ==
    /\ \A x \in Products : t.stock[SaleData[s].warehouse][x] >= SaleData[s].items[x]
    /\ t' = Paying([t EXCEPT !.stock = StockWith(s, -1),
                             !.debt[s] = IF SaleData[s].customer /\ amount < TotalOf(s)
                                         THEN "PENDING" ELSE @], s, m, amount)
    /\ TakenApart(s, m, amount)

AddPayment(s, m, amount) ==
    /\ PaidOf(t, s) + amount <= TotalOf(s)
    /\ t' = Paying(t, s, m, amount)
    /\ TakenApart(s, m, amount)

\* Cash is paid back at the terminal of the sale or at another that is named, by
\* an open till that has it; else nothing is written.
ReturnSale(s) ==
    LET cash == t.paid[s]["CASH"]
        canPay(r) == r \in openTills /\ cash <= CashReport(t, openTills, NoFilter)[r]
    IN  /\ \E r \in Terminals :
               t' = [t EXCEPT !.status[s] = "REFUNDED", !.stock = StockWith(s, 1),
                              !.debt[s] = IF @ = "NONE" THEN @ ELSE "CANCELLED",
                              !.book = IF canPay(r) THEN Book(r, "SALE_REFUND", cash) ELSE @]
        /\ UNCHANGED apart

CallOff(s) == /\ t' = [t EXCEPT !.status[s] = "CANCELLED"]
              /\ UNCHANGED apart

SaleMoves ==
    /\ \E s \in Sales :
           \/ t.status[s] = "DRAFT" /\ CallOff(s)
           \/ \E m \in Methods, amount \in 1..TotalOf(s) :
                  \/ t.status[s] = "DRAFT" /\ ConfirmDraft(s, m, amount)
                  \/ t.status[s] \in {"CONFIRMED", "PARTIALLY_PAID"} /\ AddPayment(s, m, amount)
           \/ t.status[s] = "DRAFT" /\ \E m \in Methods : ConfirmDraft(s, m, 0)
           \/ t.status[s] \in RealSaleStatuses /\ ReturnSale(s)
    \* what the filter being read has let go of since its reading began
    /\ read' = [read EXCEPT !.left = @ \union (BuildSalesWhere(t, read.filter) \ BuildSalesWhere(t', read.filter))]
    /\ UNCHANGED <<openTills, form>>

OpenTill ==
    /\ \E r \in Terminals \ openTills : openTills' = openTills \union {r}
    /\ UNCHANGED <<t, apart, form, read>>

Expense ==
    /\ \E r \in openTills :
           /\ CashReport(t, openTills, NoFilter)[r] > 0 /\ t.book[r]["EXPENSE"] < MaxExpenses
           /\ t' = [t EXCEPT !.book[r]["EXPENSE"] = @ + 1]
    /\ UNCHANGED <<openTills, apart, form, read>>

-----------------------------------------------------------------------------
(* Reading.  start, left, seen and skipped are there to say what was read.     *)

NotReading == [kind |-> "none", filter |-> NoFilter, at |-> 0, more |-> FALSE,
               seen |-> [s \in Sales |-> 0], start |-> {}, left |-> {}, skipped |-> 0]

Seen(rows) == [s \in Sales |-> read.seen[s] + (IF s \in rows THEN 1 ELSE 0)]

\* "Aplicar filtros": the first page of what the form says.
BeginReading(kind) == [NotReading EXCEPT !.kind = kind, !.filter = form,
                                  !.start = BuildSalesWhere(t, form)]

Apply == /\ read' = [BeginReading("rows") EXCEPT !.at = 1]
         /\ UNCHANGED <<t, openTills, apart, form>>

ReadRows ==
    /\ read.kind = "rows"
    /\ LET rows == PageOf(BuildSalesWhere(t, read.filter), read.at, PageSize)
       IN read' = [read EXCEPT !.kind = "count", !.seen = Seen(rows)]
    /\ UNCHANGED <<t, openTills, apart, form>>

CountRows ==
    /\ read.kind = "count"
    /\ LET totalRows == Cardinality(BuildSalesWhere(t, read.filter))
       IN read' = [read EXCEPT !.kind = "page", !.more = read.at * PageSize < totalRows]
    /\ UNCHANGED <<t, openTills, apart, form>>

\* "Siguiente" asks with the form as it is now: another filter is another list.
NextPage ==
    /\ read.kind = "page" /\ read.more
    /\ read' = IF form = read.filter
               THEN [read EXCEPT !.kind = "rows", !.at = @ + 1]
               ELSE [BeginReading("rows") EXCEPT !.at = read.at + 1, !.start = {}]
    /\ UNCHANGED <<t, openTills, apart, form>>

\* forEachSaleBatch, for the reports by day and by category.
BeginScan == /\ read' = BeginReading("scan")
             /\ UNCHANGED <<t, openTills, apart, form>>

ReadBatch ==
    /\ read.kind = "scan"
    /\ LET S == BuildSalesWhere(t, read.filter)
           batch == BatchFrom(S, read.at, BatchSize)
           whole == Cardinality(batch) = BatchSize
       IN read' = [read EXCEPT !.kind = IF whole THEN "scan" ELSE "scanned",
                               !.at = IF whole THEN Max(batch) ELSE @,
                               !.seen = Seen(batch),
                               !.skipped = IF read.at \in S \union {0} THEN @ ELSE @ + 1]
    /\ UNCHANGED <<t, openTills, apart, form>>

-----------------------------------------------------------------------------
(* The screen.                                                                 *)

SetFilter(f) ==
    /\ read.kind \in {"none", "page"}
    /\ form' = f
    /\ UNCHANGED <<t, openTills, apart, read>>

Close == /\ read.kind \in {"page", "scanned"}
         /\ read' = NotReading
         /\ UNCHANGED <<t, openTills, apart, form>>

ReportsInit == t = Tables0 /\ openTills = {} /\ apart = 0 /\ form = NoFilter /\ read = NotReading

ReportsNext ==
    \/ SaleMoves \/ OpenTill \/ Expense
    \/ read.kind = "none" /\ (Apply \/ BeginScan)
    \/ ReadRows \/ CountRows \/ NextPage \/ ReadBatch
    \/ \E f \in Filters : SetFilter(f)
    \/ Close

ReportsSpec == ReportsInit /\ [][ReportsNext]_reportsVars

-----------------------------------------------------------------------------
(* Properties.                                                                 *)

ReportsTypeOK ==
    /\ t \in [status : [Sales -> SaleStatuses],
              paid : [Sales -> [Methods -> Nat]],
              debt : [Sales -> {"NONE", "PENDING", "PAID", "CANCELLED"}],
              book : [Terminals -> [IncreaseTypes \union DecreaseTypes -> Nat]],
              stock : [Warehouses -> [Products -> Nat]]]
    /\ openTills \subseteq Terminals /\ apart \in Nat
    /\ form \in Filters
    /\ read \in [kind : {"none", "rows", "count", "page", "scan", "scanned"}, filter : Filters,
                 at : Nat, more : BOOLEAN, seen : [Sales -> Nat],
                 start : SUBSET Sales, left : SUBSET Sales, skipped : Nat]

Branches == {BranchOf[r] : r \in Terminals}
At(b) == [NoFilter EXCEPT !.branch = b]
Between(from, to) == [NoFilter EXCEPT !.from = from, !.to = to]
Sold(f) == Total(BuildSalesWhere(t, f))

\* What the summaries of all the pages of the debts of a status add up to.
ReceivablesOnPages(status) ==
    SumOver(1..Cardinality(ReceivablesWhere(t, status)),
            LAMBDA page : ReceivablesSummary(t, status, page, PageSize))

\* What was sold has been paid, or is owed by a customer, or was left unpaid by
\* a sale without one: the reports of sales and payments and the pages of debts,
\* each with its own summary, say the same.
SoldIsPaidOrOwed ==
    LET real == BuildSalesWhere(t, NoFilter)
    IN Sold(NoFilter) = SumOver(real, LAMBDA s : PaidOf(t, s))
                        + ReceivablesOnPages("PENDING")
                        + SumOver({s \in real : ~SaleData[s].customer}, LAMBDA s : BalanceOf(t, s))

SumOfGroups(groups) == SumOver(DOMAIN groups, LAMBDA g : groups[g].total)

\* A report of the first rows shows no more than there is, and all of it if it has
\* room for more rows.
ShowsUpTo(report, limit, shown, whole) ==
    /\ shown <= whole
    /\ Cardinality(DOMAIN report) < limit => shown = whole

\* The report of a branch is its row in the report by branch, and the sum of its
\* points of sale; the report by product has what they were before the discounts on
\* whole sales, or the part that fits; users add up to all sales, and so do the sales
\* up to a moment and from it on, with those of that moment in both.
GroupsAgree ==
    /\ SumOfGroups(SalesByUser(t, NoFilter)) = Sold(NoFilter)
    /\ \A d \in Moments :
        Sold(Between(Unset, d)) + Sold(Between(d, Unset)) = Sold(NoFilter) + Sold(Between(d, d))
    /\ \A b \in Branches :
        LET rows == SalesByBranch(t, NoFilter)
            before == Sold(At(b)) + SumOver(BuildSalesWhere(t, At(b)), LAMBDA s : SaleData[s].discount)
        IN /\ Sold(At(b)) = IF b \in DOMAIN rows THEN rows[b].total ELSE 0
           /\ Sold(At(b)) = SumOfGroups(SalesByPos(t, At(b)))
           /\ \A limit \in Limits : \A report \in SalesByProduct(t, At(b), limit) :
                 ShowsUpTo(report, limit, SumOfGroups(report), before)

\* Income less expenses is what the open tills, those of the report of tills, have
\* gained, and the cash in the report of payments is what sales brought to the
\* tills and what they took where none was open.
TillsAgree ==
    /\ PaymentMethodsReport(t, NoFilter)["CASH"]
           = CashMovementReport(t, NoFilter, {"SALE_PAYMENT"}) + apart
    /\ \A f \in {NoFilter} \union {At(b) : b \in Branches} :
        LET report == CashReport(t, openTills, f)
        IN IncomeReport(t, f) - ExpensesReport(t, f) = SumOver(DOMAIN report, LAMBDA r : report[r] - Opening[r])

\* The value of the stock and of what was sold, at cost, is that of the first stock:
\* of what was sold, as much as fits in the report by product.
StockValueAgrees ==
    LET gone == InventoryReport(Tables0, NoFilter) - InventoryReport(t, NoFilter)
    IN \A limit \in Limits : \A report \in SalesByProduct(t, NoFilter, limit) :
          ShowsUpTo(report, limit, SumOver(DOMAIN report, LAMBDA x : report[x].quantity * Cost[x]), gone)

\* The reports of one moment agree with one another (and have their types): each
\* is a query of its own over other tables, with its own idea of what counts.
ReportsAgree ==
    read.kind = "none" => ReportsTypeOK /\ SoldIsPaidOrOwed /\ GroupsAgree /\ TillsAgree /\ StockValueAgrees

\* The sales that were there all along and were not shown.
Missed == {s \in read.start \ read.left : read.seen[s] = 0}

\* A report by day or by category counts no sale twice, and of the sales that
\* matched all the time misses at most one for each lot whose cursor was
\* returned before the next lot was read.
ScanCountsOnce ==
    read.kind \in {"scan", "scanned"} =>
        /\ \A s \in Sales : read.seen[s] <= 1
        /\ read.kind = "scanned" => Cardinality(Missed) <= read.skipped

\* Who reads every page misses, of the sales that matched all the time, no more
\* than have left the list meanwhile: new sales repeat rows and hide none.
PagesMissOnlyWhatLeft ==
    read.kind = "page" /\ ~read.more => Cardinality(Missed) <= Cardinality(read.left)
=============================================================================
