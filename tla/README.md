# KIPU: a TLA+ development of its business core

KIPU (`src/kipu-saas`) is a multi-tenant point of sale for shops and restaurants: a NestJS backend over
PostgreSQL (through Prisma), BullMQ queues on Redis, and a Next.js client. What is hard in it is not the forms but
the money, the stock, the kitchen and the plan limits, which many requests change at once, each in database
transactions of its own, and the pages that repeat a request whose answer was lost. This directory models that
core: what the services do statement by statement, with the locks they take and the keys that make a repeated
request harmless, what the workers of the queues do when they fail, what reports read meanwhile, and what the pages
remember of a request nobody answered.

## 1. The system

Paths are relative to `src/kipu-saas/backend/src`, those of pages to `src/kipu-saas/frontend/src/app`.

| Part | State it keeps | Operations | What is hard |
|---|---|---|---|
| `cash` | `cash_registers`, `cash_movements`, `expenses` | open, close, movement, expense; hooks for a sale's payment, a sale's refund and a payment to a supplier | balances are sums over rows; a till may close while another transaction is about to write to it; keys |
| `sales` | `sales`, `payments`, `refunds`, `receivables` | create, confirm, addPayment, cancel, returnSale | one transaction over stock, payment keys and till; concurrent and repeated requests; circles of waits |
| `purchases` | `purchases`, `purchase_items`, `purchase_receipts`, `purchase_returns` | create, update, confirm, cancel, receive, returnToSupplier | partial deliveries and returns against a debt that is being paid; rounding; lock order |
| `payables`, `receivables` | `payables`, `payments` | addPayment | payments against a moving amount; cash out of a till |
| `subscriptions` | `subscriptions`, `plans` | getEffective (lazy expiry), changePlan, cancel, renew, assertWithinLimit | limits counted under a lock that not every writer takes; decisions on unlocked reads |
| `members`, `branches`, `products` | `organization_users`, `users`, `branches`, `products` | invite, changeRole, setStatus; create, update, remove | the same |
| `inventory` | `inventories`, `inventory_movements`, `stock_lots`, `lot_allocations`, `inventory_transfers`, `stock_operations` | applyMovement, manual movements, transfers, counts, waste, classification, tracking | lots with expiry, first expired first out; returns restore the lots consumed |
| `restaurant` | `restaurant_orders`, `kitchen_tasks`, `dining_accounts`, `production_batches`, `recipes`, `recipe_runs` | orders, checkout, kitchen steps, accounts (open, move, split, merge, dispatch, pay, close), batches, recipes | operations made of several transactions, optimistic versions, four levels of locks |
| the menu in `restaurant` | `menu_entries`, the lines of an order | saveMenu, menu, quote, create | five computations of one price and one consumption; edits between the save of an order, its charge and its return |
| `receipts` | `commercial_receipts`, `receipt_sequences` | issue, sendByEmail | numbers without gaps; a copy of a sale that goes on changing |
| `mail`, `audit` | queues on Redis, `email_logs`, `audit_logs` | enqueue, process, fail, try again, stall | a worker that dies between the mail and its log |
| `reports` | none | queries, scans in lots, pages | each query sees a later state of the tables than the one before |
| `restaurant/pos`, `restaurant/dining`, `sales/pos` (pages) | the cart, the recorded attempt, the order shown | save, charge, cancel, dispatch, pay, retry, take up another's order | lost answers, late calls, tabs loaded again, two cashiers on one order |
| `restaurant/recipes`, `restaurant/production`, `restaurant/menu`, `reports` (pages) | the list loaded last, the recorded attempt, the filters | publish, plan, act, retry; edit; read | acting on an old list |
| `auth`, `roles`, `permissions`, `organizations`, `prisma`, `notifications`, catalogues, other pages | rows of their own | | |

How they interact: `sales`, `payables` and `purchases` call `inventory.applyMovement` and the hooks of `cash`
*inside their own transaction*, so one request holds locks of several components at once. The order in which
they take them is account, sale, order, stock (one advisory lock per product, in the order of the product
ids), payment key, till; for purchases: purchase, stock, payable (a delivery) or purchase, payable, stock (a
return), and payable, till (a payment). `prisma/tenant-prisma.service.ts:20` opens the transaction, sets the
tenant and commits; the isolation level is READ COMMITTED and Prisma aborts a transaction after five seconds.
After the commit come the audit rows, notifications and mails, outside of any transaction.

A client that gets no answer sends the same request again with the same `idempotencyKey`. Nearly every
operation looks its key up first, and when two requests race, the unique index refuses the second with
Prisma's P2002, after which a *resolver* answers from a new transaction. Which pages remember such a request, for how
long, and at which answers they forget it, differs from page to page: `lib/use-recorded-action.ts` forgets at any
answer below 500, the counter at four statuses, the shop has no key for the sale at all.

## 2. How the models are built

* Each concurrent request is a process with a small record (`tx`, `change` in `Subscriptions`, `pc`, `req`, ... in `CashRegister`): the
  statement it is at, the locks it holds, what it read. One action is one statement that reads or writes shared
  tables, or a run of statements between which no other transaction can tell the difference because the rows
  they read are locked.
* A transaction writes its tables at its commit when nobody could see them earlier. A unique index is seen
  earlier: a second INSERT of a key waits for the transaction that inserted the first.
* `Begin` picks any request from the constant `Requests`, as often as it likes: a client that repeats a request,
  double-clicks, or uses a key twice with other data is a behaviour of the model. `Finish` drops the answer,
  `Abort` is a crash of the process or the timeout of its transaction, at any statement.
* Two modules that share a module of proofs share no name: what others call `Init`, `Next`, `Begin`, `tx` and `None` has names of
  its own in `Subscriptions` (`PlansInit`, `PlansNext`, `BeginChange`, `change`, `Null`) and in `Counter` (`CounterInit`, ...).
* The modules with pages (`Workshop`, `Counter`) add the network: a page sends at most one call, may give up waiting while
  the call goes on, and may press again; a call nobody waits for may be lost between any two of its transactions.
* Amounts are whole centavos and quantities whole units. Audit rows, notifications and texts are left out
  unless a property is about them.

## 3. Modules

| Module | Models | State |
|---|---|---|
| `CashBook` | the rows of `cash_movements` and their sum, `computeBalance` | none |
| `CashLedger` | what a till promises: an atomic drawer that opens, takes, gives and closes | `drawer` |
| `CashRegister` | `cash.service.ts` | `register`, `movements`, `lock`, `pc`, `reg`, `seen`, `ans`, `req` |
| `FiniteTheorems` | sums, products and circles over finite sets | |
| `SaleLedger` | what a sale promises: its sequential life | `status`, `paid`, `refunded` |
| `Sales` | `sales.service.ts`, with the stock and the till it uses | `sale`, `payments`, `refunds`, `receivable`, `stock`, `register`, `movements`, `tx` |
| `SalesProofs` | the proofs about `Sales` | |
| `Purchasing` | `purchases.service.ts`, `payables.service.ts` | `status`, `order`, `received`, `returned`, `receipts`, `returns`, `payable`, `payments`, `stock`, `drawer`, `movements`, `tx` |
| `PurchasingProofs` | the proofs about `Purchasing` | |
| `Subscriptions` | `subscriptions.service.ts`, `members.service.ts`, the limited part of branches and products | `subscription`, `member`, `role`, `account`, `thing`, `today`, `returned`, `change` |
| `LotInventory` | `inventory.service.ts`, `lot-ledger.ts`, `stock-operations.service.ts`, for one product | `stock`, `lots`, `strict`, `today`, `log`, `taken`, `given`, `tx` |
| `LotInventoryProofs` | the proofs about `LotInventory` | |
| `Kitchen` | `restaurant.service.ts`, `dining.service.ts`, and what `returnSale` does to an order | `account`, `home`, `order`, `task`, `cooked`, `sale`, `out`, `tx` |
| `KitchenProofs` | the proofs about `Kitchen` and about `Reports` | |
| `JobQueue` | `mail.service.ts`, `email.processor.ts`, `audit.service.ts`, `audit.processor.ts` over BullMQ | `job`, `emailLog`, `outbox`, `auditLog`, `crashes` |
| `Receipts` | `receipts.service.ts`, `receipt-snapshot.ts`; extends `JobQueue` | `sale`, `receipt`, `seq`, `tx`, `begun` |
| `OfficeProofs` | the proofs about `Receipts` and the queues it feeds, and about `Subscriptions` | |
| `ReportQueries` | the queries of `reports.service.ts`, as operators on tables | none |
| `Reports` | the scan and the pages, and the screen, while sales go on | `t`, `openTills`, `apart`, `form`, `read` |
| `Workshop` | `recipes.service.ts`, `production.service.ts` and their pages | `published`, `job`, `stock`, `call`, `page` |
| `WorkshopProofs` | the proofs about `Workshop` and about `Menu` | |
| `Counter` | the pages of counter, dining room and shop, over `checkout`, `cancel`, `create`, `dispatch`, `pay`, `confirm` | `sale`, `payment`, `stock`, `call`, `page`, `guest` |
| `CounterProofs` | the proofs about `CashRegister` and about `Counter` | |
| `Menu` | the menu and its options, `resolveOrder`, `quote`, the cart, and what a return restores | `menu`, `active`, `placed`, `goods` |
| `Waiting` | circles of waits, as PostgreSQL's deadlock detector sees them | none |
| `MC*` | constants of the small instances | |

Two correspondences need a word. In `LotInventory`, `log`, `taken` and `given` are `inventory_movements`,
`lot_allocations` and what the lines of a return have given back; the advisory lock of the product
(`inventory.service.ts:64`) is what makes each operation one step after its unlocked reads. In `Kitchen`, `out` is
what `inventory_movements` say of an order, by the station whose goods moved, and `cooked` the tasks with a
`startedAt`; the sale of an order is reduced to its status, because `Sales` has shown that each sale behaves as
`SaleLedger` whatever runs beside it.

In `Counter`, `guest` is no state of the program: it says whether somebody was told of the order, or whether a page dropped
an attempt that may have been carried out, so that *what was asked once is made once* can be said. In `Reports`,
`start`, `left`, `seen` and `skipped` of `read`, and `apart`, the cash that was taken where no till was open, are of that kind too, and in `Subscriptions` `returned`: whether a member or a thing was
made active again by a write that no count under the lock came before. In `Receipts`, `sale` is reduced to its status and
what it was paid; in `JobQueue` a job keeps the stage of the function that runs it.

How the modules compose: `CashRegister` and `Sales` share `CashBook`; each states that it implements an abstract
specification, `CashLedger` for every till and `SaleLedger` for every sale, through a refinement mapping, and
`Kitchen`, `Counter` and `Menu` use sales as `SaleLedger` describes them. `Sales` and `Purchasing` each carry the part of stock and
till they touch, with the guards of the hooks that `CashRegister` models in full. `Receipts` extends `JobQueue`: the request
ends when its jobs are queued, or lost, and the workers go on from there. `Counter` puts the pages before the
transactions of `Kitchen` and `Sales`, each a step of its own; `Menu` opens the lines of an order, which `Kitchen` and
`Counter` keep closed. `Reports` reads what `Sales` and `CashRegister` write.

Definitions introduced by a comment `\* FAULT:` are plausible mistakes in the definition that follows. No
specification uses them; putting one in the place of its definition makes the property listed with it in
`PROJECT.json` fail, which shows that the property watches that line.

## 4. The runs

States are distinct states. No run takes more than four minutes on two cores. A run that is not bounded by its requests is bounded by
a constant named in its module (`LastDay`, `LastEnd`, `MaxUnits`, `MaxCash`, `MaxJobs`, `Attempts`, `MaxCrashes`, `MaxRequests`,
`MaxExpenses`, `MaxRevision`, and `Keys` or `RequestKeys`, `PayKeys` and `Calls` of the pages). Several runs are made of *scenes*: a variable of the
`MC` module, chosen at the start and never changed, admits one set of requests or of users in each behaviour, where all of them at once
would be too many.

| Run | Instance | States | What it shows |
|---|---|---|---|
| `cash` | 2 transactions, 2 tills of one terminal, two openings and a close; scene *hand*: the cashier's own movements, two closes of one key with different counts, an opening at a terminal that is not there; scene *hook*: payments to suppliers and refunds | 131,834 | tills are never overdrawn, a close reconciles for ever, one open till per terminal, answers are true, every till is a `CashLedger`, every request ends |
| `sales` | 2 transactions; scene *one*: a sale, given back at its terminal or another, a rival for the last unit, a till used by hand; scene *two*: two sales with the same goods, till and payment key | 192,580 | goods, cash, payments and refunds tell one story, answers are true, every sale is a `SaleLedger`, every request ends |
| `purchases` | 2 transactions; scene *one*: an order delivered in parts, returned in part and paid; scene *two*: two orders with the same products, till and keys, one of which a manual movement of the till may use | 918,156 | deliveries, returns, debt and payments add up, to the centavo; answers are true; locks never circle |
| `subs` | 2 transactions; scene *grow*: one day, invitations and creations against the limit; scene *change*: days 0 to 3, periods of 2 | 2,400,674 | the limits of the plan hold, a cancelled subscription admits nobody, status, plan and paid period agree |
| `lots` | 2 transactions, 2 warehouses, a lot code and that of returns, 2 days | 155,650 | lots and stock agree, available means sellable, nothing expired or blocked becomes sellable, returns restore lots, requests are applied once |
| `kitchen` | 2 transactions, 2 orders of one and two stations, 2 accounts | 2,690,851 | board, stock, sales and accounts agree; locks never circle |
| `receipts` | 2 requests on 2 sales, 2 jobs of 2 tries on 2 workers, one of which dies | 1,493,276 | numbers without gaps and copies that stay true; what is announced exists; a mail settled as sent stays so |
| `reports` | 3 sales, one of them free, at the tills of 2 branches, which open at any moment; lots and pages of 2 | 1,488,186 | the reports of one moment agree; a scan counts nothing twice; paging hides no more than has left |
| `workshop` | 2 calls; scene *desk*: publish, plan and create; *bench*: a baker with a batch; *floor*: two cooks with two runs | 984,361 | stock is what the jobs took and made, once; no version is written over another; notices are true; locks never circle |
| `counter` | 2 calls, 2 guests, 2 keys; scenes *counter*, *hall*, *shop*, *till* (two tabs on one order), *mixed* (a cashier before an order of the dining room) | 493,013 | goods, payments, orders and pages follow each other; what was asked once is made once |
| `menu` | 2 orders, a plate with three options and a side, 8 tickets, 3 products of which 2 are paused | 69,012 | what pages foresee is what services do; an order is sold and returned as it was saved |

### 4.1 Bounds, and why they are enough

* **Two transactions at once** in every run. The locks here are exclusive and nothing counts
  waiters, so a race needs two, one of which may go through several requests while the other waits. For all runs but
  `reports` and `menu` the theorems hold for any number (of `counter`: any number of pages, guests and calls).
* **Requests** are sets in the `MC*` modules; any of them is sent any number of times, so a repetition, a double
  click and a key with other data are all there, and tables grow only until the keys are used up.
* `cash`: one terminal with two tills is enough for a till that closes while the next one opens; balances of 0 to
  3 make every withdrawal able to fail. One key serves a deposit and a withdrawal, one two closes with different counts,
  one two openings of which one names a terminal that the organization does not have (`Known`).
* `sales`: stock for two units of a product and one of the other, and payments of 1 and 2 of a total of 2,
  so that paying in part, 2 asked of a sale that owes only 1, and running out all happen. The till moves by hand in scene *one* only; no payment key is that of a
  manual movement (see 7).
* `purchases`: 3 units for 10 less 1 is 3 centavos each, 2 units for 3 is 1.50, which rounds up; these are
  the two ways in which a sum of rounded parts could differ from the rounded sum. Two more drafts are refused by `MayOrder`. An order
  that is worth nothing is left out by an assumption (see 7). In scene *two* the till may hold a manual movement under a key of a payment.
* `subs`: a free plan of one user and one branch, which the owner and the main branch take up, and one of two of each. Scene *grow* leaves out reactivation of members and of branches, which break the limit (see 6 and 7); the run
  shows that everything else keeps it. Scene *change* has them, and `GrowthKeepsLimits` leaves off there once `returned` is true.
* `lots`: today and tomorrow are enough for a lot to expire between any two steps. A sale takes up to two units,
  in one or two lines, and comes back whole or by line. Two warehouses are enough for a transfer and for a count
  of one while lots become required in the other.
* `kitchen`: an order of two stations is the smallest whose stations can differ. Merges in both directions, a
  split of the order that is being dispatched, returned or cancelled, and a close are all among the requests; a
  second order is added to tables, dispatched, and moved by the cooks, by station or whole, meanwhile.
* `receipts`: three requests are a race for one number and a third that comes after it; two jobs of two tries are a mail sent twice, each time
  interrupted, and a worker that dies once can die at every stage. The mails followed are those of one of the two sales (`Keys`).
* `reports`: with three sales, lots and pages of two have a second lot and a second page; a sale may be returned before, at or after the cursor.
  The filter by method lets a sale in at its first payment. One sale is free after its discount, one has a customer, one is of another branch, user and day.
  Limits of 1, 2 and 3 rows cut the report by product short or not. Each till opens before, between or after the sales, or never.
* `workshop`: flour and salt suffice for one run, so that two that list them in opposite orders meet on both. Two quantities are enough
  for a repeated action that says something else. A recipe gets one version after its first.
* `counter`: the warehouse has two units, guests want one, two or three. `Telling` tries refusals where a page treats them otherwise than silence, `Asking` fixes
  the quantities of each scene, `OneOrder` and `OneGuest` keep two tabs on one order. One assumption is about people and not about the
  program: a guest stays with the page that has what they asked for (`MayAsk`); without it a guest who asks two waiters is served twice, as
  they should be.
* `menu`: the forms change the station, the price, the composition and the activity of the plate, and the portion of the side; three of them are to be refused.
  The tickets have one dish twice, two options at once, options that replace the same part, an option that does not exist, discounts with and
  without permission, and dishes that share a product.

### 4.2 Properties worth a word

* `ClosedTillsReconcile` says *the amount a close froze is the sum of all rows the till will ever have*: it fails if
  a row arrives after the count, minutes or months later.
* `AnswersAreTrue` (cash, sales, purchases; in `lots` and `workshop` it is part of `HistoryIsTrue` and `NoticesAreTrue`) is about what the client believes: told ok, it has on record what it
  asked for, and not what somebody else sent under the same key. Where the code recognises a request by less than its data (an opening, a close, a return or a
  payment of a purchase), the property says as much as the code looks at, and 7 lists the rest.
* `RecordsAgree` (sales) relates five tables: the status says how much of the total the payments make (`StatusTells`); a receivable is pending exactly while a customer
  owes part of a sale in force (`DebtTells`); a returned sale that was paid has its refund, one, of all it was paid (`RefundedOnce`, `RefundedInFull`); and a cash movement
  is that of a payment or a refund (`CashTrailMatches`), across a till that closed in between.
* `PurchasesOK` says among others that the rounding at each delivery is repaired by the last one.
* `NothingBecomesFitAgain` is an action property: no step that brings nothing in from outside makes more of the stock
  sellable than was; a return adds only the units it gives back to lots that are fit, or loose (`CameBackFit`), none of a lot that has expired or is blocked. `AvailableIsSellable` says that two pieces of code that compute the same quantity for
  different screens agree.
* `StockFollowsTheKitchen` says that after a return what stays out of the stock is what some station had begun, although
  the code decides that by three different tests (no order, order queued, stations not started).
* `SettledMailStays` is about what the log can promise: a mail may leave twice (a worker dies before the log is written), but once it is
  logged as sent and no job is past its look at the log, nothing sends it again. The exception it names, a job whose last try failed
  before that look, is real: `onFailed` then writes FAILED over SENT.
* `ScanCountsOnce` and `PagesMissOnlyWhatLeft` state exactly how wrong a list read in parts may be. The comment at `reports.service.ts:243-246`
  gives the reason for the cursor, no row twice or skipped; the property shows that none is counted twice, and that each cursor whose row is returned
  before the next lot costs one sale that had nothing to do with it (see 7).
* `ReportsAgree` compares eight queries that were written apart, over one state of the tables: the summaries of debts page by page, because each adds up the page shown; the report
  by product as far as its limit; and the tills with what was taken where none was open (`apart`), which is on the sales and in no till.
* `MoneyFollowsGoods` joins pages and tables: goods leave once with a sale, one payment is its own exactly when it is paid, and the status a page holds of its order is so of
  its sale (`SaysTruly`). The words the page prints for that status are another matter (see 7).
* `OneOrderEach` is what keys are for, said of the guest and not of the key. Its exceptions are in `guest = "forgotten"`, and 7 tells how they arise.
* `PagesForesee` compares `menu`, `quote`, `create`, `confirm` and the cart, each of which computes prices or consumption by itself.
* `ClosedAccountsSettled` rests on an asymmetry of `close`: the account is locked, its orders are not. The run and
  the proof show why that is enough: an order that is settled stays so.

### 4.3 Fairness

Only `cash` and `sales` state liveness. Their `Fairness` assumes, of each process `p`:

* `SF_vars(Step(p))`: PostgreSQL grants a row lock in the order of the queue, so a statement that is enabled again and
  again because others release the lock is executed in the end; and a server that is up runs its steps.
* `WF_vars(Finish(p))`: an answer that is ready is sent or lost.
* in `Sales` only, `WF_vars(BreakDeadlock)`: after `deadlock_timeout` PostgreSQL aborts somebody of a circle. It is needed:
  two requests that share a payment key and a till do close one. Elsewhere `NoDeadlock` says that there is no circle to break.

Nothing obliges a client to send, a person to open a till, or a transaction to fail; `Abort` has no fairness.

### 4.4 Deadlock checking

TLC's own deadlock check stays on in nine runs: `Begin` is always possible to an idle process, and where it is bounded (`Receipts`) the
state in which all is done has a step of its own (`Rest`). `workshop` and `counter` turn it off: keys, calls and versions are bounded,
and a behaviour that has used them up stops.

## 5. What is proved

TLAPS checks, for every value of the constants that the named assumptions of each module allow (any
number of processes, rows, keys, stations; amounts any set of naturals), the following. `CounterProofs`, `KitchenProofs`, `OfficeProofs` and `WorkshopProofs` each extend two components,
which share no name.

* **`CounterProofs`**, first part (about `CashRegister`): `TillsFine`, `TillsNeverOverdrawn`, `ClosesReconcile`,
  `AnswersTrue`. The invariants are not inductive: that a balance stays right depends on what a
  transaction that waits, holds or has read knows. `IInv` adds
  `Stages` (where a request of each type can be), `OnRecord` (rows belong to tills that exist),
  `Holds` (who is about to write holds the lock, and the till is open) and `Knows` (the balance it checked, or is
  about to freeze, is still the balance). The proof has one step per way of changing the tables.
  `ImplementsTheLedger` is the refinement: under `IInv` each step is, for each till, a step of `CashLedger` or none, because the
  sum of the rows of a till is what its drawer holds.
* **`CounterProofs`**, second part (about `Counter`): `GoodsAndMoney`, `ServedOnce`, from `CounterInv`. Nothing locks a page, so the argument
  goes forward: whatever is made stays made, with its cart and place, and what is paid or cancelled stays so (`Advances`); what was true of
  a request when it was sent is therefore true when it comes late, or twice (`RequestOK`, `Progress`). `Awaits` says that a page that waits still has what
  it asked for, and `OneCall` that it waits for one call only, without which an old answer could be taken for a new one. `OneOwner`: a key is of one user and one cart.
  `ServedOnce` needs to look further than orders: an order *stands* for a guest when it is made, when a page remembers the request that makes it, or
  when a call carries that request. `GuestOK` says that at most one stands for a guest whom no page forgot, that a page remembers it while the guest
  is still told nothing, and that a cashier's cart without an attempt has none; `OnePage` is the assumption about guests (4.1) made an invariant. `GoodsAndMoney` rests on the same: the status an answer carried, which a page keeps, never comes undone.
  What drops an attempt that may have been carried out makes the guest forgotten (`ForgetIf`), so the proof shows that there is no other way to be served twice
  at the counter or in the dining room; sales of the shop have no such key, and `OneOrderEach` is not about them (see 7).
* **`FiniteTheorems`**: a balance is a fold over a finite set, for which induction is not available to the provers; sums and
  products are handled through a minimal counterexample among the subsets of the set. `SumSwap` (a table adds up to the same by rows and by columns) and `SumGroups` (a sum is
  that of its groups) are what the reports need. `NoCircle` is what the proofs about waiting share: if
  whoever waits for somebody who waits has the lower rank, nobody waits in a circle.
* **`SalesProofs`** (about `Sales`): `RecordsStayTrue`, `StockStays`, `AnswersTrue`, `ImplementsTheLedger`. `Tallies` and `DebtTells` keep status and receivable in step with the payments
  of each sale, `RefundedInFull` its refund. A transaction writes when
  it commits, so the invariant says what it has gathered until then and why that is still true: `FoundAs` (its sale is as it was found),
  `Inserted` (the payments it has inserted fit into the total and their keys are nobody's), `Goods` (it holds the stock it takes, and there
  is enough), `Cash` (its movements are those of its payments, in a till of its terminal). All of it rests on rows having one holder and
  inserted keys one owner (`Apart`). A confirmed sale of total 0 is what made `SaleLedger` say that only a sale with something to pay can be
  left unpaid. `AnswersTrue` has a hypothesis, `KeysApart`: without it a payment that is not made is answered ok (see 7).
* **`PurchasingProofs`** (about `Purchasing`): `PurchasesStayTrue`, `AnswersTrue`, `NeverInACircle`. Two things are needed. The arithmetic:
  what units are worth is never less for more units, and exactly the total for all (`WorthFacts`), for any quantities, prices and discounts; so a
  delivery never lowers a debt below what was paid, and the last one repairs the rounding of those before. The locks: `Fits` says
  that what a transaction found in the row of its purchase, its payable, the stock and the drawer is still there. For the circles, `InOrder`
  says which locks it holds at which statement, the products in the order of their numbers; deliveries take stock before the payable and returns the
  payable before stock, and what makes that harmless is the row of the purchase, which both take first.
* **`KitchenProofs`**, first part (about `Kitchen`): `BoardTrue`, `Stocking`, `Owing`, `Closed`, `NeverInACircle`. `IInv` has a part that
  concerns one order at a time (`OrderOK`: its status, its sale, its stations, its goods, what began to cook), which is kept
  without any lock argument because sales and orders never leave their last states, and a part that concerns
  accounts (`Closing`), which needs that the row of an account has one holder. `Dropped` joins the two: a
  cancellation that comes to the order has cancelled the sale before. For the circles, `Keeps` says that rows are taken accounts first (of a
  merge the lower), then the sale, then the order. A split or a merge takes several orders in any order, and so could meet another; it
  does not, because it takes only orders of an account whose row it holds, and an order does not change its account meanwhile (`HomeHeld`).
* **`KitchenProofs`**, second part (about `Reports`): `ScansCountOnce`, `PagesMissFew`, `ReportsSayTheSame`: all that run `reports` checks. A sale only
  grows older (`SaleGrowsOlder`), so who has left the list of a filter never comes back (`GoneForGood`), who was there and did not leave is there still (`Stays`), and a
  step adds or takes away one sale at most (`ListsChangeByOne`). Of pages, `InPages` counts the missed among the places already read (`Behind`): a new sale pushes
  rows on, and one that leaves lets one row move up past the page (`OneMovesUp`). Of scans, `InScan` says that what was seen lies before the cursor and that what was
  missed there is no more than the cursors that were returned; that a lot which is not whole ends the list is a count of ranks (`RanksAreAll`).
  `ReportsSayTheSame` needs no more of the readers than their types but four facts about the tables (`TablesInv`): a debt is open exactly while its
  sale counts and is not paid whole (`DebtsFollow`), the tills have entered the cash of the sales but for what was taken apart (`CashBooked`), a till that never opened has no
  movement (`ClosedAreEmpty`), and stock and goods sold keep their value at cost (`GoodsKept`). The rest is what each query adds up, in other groups or in another order: pages
  part a list, so their summaries add up to the whole (`PagesAddUp`, `SummariesAddUp`), and the first rows of a report are some of its rows.
* **`OfficeProofs`**, first part (about `Receipts` and `JobQueue`): `NumbersTrue`, `Announced`, `SettledStays`. A receipt once made is never changed
  (`ReceiptsStay`), so what an answer, a job, a mail or a row of audit is about stays there. `IInv` adds what a request knows (`Knows`: the
  sum of the payments it read is not more than there is now; `Holds`: the receipt it is about to answer with is that of its sale) and what a job knows
  (`Tries`: it has a try left; `Left`: its mail has left; `JobsTrue`, `LogsTrue`: its receipt exists). That numbers have no gaps rests
  on the insert and the increase of the sequence being one commit under the row of the sequence (`ReceiptMade`). `SettledStays` is about
  steps: only a job past its look writes the log, and none is; `AuditJobs` says that jobs of audit, which share the queue's stages, are about no mail.
* **`OfficeProofs`**, second part (about `Subscriptions`): `LimitsKept`, `StatusFollowsPlan`, `CancelledAdmitsNone`: all that run `subs` checks. That
  the limits hold is not inductive: it depends on what a transaction decided before it writes. `PlansInv` adds `StageOK`: whoever writes the
  subscription, invites or creates holds its row, and `Decided`: what it decided under that row (there is room for one more, the plan fits, there is a plan to renew)
  is still so, because whoever might change it needs the same row. Who suspends or removes without the row only makes room. Who reactivates without it sets
  `returned`, and from then on nothing is claimed of limits; that is the write `subs_stale` shows, and reopening a branch or product (see 7). `StatusFollowsPlan` holds although `Expire` writes what an
  unlocked read decided: of the row that has become another meanwhile it changes the status only, to one that fits every plan. `CancelledAdmitsNone` is about steps.
* **`WorkshopProofs`**, first part (about `Workshop`): `VersionsFollow`, `NoticesTrue`, `StockOfJobs`, `NeverInACircle`. Calls arrive late, twice or after the page
  has given up on them, so the invariant is about requests wherever they are: what a page remembers, what is on its way, what works
  (`RequestOK`). A call that works says of its request `Going`: it is not in the tables and still fits them, and what it checked under each lock
  (`Passes`) is still so; a call that is answered ok, and a notice, say `Carried`. `Carried` never ends, because versions are only added and jobs only
  go on (`JobGoesOn`). `Going` ends only by the commit of a call that holds the same row, and no row has two holders (`Apart`, `OthersApart`,
  `WorkingStays`). A creation that finds its key taken is answered ok only if the plan is the same (`SamePlan`, the hash of the code); `Alike` says that a key stands for one
  plan anyway, for whatever is still abroad under it. `Books` has the stock with sums over jobs, of which a commit changes one. For the circles, a call holds its job
  before stock, and stock in the order of product ids.
* **`WorkshopProofs`**, second part (about `Menu`): `AnOrderKeepsItsMenu`, `ThePagesForesee`: all that run `menu` checks. `MenuInv` says that no dish
  names a product twice (`ComposedOnce`, which `saveMenu` refuses), that only what was charged is cooked and no station has begun before (`AllOrdered`), and
  that the goods are those of the start less what the orders have out (`GoodsKept`). A return splits the lines of its order into those begun, which stay
  out, and the others (`RestoredIs`); no step rewrites the lines of an order, and none looks at the menu again. The cart and the sale go through their
  lines one after the other, as folds; what such a fold computes is not had by induction here, but it satisfies its recursion
  (`FoldExists`, `FoldFound`), of which there is one solution (`FoldUnique`). So a sale that takes line by line takes the sum, and stops exactly when
  the sum is too much (`SaleIs`), which is what the review compares with the goods (`ReviewForesees`). That as many of a dish are shown as can be ordered is
  division (`Portions`), product by product, and needs `ComposedOnce`: of a product named twice the screen would show too many (`PartIsAll`, `AvailableIs`).
* **`LotInventoryProofs`** (about `LotInventory`): `LotsAgree`, `HistoryTrue`, `AvailableCanBeSold`, `NothingFit`: all that run `lots` checks.
  Every step that changes the stock takes goods out (`TakesOut`), brings goods in (`BringsIn`), moves them, gives loose ones a lot, or confirms
  or returns a sale; what each does to a table of lots is said once, for any table. `LotsOK` alone is not inductive, because a return puts goods into the lots
  they came from: `IInv` adds that a lot that does not exist has no units (`Sound`) and that what a sale took it took of lots that exist and
  are not blocked, and no lot got back more than it gave (`SaleOK`). Nothing has to be said of what a request has read
  without the lock: whatever it decided on, the ledger checks what it writes against the lots as they are (`Allocations`, `Accepts`). `AvailableCanBeSold` compares two computations. The screens subtract what lots keep from the stock; a sale
  walks the lots by expiry until it has enough. That it always finds enough is an existence proof:
  take a smallest set of lots, closed under earlier expiry, that covers what is asked, and split its last lot (`OrderedExists`).
  `NothingFit` is about steps: in each warehouse what can be sold is what fit lots have and what is loose (`Offers`), and each kind of step
  leaves it, lowers it, or moves it to another warehouse (`OffersMore`, `MoreAndLess`, `NowhereMore`); that a lot of the same code in the other
  warehouse is fit as well is what `Compatible` (`lot-ledger.ts:198-218`) is for.

The assumptions are those of the modules. In `Workshop` products are the numbers by which their ids are ordered, and a preparation
is no ingredient of its own recipe (`recipes.service.ts:107`, `production.service.ts:62`). Some were made explicit for the proofs: names of rows of different tables differ
(`NamesAssumption` of `Sales`), a product that is not ordered costs nothing in an order (`OrdersAssumption` of `Purchasing`: the lines of
an order are its items), branches and products have different ids
(`ThingsAssumption` of `Subscriptions`, where the main branch is one of them; its `PlansAssumption` says that the free plan has room for one user and one branch), and the mark of a field left empty is not also a value of that field (`NoneAssumption` of `LotInventory`, `NullAssumption` of `Subscriptions` and `Counter`).

Those of `ReportQueries` and `Reports` are what creating a sale refuses (a discount beyond the subtotal, `sales.service.ts:142-148`; a terminal and a warehouse of
two branches), finite tables, amounts that are not negative, and a mark of a filter left unset that is none of its values.
Those of `Menu` are what its requests are checked for (a dish and an option have at least one part, `restaurant.dto.ts:31` and `46`; quantities are positive),
finitely many products and orders, and a mark of an empty row that is neither an order nor a table of quantities.

Every invariant and action property of a passing run is stated by a theorem. Only model-checked: liveness, which is out of the prover's
reach (`EveryRequestEnds` of cash and sales), as are ENABLED and the value of recursive definitions for every input. No module here has a RECURSIVE operator.

## 6. Findings

One run ends in a violation, of something the repository says of itself:

| Run | Said | Done |
|---|---|---|
| `subs_stale` | counting and creating never exceed the limit (`subscriptions.service.ts:353-354`), which does not change from ACTIVE to ACTIVE (`members.service.ts:206-207`) | a reactivation decides by a status read without a lock whether the limit applies (`members.service.ts:208`) |

## 7. Disagreements no run shows

Met while modelling, between the code and what its documents, comments or neighbours say, or where what it does is hard to want.
The passing runs leave room for each, by the bound or the exception named in 4.

Money and goods:

* **A key with other data, answered ok.** A key used again with other data is always refused, says `docs/PROJECT_PLAN.md:388-396`. `open` answers with
  the till the key opened, for whatever terminal it is asked (`cash.service.ts:119`); `close` answers with the till the key closed, whatever count is sent
  (`cash.service.ts:196-199`); a return or a payment of a purchase sent again is compared by its purchase and not by its lines or its amount
  (`purchases.service.ts:538-592`, `payables.service.ts:61-98`).
* **An opening announced twice.** `cash.service.ts:130` sets `openedNow` before the insert. The request that loses the race
  on the unique index is answered by the resolver, and still announces the opening, while `docs/architecture.md:996-1001`
  says that no retry does.
* **A payment that is not made, answered ok.** `sales.service.ts:742` looks for the conflicting key among payments, as its
  comment (718-722) says only they can conflict. If the key is that of a manual cash movement, no payment is
  found, and the sale is returned as if it had been paid. Scene *two* of `sales` therefore shares no key with the till.
  The same happens with a supplier's payment in cash: its movement fails on the key (`cash.service.ts:592-603`), the payment is rolled back with it, and
  `payables.service.ts:198-207` answers ok. `purchases` has that case, and its `AnswersAreTrue` names it (`KeyOfManualMovement`).
* **Cash in no till.** A payment in cash is recorded with no movement when no till is open at the terminal (`cash.service.ts:515`); nothing enters it afterwards,
  and a till opened later counts without it. A return that finds no open till, or too little in it, records its refund likewise without a movement.
* **A return forgotten.** A return lowers the debt (`schema.prisma:1112-1114`, `docs/architecture.md:252`); the next delivery computes
  the debt from all that was received and forgets the return (`purchases.service.ts:819`).
* **An order worth nothing.** A purchase whose items all cost 0, which the DTO admits, divides by a subtotal of 0 when it is received
  (`purchases.service.ts:808`). `Purchasing` assumes a positive subtotal.
* **A second cashier's payment.** `confirm` answers a sale confirmed before with ok; a checkout with other payment keys is told ok and none of its
  payments is recorded (`sales.service.ts:223`, `restaurant.service.ts:530`). In `Counter` it is the verdict "again".

Plans and members:

* **Expired after being cancelled.** `getEffective` reads ACTIVE, waits for a cancellation to commit, and writes PAST_DUE
  over it (`subscriptions.service.ts:105-114`); a cancelled subscription is in force again.
* **No way back on the free plan.** Cancelled, it can neither renew (`subscriptions.service.ts:297`) nor change
  (`:160`), while `docs/architecture.md:1258-1265` calls renewing the way to reactivate.
* **Two owners demote each other** (`members.service.ts:164`): each counts the other.
* **An account nobody was told of** (`members.service.ts:71`): the user is created outside the transaction that makes the
  member, and stays if that fails; invited again, it is not new and gets no invitation.
* **A limit passed by `update`** (`branches.service.ts:48`): a branch or product made active again is not counted.

Pages (paths under `frontend/src/app`):

* **An order cancelled by somebody else** is announced as charged and sent to the kitchen (`restaurant/pos/page.tsx:663-669`): the page has a text for DRAFT and one
  for all else. It gets there by a creation whose answer was lost: another tab cancels the order, and the creation sent again is answered with the order as
  it is, CANCELLED. `MoneyFollowsGoods` says that this status is so, not that the text is.
* **A stored attempt that swallows a cart.** The attempt survives a reload and "Continuar"; the next save sends it, whatever the cart holds by then
  (`restaurant/pos/page.tsx:252-264`).
* **An attempt dropped too early.** A retry answered 403 drops the attempt of the counter (`restaurant/pos/page.tsx:296-303`), the dining room drops it
  at any answer below 500 (`restaurant/dining/page.tsx:131-150`), the page of recipes also at 401 and 429, while the first call may have been carried
  out; the next press makes a second order. A tab of the dining room that is loaded again has forgotten its attempt, which it keeps in memory only, and
  "Nuevo pedido" clears the one stored by the counter. `docs/RESTAURANT_OPERATIONS.md:40-41` and `:240-242` say that the attempt is kept.
* **Two sales for one.** A shop sale on credit has no key at all; when its answer is lost and it is sent again, two are confirmed, against
  `lib/use-submit-guard.ts:10-13`, which leaves that to the keys. The detail of a sale, the tills and the receivables make a new key for each click.
* **A revision loaded now.** Publishing sends the revision of the list as it is when pressed (`restaurant/recipes/page.tsx:170-201`) and not that of the list the
  form was opened from, so an edit made meanwhile is not noticed by the page that reloaded (`docs/RESTAURANT_OPERATIONS.md:275-276`).
* **Another manager's edit of the menu** is written over: the form holds the whole entry and there is no version.
* **Prices move under the cashier.** The counter prices again when it saves, without asking (`restaurant/pos/page.tsx:268-292`).

Receipts, mail and reports:

* **A receipt of a returned sale.** `receipts.service.ts:30-34` says there is none; the status is read before the commit and not locked, so a return in between leaves one.
* **Mails twice, or called failed.** A worker that dies between the mail and its log, or two clicks at once, send it twice (`mail/email.types.ts:20-28`
  promises once); a job whose last try fails before the look at the log writes FAILED over SENT; `recordLog` swallows the conflict of two first rows; and
  the key `receipt-email:<id>` does not tell recipients apart, so a receipt is never mailed to a corrected address.
* **A scan that skips.** When the sale of the cursor is returned before the next lot, `skip: 1` skips the first sale of that lot, which nothing happened to
  (`reports.service.ts:243-246` says that the cursor prevents it).
* **First rows only.** Sales by product are the first rows, as many as the limit (`reports.service.ts:881-892`): what they add up to is less than the sales
  as soon as there are more products, and `ReportsAgree` says no more of them.
* **Sums of a page.** Receivables, payables, tills and the summary of stock movements are added up over the rows of the page shown, against
  `docs/architecture.md:746-750` (for receivables `reports.service.ts:797`; all pages together add up, which `ReportsAgree` checks); the export of the screen holds one page (`reports/page.tsx:158` against `reports.service.ts:98-101`).
* **The last day.** A range ends at the first instant of its last day; "Siguiente" asks with filters that were not applied yet; lists by
  due date order rows by a column that is not unique.

## 8. What is not modelled, and why

* Authentication, catalogues and notifications change single rows on which no modelled operation decides; roles and permissions only turn
  a call away, which the pages' modules have (`TurnAway`). Organizations are made once, as `Init`. Files, PDF and exports are formats.
* Tenancy: every query has the organization as a filter; the models are of one organization.
* Pages that are forms and lists over one call: there is nothing to interleave but the call itself, which its service's module has.
* In what is modelled: names and units are data; prices and discounts are, but in `Purchasing`, `Menu` and `ReportQueries`. `Kitchen` leaves out tables, waiters, tips and prints,
  takes totals as positive and treats a stale version as a refusal; `LotInventory` has one product, because locks and lots are per product; `Workshop` and `Menu`
  leave lots out, and every unit in stock may be used;
  quotients in `Purchasing` are exact, where the code keeps 20 digits; tills in `Reports` open at any moment and do not close, and one payment comes with a confirmation;
  `Menu` leaves out the largest amount an order may come to (`restaurant.service.ts:334-337`), so it accepts orders that the service refuses; `Counter` has one step
  for each transaction, whose locks are in `Kitchen` and `Sales`, and leaves accounts out of the dining room.
* Five seconds of a transaction are `Abort` at any step; clocks are days. BullMQ's back-off is left out: a job tried again is tried at any later moment.

## 9. Plan

The services, the queues, the reports and the pages that repeat requests are modelled and checked, and their safety is proved. The time TLC
takes is used up by the runs there are: what comes next in the models takes the place of the weakest of them. Next come the sessions of `auth.service.ts` (refresh tokens used twice), parts of a bill and tips in the dining room, the first version of a recipe.
