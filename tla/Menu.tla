-------------------------------- MODULE Menu --------------------------------
(* The menu of restaurant.service.ts, and what an order makes of it: dishes    *)
(* composed of products, with options that add to them or replace a part, are  *)
(* edited and paused while orders are priced, saved, charged, cooked and       *)
(* returned.  An order keeps a copy of the lines it was saved with.            *)
(*                                                                             *)
(* menu entries are read FOR SHARE by the transaction that saves an order, so  *)
(* each transaction is one step.  Names, categories and lots are left out:     *)
(* what is in stock may be sold.                                               *)
EXTENDS Integers, Sequences, FiniteSets, SequencesExt

CONSTANTS
    Articles,  \* dishes and ingredients alike
    Entries,   \* ids of the entries of the menu
    Stations,
    Orders,    \* ids of orders
    Forms,     \* what a manager may save, and as which entry
    Pausable,  \* the products that are paused and taken up again
    Tickets,   \* what a cashier may press, and the discount given
    Goods0,    \* what the warehouse has at the start
    Nil        \* no entry, no order, no part replaced, too little in stock

\* A composition has a part, or it is refused (restaurant.dto.ts).
Components == Seq([product : Articles, quantity : Nat \ {0}]) \ {<< >>}
Options == [id : STRING, price : Nat, replaces : Articles \union {Nil},
            components : Components]
Dishes == [product : Articles, station : Stations, price : Nat, active : BOOLEAN,
           components : Components, options : Seq(Options)]
Presses == [entry : Entries, options : SUBSET STRING]

\* The lines of an order, and the order with its sale.
Lines == [entry : Entries, options : SUBSET STRING, quantity : Nat, station : Stations,
          subtotal : Nat, uses : [Articles -> Nat]]
Placed == [sale : {"DRAFT", "PAID", "REFUNDED", "CANCELLED"},
           board : {"DRAFT", "QUEUED", "PREPARING", "CANCELLED"},
           lines : Seq(Lines), started : SUBSET Stations, total : Nat]

ASSUME FormsAssumption == Forms \subseteq Entries \X Dishes /\ Pausable \subseteq Articles
ASSUME TicketsAssumption ==
    Tickets \subseteq [presses : Seq(Presses), discount : Nat, authorized : BOOLEAN]
ASSUME GoodsAssumption == IsFiniteSet(Articles) /\ Goods0 \in [Articles -> Nat]
ASSUME OrdersAssumption == IsFiniteSet(Orders)
ASSUME NilAssumption == Nil \notin Placed /\ Nil \notin [Articles -> Nat]

VARIABLES
    menu,   \* menu_entries
    active, \* the products that are active
    placed, \* restaurant_orders with their sale
    goods   \* inventories of one warehouse

menuVars == <<menu, active, placed, goods>>

SumOf(S, f(_)) == SumFunction([x \in S |-> f(x)])
SumOver(s, f(_)) == SumOf(DOMAIN s, LAMBDA i : f(s[i]))
ProductsOf(components) == {c.product : c \in ToSet(components)}

-----------------------------------------------------------------------------
(* Editing the menu.                                                           *)

NoneTwice(s, f(_)) == Cardinality({f(x) : x \in ToSet(s)}) = Len(s)
OnePerProduct(components) == NoneTwice(components, LAMBDA c : c.product)

\* All that an entry may sell or use.
Mentioned(dish) ==
    {dish.product} \union ProductsOf(dish.components)
                   \union UNION {ProductsOf(o.components) : o \in ToSet(dish.options)}

\* saveMenu: nothing twice, replaced is a part of the dish, and all is for sale.
MaySave(dish) ==
    /\ OnePerProduct(dish.components)
    /\ NoneTwice(dish.options, LAMBDA o : o.id)
    /\ \A o \in ToSet(dish.options) :
          /\ OnePerProduct(o.components)
          /\ o.replaces # Nil => o.replaces \in ProductsOf(dish.components)
    /\ Mentioned(dish) \subseteq active

SaveMenu(id, dish) ==
    /\ MaySave(dish)
    /\ menu' = [menu EXCEPT ![id] = dish]
    /\ UNCHANGED <<active, placed, goods>>

\* The form holds the whole entry, a new one or one of a list loaded before: what
\* is saved replaces the entry, whatever was saved by others since.
Submit == \E form \in Forms : menu[form[1]] # form[2] /\ SaveMenu(form[1], form[2])

\* Articles are paused and taken up again without a look at the menu.
SetActive(x) ==
    /\ active' = IF x \in active THEN active \ {x} ELSE active \union {x}
    /\ UNCHANGED <<menu, placed, goods>>

\* How many of a dish the counter and the dining room are told there are.
Available(id) ==
    LET dish == menu[id]
    IN  IF ~({dish.product} \union ProductsOf(dish.components) \subseteq active) THEN 0
        ELSE Min({goods[c.product] \div c.quantity : c \in ToSet(dish.components)})

-----------------------------------------------------------------------------
(* The cart of a page.  A press adds one of a dish with some options.          *)

OptionsOf(line) == {o \in ToSet(menu[line.entry].options) : o.id \in line.options}

\* add: the same dish with the same options is one line.
AddToCart(cart, press) ==
    LET same == {i \in DOMAIN cart : cart[i].entry = press.entry /\ cart[i].options = press.options}
    IN  IF same = {} THEN Append(cart, [entry |-> press.entry, options |-> press.options, quantity |-> 1])
        ELSE [i \in DOMAIN cart |-> IF i \in same THEN [cart[i] EXCEPT !.quantity = @ + 1] ELSE cart[i]]

CartOf(ticket) == FoldLeft(AddToCart, << >>, ticket.presses)

UnitPrice(line) == menu[line.entry].price + SumOf(OptionsOf(line), LAMBDA o : o.price)

\* What the page shows before the order is reviewed or saved.
PageTotal(cart, discount) ==
    Max({0, SumOver(cart, LAMBDA line : UnitPrice(line) * line.quantity) - discount})

-----------------------------------------------------------------------------
(* resolveOrder: what an order is made of and what it costs.                   *)

Replaced(line) == {o.replaces : o \in OptionsOf(line)} \ {Nil}

\* The options chosen exist, no two replace the same part, and all is for sale.
Sellable(line) ==
    LET dish == menu[line.entry]
    IN  /\ menu[line.entry] # Nil /\ dish.active
        /\ line.options \subseteq {o.id : o \in ToSet(dish.options)}
        /\ \A o, other \in OptionsOf(line) :
              o # other /\ o.replaces # Nil => o.replaces # other.replaces
        /\ {dish.product} \union
           (ProductsOf(dish.components) \ Replaced(line)) \union
           UNION {ProductsOf(o.components) : o \in OptionsOf(line)} \subseteq active

QuantityOf(x, components) ==
    SumOver(components, LAMBDA c : IF c.product = x THEN c.quantity ELSE 0)

\* What is not replaced, and what the options add.
Uses(line) ==
    [x \in Articles |->
        (IF x \in Replaced(line) THEN 0 ELSE QuantityOf(x, menu[line.entry].components))
        + SumOf(OptionsOf(line), LAMBDA o : QuantityOf(x, o.components))]

Snapshot(line) ==
    [entry |-> line.entry, options |-> line.options, quantity |-> line.quantity,
     station |-> menu[line.entry].station,
     subtotal |-> UnitPrice(line) * line.quantity, uses |-> Uses(line)]

Resolved(cart) == [i \in DOMAIN cart |-> Snapshot(cart[i])]
Subtotal(lines) == SumOver(lines, LAMBDA line : line.subtotal)

\* A discount needs somebody who may change sales.  The largest amount an order may
\* come to is left out: more is accepted here than the service accepts.
Accepted(cart, ticket) ==
    /\ \A line \in ToSet(cart) : Sellable(line)
    /\ ticket.discount <= Subtotal(Resolved(cart))
    /\ ticket.discount > 0 => ticket.authorized

\* FAULT: of two lines that use a product the last one counts
RequiredByLast(lines) ==
    [x \in Articles |-> LET using == SelectSeq(lines, LAMBDA line : line.uses[x] > 0)
                        IN  IF using = << >> THEN 0 ELSE Last(using).uses[x] * Last(using).quantity]

\* quote: what all the lines use of each product.
Required(lines) == [x \in Articles |-> SumOver(lines, LAMBDA line : line.uses[x] * line.quantity)]

CanFulfill(lines) == \A x \in Articles : Required(lines)[x] <= goods[x]

-----------------------------------------------------------------------------
(* Orders.                                                                     *)

MenuInit ==
    /\ menu = [id \in Entries |-> Nil]
    /\ active = Articles
    /\ placed = [o \in Orders |-> Nil]
    /\ goods = Goods0

\* create: the sale and the order get the lines as they are now.
CreateOrder(o) ==
    /\ placed[o] = Nil
    /\ \E ticket \in Tickets :
        LET cart == CartOf(ticket)
            lines == Resolved(cart)
        IN  /\ Accepted(cart, ticket)
            /\ placed' = [placed EXCEPT ![o] =
                  [sale |-> "DRAFT", board |-> "DRAFT", lines |-> lines, started |-> {},
                   total |-> Subtotal(lines) - ticket.discount]]
    /\ UNCHANGED <<menu, active, goods>>

StockComponents(line) == [x \in Articles |-> line.uses[x] * line.quantity]

\* applyMovement, line by line: one that finds too little undoes all.
Take(left, line) ==
    IF left = Nil \/ \E x \in Articles : StockComponents(line)[x] > left[x] THEN Nil
    ELSE [x \in Articles |-> left[x] - StockComponents(line)[x]]

AfterSale(lines) == FoldLeft(Take, goods, lines)

Set(o, sale, board) == placed' = [placed EXCEPT ![o].sale = sale, ![o].board = board]

Confirm(o) ==
    /\ placed[o] # Nil /\ placed[o].sale = "DRAFT"
    /\ AfterSale(placed[o].lines) # Nil
    /\ goods' = AfterSale(placed[o].lines)
    /\ Set(o, "PAID", placed[o].board)
    /\ UNCHANGED <<menu, active>>

Queue(o) ==
    /\ placed[o] # Nil /\ placed[o].sale = "PAID" /\ placed[o].board = "DRAFT"
    /\ Set(o, "PAID", "QUEUED")
    /\ UNCHANGED <<menu, active, goods>>

StationsOf(o) == {line.station : line \in ToSet(placed[o].lines)}

\* A station begins: its task was made of the order's lines.
Start(o, station) ==
    /\ placed[o] # Nil /\ placed[o].board \in {"QUEUED", "PREPARING"}
    /\ station \in StationsOf(o) \ placed[o].started
    /\ placed' = [placed EXCEPT ![o].board = "PREPARING", ![o].started = @ \union {station}]
    /\ UNCHANGED <<menu, active, goods>>

\* What some lines of an order take from the warehouse.
TakenBy(lines, at) == [x \in Articles |-> SumOf(at, LAMBDA i : StockComponents(lines[i])[x])]

\* The lines of the order whose station has not begun; all of them before that.
Unbegun(o) ==
    {i \in DOMAIN placed[o].lines :
        placed[o].board # "PREPARING" \/ placed[o].lines[i].station \notin placed[o].started}

\* FAULT: what the menu says now is put back
RestoredByMenu(o) == TakenBy(Resolved(placed[o].lines), Unbegun(o))

Restored(o) == TakenBy(placed[o].lines, Unbegun(o))

Return(o) ==
    /\ placed[o] # Nil /\ placed[o].sale = "PAID"
    /\ goods' = [x \in Articles |-> goods[x] + Restored(o)[x]]
    /\ Set(o, "REFUNDED", "CANCELLED")
    /\ UNCHANGED <<menu, active>>

Cancel(o) ==
    /\ placed[o] # Nil /\ placed[o].sale = "DRAFT"
    /\ Set(o, "CANCELLED", "CANCELLED")
    /\ UNCHANGED <<menu, active, goods>>

MenuNext ==
    \/ Submit
    \/ \E x \in Pausable : SetActive(x)
    \/ \E o \in Orders : \/ CreateOrder(o) \/ Confirm(o) \/ Queue(o) \/ Return(o) \/ Cancel(o)
                         \/ \E station \in Stations : Start(o, station)

MenuSpec == MenuInit /\ [][MenuNext]_menuVars

-----------------------------------------------------------------------------
(* Properties.                                                                 *)

MenuTypeOK ==
    /\ menu \in [Entries -> Dishes \union {Nil}]
    /\ active \subseteq Articles
    /\ placed \in [Orders -> Placed \union {Nil}]
    /\ goods \in [Articles -> Nat]

\* Five pieces of code that were written apart agree on every order that may be
\* asked for: the total of the page that has the menu is that of the service; the review finds the
\* goods enough exactly when the sale of that order would be confirmed; and as many
\* of a dish are shown as can be had, not one more or less (menu, quote, create of
\* restaurant.service.ts, confirm of sales.service.ts, add of the page).
PagesForesee ==
    /\ \A ticket \in Tickets :
        LET cart == CartOf(ticket)
            lines == Resolved(cart)
        IN  Accepted(cart, ticket) =>
              /\ PageTotal(cart, ticket.discount) = Subtotal(lines) - ticket.discount
              /\ CanFulfill(lines) <=> AfterSale(lines) # Nil
    /\ \A id \in Entries : menu[id] # Nil /\ menu[id].active =>
        \A n \in 1..(Max({goods[x] : x \in Articles}) + 1) :
            LET line == [entry |-> id, options |-> {}, quantity |-> n]
            IN  n <= Available(id) <=> Sellable(line) /\ CanFulfill(<<Snapshot(line)>>)

\* What an order has out of the warehouse: each line when it is sold, and those
\* begun when it was returned.
Out(o) ==
    TakenBy(placed[o].lines,
          {i \in DOMAIN placed[o].lines :
              \/ placed[o].sale = "PAID"
              \/ placed[o].sale = "REFUNDED" /\ placed[o].lines[i].station \in placed[o].started})

\* "Los pedidos existentes conservan su composicion": however the menu is edited, a
\* dish moved to another station, or a product paused, between the save of
\* an order, its charge, the start of a station and its return, what left the
\* warehouse is what the order said when it was saved, and what comes back is that
\* less what was begun (create, returnSale, the notice of the menu's page).
OrdersKeepTheirMenu ==
    /\ MenuTypeOK
    /\ \A x \in Articles :
        goods[x] + SumOf(Orders, LAMBDA o : IF placed[o] = Nil THEN 0 ELSE Out(o)[x]) = Goods0[x]
=============================================================================
