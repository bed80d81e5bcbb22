------------------------------ MODULE Counter ------------------------------
(* Where orders and sales are typed in: the restaurant's counter, its dining    *)
(* room and the shop, each a page that sends calls over a network that may lose *)
(* them, or leave their answer unknown while they go on.  The calls end in      *)
(* restaurant.service.ts, dining.service.ts and sales.service.ts; a call that   *)
(* is several transactions is several steps here.  How those wait for rows is   *)
(* in Kitchen and Sales; here each transaction is one step.                     *)
(*                                                                              *)
(* A dish is a number of units of one product, with one price a sale; a payment *)
(* covers it whole.  Prices, options and accounts are left out.                 *)
EXTENDS Integers, FiniteSets, Functions

CONSTANTS
    Cashiers, \* pages of the restaurant's counter, a tab each
    Waiters,  \* pages of the dining room
    Clerks,   \* pages of the shop
    Guests,   \* who is served, each wanting one thing
    RequestKeys,     \* request keys; also stand for the id of what they make
    PayKeys,  \* keys of payments
    Calls,    \* calls that may be on their way at once
    Units,    \* how much a guest may ask for
    Stock0,   \* units in the warehouse at the start
    Null      \* nothing

Users == Cashiers \union Waiters \union Clerks

ASSUME CounterAssumption ==
    /\ Units \subseteq Nat \ {0} /\ Stock0 \in Nat
    /\ Cashiers \intersect Waiters = {} /\ Cashiers \intersect Clerks = {}
    /\ Waiters \intersect Clerks = {}

VARIABLES
    sale,    \* sales, with the restaurant_orders of those that have one
    payment, \* payments: the sale of each key
    stock,   \* units in the warehouse
    call,    \* calls and how far they are
    page,    \* what each page remembers and shows
    guest    \* what became of each guest: no page or server knows

counterVars == <<sale, payment, stock, call, page, guest>>
server == <<sale, payment, stock>>

Carts == [who : Guests, units : Units]
Sales == [cart : Carts, place : {"counter", "hall", "shop"},
          sale : {"DRAFT", "CONFIRMED", "PAID", "CANCELLED"},
          order : {"DRAFT", "QUEUED", "CANCELLED", Null}]
CallRequests ==
    [op : {"quote", "create", "checkout", "cancel", "dispatch", "pay", "sell", "confirm"},
     key : RequestKeys \union {Null}, cart : Carts \union {Null}, pay : PayKeys \union {Null}]

\* Null is no key, no record, and no status of an order.
ASSUME NullAssumption ==
    Null \notin RequestKeys \union PayKeys \union Carts \union CallRequests \union Sales
                \union {"DRAFT", "QUEUED", "CANCELLED", "ok"}

NoCall == [step |-> "free", by |-> Null, awaited |-> FALSE, req |-> Null,
           answer |-> Null, got |-> Null]
Blank == [cart |-> Null, attempt |-> Null, held |-> FALSE, order |-> Null,
          status |-> Null, pay |-> Null, payHeld |-> FALSE, waits |-> FALSE]

CounterTypeOK ==
    /\ sale \in [RequestKeys -> Sales \union {Null}]
    /\ payment \in [PayKeys -> RequestKeys \union {Null}]
    /\ stock \in Nat
    /\ call \in [Calls -> [step : {"free", "sent", "sale", "order", "answered"},
                           by : Users \union {Null}, awaited : BOOLEAN,
                           req : CallRequests \union {Null}, got : Sales \union {Null},
                           answer : {Null, "ok", "short", "conflict", "denied", "busy"}]]
    /\ page \in [Users -> [cart : Carts \union {Null}, attempt : CallRequests \union {Null},
                           held : BOOLEAN, order : RequestKeys \union {Null},
                           status : {Null, "DRAFT", "QUEUED", "CANCELLED"},
                           pay : PayKeys \union {Null}, payHeld : BOOLEAN, waits : BOOLEAN]]
    /\ guest \in [Guests -> {"here", "ordered", "forgotten"}]

CounterInit ==
    /\ sale = [k \in RequestKeys |-> Null]
    /\ payment = [p \in PayKeys |-> Null]
    /\ stock = Stock0
    /\ call = [c \in Calls |-> NoCall]
    /\ page = [u \in Users |-> Blank]
    /\ guest = [g \in Guests |-> "here"]

CallRequest(op, key, cart, pay) == [op |-> op, key |-> key, cart |-> cart, pay |-> pay]

-----------------------------------------------------------------------------
(* The server.  An answer carries the order as it is then.                     *)

At(c, step, op) == call[c].step = step /\ call[c].req.op = op
GoOn(c, step) == call' = [call EXCEPT ![c].step = step]

Reply(c, answer) ==
    call' = [call EXCEPT ![c].step = "answered", ![c].answer = answer,
                         ![c].got = IF call[c].req.key = Null THEN Null
                                    ELSE sale'[call[c].req.key]]

Refuse(c, answer) == UNCHANGED server /\ Reply(c, answer)

\* Writes nothing: the review of what the warehouse has.
Quote(c) ==
    /\ At(c, "sent", "quote")
    /\ Refuse(c, IF call[c].req.cart.units <= stock THEN "ok" ELSE "short")
    /\ UNCHANGED <<page, guest>>

NewSale(cart, place) ==
    [cart |-> cart, place |-> place, sale |-> "DRAFT",
     order |-> IF place = "shop" THEN Null ELSE "DRAFT"]

\* The key is locked for the whole transaction.  A repeated key makes no order.
Create(c) ==
    LET r == call[c].req
        place == IF call[c].by \in Waiters THEN "hall" ELSE "counter"
    IN  /\ At(c, "sent", "create")
        /\ IF sale[r.key] = Null
           THEN /\ sale' = [sale EXCEPT ![r.key] = NewSale(r.cart, place)]
                /\ Reply(c, "ok")
                /\ UNCHANGED <<payment, stock>>
           ELSE Refuse(c, IF sale[r.key].cart = r.cart THEN "ok" ELSE "conflict")
        /\ UNCHANGED <<page, guest>>

\* The goods leave, and the payment is taken when there is one.
Confirmed(k, pay) ==
    /\ sale' = [sale EXCEPT ![k].sale = IF pay = Null THEN "CONFIRMED" ELSE "PAID"]
    /\ stock' = stock - sale[k].cart.units
    /\ payment' = IF pay = Null THEN payment ELSE [payment EXCEPT ![pay] = k]

Usable(pay, k) == pay # Null => payment[pay] \in {Null, k}

\* confirm in sales.service.ts: "again" when the sale was confirmed before.
ConfirmVerdict(k, pay) ==
    IF sale[k].sale = "CANCELLED" \/ ~Usable(pay, k) THEN "conflict"
    ELSE IF sale[k].sale # "DRAFT" THEN "again"
    ELSE IF sale[k].cart.units > stock THEN "conflict" ELSE "go"

CheckoutLook(c) ==
    LET r == call[c].req
    IN  /\ At(c, "sent", "checkout")
        /\ IF sale[r.key].order = "CANCELLED" THEN Refuse(c, "conflict")
           ELSE IF sale[r.key].sale = "DRAFT" /\ r.pay = Null THEN Refuse(c, "denied")
           ELSE GoOn(c, "sale") /\ UNCHANGED server
        /\ UNCHANGED <<page, guest>>

CheckoutConfirm(c) ==
    LET r == call[c].req
        verdict == ConfirmVerdict(r.key, r.pay)
    IN  /\ At(c, "sale", "checkout")
        /\ \/ verdict = "go" /\ Confirmed(r.key, r.pay) /\ GoOn(c, "order")
           \/ verdict = "again" /\ sale[r.key].sale = "PAID" /\ GoOn(c, "order") /\ UNCHANGED server
           \/ verdict = "again" /\ sale[r.key].sale # "PAID" /\ Refuse(c, "conflict")
           \/ verdict = "conflict" /\ Refuse(c, "conflict")
        /\ UNCHANGED <<page, guest>>

CheckoutQueue(c) ==
    LET k == call[c].req.key
    IN  /\ At(c, "order", "checkout")
        /\ IF sale[k].sale # "PAID" THEN Refuse(c, "conflict")
           ELSE /\ sale' = [sale EXCEPT ![k].order = IF @ = "DRAFT" THEN "QUEUED" ELSE @]
                /\ Reply(c, "ok")
                /\ UNCHANGED <<payment, stock>>
        /\ UNCHANGED <<page, guest>>

CancelLook(c) ==
    LET k == call[c].req.key
    IN  /\ At(c, "sent", "cancel")
        /\ CASE sale[k].order = "CANCELLED" -> Refuse(c, "ok")
             [] sale[k].order = "QUEUED" -> Refuse(c, "conflict")
             [] sale[k].order = "DRAFT" -> GoOn(c, "sale") /\ UNCHANGED server
        /\ UNCHANGED <<page, guest>>

\* FAULT: the look at the order is trusted
CancellableByLook(k) == TRUE

Cancellable(k) == sale[k].sale \in {"DRAFT", "CANCELLED"}

CancelSale(c) ==
    LET k == call[c].req.key
    IN  /\ At(c, "sale", "cancel")
        /\ IF Cancellable(k)
           THEN /\ sale' = [sale EXCEPT ![k].sale = "CANCELLED"]
                /\ GoOn(c, "order")
                /\ UNCHANGED <<payment, stock>>
           ELSE Refuse(c, "conflict")
        /\ UNCHANGED <<page, guest>>

CancelOrder(c) ==
    LET k == call[c].req.key
    IN  /\ At(c, "order", "cancel")
        /\ sale' = [sale EXCEPT ![k].order = IF @ = "DRAFT" THEN "CANCELLED" ELSE @]
        /\ Reply(c, "ok")
        /\ UNCHANGED <<payment, stock, page, guest>>

\* In the dining room the goods leave, and the kitchen starts, before any payment.
Dispatch(c) ==
    LET k == call[c].req.key
        queued == [sale EXCEPT ![k].order = "QUEUED"]
    IN  /\ At(c, "sent", "dispatch")
        /\ \/ sale[k].order = "QUEUED" /\ Refuse(c, "ok")
           \/ /\ sale[k].order = "CANCELLED" \/ sale[k].sale = "CANCELLED"
              /\ Refuse(c, "conflict")
           \/ /\ sale[k].order = "DRAFT" /\ sale[k].sale = "DRAFT"
              /\ IF sale[k].cart.units > stock THEN Refuse(c, "conflict")
                 ELSE /\ sale' = [queued EXCEPT ![k].sale = "CONFIRMED"]
                      /\ stock' = stock - sale[k].cart.units
                      /\ Reply(c, "ok")
                      /\ UNCHANGED payment
           \/ /\ sale[k].order = "DRAFT" /\ sale[k].sale \in {"CONFIRMED", "PAID"}
              /\ sale' = queued
              /\ Reply(c, "ok")
              /\ UNCHANGED <<payment, stock>>
        /\ UNCHANGED <<page, guest>>

Pay(c) ==
    LET r == call[c].req
    IN  /\ At(c, "sent", "pay")
        /\ IF payment[r.pay] = r.key THEN Refuse(c, "ok")
           ELSE IF payment[r.pay] # Null \/ sale[r.key].sale # "CONFIRMED" THEN Refuse(c, "conflict")
           ELSE /\ sale' = [sale EXCEPT ![r.key].sale = "PAID"]
                /\ payment' = [payment EXCEPT ![r.pay] = r.key]
                /\ Reply(c, "ok")
                /\ UNCHANGED stock
        /\ UNCHANGED <<page, guest>>

\* crypto.randomUUID, and the ids the server gives.
Fresh(k) ==
    /\ sale[k] = Null
    /\ \A c \in Calls : call[c].req # Null => call[c].req.key # k
    /\ \A u \in Users : page[u].attempt # Null => page[u].attempt.key # k

FreshPay(p) ==
    /\ payment[p] = Null
    /\ \A c \in Calls : call[c].req # Null => call[c].req.pay # p
    /\ \A u \in Users : /\ page[u].pay # p
                        /\ page[u].attempt # Null => page[u].attempt.pay # p

\* The shop's draft has no key of a request: sent twice, it is two drafts.
Sell(c) ==
    /\ At(c, "sent", "sell")
    /\ \E k \in RequestKeys :
        /\ Fresh(k)
        /\ sale' = [sale EXCEPT ![k] = NewSale(call[c].req.cart, "shop")]
        /\ call' = [call EXCEPT ![c].step = "answered", ![c].answer = "ok",
                                ![c].req.key = k, ![c].got = sale'[k]]
    /\ UNCHANGED <<payment, stock, page, guest>>

ConfirmShop(c) ==
    LET r == call[c].req
        verdict == ConfirmVerdict(r.key, r.pay)
    IN  /\ At(c, "sent", "confirm")
        /\ \/ verdict = "go" /\ Confirmed(r.key, r.pay) /\ Reply(c, "ok")
           \/ verdict = "again" /\ Refuse(c, "ok")
           \/ verdict = "conflict" /\ Refuse(c, "conflict")
        /\ UNCHANGED <<page, guest>>

\* Turned away before the service, or by its checks of the request.
TurnAway(c) ==
    /\ call[c].step = "sent"
    /\ \E answer \in {"denied", "busy"} : Refuse(c, answer)
    /\ UNCHANGED <<page, guest>>

\* A call nobody waits for is lost, dies between two transactions, or ends unread.
Lost(c) ==
    /\ call[c].step # "free" /\ ~call[c].awaited
    /\ call' = [call EXCEPT ![c] = NoCall]
    /\ UNCHANGED <<server, page, guest>>

-----------------------------------------------------------------------------
(* The pages.  One that has an attempt and waits for nothing is uncertain.     *)

Send(u, r) ==
    \E c \in Calls :
        /\ call[c].step = "free"
        /\ call' = [call EXCEPT ![c] = [NoCall EXCEPT !.step = "sent", !.by = u,
                                                     !.awaited = TRUE, !.req = r]]

\* A guest stays with the page that has what they asked for.
With(g) == {u \in Users : \/ page[u].cart # Null /\ page[u].cart.who = g
                          \/ page[u].attempt # Null /\ page[u].attempt.cart # Null
                                /\ page[u].attempt.cart.who = g}
MayAsk(u, g) == guest[g] # "ordered" /\ With(g) \subseteq {u}

Uncertain(k, c) == sale[k] # Null \/ \E d \in Calls \ {c} : call[d].req # Null /\ call[d].req.key = k

Idle(u) == ~page[u].waits
Locked(u) == page[u].held \/ page[u].order # Null

\* The cart of the counter, which is closed once an order is saved or sent.
FillCounter(u) ==
    /\ Idle(u) /\ ~Locked(u)
    /\ \E cart \in Carts : MayAsk(u, cart.who) /\ page' = [page EXCEPT ![u].cart = cart]
    /\ UNCHANGED <<server, call, guest>>

\* create: what the tab or its storage remembers is sent again, whatever the cart
\* holds now; a new order is reviewed first.
PressSave(u) ==
    /\ Idle(u) /\ page[u].order = Null
    /\ \/ /\ page[u].attempt # Null
          /\ Send(u, page[u].attempt)
          /\ page' = [page EXCEPT ![u].held = TRUE, ![u].waits = TRUE]
       \/ /\ page[u].attempt = Null /\ page[u].cart # Null
          /\ \E k \in RequestKeys : Fresh(k) /\ Send(u, CallRequest("quote", k, page[u].cart, Null))
          /\ page' = [page EXCEPT ![u].waits = TRUE]
    /\ UNCHANGED <<server, guest>>

ReceiveQuote(u, c) ==
    LET create == [call[c].req EXCEPT !.op = "create"]
    IN  /\ IF call[c].answer = "ok"
           THEN /\ page' = [page EXCEPT ![u].attempt = create, ![u].held = TRUE]
                /\ call' = [call EXCEPT ![c] = [NoCall EXCEPT !.step = "sent", !.by = u,
                                                             !.awaited = TRUE, !.req = create]]
           ELSE /\ page' = [page EXCEPT ![u].waits = FALSE]
                /\ call' = [call EXCEPT ![c] = NoCall]
        /\ UNCHANGED guest

\* setSavedOrder: the order as the answer or the list of drafts has it.
ShowOrder(u, remembered, k, status, paid) ==
    \E p \in PayKeys \union {Null} :
        /\ IF paid THEN p = Null ELSE p # Null /\ FreshPay(p)
        /\ page' = [page EXCEPT ![u] = [remembered EXCEPT !.order = k, !.status = status, !.pay = p,
                                                          !.payHeld = FALSE, !.waits = FALSE]]

\* FAULT: an attempt is dropped at any answer below 500
DropsAtAnyAnswer(answer) == TRUE

\* 400, 403, 404 and 422; kept at 401, 409 and 429.
Drops(answer) == answer = "denied"

\* A page shows the order of the guest, who asks no more.
Told(g) == guest' = [guest EXCEPT ![g] = IF @ = "here" THEN "ordered" ELSE @]

\* A guest whose attempt the page drops, though it may yet make an order.
ForgetIf(dropped, c) ==
    LET r == call[c].req
    IN  guest' = IF dropped /\ Uncertain(r.key, c) THEN [guest EXCEPT ![r.cart.who] = "forgotten"]
                 ELSE guest

ReceiveCreate(u, c) ==
    LET forgets == [page[u] EXCEPT !.attempt = Null, !.held = FALSE]
    IN  /\ \/ /\ call[c].answer = "ok"
              /\ ShowOrder(u, forgets, call[c].req.key, call[c].got.order, call[c].got.sale = "PAID")
           \/ /\ call[c].answer # "ok"
              /\ page' = [page EXCEPT ![u] = IF Drops(call[c].answer)
                                             THEN [forgets EXCEPT !.waits = FALSE]
                                             ELSE [@ EXCEPT !.waits = FALSE]]
        /\ IF call[c].answer = "ok" THEN Told(call[c].req.cart.who)
           ELSE ForgetIf(call[c].answer = "denied", c)
        /\ call' = [call EXCEPT ![c] = NoCall]

\* "Continuar": any order whose draft the list has, which may be an old list.
Continue(u) ==
    /\ Idle(u) /\ ~Locked(u) /\ page[u].cart = Null
    /\ \E k \in RequestKeys, paid \in BOOLEAN :
        /\ sale[k] # Null /\ sale[k].order # Null
        /\ paid => sale[k].sale = "PAID"
        /\ ShowOrder(u, page[u], k, "DRAFT", paid)
        /\ Told(sale[k].cart.who)
    /\ UNCHANGED <<server, call>>

\* Other lines of payment, unless a charge is uncertain.
EditPayments(u) ==
    /\ Idle(u) /\ page[u].status = "DRAFT" /\ page[u].pay # Null /\ ~page[u].payHeld
    /\ \E p \in PayKeys : FreshPay(p) /\ page' = [page EXCEPT ![u].pay = p]
    /\ UNCHANGED <<server, call, guest>>

PressCheckout(u) ==
    /\ Idle(u) /\ page[u].status = "DRAFT"
    /\ Send(u, CallRequest("checkout", page[u].order, Null, page[u].pay))
    /\ page' = [page EXCEPT ![u].payHeld = TRUE, ![u].waits = TRUE]
    /\ UNCHANGED <<server, guest>>

\* 400, 403, 409 and 422 open the payments again.
ReceiveCheckout(u, c) ==
    /\ page' = [page EXCEPT
                  ![u].waits = FALSE,
                  ![u].status = IF call[c].answer = "ok" THEN call[c].got.order ELSE @,
                  ![u].payHeld = @ /\ call[c].answer \notin {"denied", "conflict"}]
    /\ call' = [call EXCEPT ![c] = NoCall]
    /\ UNCHANGED guest

PressCancel(u) ==
    /\ Idle(u) /\ page[u].status = "DRAFT"
    /\ Send(u, CallRequest("cancel", page[u].order, Null, Null))
    /\ page' = [page EXCEPT ![u].waits = TRUE]
    /\ UNCHANGED <<server, guest>>

\* Clears all: a guest whose attempt was still stored is forgotten.
NewOrder(u) ==
    LET attempt == page[u].attempt
    IN  /\ page' = [page EXCEPT ![u] = Blank]
        /\ guest' = IF attempt = Null THEN guest
                    ELSE [guest EXCEPT ![attempt.cart.who] = "forgotten"]

PressNew(u) ==
    /\ Idle(u) /\ page[u].order # Null /\ page[u].status # "DRAFT"
    /\ NewOrder(u)
    /\ UNCHANGED <<server, call>>

ReceiveCancel(u, c) ==
    /\ IF call[c].answer = "ok" THEN NewOrder(u)
       ELSE page' = [page EXCEPT ![u].waits = FALSE] /\ UNCHANGED guest
    /\ call' = [call EXCEPT ![c] = NoCall]

-----------------------------------------------------------------------------
(* The dining room: every request is recorded until it is answered, and sent   *)
(* again as it was.                                                            *)

Record(u, r) ==
    /\ Idle(u) /\ page[u].attempt = Null
    /\ Send(u, r)
    /\ page' = [page EXCEPT ![u].attempt = r, ![u].held = TRUE, ![u].waits = TRUE]
    /\ UNCHANGED <<server, guest>>

PressAdd(u) == \E k \in RequestKeys, cart \in Carts :
                  Fresh(k) /\ MayAsk(u, cart.who) /\ Record(u, CallRequest("create", k, cart, Null))

\* The list of the account may be old.
InHall == {k \in RequestKeys : sale[k] # Null /\ sale[k].place = "hall"}

PressDispatch(u) == \E k \in InHall : Record(u, CallRequest("dispatch", k, Null, Null))

PressPay(u) == \E k \in InHall, p \in PayKeys :
                  /\ sale[k].sale \in {"CONFIRMED", "PAID"} /\ FreshPay(p)
                  /\ Record(u, CallRequest("pay", k, Null, p))

PressRetry(u) ==
    /\ Idle(u) /\ page[u].attempt # Null
    /\ Send(u, page[u].attempt)
    /\ page' = [page EXCEPT ![u].waits = TRUE]
    /\ UNCHANGED <<server, guest>>

\* Any answer below 500 settles the attempt.
ReceiveInHall(u, c) ==
    LET r == call[c].req
    IN  /\ page' = [page EXCEPT ![u] = Blank]
        /\ IF r.op # "create" THEN UNCHANGED guest
           ELSE IF call[c].answer = "ok"
           THEN Told(r.cart.who)
           ELSE ForgetIf(TRUE, c)
        /\ call' = [call EXCEPT ![c] = NoCall]

-----------------------------------------------------------------------------
(* The shop: a sale is made and then confirmed, and only the payment has a key. *)
(* Nothing is closed while it waits: what was pressed is what is sent.          *)

FillShop(u) ==
    /\ \E cart \in Carts : MayAsk(u, cart.who) /\ page' = [page EXCEPT ![u].cart = cart]
    /\ UNCHANGED <<server, call, guest>>

EditPayment(u) ==
    /\ \/ \E p \in PayKeys : FreshPay(p) /\ page' = [page EXCEPT ![u].pay = p]
       \/ page[u].pay # Null /\ page' = [page EXCEPT ![u].pay = Null]
    /\ UNCHANGED <<server, call, guest>>

Clear(u) ==
    /\ page' = [page EXCEPT ![u].cart = Null, ![u].pay = Null]
    /\ page' # page
    /\ UNCHANGED <<server, call, guest>>

PressConfirm(u) ==
    /\ Idle(u) /\ page[u].cart # Null
    /\ Send(u, CallRequest("sell", Null, page[u].cart, page[u].pay))
    /\ page' = [page EXCEPT ![u].waits = TRUE]
    /\ UNCHANGED <<server, guest>>

ReceiveSell(u, c) ==
    /\ IF call[c].answer = "ok"
       THEN /\ call' = [call EXCEPT ![c] = [NoCall EXCEPT
                            !.step = "sent", !.by = u, !.awaited = TRUE,
                            !.req = [call[c].req EXCEPT !.op = "confirm"]]]
            /\ UNCHANGED page
       ELSE /\ page' = [page EXCEPT ![u].waits = FALSE]
            /\ call' = [call EXCEPT ![c] = NoCall]
    /\ UNCHANGED guest

ReceiveConfirm(u, c) ==
    /\ page' = [page EXCEPT ![u] = IF call[c].answer = "ok" THEN Blank ELSE [@ EXCEPT !.waits = FALSE]]
    /\ call' = [call EXCEPT ![c] = NoCall]
    /\ UNCHANGED guest

-----------------------------------------------------------------------------

Receive(c) ==
    LET u == call[c].by
        op == call[c].req.op
    IN  /\ call[c].step = "answered" /\ call[c].awaited
        /\ \/ u \in Waiters /\ ReceiveInHall(u, c)
           \/ op = "quote" /\ ReceiveQuote(u, c)
           \/ u \in Cashiers /\ op = "create" /\ ReceiveCreate(u, c)
           \/ op = "checkout" /\ ReceiveCheckout(u, c)
           \/ op = "cancel" /\ ReceiveCancel(u, c)
           \/ op = "sell" /\ ReceiveSell(u, c)
           \/ op = "confirm" /\ ReceiveConfirm(u, c)
        /\ UNCHANGED server

\* No answer comes in time, or one that says nothing: the call may still go on.
GiveUp(c) ==
    /\ call[c].awaited
    /\ page' = [page EXCEPT ![call[c].by].waits = FALSE]
    /\ call' = [call EXCEPT ![c].awaited = FALSE]
    /\ UNCHANGED <<server, guest>>

\* The tab is loaded again: only the attempt of the counter is stored.
Reload(u) ==
    LET stored == IF u \in Cashiers THEN page[u].attempt ELSE Null
        lost == page[u].attempt
    IN  /\ page' = [page EXCEPT ![u] = [Blank EXCEPT !.attempt = stored]]
        /\ page' # page
        /\ call' = [c \in Calls |-> IF call[c].by = u THEN [call[c] EXCEPT !.awaited = FALSE] ELSE call[c]]
        /\ guest' = IF u \in Waiters /\ lost # Null /\ lost.op = "create"
                    THEN [guest EXCEPT ![lost.cart.who] = "forgotten"] ELSE guest
        /\ UNCHANGED server

CounterNext ==
    \/ \E c \in Calls :
        \/ Quote(c) \/ Create(c) \/ CheckoutLook(c) \/ CheckoutConfirm(c) \/ CheckoutQueue(c)
        \/ CancelLook(c) \/ CancelSale(c) \/ CancelOrder(c) \/ Dispatch(c) \/ Pay(c)
        \/ Sell(c) \/ ConfirmShop(c) \/ TurnAway(c) \/ Lost(c) \/ Receive(c) \/ GiveUp(c)
    \/ \E u \in Cashiers :
        \/ FillCounter(u) \/ PressSave(u) \/ Continue(u) \/ EditPayments(u)
        \/ PressCheckout(u) \/ PressCancel(u) \/ PressNew(u)
    \/ \E u \in Waiters : PressAdd(u) \/ PressDispatch(u) \/ PressPay(u) \/ PressRetry(u)
    \/ \E u \in Clerks : FillShop(u) \/ EditPayment(u) \/ Clear(u) \/ PressConfirm(u)
    \/ \E u \in Users : Reload(u)

CounterSpec == CounterInit /\ [][CounterNext]_counterVars

-----------------------------------------------------------------------------
(* Properties                                                                  *)

Made == {k \in RequestKeys : sale[k] # Null}
Sold == {k \in Made : sale[k].sale \in {"CONFIRMED", "PAID"}}

\* What a status shown of an order says of its sale.
SaysTruly(status, s) ==
    /\ status = "QUEUED" => s.sale = "PAID"
    /\ status = "CANCELLED" => s.sale = "CANCELLED"

\* Whatever is sent twice, abandoned, or pressed on two pages at once: the goods of
\* each sale leave once, a sale is paid exactly when one payment is its own, the
\* kitchen has only orders that are paid or are the dining room's, and an order is
\* cancelled only with its sale (checkout and cancel of restaurant.service.ts,
\* confirm of sales.service.ts).  The counter shows an order that is no draft as
\* charged and sent to the kitchen, a cancelled one too (page.tsx of its orders):
\* the sale is paid when the page has the order as QUEUED, and when it has it as
\* CANCELLED nothing was charged and no goods have left.
MoneyFollowsGoods ==
    /\ CounterTypeOK
    /\ stock + SumFunction([k \in Sold |-> sale[k].cart.units]) = Stock0
    /\ \A k \in Made :
        /\ Cardinality({p \in PayKeys : payment[p] = k}) = IF sale[k].sale = "PAID" THEN 1 ELSE 0
        /\ sale[k].order = "QUEUED" =>
              sale[k].sale = "PAID" \/ (sale[k].place = "hall" /\ sale[k].sale = "CONFIRMED")
        /\ sale[k].order = "CANCELLED" => sale[k].sale = "CANCELLED"
    /\ \A u \in Cashiers : page[u].order # Null => SaysTruly(page[u].status, sale[page[u].order])

OrdersOf(g) == {k \in Made : sale[k].cart.who = g /\ sale[k].order \in {"DRAFT", "QUEUED"}}

\* A guest is served once: through lost answers, late calls, retries, tabs loaded
\* again and orders taken up by another cashier, one order is made for what was
\* asked once, unless the page was told to drop an attempt that may have been
\* carried out (create in the pages of the counter and of the dining room, the
\* request key of create in restaurant.service.ts).
OneOrderEach ==
    \A g \in Guests : guest[g] # "forgotten" => Cardinality(OrdersOf(g)) <= 1
=============================================================================
