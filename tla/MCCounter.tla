------------------------------ MODULE MCCounter ------------------------------
(* A small instance of Counter, a scene at a time. *)
EXTENDS Counter, TLC

CONSTANTS ana, bea, g1, k1

Perms == Permutations(Calls) \union Permutations(PayKeys)

\* Each behaviour is one of five scenes.  "counter": a tab that takes orders and
\* cancels them.  "hall": the dining room.  "shop": the shop.  "till": two tabs, one
\* of which does not know that its order was made.  "mixed": a cashier before an
\* order of the dining room, with its waiter.
VARIABLE scene

Calling == {c \in Calls : call[c].step # "free"}
Active == {u \in Users : page[u] # Blank} \union {call[c].by : c \in Calling}
OneOrder == {k \in RequestKeys : ~Fresh(k)} = {k1}
Sending(ops) == {c \in Calling : call[c].req.op \in ops}
OneGuest == \A u \in Users : page[u].cart # Null => page[u].cart.who = g1

\* Turned away: tried where it leaves a page otherwise than no answer does.
Telling ==
    \A c \in Calling :
        /\ call[c].answer = "busy" => call[c].req.op = "create"
        /\ call[c].answer = "denied" => call[c].req.op \in {"create", "checkout"}
        /\ scene = "till" => call[c].answer \notin {"busy", "denied"}

\* How much is asked for: the warehouse has 2, and serves one guest or both.
Asked == ({page[u].cart : u \in Users} \union {call[c].req.cart : c \in Calling}) \ {Null}
Asking ==
  \A cart \in Asked :
    IF scene = "shop" THEN cart.units = 1
    ELSE cart.units = 2 \/ (scene = "counter" /\ cart.who # g1 /\ cart.units = 3)

InScene ==
    CASE scene = "counter" -> /\ Active \subseteq {ana} /\ Sending({"checkout"}) = {}
                              /\ Sending({"cancel"}) \in {{}, Calling}
      [] scene = "hall" -> Active \subseteq Waiters
      [] scene = "shop" -> Active \subseteq Clerks
      [] scene = "till" -> /\ Active \subseteq Cashiers /\ OneOrder /\ OneGuest
                           /\ page[bea].cart = Null
                           /\ \A c \in Sending({"cancel"}) : call[c].by = bea
      [] scene = "mixed" -> Active \subseteq {ana} \union Waiters /\ OneOrder /\ OneGuest

Saved(place, attempt) ==
    LET cart == [who |-> g1, units |-> 2]
    IN  /\ sale = [k \in RequestKeys |-> IF k = k1 THEN NewSale(cart, place) ELSE Null]
        /\ payment = [p \in PayKeys |-> Null]
        /\ stock = Stock0
        /\ call = [c \in Calls |-> NoCall]
        /\ page = [u \in Users |->
                     IF attempt /\ u = ana
                     THEN [Blank EXCEPT !.cart = cart, !.held = TRUE,
                                        !.attempt = CallRequest("create", k1, cart, Null)]
                     ELSE Blank]
        /\ guest = [g \in Guests |-> IF attempt THEN "here" ELSE "ordered"]

MCInit == \/ CounterInit /\ scene \in {"counter", "hall", "shop"}
          \/ Saved("counter", TRUE) /\ scene = "till"
          \/ Saved("hall", FALSE) /\ scene = "mixed"
MCSpec == MCInit /\ [][CounterNext /\ scene' = scene /\ InScene' /\ Asking' /\ Telling']_<<counterVars, scene>>
=============================================================================
