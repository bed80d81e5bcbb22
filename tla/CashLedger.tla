----------------------------- MODULE CashLedger -----------------------------
(***************************************************************************)
(* What the cash service promises to whoever counts the drawer: a drawer   *)
(* belongs to one terminal, money enters and leaves it one operation at a  *)
(* time while it is open, never more leaves than is there, and closing it  *)
(* freezes the amount the count is compared with.                          *)
(***************************************************************************)
EXTENDS Integers

CONSTANTS Registers, Terminals, Amounts, None

VARIABLE drawer

Unused == [status |-> "NONE", terminal |-> None, cash |-> 0, expected |-> 0]

Init == drawer = [r \in Registers |-> Unused]

\* A terminal has at most one open drawer.
Open(r, t, amount) ==
    /\ drawer[r].status = "NONE"
    /\ \A q \in Registers : drawer[q].status = "OPEN" => drawer[q].terminal # t
    /\ drawer' = [drawer EXCEPT ![r] = [status |-> "OPEN", terminal |-> t,
                                        cash |-> amount, expected |-> 0]]

Deposit(r, amount) ==
    /\ drawer[r].status = "OPEN"
    /\ drawer' = [drawer EXCEPT ![r].cash = @ + amount]

Withdraw(r, amount) ==
    /\ drawer[r].status = "OPEN"
    /\ amount <= drawer[r].cash
    /\ drawer' = [drawer EXCEPT ![r].cash = @ - amount]

Close(r) ==
    /\ drawer[r].status = "OPEN"
    /\ drawer' = [drawer EXCEPT ![r] = [status |-> "CLOSED", terminal |-> @.terminal,
                                        cash |-> @.cash, expected |-> @.cash]]

Next == \E r \in Registers :
            \/ \E amount \in Amounts : \/ \E t \in Terminals : Open(r, t, amount)
                                   \/ Deposit(r, amount)
                                   \/ Withdraw(r, amount)
            \/ Close(r)

Spec == Init /\ [][Next]_drawer
=============================================================================
