------------------------------- MODULE MCMenu -------------------------------
(* A small instance of Menu: a plate of chicken and potato, or rice, and a side *)
(* of potato, with the changes a manager may make to each.                     *)
EXTENDS Menu, TLC

Of(product, quantity) == [product |-> product, quantity |-> quantity]
Option(id, price, replaces, components) ==
    [id |-> id, price |-> price, replaces |-> replaces, components |-> components]
Dish(product, station, price, components, options) ==
    [product |-> product, station |-> station, price |-> price, active |-> TRUE,
     components |-> components, options |-> options]

WithRice == Option("rice", 1, "potato", <<Of("rice", 1)>>)
MorePotato == Option("more", 2, Nil, <<Of("potato", 1)>>)
NoPotato == Option("plain", 0, "potato", <<Of("chicken", 1)>>)

Plate == Dish("chicken", "grill", 5, <<Of("chicken", 1), Of("potato", 1)>>,
              <<WithRice, MorePotato, NoPotato>>)
PlateForms ==
    {Plate, [Plate EXCEPT !.station = "fryer", !.price = 6, !.components = <<Of("chicken", 2), Of("potato", 1)>>],
     [Plate EXCEPT !.active = FALSE],
     \* refused, whatever is active
     [Plate EXCEPT !.components = <<Of("chicken", 1), Of("chicken", 1)>>],
     [Plate EXCEPT !.options = <<WithRice, WithRice>>],
     [Plate EXCEPT !.components = <<Of("chicken", 1)>>]}

MCForms ==
    ({"e1"} \X PlateForms)
    \union {<<"e2", Dish("potato", "fryer", 2, <<Of("potato", n)>>, << >>)>> : n \in 1..2}

Press(entry, options) == [entry |-> entry, options |-> options]
Ticket(presses) == [presses |-> presses, discount |-> 0, authorized |-> FALSE]

MCTickets ==
    {Ticket(<<Press("e1", {})>>),
     Ticket(<<Press("e1", {}), Press("e2", {}), Press("e1", {})>>),
     Ticket(<<Press("e1", {"rice", "more"}), Press("e2", {})>>),
     [Ticket(<<Press("e1", {"rice"}), Press("e1", {})>>) EXCEPT !.discount = 1, !.authorized = TRUE],
     [Ticket(<<Press("e1", {})>>) EXCEPT !.discount = 1],
     [Ticket(<<Press("e2", {})>>) EXCEPT !.discount = 9, !.authorized = TRUE],
     Ticket(<<Press("e1", {"rice", "plain"})>>),
     Ticket(<<Press("e2", {"rice"})>>)}

MCGoods0 == [chicken |-> 3, potato |-> 4, rice |-> 1]
Perms == Permutations(Orders)
=============================================================================
