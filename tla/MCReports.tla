------------------------------ MODULE MCReports ------------------------------
(* A small instance of Reports: three sales at the tills of two branches, one *)
(* of them free of charge.                                                    *)
EXTENDS Reports

Sale(terminal, warehouse, items) ==
    [terminal |-> terminal, warehouse |-> warehouse, items |-> items,
     discount |-> 0, moment |-> 1, user |-> "ana", customer |-> FALSE]

MCSaleData == <<
    [Sale("t1", "w1", <<1, 0>>) EXCEPT !.discount = 1],
    [Sale("t1", "w1", <<1, 1>>) EXCEPT !.discount = 1, !.customer = TRUE],
    [Sale("t2", "w2", <<1, 0>>) EXCEPT !.user = "luis", !.moment = 2] >>

MCCategoryOf == <<"food", "drink">>
MCPrice == <<1, 2>>
MCCost == <<1, 1>>
MCBranchOf == [t1 |-> "b1", w1 |-> "b1", t2 |-> "b2", w2 |-> "b2"]
MCOpening == [t1 |-> 0, t2 |-> 0]
MCStock0 == [w1 |-> <<2, 1>>, w2 |-> <<1, 0>>]
MCFilters == {NoFilter, [NoFilter EXCEPT !.method = "CASH"]}
=============================================================================
