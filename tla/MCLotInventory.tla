---------------------------- MODULE MCLotInventory ----------------------------
(* A small instance of LotInventory: two warehouses, a code of a lot, two days. *)
EXTENDS LotInventory, TLC

CONSTANTS w1, w2, s1, k1, k2, A

Perms == Permutations(Procs)

MCStock0 == [w \in Warehouses |-> 1]
MCHomeOf == [s \in Sales |-> w1]

Ask(op, k, w, n) == [op |-> op, key |-> k, at |-> w, to |-> w, units |-> n, lot |-> None,
                     code |-> None, expires |-> Never, expected |-> 0]

NewLot(op, k, w, n, c, day) == [Ask(op, k, w, n) EXCEPT !.code = c, !.expires = day]
OfLot(op, k, w, n, c) == [Ask(op, k, w, n) EXCEPT !.lot = c]

\* Goods that expire today received, moved, counted and thrown away; a count and
\* a classification of the other warehouse race; keys are used twice.
MCRequests ==
    { NewLot("RECEIPT", k1, w1, 2, A, 0), NewLot("CLASSIFY", k2, w2, 1, A, Never),
      NewLot("RECEIPT", k2, w2, 1, A, 0),
      Ask("IN", k1, w1, 1), Ask("OUT", k1, w1, 1),
      [Ask("TRANSFER", k1, w1, 1) EXCEPT !.to = w2],
      OfLot("WASTE", k2, w1, 1, A),
      [OfLot("COUNT", k2, w1, 1, A) EXCEPT !.expected = 2],
      [Ask("COUNT", k1, w2, 2) EXCEPT !.expected = 1] }
=============================================================================
