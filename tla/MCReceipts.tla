------------------------------ MODULE MCReceipts ------------------------------
(* A small instance of Receipts. *)
EXTENDS Receipts, TLC

Perms == Permutations(Procs)
=============================================================================
