------------------------------- MODULE Waiting -------------------------------
(* Circles of waits: what PostgreSQL's deadlock detector looks for.         *)
EXTENDS Integers, FiniteSets

\* Those from whom a path of waits leads back to themselves; waits[p] is the
\* set of processes that p waits for.
InACircle(waits) ==
    LET procs == {p \in DOMAIN waits : waits[p] # {}}
    IN  {p \in procs : \E n \in 1..Cardinality(procs) : \E path \in [0..n -> procs] :
            /\ path[0] = p /\ path[n] = p
            /\ \A m \in 0..(n - 1) : path[m + 1] \in waits[path[m]]}
=============================================================================
