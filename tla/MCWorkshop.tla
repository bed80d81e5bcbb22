----------------------------- MODULE MCWorkshop -----------------------------
(* Small instances of Workshop: what is planned, and what is carried out. *)
EXTENDS Workshop, TLC

CONSTANTS ana, bea, leo, k1, k2, k3

flour == 1
salt == 2
dough == 3

BothOrders == {<<salt, flour>>, <<flour, salt>>}
Perms == Permutations(Calls)

\* The stock lasts for one run.
AtFirst == [p \in {flour, salt, dough} |-> IF p = dough THEN 0 ELSE 1]

\* Each behaviour is one of three scenes.  "desk": a cook who publishes and plans
\* beside a baker who creates.  "bench": a baker with a batch to carry out.
\* "floor": two cooks before two runs, planned from two versions of the recipe that
\* list it in another order.
VARIABLE scene

Calling == {c \in Calls : call[c].req # None}
Untouched(k) == job[k] = None /\ ~Published(k) /\ Fresh(k)

InDesk ==
    /\ scene = "desk"
    /\ \A c \in Calling : call[c].req.op # "act" /\ call[c].by # bea
    /\ Untouched(k3) /\ page[bea].revision = 1

InBench ==
    /\ scene = "bench"
    /\ \A c \in Calling :
        call[c].by = leo /\ (call[c].req.op = "act" => call[c].req.status = "READY" \/ call[c].req.data = 1)
    /\ Untouched(k3) /\ Untouched(k2)
    /\ \A u \in Cooks : \A k \in Keys : page[u].seen[k] = -1

InFloor ==
    /\ scene = "floor"
    /\ \A c \in Calling :
        LET r == call[c].req
        IN  /\ r.op = "act"
            /\ r.status = "READY" \/ r.data = 1
            /\ r.key = k2 => r.status = "PREPARING"
    /\ page[leo].seen = [k \in Keys |-> -1]

Planned ==
    /\ published = <<[key |-> None, on |-> 0, inputs |-> <<salt, flour>>],
                     [key |-> k3, on |-> 1, inputs |-> <<flour, salt>>]>>
    /\ job = [k \in Keys |->
                IF k = k3 THEN None
                ELSE [kind |-> "run", done |-> <<>>,
                      inputs |-> IF k = k1 THEN <<salt, flour>> ELSE <<flour, salt>>]]
    /\ stock = Stock0
    /\ call = [c \in Calls |-> NoCall]
    /\ page = [u \in Users |->
                [attempt |-> None, waits |-> FALSE, notice |-> None,
                 revision |-> IF u \in Cooks THEN 2 ELSE 1,
                 seen |-> [k \in Keys |-> IF u \in Cooks /\ k # k3 THEN 0 ELSE -1]]]

MCInit == \/ scene \in {"desk", "bench"} /\ Init
          \/ scene = "floor" /\ Planned

MCSpec == MCInit /\ [][Next /\ scene' = scene /\ (InDesk' \/ InBench' \/ InFloor')]_<<vars, scene>>
=============================================================================
