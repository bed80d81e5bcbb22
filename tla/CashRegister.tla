---------------------------- MODULE CashRegister ----------------------------
(***************************************************************************)
(* cash.service.ts under concurrent requests.  A process runs one request  *)
(* at a time inside a READ COMMITTED transaction: what it reads without a  *)
(* lock may be stale when it is used, what it reads of a till after        *)
(* SELECT ... FOR UPDATE stays true until the transaction ends.  Each      *)
(* action is one statement, or a run of statements no other transaction    *)
(* can tell apart.  The hooks are the transactions of sales, supplier      *)
(* payments and refunds seen from the till they touch.                     *)
(***************************************************************************)
EXTENDS CashBook, FiniteSets

CONSTANTS Registers,   \* ids of cash_registers rows
          Terminals,   \* points of sale
          Known,       \* those that the organization has
          Keys,        \* idempotency keys
          Procs,       \* server transactions running at once
          Amounts,     \* amounts of money
          Requests,    \* the requests clients send, and send again
          None

ManualTypes == {"CASH_IN", "CASH_OUT", "EXPENSE"}
HookTypes == {"SALE_PAYMENT", "PAYABLE_PAYMENT", "SALE_REFUND"}

Request == [type : {"open"} \cup HookTypes, key : Keys, at : Terminals, amount : Amounts]
           \cup [type : {"close"} \cup ManualTypes, key : Keys, at : Registers, amount : Amounts]

ASSUME AmountsAssumption == Amounts \subseteq Nat
ASSUME KnownAssumption == Known \subseteq Terminals
ASSUME RequestsAssumption == Requests \subseteq Request
ASSUME NoneAssumption == None \notin Procs \cup Registers \cup Terminals \cup Keys \cup Requests

VARIABLES register,    \* cash_registers, by id
          movements,   \* cash_movements; an EXPENSE row stands for its Expense too
          lock,        \* holder of the row lock of a till
          pc, req, reg, seen, ans    \* per process: step, request, till, balance read, answer

rows == <<register, movements>>
vars == <<register, movements, lock, pc, req, reg, seen, ans>>

NoTill == [status |-> "NONE", terminal |-> None, opening |-> 0, openKey |-> None,
           closeKey |-> None, counted |-> 0, expected |-> 0]

Init ==
    /\ register = [r \in Registers |-> NoTill]
    /\ movements = {}
    /\ lock = [r \in Registers |-> None]
    /\ pc = [p \in Procs |-> "idle"]
    /\ req = [p \in Procs |-> None]
    /\ reg = [p \in Procs |-> None]
    /\ seen = [p \in Procs |-> 0]
    /\ ans = [p \in Procs |-> "none"]

-----------------------------------------------------------------------------
(* Reads.                                                                  *)

OpenedWith(k) == {r \in Registers : register[r].openKey = k}

OpenAt(t) == {r \in Registers : register[r].status = "OPEN" /\ register[r].terminal = t}

\* FAULT: without the partial index only the key is unique
MayInsertTillNoIndex(k, t) == OpenedWith(k) = {} /\ t = t

\* UNIQUE (openingIdempotencyKey), and one OPEN row per terminal (partial index)
MayInsertTill(k, t) == OpenedWith(k) = {} /\ OpenAt(t) = {}

\* expenses have a key column of their own, apart from that of cash_movements
RowsWithKey(k, isExpense) ==
    {m \in movements : m.key = k /\ (m.type = "EXPENSE") = isExpense}

Balance(r) == ComputeBalance(register[r].opening, RowsOf(r, movements))

\* FAULT: the type is left out of assertMatches
SameDataAnyType(m, q) == m.reg = q.at /\ m.amount = q.amount

SameData(m, q) == m.reg = q.at /\ m.type = q.type /\ m.amount = q.amount

\* FAULT: the till is read without FOR UPDATE
TillIsFreeNoLock(r) == r \in Registers

TillIsFree(r) == lock[r] = None

-----------------------------------------------------------------------------
(* How a transaction ends.                                                 *)

Answer(p, a) == /\ pc' = [pc EXCEPT ![p] = "done"]
                /\ ans' = [ans EXCEPT ![p] = a]

\* FAULT: the lock outlives its transaction
UnlockNothing(p) == lock' = lock /\ p = p

Unlock(p) == lock' = [r \in Registers |-> IF lock[r] = p THEN None ELSE lock[r]]

GoTo(p, step) == pc' = [pc EXCEPT ![p] = step] /\ UNCHANGED ans

-----------------------------------------------------------------------------
(* A client sends a request, for the first time or again.                  *)

FirstStep(type) == CASE type \in HookTypes -> "find"
                     [] type = "close" -> "lock"
                     [] OTHER -> "lookup"

Begin(p, q) ==
    /\ pc[p] = "idle"
    /\ pc' = [pc EXCEPT ![p] = FirstStep(q.type)]
    /\ req' = [req EXCEPT ![p] = q]
    /\ reg' = [reg EXCEPT ![p] = IF q.at \in Registers THEN q.at ELSE None]
    /\ UNCHANGED <<rows, lock, seen, ans>>

\* The answer goes out, or is lost on the way.
Finish(p) ==
    /\ pc[p] = "done"
    /\ pc' = [pc EXCEPT ![p] = "idle"]
    /\ req' = [req EXCEPT ![p] = None]
    /\ reg' = [reg EXCEPT ![p] = None]
    /\ seen' = [seen EXCEPT ![p] = 0]
    /\ ans' = [ans EXCEPT ![p] = "none"]
    /\ UNCHANGED <<rows, lock>>

\* The process dies or its transaction times out: everything it did is undone.
Abort(p) ==
    /\ pc[p] \notin {"idle", "done"}
    /\ pc' = [pc EXCEPT ![p] = "idle"]
    /\ req' = [req EXCEPT ![p] = None]
    /\ reg' = [reg EXCEPT ![p] = None]
    /\ seen' = [seen EXCEPT ![p] = 0]
    /\ Unlock(p)
    /\ UNCHANGED <<rows, ans>>

-----------------------------------------------------------------------------
(* open: look the key up, then the terminal, insert, and on P2002 look the *)
(* key up again.                                                           *)

OpenLookup(p) ==
    /\ pc[p] = "lookup" /\ req[p].type = "open"
    /\ \/ \E r \in OpenedWith(req[p].key) : /\ reg' = [reg EXCEPT ![p] = r]
                                            /\ Answer(p, "ok")
       \/ /\ OpenedWith(req[p].key) = {}
          /\ GoTo(p, "write")
          /\ UNCHANGED reg
    /\ UNCHANGED <<rows, lock, req, seen>>

OpenedBy(q) == [status |-> "OPEN", terminal |-> q.at, opening |-> q.amount,
                openKey |-> q.key, closeKey |-> None, counted |-> 0, expected |-> 0]

OpenNowhere(p) ==
    /\ pc[p] = "write" /\ req[p].type = "open"
    /\ req[p].at \notin Known
    /\ Answer(p, "refused")
    /\ UNCHANGED <<rows, lock, req, reg, seen>>

OpenInsert(p) ==
    /\ pc[p] = "write" /\ req[p].type = "open"
    /\ req[p].at \in Known
    /\ MayInsertTill(req[p].key, req[p].at)
    /\ \E r \in Registers :
          /\ register[r].status = "NONE"
          /\ register' = [register EXCEPT ![r] = OpenedBy(req[p])]
          /\ reg' = [reg EXCEPT ![p] = r]
    /\ Answer(p, "ok")
    /\ UNCHANGED <<movements, lock, req, seen>>

OpenConflict(p) ==
    /\ pc[p] = "write" /\ req[p].type = "open"
    /\ req[p].at \in Known /\ ~MayInsertTill(req[p].key, req[p].at)
    /\ GoTo(p, "resolve")
    /\ UNCHANGED <<rows, lock, req, reg, seen>>

OpenResolve(p) ==
    /\ pc[p] = "resolve" /\ req[p].type = "open"
    /\ \/ \E r \in OpenedWith(req[p].key) : /\ reg' = [reg EXCEPT ![p] = r]
                                            /\ Answer(p, "ok")
       \/ /\ OpenedWith(req[p].key) = {}
          /\ Answer(p, "conflict")
          /\ UNCHANGED reg
    /\ UNCHANGED <<rows, lock, req, seen>>

-----------------------------------------------------------------------------
(* registerMovement and registerExpense: key, lock, checks, insert.        *)

IsExpense(p) == req[p].type = "EXPENSE"

\* assertMatches: the row found by key must say what the request says
Replay(p, row) == Answer(p, IF SameData(row, req[p]) THEN "ok" ELSE "conflict")

LookupRow(p) ==
    /\ pc[p] = "lookup"
    /\ LET found == RowsWithKey(req[p].key, IsExpense(p))
       IN  \/ \E row \in found : Replay(p, row)
           \/ found = {} /\ GoTo(p, "lock")
    /\ UNCHANGED <<rows, lock, req, reg, seen>>

\* What the handler decides on the locked row: "go" or the error it throws.
ManualVerdict(r, q) ==
    CASE register[r].status = "NONE" -> "missing"
      [] register[r].status = "CLOSED" -> "conflict"
      [] OTHER -> IF q.type \in DecreaseTypes /\ q.amount > Balance(r)
                  THEN "refused" ELSE "go"

LockRow(p, verdict) ==
    /\ pc[p] = "lock"
    /\ TillIsFree(reg[p])
    /\ IF verdict = "go"
       THEN lock' = [lock EXCEPT ![reg[p]] = p] /\ GoTo(p, "write")
       ELSE Answer(p, verdict) /\ UNCHANGED lock
    /\ UNCHANGED <<rows, req, reg, seen>>

RowOf(p) == [key |-> req[p].key, reg |-> reg[p], type |-> req[p].type,
             amount |-> req[p].amount]

\* The INSERT and the commit, or P2002 and the rollback.
WriteRow(p, onConflict) ==
    /\ pc[p] = "write"
    /\ Unlock(p)
    /\ \/ /\ RowsWithKey(req[p].key, IsExpense(p)) = {}
          /\ movements' = movements \cup {RowOf(p)}
          /\ Answer(p, "ok")
       \/ /\ RowsWithKey(req[p].key, IsExpense(p)) # {}
          /\ onConflict
          /\ UNCHANGED movements
    /\ UNCHANGED <<register, req, reg, seen>>

ResolveRow(p) ==
    /\ pc[p] = "resolve"
    /\ \E row \in RowsWithKey(req[p].key, IsExpense(p)) : Replay(p, row)
    /\ UNCHANGED <<rows, lock, req, reg, seen>>

RegisterMovement(p) ==
    /\ req[p] # None /\ req[p].type \in {"CASH_IN", "CASH_OUT"}
    /\ \/ LookupRow(p)
       \/ LockRow(p, ManualVerdict(reg[p], req[p]))
       \/ WriteRow(p, GoTo(p, "resolve"))
       \/ ResolveRow(p)

RegisterExpense(p) ==
    /\ req[p] # None /\ req[p].type = "EXPENSE"
    /\ \/ LookupRow(p)
       \/ LockRow(p, ManualVerdict(reg[p], req[p]))
       \/ WriteRow(p, GoTo(p, "resolve"))
       \/ ResolveRow(p)

-----------------------------------------------------------------------------
(* close: the balance is read and frozen under the lock of the till.       *)

CloseVerdict(r, q) ==
    CASE register[r].status = "NONE" -> "missing"
      [] register[r].status = "OPEN" -> "go"
      [] OTHER -> IF register[r].closeKey = q.key THEN "ok" ELSE "conflict"

CloseLock(p) ==
    /\ pc[p] = "lock" /\ req[p].type = "close"
    /\ TillIsFree(reg[p])
    /\ LET verdict == CloseVerdict(reg[p], req[p])
       IN  IF verdict = "go"
           THEN /\ lock' = [lock EXCEPT ![reg[p]] = p]
                /\ seen' = [seen EXCEPT ![p] = Balance(reg[p])]
                /\ GoTo(p, "write")
           ELSE Answer(p, verdict) /\ UNCHANGED <<lock, seen>>
    /\ UNCHANGED <<rows, req, reg>>

ClosedBy(till, q, balance) ==
    [status |-> "CLOSED", terminal |-> till.terminal, opening |-> till.opening,
     openKey |-> till.openKey, closeKey |-> q.key, counted |-> q.amount,
     expected |-> balance]

CloseWrite(p) ==
    /\ pc[p] = "write" /\ req[p].type = "close"
    /\ register' = [register EXCEPT ![reg[p]] = ClosedBy(@, req[p], seen[p])]
    /\ Unlock(p)
    /\ Answer(p, "ok")
    /\ UNCHANGED <<movements, req, reg, seen>>

-----------------------------------------------------------------------------
(* The hooks other services call inside their own transaction.             *)

\* findFirst reads the last committed rows and takes no lock
HookFind(p) ==
    /\ pc[p] = "find"
    /\ \/ \E r \in OpenAt(req[p].at) : /\ reg' = [reg EXCEPT ![p] = r]
                                       /\ GoTo(p, "lock")
       \/ /\ OpenAt(req[p].at) = {}
          /\ Answer(p, "skipped")
          /\ UNCHANGED reg
    /\ UNCHANGED <<rows, lock, req, seen>>

\* FAULT: the till found open is not looked at again under its lock
SalePaymentVerdictStale(r, q) == IF r \in Registers THEN "go" ELSE q.type

\* A sale's cash is always taken in.
SalePaymentVerdict(r, q) ==
    IF register[r].status = "OPEN" THEN "go" ELSE "skipped"

\* A supplier is not paid with money the till does not hold: BadRequest.
PayablePaymentVerdict(r, q) ==
    CASE register[r].status # "OPEN" -> "skipped"
      [] q.amount > Balance(r) -> "refused"
      [] OTHER -> "go"

\* FAULT: the refund leaves the till whatever it holds
SaleRefundVerdictUnchecked(r, q) ==
    IF register[r].status = "OPEN" /\ q.amount >= 0 THEN "go" ELSE "skipped"

\* A refund goes through even when the till cannot pay it out: no movement.
SaleRefundVerdict(r, q) ==
    IF register[r].status = "OPEN" /\ q.amount <= Balance(r) THEN "go" ELSE "skipped"

HookVerdict(r, q) == CASE q.type = "SALE_PAYMENT" -> SalePaymentVerdict(r, q)
                       [] q.type = "PAYABLE_PAYMENT" -> PayablePaymentVerdict(r, q)
                       [] OTHER -> SaleRefundVerdict(r, q)

\* P2002 in a hook undoes the caller's whole transaction.
Hook(p) ==
    /\ req[p] # None /\ req[p].type \in HookTypes
    /\ \/ HookFind(p)
       \/ LockRow(p, HookVerdict(reg[p], req[p]))
       \/ WriteRow(p, Answer(p, "undone"))

-----------------------------------------------------------------------------
OpenRegister(p) == req[p] # None /\ (\/ OpenLookup(p) \/ OpenNowhere(p) \/ OpenInsert(p)
                                     \/ OpenConflict(p) \/ OpenResolve(p))

CloseRegister(p) == req[p] # None /\ (CloseLock(p) \/ CloseWrite(p))

Step(p) == \/ OpenRegister(p) \/ CloseRegister(p) \/ RegisterMovement(p)
           \/ RegisterExpense(p) \/ Hook(p)

Next == \E p \in Procs : \/ \E q \in Requests : Begin(p, q)
                         \/ Step(p)
                         \/ Finish(p)
                         \/ Abort(p)

Spec == Init /\ [][Next]_vars

(* PostgreSQL queues the transactions waiting for a row lock, so one that  *)
(* waits is not overtaken for ever; a server that is up runs its steps.    *)
(* Nobody is obliged to send a request, and a transaction may always fail. *)
Fairness == \A p \in Procs : SF_vars(Step(p)) /\ WF_vars(Finish(p))

-----------------------------------------------------------------------------
(* Properties.                                                             *)

Till == [status : {"NONE", "OPEN", "CLOSED"}, terminal : Terminals \cup {None},
         opening : Amounts \cup {0}, openKey : Keys \cup {None},
         closeKey : Keys \cup {None}, counted : Amounts \cup {0}, expected : Int]

Row == [key : Keys, reg : Registers, type : ManualTypes \cup HookTypes, amount : Amounts]

Steps == {"idle", "lookup", "find", "lock", "write", "resolve", "done"}
Answers == {"none", "ok", "conflict", "refused", "missing", "skipped", "undone"}

\* Every variable has its type, and whoever is about to lock or write a row
\* of a till has found one: no hook goes on without an open till.
TypeOK ==
    /\ register \in [Registers -> Till]
    /\ movements \subseteq Row
    /\ lock \in [Registers -> Procs \cup {None}]
    /\ pc \in [Procs -> Steps]
    /\ req \in [Procs -> Requests \cup {None}]
    /\ reg \in [Procs -> Registers \cup {None}]
    /\ seen \in [Procs -> Int]
    /\ ans \in [Procs -> Answers]
    /\ \A p \in Procs : /\ pc[p] # "idle" => req[p] # None
                        /\ pc[p] = "lock" => reg[p] # None

\* At most one till is open at a terminal at any moment, whatever requests
\* race to open one (cash_registers_one_open_per_terminal).
OneOpenPerTerminal ==
    \A r, q \in Registers :
        register[r].status = "OPEN" /\ register[q].status = "OPEN"
        /\ register[r].terminal = register[q].terminal => r = q

\* However the requests of several cashiers interleave, no terminal has two open
\* tills, and none of them writes to a till it did not find (open, and the hooks
\* that look for the till of a terminal).
TillsOK == TypeOK /\ OneOpenPerTerminal

\* The amount a closed till was counted against is the sum of all its
\* movements: no payment, refund or expense slips in after the close, and
\* none committed before it is missed.
ClosedTillsReconcile ==
    \A r \in Registers :
        register[r].status = "CLOSED" => register[r].expected = Balance(r)

\* More never leaves a till than it holds, though the balance that was
\* checked and the row that is inserted belong to different statements.
NoOverdraft == \A r \in Registers : Balance(r) >= 0

\* What may be asked under a key: close and open do not look further than the key.
Meanings(q) == {other \in Requests : other.type = q.type /\ other.key = q.key}

\* A client told "ok" has what it asked for on record, with the data it sent and not
\* somebody else's under its key.  Of an opening or a close, which are recognised by
\* their key alone, it has the data of a request under that key: its own, whenever
\* nobody used the key with other data (open, close, registerMovement, registerExpense).
AnswersAreTrue ==
    \A p \in Procs : pc[p] = "done" /\ ans[p] = "ok" =>
        LET q == req[p]
            till == register[reg[p]]
        IN  CASE q.type = "open" ->
                   /\ till.openKey = q.key
                   /\ \E asked \in Meanings(q) :
                         till.terminal = asked.at /\ till.opening = asked.amount
              [] q.type = "close" ->
                   /\ till.closeKey = q.key /\ till.status = "CLOSED" /\ reg[p] = q.at
                   /\ \E asked \in Meanings(q) : asked.at = q.at /\ till.counted = asked.amount
              [] OTHER -> \E m \in RowsWithKey(q.key, IsExpense(p)) :
                             m.type = q.type /\ m.amount = q.amount /\ m.reg = reg[p]

\* Every transaction that starts comes to an answer, or is aborted.
EveryRequestEnds == \A p \in Procs : pc[p] # "idle" ~> pc[p] \in {"idle", "done"}

\* The tills keep the promise of CashLedger: the drawer holds the balance.
Drawer == [r \in Registers |->
              [status |-> register[r].status, terminal |-> register[r].terminal,
               cash |-> Balance(r), expected |-> register[r].expected]]

Ledger == INSTANCE CashLedger WITH drawer <- Drawer

KeepsTheLedger == Ledger!Spec
=============================================================================
