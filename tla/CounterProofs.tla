--------------------------- MODULE CounterProofs ----------------------------
(***************************************************************************)
(* The safety of CashRegister, for any number of tills, terminals, keys,   *)
(* transactions and requests, and any amounts, and then of Counter, for    *)
(* any number of pages, guests and calls.  The two share no name.          *)
(*                                                                         *)
(* The former's are not inductive alone: that the books stay right rests   *)
(* on what a transaction knows once it holds a till.  Sound adds it: who   *)
(* is about to write holds the lock of its till, the till is open, and the *)
(* balance checked or read is still the balance.                           *)
(***************************************************************************)
EXTENDS CashRegister, Counter, FiniteTheorems

\* Where in its work a transaction is, by what it was asked.
Stages ==
    \A p \in Procs :
        /\ pc[p] \in {"lookup", "resolve"} => req[p].type \in ManualTypes \cup {"open"}
        /\ pc[p] = "find" => req[p].type \in HookTypes
        /\ pc[p] = "lock" => req[p].type # "open"
        /\ pc[p] \in {"lock", "write"} /\ req[p].type # "open" => reg[p] \in Registers
        /\ pc[p] = "done" /\ ans[p] = "ok" => reg[p] \in Registers
        /\ pc[p] # "idle" /\ req[p].type \in ManualTypes \cup {"close"} => reg[p] = req[p].at

\* Rows are finitely many and belong to tills that exist.
OnRecord ==
    /\ IsFiniteSet(movements)
    /\ \A m \in movements : register[m.reg].status # "NONE"
    /\ \A r \in Registers : register[r].status = "NONE" => register[r] = NoTill

\* Whoever is about to write a row of a till, or to close it, holds its lock,
\* and the till is open.
Holds ==
    \A p \in Procs : pc[p] = "write" /\ req[p].type # "open" =>
        lock[reg[p]] = p /\ register[reg[p]].status = "OPEN"

\* What it read of the balance is still the balance.
Knows ==
    \A p \in Procs : pc[p] = "write" =>
        /\ req[p].type \in DecreaseTypes => req[p].amount <= Balance(reg[p])
        /\ req[p].type = "close" => seen[p] = Balance(reg[p])

\* A till is as somebody asked when opening it, and so is its count as asked by who
\* closed it.
AsAsked ==
    \A r \in Registers :
        /\ register[r].status # "NONE" =>
              \E q \in Requests : /\ q.type = "open" /\ q.key = register[r].openKey
                                 /\ q.at = register[r].terminal
                                 /\ q.amount = register[r].opening
        /\ register[r].status = "CLOSED" =>
              \E q \in Requests : /\ q.type = "close" /\ q.key = register[r].closeKey
                                 /\ q.at = r /\ q.amount = register[r].counted

\* An answer "ok" names a till, or a row, with the key of its request.
Answered ==
    \A p \in Procs : pc[p] = "done" /\ ans[p] = "ok" =>
        LET q == req[p]
            till == register[reg[p]]
        IN  CASE q.type = "open" -> till.openKey = q.key
              [] q.type = "close" -> till.closeKey = q.key /\ till.status = "CLOSED"
              [] OTHER -> \E m \in RowsWithKey(q.key, IsExpense(p)) :
                             m.type = q.type /\ m.amount = q.amount /\ m.reg = reg[p]

Sound == TypeOK /\ Stages /\ OnRecord /\ Holds

Books == /\ Knows /\ ClosedTillsReconcile /\ NoOverdraft
         /\ OneOpenPerTerminal /\ AsAsked /\ Answered

IInv == Sound /\ Books

-----------------------------------------------------------------------------
(* Facts about the data.                                                   *)

\* A request names its till or its terminal, by its type.
LEMMA RequestFields ==
    ASSUME NEW q \in Requests
    PROVE  /\ q \in Request /\ q # None
           /\ q.key \in Keys /\ q.key # None /\ q.amount \in Amounts /\ q.amount \in Nat
           /\ q.type \in {"open", "close"} \cup ManualTypes \cup HookTypes
           /\ q.type \in {"close"} \cup ManualTypes => q.at \in Registers
           /\ q.type \in {"open"} \cup HookTypes => q.at \in Terminals
BY RequestsAssumption, NoneAssumption, AmountsAssumption DEF Request, ManualTypes, HookTypes

\* The row of a till as opening and closing leave it.
LEMMA OpenedTill ==
    ASSUME NEW q \in Requests, q.type = "open"
    PROVE  /\ OpenedBy(q) \in Till
           /\ OpenedBy(q).status = "OPEN"
           /\ OpenedBy(q).terminal = q.at
           /\ OpenedBy(q).opening = q.amount
           /\ OpenedBy(q).openKey = q.key
<1>1. q.at \in Terminals /\ q.amount \in Amounts /\ q.key \in Keys
  BY RequestFields
<1>2. QED  BY <1>1 DEF OpenedBy, Till

LEMMA ClosedTill ==
    ASSUME NEW till \in Till, NEW q \in Requests, NEW balance \in Int
    PROVE  /\ ClosedBy(till, q, balance) \in Till
           /\ ClosedBy(till, q, balance).status = "CLOSED"
           /\ ClosedBy(till, q, balance).terminal = till.terminal
           /\ ClosedBy(till, q, balance).opening = till.opening
           /\ ClosedBy(till, q, balance).openKey = till.openKey
           /\ ClosedBy(till, q, balance).closeKey = q.key
           /\ ClosedBy(till, q, balance).counted = q.amount
           /\ ClosedBy(till, q, balance).expected = balance
<1>1. q.amount \in Amounts /\ q.key \in Keys
  BY RequestFields
<1>2. QED  BY <1>1 DEF ClosedBy, Till

LEMMA SignedInt ==
    ASSUME NEW m \in Row
    PROVE  Signed(m) \in Int /\ m.amount \in Nat
<1>1. m.amount \in Nat
  BY AmountsAssumption DEF Row
<1>2. QED  BY <1>1 DEF Signed

LEMMA RowsOfTill ==
    ASSUME Sound, NEW r
    PROVE  IsFiniteSet(RowsOf(r, movements)) /\ RowsOf(r, movements) \subseteq Row
BY FS_Subset DEF Sound, OnRecord, TypeOK, RowsOf

LEMMA OpeningNat ==
    ASSUME Sound, NEW r \in Registers
    PROVE  register[r].opening \in Nat
<1>1. register[r].opening \in Amounts \cup {0}
  BY DEF Sound, TypeOK, Till
<1>2. Amounts \cup {0} \subseteq Nat
  BY AmountsAssumption
<1>3. QED  BY <1>1, <1>2

\* The balance of a till is a number.
LEMMA BalanceInt ==
    ASSUME Sound, NEW r \in Registers
    PROVE  Balance(r) \in Int
<1> DEFINE rows_r == RowsOf(r, movements)
           g == [m \in rows_r |-> Signed(m)]
<1>1. IsFiniteSet(rows_r)
  BY RowsOfTill
<1>2. \A m \in rows_r : g[m] \in Int
  BY RowsOfTill, SignedInt
<1>3. SumFunction(g) \in Int
  <2>1. DOMAIN g = rows_r
    OBVIOUS
  <2> HIDE DEF g, rows_r
  <2>2. QED  BY <1>1, <1>2, <2>1, SumInt DEF SumFunction
<1>4. register[r].opening \in Int
  BY OpeningNat
<1>5. QED  BY <1>3, <1>4 DEF Balance, ComputeBalance

\* A new row changes the balance of its till by its signed amount.
LEMMA BalanceAdd ==
    ASSUME Sound, NEW row \in Row, row \notin movements,
           movements' = movements \cup {row}, register' = register,
           NEW r \in Registers
    PROVE  Balance(r)' = IF row.reg = r THEN Balance(r) + Signed(row) ELSE Balance(r)
<1> DEFINE old == RowsOf(r, movements)
           g == [m \in old |-> Signed(m)]
<1>1. CASE row.reg # r
  <2>1. RowsOf(r, movements') = old
    BY <1>1 DEF RowsOf
  <2>2. QED  BY <1>1, <2>1 DEF Balance
<1>2. CASE row.reg = r
  <2> DEFINE new == old \cup {row}
             h == [m \in new |-> Signed(m)]
  <2>1. RowsOf(r, movements') = new
    BY <1>2 DEF RowsOf
  <2>2. IsFiniteSet(old) /\ row \notin old
    BY RowsOfTill DEF RowsOf
  <2>3. \A m \in new : h[m] \in Int
    BY RowsOfTill, SignedInt
  <2>4. SumFunctionOnSet(h, new) = h[row] + SumFunctionOnSet(h, old)
    <3> HIDE DEF h, old
    <3>1. QED  BY <2>2, <2>3, SumAdd
  <2>5. SumFunctionOnSet(h, old) = SumFunctionOnSet(g, old)
    <3>1. \A m \in old : h[m] = g[m]
      OBVIOUS
    <3> HIDE DEF h, g, old
    <3>2. QED  BY <2>2, <3>1, SumSame
  <2>6. SumFunctionOnSet(g, old) \in Int
    <3>1. \A m \in old : g[m] \in Int
      BY RowsOfTill, SignedInt
    <3> HIDE DEF g, old
    <3>2. QED  BY <2>2, <3>1, SumInt
  <2>7. /\ SumFunction(h) = SumFunctionOnSet(h, new)
        /\ SumFunction(g) = SumFunctionOnSet(g, old)
        /\ h[row] = Signed(row) /\ Signed(row) \in Int
    BY <2>3 DEF SumFunction
  <2>8. register[r].opening \in Int
    BY OpeningNat
  <2>9. /\ Balance(r)' = register[r].opening + SumFunction(h)
        /\ Balance(r) = register[r].opening + SumFunction(g)
    BY <2>1 DEF Balance, ComputeBalance
  <2> HIDE DEF g, h, new, old
  <2>10. QED  BY <1>2, <2>4, <2>5, <2>6, <2>7, <2>8, <2>9
<1>3. QED  BY <1>1, <1>2

-----------------------------------------------------------------------------
(* Steps.                                                                  *)

\* The steps of one request of each kind.
Opening(p) == req[p] # None /\ req[p].type = "open"
Closing(p) == req[p] # None /\ req[p].type = "close"
Manual(p) == req[p] # None /\ req[p].type \in ManualTypes
Hooking(p) == req[p] # None /\ req[p].type \in HookTypes

\* A till is taken for a row, or the verdict on it is an answer.
Takes(p) ==
    /\ Manual(p) \/ Hooking(p)
    /\ pc[p] = "lock" /\ TillIsFree(reg[p])
    /\ register[reg[p]].status = "OPEN"
    /\ req[p].type \in DecreaseTypes => req[p].amount <= Balance(reg[p])
    /\ lock' = [lock EXCEPT ![reg[p]] = p]
    /\ GoTo(p, "write")
    /\ UNCHANGED <<rows, req, reg, seen>>

Denied(p) ==
    /\ \/ (Manual(p) \/ Hooking(p)) /\ pc[p] = "lock"
       \/ Opening(p) /\ pc[p] = "write"
    /\ \E a \in Answers \ {"ok"} : Answer(p, a)
    /\ UNCHANGED <<rows, lock, req, reg, seen>>

\* The row is inserted, or its key is taken.
Inserts(p) ==
    /\ Manual(p) \/ Hooking(p)
    /\ pc[p] = "write"
    /\ RowsWithKey(req[p].key, IsExpense(p)) = {}
    /\ movements' = movements \cup {RowOf(p)}
    /\ Unlock(p)
    /\ Answer(p, "ok")
    /\ UNCHANGED <<register, req, reg, seen>>

Conflicts(p) ==
    /\ pc[p] = "write"
    /\ (Manual(p) /\ GoTo(p, "resolve")) \/ (Hooking(p) /\ Answer(p, "undone"))
    /\ Unlock(p)
    /\ UNCHANGED <<rows, req, reg, seen>>

\* Each step of Next under one name.
LEMMA NextCases ==
    ASSUME Sound, Next
    PROVE  \E p \in Procs :
              \/ \E q \in Requests : Begin(p, q)
              \/ Finish(p)
              \/ Abort(p)
              \/ Opening(p) /\ OpenLookup(p)
              \/ Opening(p) /\ OpenInsert(p)
              \/ Opening(p) /\ OpenConflict(p)
              \/ Opening(p) /\ OpenResolve(p)
              \/ Closing(p) /\ CloseLock(p)
              \/ Closing(p) /\ CloseWrite(p)
              \/ Manual(p) /\ LookupRow(p)
              \/ Manual(p) /\ ResolveRow(p)
              \/ Hooking(p) /\ HookFind(p)
              \/ Takes(p)
              \/ Denied(p)
              \/ Inserts(p)
              \/ Conflicts(p)
<1>1. PICK p \in Procs :
         \/ \E q \in Requests : Begin(p, q)
         \/ Step(p) \/ Finish(p) \/ Abort(p)
  BY DEF Next
<1>2. ASSUME OpenRegister(p)
      PROVE  \/ Opening(p) /\ OpenLookup(p)
             \/ Opening(p) /\ OpenInsert(p)
             \/ Opening(p) /\ OpenConflict(p)
             \/ Opening(p) /\ OpenResolve(p)
             \/ Denied(p)
  <2>1. OpenLookup(p) \/ OpenNowhere(p) \/ OpenInsert(p) \/ OpenConflict(p) \/ OpenResolve(p)
        => req[p].type = "open"
    BY DEF OpenLookup, OpenNowhere, OpenInsert, OpenConflict, OpenResolve
  <2>2. ASSUME OpenNowhere(p) PROVE Denied(p)
    <3>1. Opening(p) /\ pc[p] = "write"
      BY <1>2, <2>2 DEF OpenNowhere, OpenRegister, Opening
    <3>2. "refused" \in Answers \ {"ok"}
      BY DEF Answers
    <3>3. QED  BY <2>2, <3>1, <3>2 DEF OpenNowhere, Denied
  <2>3. QED  BY <1>2, <2>1, <2>2 DEF OpenRegister, Opening
<1>3. ASSUME CloseRegister(p)
      PROVE  (Closing(p) /\ CloseLock(p)) \/ (Closing(p) /\ CloseWrite(p))
  <2>1. CloseLock(p) \/ CloseWrite(p) => req[p].type = "close"
    BY DEF CloseLock, CloseWrite
  <2>2. QED  BY <1>3, <2>1 DEF CloseRegister, Closing
<1>4. ASSUME Manual(p) \/ Hooking(p), NEW verdict,
             verdict = IF Manual(p) THEN ManualVerdict(reg[p], req[p])
                                    ELSE HookVerdict(reg[p], req[p]),
             LockRow(p, verdict)
      PROVE  Takes(p) \/ Denied(p)
  <2>1. /\ reg[p] \in Registers /\ Balance(reg[p]) \in Int
        /\ req[p].amount \in Nat
        /\ register[reg[p]].status \in {"NONE", "OPEN", "CLOSED"}
        /\ req[p].type \in ManualTypes \cup HookTypes
    BY <1>4, RequestFields, BalanceInt
    DEF Sound, TypeOK, Till, Stages, Manual, Hooking, LockRow, ManualTypes, HookTypes
  <2>2. CASE verdict = "go"
    <3>1. /\ register[reg[p]].status = "OPEN"
          /\ req[p].type \in DecreaseTypes => req[p].amount <= Balance(reg[p])
      BY <1>4, <2>1, <2>2
      DEF ManualVerdict, HookVerdict, SalePaymentVerdict, PayablePaymentVerdict,
          SaleRefundVerdict, DecreaseTypes, ManualTypes, HookTypes, Manual, Hooking
    <3>2. QED  BY <1>4, <2>2, <3>1 DEF LockRow, Takes
  <2>3. CASE verdict # "go"
    <3>1. verdict \in Answers \ {"ok"}
      BY <1>4, <2>3
      DEF ManualVerdict, HookVerdict, SalePaymentVerdict, PayablePaymentVerdict,
          SaleRefundVerdict, Answers
    <3>2. QED  BY <1>4, <2>3, <3>1 DEF LockRow, Denied
  <2>4. QED  BY <2>2, <2>3
<1>5. ASSUME RegisterMovement(p) \/ RegisterExpense(p)
      PROVE  \/ Manual(p) /\ LookupRow(p)
             \/ Manual(p) /\ ResolveRow(p)
             \/ Takes(p) \/ Denied(p) \/ Inserts(p) \/ Conflicts(p)
  <2>1. Manual(p)
    BY <1>5 DEF RegisterMovement, RegisterExpense, Manual, ManualTypes
  <2>2. \/ LookupRow(p) \/ ResolveRow(p)
        \/ LockRow(p, ManualVerdict(reg[p], req[p]))
        \/ WriteRow(p, GoTo(p, "resolve"))
    BY <1>5 DEF RegisterMovement, RegisterExpense
  <2>3. ASSUME WriteRow(p, GoTo(p, "resolve")) PROVE Inserts(p) \/ Conflicts(p)
    BY <2>1, <2>3 DEF WriteRow, Inserts, Conflicts, rows
  <2>4. QED  BY <1>4, <2>1, <2>2, <2>3
<1>6. ASSUME Hook(p)
      PROVE  \/ Hooking(p) /\ HookFind(p)
             \/ Takes(p) \/ Denied(p) \/ Inserts(p) \/ Conflicts(p)
  <2>1. Hooking(p) /\ ~Manual(p)
    BY <1>6 DEF Hook, Hooking, Manual, ManualTypes, HookTypes
  <2>2. \/ HookFind(p)
        \/ LockRow(p, HookVerdict(reg[p], req[p]))
        \/ WriteRow(p, Answer(p, "undone"))
    BY <1>6 DEF Hook
  <2>3. ASSUME WriteRow(p, Answer(p, "undone")) PROVE Inserts(p) \/ Conflicts(p)
    BY <2>1, <2>3 DEF WriteRow, Inserts, Conflicts, rows
  <2>4. QED  BY <1>4, <2>1, <2>2, <2>3
<1>7. QED  BY <1>1, <1>2, <1>3, <1>5, <1>6 DEF Step


\* Types, stages and the record are kept by every step.
LEMMA SoundStep ==
    ASSUME Sound, [Next]_vars
    PROVE  Sound'
<1> USE DEF Sound
<1>1. CASE UNCHANGED vars
  BY <1>1 DEF vars, rows, TypeOK, Stages, OnRecord, Holds
<1>2. CASE Next
  <2>1. PICK p \in Procs :
              \/ \E q \in Requests : Begin(p, q)
              \/ Finish(p)
              \/ Abort(p)
              \/ Opening(p) /\ OpenLookup(p)
              \/ Opening(p) /\ OpenInsert(p)
              \/ Opening(p) /\ OpenConflict(p)
              \/ Opening(p) /\ OpenResolve(p)
              \/ Closing(p) /\ CloseLock(p)
              \/ Closing(p) /\ CloseWrite(p)
              \/ Manual(p) /\ LookupRow(p)
              \/ Manual(p) /\ ResolveRow(p)
              \/ Hooking(p) /\ HookFind(p)
              \/ Takes(p)
              \/ Denied(p)
              \/ Inserts(p)
              \/ Conflicts(p)
    BY <1>2, NextCases
  <2>2. ASSUME NEW q \in Requests, Begin(p, q) PROVE Sound'
    <3>1. TypeOK'
      <4>1. /\ FirstStep(q.type) \in {"find", "lock", "lookup"}
            /\ FirstStep(q.type) = "lock" => q.at \in Registers /\ q.at # None
        BY RequestFields, NoneAssumption DEF FirstStep, HookTypes
      <4>2. q # None
        BY RequestFields
      <4>3. QED  BY <2>2, <4>1, <4>2 DEF TypeOK, Begin, Steps, rows
    <3>2. Stages'
      BY <2>2, RequestFields DEF TypeOK, Stages, Begin, FirstStep, rows, ManualTypes, HookTypes
    <3>3. OnRecord'
      BY <2>2 DEF OnRecord, Begin, rows
    <3>4. Holds'
      BY <2>2, RequestFields DEF TypeOK, Stages, Holds, FirstStep, HookTypes, Begin, rows
    <3>5. QED  BY <3>1, <3>2, <3>3, <3>4
  <2>3. CASE Finish(p)
    <3>1. TypeOK'
      BY <2>3 DEF TypeOK, Finish, Steps, Answers, rows
    <3>2. Stages'
      BY <2>3 DEF TypeOK, Stages, Finish, rows
    <3>3. OnRecord'
      BY <2>3 DEF OnRecord, Finish, rows
    <3>4. Holds'
      BY <2>3 DEF TypeOK, Stages, Holds, Finish, rows
    <3>5. QED  BY <3>1, <3>2, <3>3, <3>4
  <2>4. CASE Abort(p)
    <3>1. TypeOK'
      BY <2>4 DEF TypeOK, Abort, Unlock, Steps, rows
    <3>2. Stages'
      BY <2>4 DEF TypeOK, Stages, Abort, rows
    <3>3. OnRecord'
      BY <2>4 DEF OnRecord, Abort, rows
    <3>4. Holds'
      BY <2>4 DEF TypeOK, Stages, Holds, Abort, Unlock, rows
    <3>5. QED  BY <3>1, <3>2, <3>3, <3>4
  <2>5. CASE Opening(p) /\ OpenLookup(p)
    <3>1. TypeOK'
      BY <2>5 DEF Opening, TypeOK, OpenLookup, OpenedWith, Answer, GoTo, Steps, Answers, rows
    <3>2. Stages'
      BY <2>5 DEF Opening, TypeOK, Stages, OpenLookup, OpenedWith, Answer, GoTo, ManualTypes, rows
    <3>3. OnRecord'
      BY <2>5 DEF Opening, OnRecord, OpenLookup, rows
    <3>4. Holds'
      BY <2>5 DEF TypeOK, Stages, Holds, Opening, OpenLookup, Answer, GoTo, rows
    <3>5. QED  BY <3>1, <3>2, <3>3, <3>4
  <2>6. CASE Opening(p) /\ OpenInsert(p)
    <3>1. PICK r \in Registers :
             /\ register[r].status = "NONE"
             /\ register' = [register EXCEPT ![r] = OpenedBy(req[p])]
             /\ reg' = [reg EXCEPT ![p] = r]
      BY <2>6 DEF OpenInsert
    <3>2. req[p] \in Requests /\ req[p].type = "open"
      BY <2>6 DEF OpenInsert, Opening, TypeOK
    <3>3. OpenedBy(req[p]) \in Till /\ OpenedBy(req[p]).status = "OPEN"
      BY <3>2, OpenedTill
    <3>4. TypeOK'
      BY <2>6, <3>1, <3>2, <3>3 DEF TypeOK, OpenInsert, Answer, Steps, Answers
    <3>5. Stages'
      BY <2>6, <3>1, <3>2 DEF TypeOK, Stages, OpenInsert, Answer, ManualTypes
    <3>6. OnRecord'
      BY <2>6, <3>1, <3>3 DEF TypeOK, Row, OnRecord, OpenInsert
    <3>7. Holds'
      BY <2>6, <3>1, <3>2, <3>3 DEF TypeOK, Stages, Holds, OpenInsert, Answer
    <3>8. QED  BY <3>4, <3>5, <3>6, <3>7
  <2>7. CASE Opening(p) /\ OpenConflict(p)
    <3>1. TypeOK'
      BY <2>7 DEF TypeOK, OpenConflict, GoTo, Steps, rows
    <3>2. Stages'
      BY <2>7 DEF TypeOK, Stages, Opening, OpenConflict, GoTo, rows, ManualTypes
    <3>3. OnRecord'
      BY <2>7 DEF OnRecord, OpenConflict, rows
    <3>4. Holds'
      BY <2>7 DEF TypeOK, Stages, Holds, Opening, OpenConflict, GoTo, rows
    <3>5. QED  BY <3>1, <3>2, <3>3, <3>4
  <2>8. CASE Opening(p) /\ OpenResolve(p)
    <3>1. TypeOK'
      BY <2>8 DEF TypeOK, OpenResolve, OpenedWith, Answer, Steps, Answers, rows
    <3>2. Stages'
      BY <2>8 DEF TypeOK, Stages, Opening, OpenResolve, OpenedWith, Answer, rows, ManualTypes
    <3>3. OnRecord'
      BY <2>8 DEF OnRecord, OpenResolve, rows
    <3>4. Holds'
      BY <2>8 DEF TypeOK, Stages, Holds, Opening, OpenResolve, Answer, rows
    <3>5. QED  BY <3>1, <3>2, <3>3, <3>4
  <2>9. CASE Closing(p) /\ CloseLock(p)
    <3>1. reg[p] \in Registers /\ Balance(reg[p]) \in Int
      BY <2>9, BalanceInt DEF TypeOK, Stages, Closing, CloseLock
    <3>2. TypeOK'
      BY <2>9, <3>1 DEF TypeOK, CloseLock, CloseVerdict, Answer, GoTo, Steps, Answers, rows
    <3>3. Stages'
      BY <2>9, <3>1 DEF TypeOK, Stages, Closing, CloseLock, Answer, GoTo, rows, ManualTypes
    <3>4. OnRecord'
      BY <2>9 DEF OnRecord, CloseLock, rows
    <3>5. Holds'
      BY <2>9, <3>1, NoneAssumption DEF TypeOK, Stages, Holds, Closing, CloseLock, CloseVerdict, TillIsFree,
         Answer, GoTo, rows
    <3>6. QED  BY <3>2, <3>3, <3>4, <3>5
  <2>10. CASE Closing(p) /\ CloseWrite(p)
    <3>1. reg[p] \in Registers /\ req[p] \in Requests /\ req[p].type = "close"
      BY <2>10 DEF TypeOK, Stages, Closing, CloseWrite
    <3>2. TypeOK'
      <4>1. ClosedBy(register[reg[p]], req[p], seen[p]) \in Till
        BY <3>1, ClosedTill DEF TypeOK
      <4>2. register' \in [Registers -> Till]
        BY <2>10, <3>1, <4>1 DEF TypeOK, CloseWrite
      <4>3. QED  BY <2>10, <4>2 DEF TypeOK, CloseWrite, Unlock, Answer, Steps, Answers
    <3>3. Stages'
      BY <2>10, <3>1 DEF TypeOK, Stages, Closing, CloseWrite, Answer, ManualTypes
    <3>4. OnRecord'
      <4>1. ClosedBy(register[reg[p]], req[p], seen[p]).status = "CLOSED"
        BY <3>1, ClosedTill DEF TypeOK
      <4>2. QED  BY <2>10, <3>1, <4>1 DEF TypeOK, Row, OnRecord, CloseWrite
    <3>5. Holds'
      BY <2>10, <3>1 DEF TypeOK, Stages, Holds, Closing, CloseWrite, Unlock, Answer
    <3>6. QED  BY <3>2, <3>3, <3>4, <3>5
  <2>11. CASE Manual(p) /\ LookupRow(p)
    <3>1. reg[p] \in Registers /\ reg[p] # None
      BY <2>11, RequestFields, NoneAssumption DEF TypeOK, Stages, Manual, LookupRow
    <3>2. TypeOK'
      BY <2>11, <3>1 DEF TypeOK, LookupRow, Replay, Answer, GoTo, Steps, Answers, rows
    <3>3. Stages'
      BY <2>11, <3>1 DEF TypeOK, Stages, Manual, LookupRow, Replay, Answer, GoTo, rows,
         ManualTypes
    <3>4. OnRecord'
      BY <2>11 DEF OnRecord, LookupRow, rows
    <3>5. Holds'
      BY <2>11 DEF TypeOK, Stages, Holds, Manual, LookupRow, Replay, Answer, GoTo, rows
    <3>6. QED  BY <3>2, <3>3, <3>4, <3>5
  <2>12. CASE Manual(p) /\ ResolveRow(p)
    <3>1. reg[p] \in Registers
      BY <2>12, RequestFields DEF TypeOK, Stages, Manual, ResolveRow
    <3>2. TypeOK'
      BY <2>12 DEF TypeOK, ResolveRow, Replay, Answer, Steps, Answers, rows
    <3>3. Stages'
      BY <2>12, <3>1 DEF TypeOK, Stages, Manual, ResolveRow, Replay, Answer, rows, ManualTypes
    <3>4. OnRecord'
      BY <2>12 DEF OnRecord, ResolveRow, rows
    <3>5. Holds'
      BY <2>12 DEF TypeOK, Stages, Holds, Manual, ResolveRow, Replay, Answer, rows
    <3>6. QED  BY <3>2, <3>3, <3>4, <3>5
  <2>13. CASE Hooking(p) /\ HookFind(p)
    <3>1. TypeOK'
      BY <2>13, NoneAssumption
      DEF TypeOK, HookFind, OpenAt, Answer, GoTo, Steps, Answers, rows
    <3>2. Stages'
      BY <2>13 DEF TypeOK, Stages, Hooking, HookFind, OpenAt, Answer, GoTo, rows,
         ManualTypes, HookTypes
    <3>3. OnRecord'
      BY <2>13 DEF OnRecord, HookFind, rows
    <3>4. Holds'
      BY <2>13 DEF TypeOK, Stages, Holds, Hooking, HookFind, Answer, GoTo, rows
    <3>5. QED  BY <3>1, <3>2, <3>3, <3>4
  <2>14. CASE Takes(p)
    <3>1. reg[p] \in Registers /\ p \in Procs
      BY <2>14 DEF TypeOK, Stages, Takes, Manual, Hooking, ManualTypes, HookTypes
    <3>2. TypeOK'
      BY <2>14, <3>1 DEF TypeOK, Takes, GoTo, Steps, rows
    <3>3. Stages'
      BY <2>14, <3>1 DEF TypeOK, Stages, Takes, GoTo, rows
    <3>4. OnRecord'
      BY <2>14 DEF OnRecord, Takes, rows
    <3>5. Holds'
      BY <2>14, <3>1, NoneAssumption DEF TypeOK, Stages, Holds, Takes, TillIsFree, GoTo, rows
    <3>6. QED  BY <3>2, <3>3, <3>4, <3>5
  <2>15. CASE Denied(p)
    <3>1. TypeOK'
      BY <2>15 DEF TypeOK, Denied, Answer, Steps, rows
    <3>2. Stages'
      BY <2>15 DEF TypeOK, Stages, Denied, Answer, rows
    <3>3. OnRecord'
      BY <2>15 DEF OnRecord, Denied, rows
    <3>4. Holds'
      BY <2>15 DEF TypeOK, Stages, Holds, Denied, Answer, rows
    <3>5. QED  BY <3>1, <3>2, <3>3, <3>4
  <2>16. CASE Inserts(p)
    <3>1. reg[p] \in Registers /\ req[p] \in Requests
      BY <2>16 DEF TypeOK, Stages, Inserts, Manual, Hooking, ManualTypes, HookTypes
    <3>2. RowOf(p) \in Row /\ RowOf(p).reg = reg[p]
      BY <2>16, <3>1, RequestFields DEF RowOf, Row, Inserts, Manual, Hooking
    <3>3. TypeOK'
      BY <2>16, <3>2 DEF TypeOK, Inserts, Unlock, Answer, Steps, Answers
    <3>4. Stages'
      BY <2>16, <3>1 DEF TypeOK, Stages, Inserts, Answer
    <3>5. OnRecord'
      BY <2>16, <3>1, <3>2, FS_AddElement DEF OnRecord, Holds, Inserts, Manual, Hooking,
         ManualTypes, HookTypes
    <3>6. Holds'
      BY <2>16 DEF TypeOK, Stages, Holds, Inserts, Unlock, Answer
    <3>7. QED  BY <3>3, <3>4, <3>5, <3>6
  <2>17. CASE Conflicts(p)
    <3>1. TypeOK'
      BY <2>17 DEF TypeOK, Conflicts, Unlock, Answer, GoTo, Steps, Answers, rows
    <3>2. Stages'
      BY <2>17 DEF TypeOK, Stages, Conflicts, Answer, GoTo, Manual, ManualTypes, rows
    <3>3. OnRecord'
      BY <2>17 DEF OnRecord, Conflicts, rows
    <3>4. Holds'
      BY <2>17 DEF TypeOK, Stages, Holds, Conflicts, Unlock, Answer, GoTo, rows
    <3>5. QED  BY <3>1, <3>2, <3>3, <3>4
  <2>18. QED
    BY <2>1, <2>2, <2>3, <2>4, <2>5, <2>6, <2>7, <2>8, <2>9, <2>10, <2>11, <2>12, <2>13,
       <2>14, <2>15, <2>16, <2>17
<1>3. QED  BY <1>1, <1>2

-----------------------------------------------------------------------------
(* The books.                                                              *)

\* While no row changes, no balance does.
LEMMA BooksKept ==
    ASSUME Sound, Books, UNCHANGED rows
    PROVE  /\ \A r \in Registers : Balance(r)' = Balance(r)
           /\ ClosedTillsReconcile' /\ NoOverdraft' /\ OneOpenPerTerminal' /\ AsAsked'
<1>1. \A r : Balance(r)' = Balance(r)
  BY DEF rows, Balance
<1>2. ClosedTillsReconcile' /\ NoOverdraft' /\ OneOpenPerTerminal'
  BY <1>1 DEF Books, rows, ClosedTillsReconcile, NoOverdraft, OneOpenPerTerminal
<1>3. AsAsked'
  BY DEF Books, rows, AsAsked
<1>4. QED  BY <1>1, <1>2, <1>3

LEMMA BooksStep ==
    ASSUME Sound, Books, [Next]_vars
    PROVE  Books'
<1>1. CASE UNCHANGED vars
  <2>1. UNCHANGED rows /\ UNCHANGED <<pc, req, reg, seen, ans>>
    BY <1>1 DEF vars, rows
  <2>2. Knows'
    BY <2>1 DEF Books, Knows, Balance, rows
  <2>3. Answered'
    BY <2>1 DEF Books, Answered, RowsWithKey, IsExpense, rows
  <2>4. QED  BY <2>1, <2>2, <2>3, BooksKept DEF Books
<1>2. CASE Next
  <2>1. PICK p \in Procs :
              \/ \E q \in Requests : Begin(p, q)
              \/ Finish(p)
              \/ Abort(p)
              \/ Opening(p) /\ OpenLookup(p)
              \/ Opening(p) /\ OpenInsert(p)
              \/ Opening(p) /\ OpenConflict(p)
              \/ Opening(p) /\ OpenResolve(p)
              \/ Closing(p) /\ CloseLock(p)
              \/ Closing(p) /\ CloseWrite(p)
              \/ Manual(p) /\ LookupRow(p)
              \/ Manual(p) /\ ResolveRow(p)
              \/ Hooking(p) /\ HookFind(p)
              \/ Takes(p)
              \/ Denied(p)
              \/ Inserts(p)
              \/ Conflicts(p)
    BY <1>2, NextCases
  <2>2. ASSUME NEW q \in Requests, Begin(p, q) PROVE Books'
    <3>1. UNCHANGED rows
      BY <2>2 DEF Begin
    <3>2. Knows'
      BY <2>2, <3>1, BooksKept DEF Sound, TypeOK, Stages, Books, Knows, Begin, FirstStep, Balance, rows
    <3>3. Answered'
      BY <2>2, <3>1 DEF Sound, TypeOK, Books, Answered, Begin, FirstStep, RowsWithKey, IsExpense, rows
    <3>4. QED  BY <3>1, <3>2, <3>3, BooksKept DEF Books
  <2>3. CASE Finish(p)
    <3>1. UNCHANGED rows
      BY <2>3 DEF Finish, rows
    <3>2. Knows'
      BY <2>3, <3>1 DEF Sound, TypeOK, Books, Knows, Balance, Finish, rows
    <3>3. Answered'
      BY <2>3, <3>1 DEF Sound, TypeOK, Books, Answered, RowsWithKey, IsExpense,
         Finish, rows
    <3>4. QED  BY <3>1, <3>2, <3>3, BooksKept DEF Books
  <2>4. CASE Abort(p)
    <3>1. UNCHANGED rows
      BY <2>4 DEF Abort, rows
    <3>2. Knows'
      BY <2>4, <3>1 DEF Sound, TypeOK, Books, Knows, Balance, Abort, rows
    <3>3. Answered'
      BY <2>4, <3>1 DEF Sound, TypeOK, Books, Answered, RowsWithKey, IsExpense,
         Abort, rows
    <3>4. QED  BY <3>1, <3>2, <3>3, BooksKept DEF Books
  <2>5. CASE Opening(p) /\ OpenLookup(p)
    <3>1. UNCHANGED rows
      BY <2>5 DEF Opening, OpenLookup, Answer, GoTo, DecreaseTypes, rows
    <3>2. Knows'
      BY <2>5, <3>1 DEF Sound, TypeOK, Books, Knows, Balance, Opening, OpenLookup, Answer, GoTo, DecreaseTypes, rows
    <3>3. Answered'
      BY <2>5, <3>1 DEF Sound, TypeOK, Books, Answered, RowsWithKey, IsExpense,
         Opening, OpenLookup, OpenedWith, Answer, GoTo, rows
    <3>4. QED  BY <3>1, <3>2, <3>3, BooksKept DEF Books
  <2>6. CASE Opening(p) /\ OpenInsert(p)
    <3>1. PICK r \in Registers :
             /\ register[r].status = "NONE"
             /\ register' = [register EXCEPT ![r] = OpenedBy(req[p])]
             /\ reg' = [reg EXCEPT ![p] = r]
      BY <2>6 DEF OpenInsert
    <3>2. req[p] \in Requests /\ req[p].type = "open"
      BY <2>6 DEF Opening, Sound, TypeOK
    <3>3. /\ OpenedBy(req[p]).status = "OPEN"
          /\ OpenedBy(req[p]).terminal = req[p].at
          /\ OpenedBy(req[p]).opening = req[p].amount
          /\ OpenedBy(req[p]).openKey = req[p].key
      BY <3>2, OpenedTill
    <3>4. /\ register[r] = NoTill /\ register[r].openKey = None
          /\ register'[r] = OpenedBy(req[p])
          /\ \A x \in Registers \ {r} : register'[x] = register[x]
      BY <3>1 DEF Sound, TypeOK, OnRecord, NoTill
    <3>5. \A x \in Registers \ {r} : Balance(x)' = Balance(x)
      BY <2>6, <3>4 DEF Balance, OpenInsert
    <3>6. Balance(r)' = req[p].amount
      <4>1. RowsOf(r, movements) = {}
        BY <3>1 DEF Sound, OnRecord, RowsOf
      <4>2. Balance(r)' = req[p].amount + SumFunction([m \in {} |-> Signed(m)])
        BY <2>6, <3>3, <3>4, <4>1 DEF Balance, ComputeBalance, OpenInsert
      <4>3. SumFunction([m \in {} |-> Signed(m)]) = 0
        BY SumEmpty DEF SumFunction
      <4>4. req[p].amount \in Nat
        BY <3>2, RequestFields
      <4>5. QED  BY <4>2, <4>3, <4>4
    <3>7. Knows'
      BY <2>6, <3>1, <3>2, <3>4, <3>5
      DEF Sound, TypeOK, Stages, Holds, Books, Knows, OpenInsert, Answer, DecreaseTypes
    <3>8. ClosedTillsReconcile'
      BY <3>3, <3>4, <3>5 DEF Books, ClosedTillsReconcile
    <3>9. NoOverdraft'
      BY <3>2, <3>5, <3>6, RequestFields DEF Books, NoOverdraft
    <3>10. OneOpenPerTerminal'
      BY <2>6, <3>3, <3>4 DEF Books, OneOpenPerTerminal, OpenInsert, MayInsertTill, OpenAt
    <3>11. Answered'
      <4>1. ASSUME NEW x \in Procs \ {p}, pc'[x] = "done", ans'[x] = "ok", req'[x].type = "open"
            PROVE  register'[reg'[x]].openKey = req'[x].key
        <5>1. /\ reg'[x] = reg[x] /\ req'[x] = req[x] /\ req[x] \in Requests
              /\ reg[x] \in Registers /\ register[reg[x]].openKey = req[x].key
          BY <2>6, <3>1, <4>1
          DEF Sound, TypeOK, Stages, Books, Answered, OpenInsert, Answer
        <5>2. reg[x] # r
          BY <3>4, <5>1, RequestFields
        <5>3. QED  BY <3>4, <5>1, <5>2
      <4>2. ASSUME NEW x \in Procs \ {p}, pc'[x] = "done", ans'[x] = "ok", req'[x].type = "close"
            PROVE  /\ register'[reg'[x]].closeKey = req'[x].key
                   /\ register'[reg'[x]].status = "CLOSED"
        BY <2>6, <3>1, <3>4, <4>2
        DEF Sound, TypeOK, Stages, Books, Answered, OpenInsert, Answer
      <4>3. ASSUME NEW x \in Procs \ {p}, pc'[x] = "done", ans'[x] = "ok",
                   req'[x].type \notin {"open", "close"}
            PROVE  \E m \in RowsWithKey(req[x].key, IsExpense(x))' :
                      m.type = req'[x].type /\ m.amount = req'[x].amount /\ m.reg = reg'[x]
        BY <2>6, <3>1, <4>3
        DEF Sound, TypeOK, Books, Answered, OpenInsert, Answer, RowsWithKey, IsExpense
      <4>4. /\ req'[p].type = "open" /\ register'[reg'[p]].openKey = req'[p].key
        BY <2>6, <3>1, <3>2, <3>3, <3>4 DEF Sound, TypeOK, OpenInsert
      <4>5. QED  BY <4>1, <4>2, <4>3, <4>4 DEF Answered
    <3>12. AsAsked'
      BY <3>2, <3>3, <3>4 DEF Books, AsAsked
    <3>13. QED  BY <3>7, <3>8, <3>9, <3>10, <3>11, <3>12 DEF Books
  <2>7. CASE Opening(p) /\ OpenConflict(p)
    <3>1. UNCHANGED rows
      BY <2>7 DEF Opening, OpenConflict, GoTo, rows
    <3>2. Knows'
      BY <2>7, <3>1 DEF Sound, TypeOK, Books, Knows, Balance, Opening, OpenConflict, GoTo, rows
    <3>3. Answered'
      BY <2>7, <3>1 DEF Sound, TypeOK, Books, Answered, RowsWithKey, IsExpense,
         Opening, OpenConflict, GoTo, rows
    <3>4. QED  BY <3>1, <3>2, <3>3, BooksKept DEF Books
  <2>8. CASE Opening(p) /\ OpenResolve(p)
    <3>1. UNCHANGED rows
      BY <2>8 DEF Opening, OpenResolve, Answer, rows
    <3>2. Knows'
      BY <2>8, <3>1 DEF Sound, TypeOK, Books, Knows, Balance, Opening, OpenResolve, Answer, rows
    <3>3. Answered'
      BY <2>8, <3>1 DEF Sound, TypeOK, Books, Answered, RowsWithKey, IsExpense,
         Opening, OpenResolve, OpenedWith, Answer, rows
    <3>4. QED  BY <3>1, <3>2, <3>3, BooksKept DEF Books
  <2>9. CASE Closing(p) /\ CloseLock(p)
    <3>1. UNCHANGED rows
      BY <2>9 DEF Closing, CloseLock, Answer, GoTo, DecreaseTypes, rows
    <3>2. Knows'
      BY <2>9, <3>1 DEF Sound, TypeOK, Books, Knows, Balance, Closing, CloseLock, Answer, GoTo, DecreaseTypes, rows
    <3>3. Answered'
      <4>1. ans'[p] = "ok" /\ pc'[p] = "done" =>
               register[reg[p]].closeKey = req[p].key /\ register[reg[p]].status = "CLOSED"
        <5>1. register[reg[p]].status \in {"NONE", "OPEN", "CLOSED"}
          BY <2>9 DEF Sound, TypeOK, Stages, Till, Closing, CloseLock
        <5>2. QED  BY <2>9, <5>1 DEF Sound, TypeOK, CloseLock, CloseVerdict, Answer, GoTo
      <4>2. QED
        BY <2>9, <3>1, <4>1 DEF Sound, TypeOK, Books, Answered, RowsWithKey, IsExpense,
           Closing, CloseLock, Answer, GoTo, rows
    <3>4. QED  BY <3>1, <3>2, <3>3, BooksKept DEF Books
  <2>10. CASE Closing(p) /\ CloseWrite(p)
    <3>1. /\ reg[p] \in Registers /\ req[p] \in Requests /\ req[p].type = "close"
          /\ register[reg[p]].status = "OPEN" /\ register[reg[p]] \in Till
          /\ seen[p] \in Int /\ seen[p] = Balance(reg[p])
      BY <2>10 DEF Sound, TypeOK, Stages, Holds, Books, Knows, Closing, CloseWrite
    <3> DEFINE closed == ClosedBy(register[reg[p]], req[p], seen[p])
    <3>2. /\ closed.status = "CLOSED" /\ closed.terminal = register[reg[p]].terminal
          /\ closed.opening = register[reg[p]].opening
          /\ closed.openKey = register[reg[p]].openKey
          /\ closed.closeKey = req[p].key /\ closed.expected = seen[p]
          /\ closed.counted = req[p].amount
      BY <3>1, ClosedTill
    <3>3. /\ register'[reg[p]] = closed
          /\ \A x \in Registers \ {reg[p]} : register'[x] = register[x]
          /\ movements' = movements
      BY <2>10, <3>1 DEF Sound, TypeOK, CloseWrite
    <3> HIDE DEF closed
    <3>4. \A x \in Registers : Balance(x)' = Balance(x)
      BY <3>2, <3>3 DEF Balance
    <3>5. Knows'
      BY <2>10, <3>4 DEF Sound, TypeOK, Stages, Holds, Books, Knows, CloseWrite, Answer, DecreaseTypes
    <3>6. ClosedTillsReconcile'
      BY <3>1, <3>2, <3>3, <3>4 DEF Books, ClosedTillsReconcile
    <3>7. NoOverdraft'
      BY <3>4 DEF Books, NoOverdraft
    <3>8. OneOpenPerTerminal'
      BY <3>2, <3>3 DEF Books, OneOpenPerTerminal
    <3>9. Answered'
      BY <2>10, <3>1, <3>2, <3>3
      DEF Sound, TypeOK, Stages, Books, Answered, CloseWrite, Answer, RowsWithKey, IsExpense
    <3>10. AsAsked'
      <4>1. req[p].at = reg[p]
        BY <2>10, <3>1 DEF Sound, Stages, CloseWrite
      <4>2. QED  BY <3>1, <3>2, <3>3, <4>1 DEF Books, AsAsked
    <3>11. QED  BY <3>5, <3>6, <3>7, <3>8, <3>9, <3>10 DEF Books
  <2>11. CASE Manual(p) /\ LookupRow(p)
    <3>1. UNCHANGED rows
      BY <2>11 DEF Manual, LookupRow, Replay, Answer, GoTo, rows
    <3>2. Knows'
      BY <2>11, <3>1 DEF Sound, TypeOK, Books, Knows, Balance, Manual, LookupRow, Replay, Answer, GoTo, rows
    <3>3. Answered'
      BY <2>11, <3>1 DEF Sound, TypeOK, Books, Answered, RowsWithKey, IsExpense,
         Stages, Manual, ManualTypes, LookupRow, Replay, SameData, Answer, GoTo, rows
    <3>4. QED  BY <3>1, <3>2, <3>3, BooksKept DEF Books
  <2>12. CASE Manual(p) /\ ResolveRow(p)
    <3>1. UNCHANGED rows
      BY <2>12 DEF Manual, ResolveRow, Replay, Answer, rows
    <3>2. Knows'
      BY <2>12, <3>1 DEF Sound, TypeOK, Books, Knows, Balance, Manual, ResolveRow, Replay, Answer, rows
    <3>3. Answered'
      BY <2>12, <3>1 DEF Sound, TypeOK, Books, Answered, RowsWithKey, IsExpense,
         Stages, Manual, ManualTypes, ResolveRow, Replay, SameData, Answer, rows
    <3>4. QED  BY <3>1, <3>2, <3>3, BooksKept DEF Books
  <2>13. CASE Hooking(p) /\ HookFind(p)
    <3>1. UNCHANGED rows
      BY <2>13 DEF Hooking, HookFind, Answer, GoTo, rows
    <3>2. Knows'
      BY <2>13, <3>1 DEF Sound, TypeOK, Books, Knows, Balance, Hooking, HookFind, Answer, GoTo, rows
    <3>3. Answered'
      BY <2>13, <3>1 DEF Sound, TypeOK, Books, Answered, RowsWithKey, IsExpense,
         Hooking, HookFind, Answer, GoTo, rows
    <3>4. QED  BY <3>1, <3>2, <3>3, BooksKept DEF Books
  <2>14. CASE Takes(p)
    <3>1. UNCHANGED rows
      BY <2>14 DEF Takes, GoTo, Manual, Hooking, ManualTypes, HookTypes, rows
    <3>2. Knows'
      BY <2>14, <3>1 DEF Sound, TypeOK, Books, Knows, Balance, Takes, GoTo, Manual, Hooking, ManualTypes, HookTypes, rows
    <3>3. Answered'
      BY <2>14, <3>1 DEF Sound, TypeOK, Books, Answered, RowsWithKey, IsExpense,
         Takes, GoTo, rows
    <3>4. QED  BY <3>1, <3>2, <3>3, BooksKept DEF Books
  <2>15. CASE Denied(p)
    <3>1. UNCHANGED rows
      BY <2>15 DEF Denied, Answer, rows
    <3>2. Knows'
      BY <2>15, <3>1 DEF Sound, TypeOK, Books, Knows, Balance, Denied, Answer, rows
    <3>3. Answered'
      BY <2>15, <3>1 DEF Sound, TypeOK, Books, Answered, RowsWithKey, IsExpense,
         Denied, Answer, rows
    <3>4. QED  BY <3>1, <3>2, <3>3, BooksKept DEF Books
  <2>16. CASE Inserts(p)
    <3>1. /\ reg[p] \in Registers /\ req[p] \in Requests
          /\ req[p].type \in ManualTypes \cup HookTypes
          /\ lock[reg[p]] = p /\ register[reg[p]].status = "OPEN"
      BY <2>16
      DEF Sound, TypeOK, Stages, Holds, Inserts, Manual, Hooking, ManualTypes, HookTypes
    <3>2. /\ RowOf(p) \in Row /\ RowOf(p) \notin movements
          /\ RowOf(p).reg = reg[p] /\ RowOf(p).type = req[p].type
          /\ RowOf(p).amount = req[p].amount /\ RowOf(p).key = req[p].key
      BY <2>16, <3>1, RequestFields DEF RowOf, Row, Inserts, RowsWithKey, IsExpense
    <3>3. \A r \in Registers :
             Balance(r)' = IF r = reg[p] THEN Balance(r) + Signed(RowOf(p)) ELSE Balance(r)
      BY <2>16, <3>2, BalanceAdd DEF Inserts
    <3>4. Knows'
      BY <2>16, <3>1, <3>3 DEF Sound, TypeOK, Stages, Holds, Books, Knows, Inserts, Answer, DecreaseTypes
    <3>5. ClosedTillsReconcile'
      BY <2>16, <3>1, <3>3 DEF Books, ClosedTillsReconcile, Inserts
    <3>6. NoOverdraft'
      <4>1. Balance(reg[p]) \in Int /\ req[p].amount \in Nat
        BY <3>1, BalanceInt, RequestFields
      <4>2. Balance(reg[p]) >= 0
        BY <3>1 DEF Books, NoOverdraft
      <4>3. CASE req[p].type \in IncreaseTypes
        BY <3>2, <3>3, <4>1, <4>2, <4>3 DEF Books, NoOverdraft, Signed
      <4>4. CASE req[p].type \in DecreaseTypes
        <5>1. Signed(RowOf(p)) = -req[p].amount
          BY <3>2, <4>4 DEF Signed, IncreaseTypes, DecreaseTypes
        <5>2. req[p].amount <= Balance(reg[p])
          BY <2>16, <4>4 DEF Books, Knows, Inserts
        <5>3. QED  BY <3>3, <4>1, <5>1, <5>2 DEF Books, NoOverdraft
      <4>5. QED  BY <3>1, <4>3, <4>4 DEF ManualTypes, HookTypes, IncreaseTypes, DecreaseTypes
    <3>7. OneOpenPerTerminal'
      BY <2>16 DEF Books, OneOpenPerTerminal, Inserts
    <3>8. Answered'
      BY <2>16, <3>1, <3>2
      DEF Sound, TypeOK, Books, Answered, Inserts, Answer, RowsWithKey, IsExpense,
          ManualTypes, HookTypes
    <3>9. AsAsked'
      BY <2>16 DEF Books, AsAsked, Inserts
    <3>10. QED  BY <3>4, <3>5, <3>6, <3>7, <3>8, <3>9 DEF Books
  <2>17. CASE Conflicts(p)
    <3>1. UNCHANGED rows
      BY <2>17 DEF Conflicts, Answer, GoTo, rows
    <3>2. Knows'
      BY <2>17, <3>1 DEF Sound, TypeOK, Books, Knows, Balance, Conflicts, Answer, GoTo, rows
    <3>3. Answered'
      BY <2>17, <3>1 DEF Sound, TypeOK, Books, Answered, RowsWithKey, IsExpense,
         Conflicts, Answer, GoTo, rows
    <3>4. QED  BY <3>1, <3>2, <3>3, BooksKept DEF Books
  <2>18. QED
    BY <2>1, <2>2, <2>3, <2>4, <2>5, <2>6, <2>7, <2>8, <2>9, <2>10, <2>11, <2>12, <2>13,
       <2>14, <2>15, <2>16, <2>17
<1>3. QED  BY <1>1, <1>2

-----------------------------------------------------------------------------
(* The theorems.                                                           *)

\* IInv holds at the start and is kept by every step.
LEMMA InitIInv ==
    ASSUME Init
    PROVE  IInv
<1>1. TypeOK
  BY AmountsAssumption DEF Init, TypeOK, NoTill, Till, Steps, Answers
<1>2. Stages /\ Holds
  BY DEF Init, Stages, Holds
<1>3. OnRecord
  BY FS_EmptySet DEF Init, OnRecord
<1>4. Sound
  BY <1>1, <1>2, <1>3 DEF Sound
<1>5. Knows /\ Answered /\ AsAsked /\ OneOpenPerTerminal /\ ClosedTillsReconcile
  BY DEF Init, NoTill, Knows, Answered, AsAsked, OneOpenPerTerminal, ClosedTillsReconcile
<1>6. NoOverdraft
  <2>1. \A r \in Registers : Balance(r) = 0 + SumFunction([m \in {} |-> Signed(m)])
    BY DEF Init, NoTill, Balance, ComputeBalance, RowsOf
  <2>2. SumFunction([m \in {} |-> Signed(m)]) = 0
    BY SumEmpty DEF SumFunction
  <2>3. QED  BY <2>1, <2>2 DEF NoOverdraft
<1>7. QED  BY <1>4, <1>5, <1>6 DEF IInv, Books

\* The inductive invariant: types, what holding a till means, and the books.
THEOREM Invariance == Spec => []IInv
<1>1. Init => IInv
  BY InitIInv
<1>2. IInv /\ [Next]_vars => IInv'
  BY SoundStep, BooksStep DEF IInv
<1>3. QED  BY <1>1, <1>2, PTL DEF Spec

\* TypeOK: types, and no hook goes on without a till.
THEOREM TypeCorrect == Spec => []TypeOK
<1>1. IInv => TypeOK
  BY DEF IInv, Sound
<1>2. QED  BY <1>1, Invariance, PTL

\* NoOverdraft: no interleaving of cash operations takes out of a till more
\* than it holds.
THEOREM TillsNeverOverdrawn == Spec => []NoOverdraft
<1>1. IInv => NoOverdraft
  BY DEF IInv, Books
<1>2. QED  BY <1>1, Invariance, PTL

\* ClosedTillsReconcile: the amount frozen by a close is the sum of all the
\* till's movements, for ever.
THEOREM ClosesReconcile == Spec => []ClosedTillsReconcile
<1>1. IInv => ClosedTillsReconcile
  BY DEF IInv, Books
<1>2. QED  BY <1>1, Invariance, PTL

\* OneOpenPerTerminal: a terminal never has two open tills.
THEOREM OneTillPerTerminal == Spec => []OneOpenPerTerminal
<1>1. IInv => OneOpenPerTerminal
  BY DEF IInv, Books
<1>2. QED  BY <1>1, Invariance, PTL

\* TillsOK: no till that was not found, and no terminal with two open ones.
THEOREM TillsFine == Spec => []TillsOK
<1>1. IInv => TillsOK
  BY DEF IInv, Sound, Books, TillsOK
<1>2. QED  BY <1>1, Invariance, PTL

\* AnswersAreTrue: an answer "ok" is about what its request asked or, where a close or
\* an opening is known by its key alone, what a request under that key asked.
THEOREM AnswersTrue == Spec => []AnswersAreTrue
<1>1. IInv => AnswersAreTrue
  <2> SUFFICES ASSUME IInv, NEW p \in Procs, pc[p] = "done", ans[p] = "ok"
               PROVE  LET q == req[p]
                          till == register[reg[p]]
                      IN  CASE q.type = "open" ->
                                 /\ till.openKey = q.key
                                 /\ \E asked \in Meanings(q) :
                                       till.terminal = asked.at /\ till.opening = asked.amount
                            [] q.type = "close" ->
                                 /\ till.closeKey = q.key /\ till.status = "CLOSED"
                                 /\ reg[p] = q.at
                                 /\ \E asked \in Meanings(q) :
                                       asked.at = q.at /\ till.counted = asked.amount
                            [] OTHER -> \E m \in RowsWithKey(q.key, IsExpense(p)) :
                                           m.type = q.type /\ m.amount = q.amount /\ m.reg = reg[p]
    BY DEF AnswersAreTrue
  <2>1. reg[p] \in Registers /\ req[p] \in Requests
    BY DEF IInv, Sound, TypeOK, Stages
  <2>2. CASE req[p].type = "open"
    <3>1. register[reg[p]].openKey = req[p].key
      BY <2>2 DEF IInv, Books, Answered
    <3>2. register[reg[p]].status # "NONE"
      BY <2>1, <3>1, RequestFields DEF IInv, Sound, OnRecord, NoTill
    <3>3. QED  BY <2>1, <2>2, <3>1, <3>2 DEF IInv, Books, AsAsked, Meanings
  <2>3. CASE req[p].type = "close"
    <3>1. /\ register[reg[p]].closeKey = req[p].key
          /\ register[reg[p]].status = "CLOSED"
      BY <2>3 DEF IInv, Books, Answered
    <3>2. reg[p] = req[p].at
      BY <2>3 DEF IInv, Sound, Stages
    <3>3. QED  BY <2>1, <2>3, <3>1, <3>2 DEF IInv, Books, AsAsked, Meanings
  <2>4. CASE req[p].type \notin {"open", "close"}
    BY <2>4 DEF IInv, Books, Answered
  <2>5. QED  BY <2>2, <2>3, <2>4
<1>2. QED  BY <1>1, Invariance, PTL

-----------------------------------------------------------------------------
(* The tills implement CashLedger: every step of a transaction is a step   *)
(* of one drawer or leaves all drawers alone.                              *)

LEMMA DrawerOf ==
    ASSUME NEW r \in Registers
    PROVE  /\ Drawer[r].status = register[r].status
           /\ Drawer[r].terminal = register[r].terminal
           /\ Drawer[r].cash = Balance(r)
           /\ Drawer[r].expected = register[r].expected
BY DEF Drawer

LEMMA DrawersStay ==
    ASSUME UNCHANGED rows
    PROVE  UNCHANGED Drawer
BY DEF rows, Drawer, Balance

\* A till is opened with the amount of its request, at a terminal without one.
LEMMA OpensDrawer ==
    ASSUME IInv, NEW p \in Procs, Opening(p), OpenInsert(p)
    PROVE  Ledger!Next
<1>1. PICK r \in Registers : /\ register[r].status = "NONE"
                             /\ register' = [register EXCEPT ![r] = OpenedBy(req[p])]
  BY DEF OpenInsert
<1>2. /\ req[p] \in Requests /\ req[p].at \in Terminals
      /\ req[p].amount \in Amounts /\ req[p].amount \in Int
  BY RequestFields DEF Opening, IInv, Sound, TypeOK
<1>3. \A x \in Registers : register'[x] = IF x = r THEN OpenedBy(req[p]) ELSE register[x]
  BY <1>1 DEF IInv, Sound, TypeOK
<1>4. \A x \in Registers \ {r} : Balance(x)' = Balance(x)
  BY <1>3 DEF Balance, OpenInsert
<1>5. Balance(r)' = req[p].amount
  <2>1. RowsOf(r, movements) = {}
    BY <1>1 DEF IInv, Sound, OnRecord, RowsOf
  <2>2. Balance(r)' = req[p].amount + SumFunction([m \in {} |-> Signed(m)])
    BY <1>3, <2>1 DEF Balance, ComputeBalance, OpenInsert, OpenedBy
  <2>3. SumFunction([m \in {} |-> Signed(m)]) = 0
    BY SumEmpty DEF SumFunction
  <2>4. QED  BY <1>2, <2>2, <2>3
<1> DEFINE new == [status |-> "OPEN", terminal |-> req[p].at,
                   cash |-> req[p].amount, expected |-> 0]
<1>6. Drawer' = [Drawer EXCEPT ![r] = new]
  <2>1. Drawer'[r] = new
    BY <1>3, <1>5 DEF Drawer, OpenedBy
  <2>2. \A x \in Registers \ {r} : Drawer'[x] = Drawer[x]
    BY <1>3, <1>4 DEF Drawer
  <2> HIDE DEF new
  <2>3. QED  BY <2>1, <2>2 DEF Drawer
<1>7. \A x \in Registers : Drawer[x].status = "OPEN" => Drawer[x].terminal # req[p].at
  BY DrawerOf DEF OpenInsert, MayInsertTill, OpenAt
<1>8. Drawer[r].status = "NONE"
  BY <1>1, DrawerOf
<1>9. Ledger!Open(r, req[p].at, req[p].amount)
  BY <1>6, <1>7, <1>8 DEF Ledger!Open
<1>10. QED  BY <1>2, <1>9 DEF Ledger!Next

\* A row moves its amount into the drawer or out of it, which has it.
LEMMA MovesCash ==
    ASSUME IInv, NEW p \in Procs, Inserts(p)
    PROVE  Ledger!Next
<1> DEFINE r == reg[p]
<1>1. /\ r \in Registers /\ req[p] \in Requests
      /\ req[p].type \in ManualTypes \cup HookTypes
      /\ register[r].status = "OPEN" /\ register' = register
  BY DEF IInv, Sound, TypeOK, Stages, Holds, Inserts, Manual, Hooking, ManualTypes, HookTypes
<1>2. /\ RowOf(p) \in Row /\ RowOf(p) \notin movements
      /\ RowOf(p).reg = r /\ RowOf(p).type = req[p].type /\ RowOf(p).amount = req[p].amount
  BY <1>1, RequestFields DEF RowOf, Row, Inserts, RowsWithKey, IsExpense
<1>3. \A x \in Registers :
         Balance(x)' = IF x = r THEN Balance(x) + Signed(RowOf(p)) ELSE Balance(x)
  BY <1>1, <1>2, BalanceAdd DEF Inserts, IInv
<1>4. /\ Balance(r) \in Int /\ req[p].amount \in Amounts /\ req[p].amount \in Nat
      /\ Drawer[r].status = "OPEN" /\ Drawer[r].cash = Balance(r)
  BY <1>1, BalanceInt, RequestFields, DrawerOf DEF IInv
<1>5. Drawer' = [Drawer EXCEPT ![r].cash = @ + Signed(RowOf(p))]
  <2> DEFINE new == [Drawer[r] EXCEPT !.cash = @ + Signed(RowOf(p))]
  <2>1. Drawer'[r] = new
    BY <1>1, <1>3 DEF Drawer
  <2>2. \A x \in Registers \ {r} : Drawer'[x] = Drawer[x]
    BY <1>1, <1>3 DEF Drawer
  <2>3. Drawer' = [Drawer EXCEPT ![r] = new]
    <3> HIDE DEF new, r
    <3>1. QED  BY <2>1, <2>2 DEF Drawer
  <2>4. QED  BY <2>3
<1>6. CASE req[p].type \in IncreaseTypes
  <2>1. Drawer' = [Drawer EXCEPT ![r].cash = @ + req[p].amount]
    BY <1>2, <1>5, <1>6 DEF Signed
  <2>2. Ledger!Deposit(r, req[p].amount)
    BY <1>4, <2>1 DEF Ledger!Deposit
  <2>3. QED  BY <1>1, <1>4, <2>2 DEF Ledger!Next
<1>7. CASE req[p].type \in DecreaseTypes
  <2>1. Signed(RowOf(p)) = -req[p].amount
    BY <1>2, <1>7 DEF Signed, IncreaseTypes, DecreaseTypes
  <2>2. req[p].amount <= Balance(r)
    BY <1>7 DEF IInv, Books, Knows, Inserts
  <2>3. Drawer[r].cash + Signed(RowOf(p)) = Drawer[r].cash - req[p].amount
    BY <1>4, <2>1
  <2>4. Drawer' = [Drawer EXCEPT ![r].cash = @ - req[p].amount]
    BY <1>5, <2>3
  <2>5. Ledger!Withdraw(r, req[p].amount)
    BY <1>4, <2>2, <2>4 DEF Ledger!Withdraw
  <2>6. QED  BY <1>1, <1>4, <2>5 DEF Ledger!Next
<1>8. QED
  BY <1>1, <1>6, <1>7 DEF ManualTypes, HookTypes, IncreaseTypes, DecreaseTypes

\* The balance a close freezes is what is in the drawer when it is written.
LEMMA ClosesDrawer ==
    ASSUME IInv, NEW p \in Procs, Closing(p), CloseWrite(p)
    PROVE  Ledger!Next
<1>0. PICK r \in Registers : r = reg[p]
  BY DEF IInv, Sound, Stages, Closing, CloseWrite
<1>1. /\ r \in Registers /\ register[r].status = "OPEN" /\ register[r] \in Till
      /\ req[p] \in Requests /\ seen[p] = Balance(r) /\ movements' = movements
      /\ register' = [register EXCEPT ![r] = ClosedBy(register[r], req[p], seen[p])]
  BY <1>0 DEF IInv, Sound, TypeOK, Stages, Holds, Books, Knows, Closing, CloseWrite
<1>2. \A x \in Registers : register'[x] =
         IF x = r THEN ClosedBy(register[r], req[p], seen[p]) ELSE register[x]
  BY <1>1 DEF IInv, Sound, TypeOK
<1>3. \A x \in Registers : Balance(x)' = Balance(x)
  BY <1>1, <1>2 DEF Balance, ClosedBy
<1> DEFINE new == [status |-> "CLOSED", terminal |-> Drawer[r].terminal,
                   cash |-> Drawer[r].cash, expected |-> Drawer[r].cash]
<1>4. Drawer'[r] = new
  <2>1. new = [status |-> "CLOSED", terminal |-> register[r].terminal,
               cash |-> Balance(r), expected |-> Balance(r)]
    BY DrawerOf
  <2>2. Drawer'[r] = [status |-> register'[r].status, terminal |-> register'[r].terminal,
                      cash |-> Balance(r)', expected |-> register'[r].expected]
    BY <1>1 DEF Drawer
  <2>3. /\ register'[r].status = "CLOSED" /\ register'[r].terminal = register[r].terminal
        /\ register'[r].expected = Balance(r) /\ Balance(r)' = Balance(r)
    BY <1>1, <1>2, <1>3 DEF ClosedBy
  <2> HIDE DEF new
  <2>4. QED  BY <2>1, <2>2, <2>3
<1>5. \A x \in Registers \ {r} : Drawer'[x] = Drawer[x]
  BY <1>2, <1>3 DEF Drawer
<1>6. Drawer' = [Drawer EXCEPT ![r] = new]
  <2> HIDE DEF new
  <2>1. QED  BY <1>4, <1>5 DEF Drawer
<1>7. Ledger!Close(r)
  BY <1>1, <1>6, DrawerOf DEF Ledger!Close
<1>8. QED  BY <1>1, <1>7 DEF Ledger!Next

LEMMA LedgerStep ==
    ASSUME IInv, [Next]_vars
    PROVE  [Ledger!Next]_Drawer
<1>1. CASE UNCHANGED vars
  BY <1>1, DrawersStay DEF vars, rows
<1>2. CASE Next
  <2>1. PICK p \in Procs :
              \/ \E q \in Requests : Begin(p, q)
              \/ Finish(p)
              \/ Abort(p)
              \/ Opening(p) /\ OpenLookup(p)
              \/ Opening(p) /\ OpenInsert(p)
              \/ Opening(p) /\ OpenConflict(p)
              \/ Opening(p) /\ OpenResolve(p)
              \/ Closing(p) /\ CloseLock(p)
              \/ Closing(p) /\ CloseWrite(p)
              \/ Manual(p) /\ LookupRow(p)
              \/ Manual(p) /\ ResolveRow(p)
              \/ Hooking(p) /\ HookFind(p)
              \/ Takes(p)
              \/ Denied(p)
              \/ Inserts(p)
              \/ Conflicts(p)
    BY <1>2, NextCases DEF IInv
  <2>2. CASE Opening(p) /\ OpenInsert(p)
    BY <2>2, OpensDrawer
  <2>3. CASE Closing(p) /\ CloseWrite(p)
    BY <2>3, ClosesDrawer
  <2>4. CASE Inserts(p)
    BY <2>4, MovesCash
  <2>5. CASE ~(Opening(p) /\ OpenInsert(p)) /\ ~(Closing(p) /\ CloseWrite(p)) /\ ~Inserts(p)
    <3>1. UNCHANGED rows
      BY <2>1, <2>5 DEF Begin, Finish, Abort, OpenLookup, OpenConflict, OpenResolve, CloseLock,
         LookupRow, ResolveRow, HookFind, Takes, Denied, Conflicts, rows
    <3>2. QED  BY <3>1, DrawersStay
  <2>6. QED  BY <2>2, <2>3, <2>4, <2>5
<1>3. QED  BY <1>1, <1>2

\* KeepsTheLedger: whatever transactions run at once, every till is a drawer of
\* CashLedger, whose money moves one whole operation at a time.
THEOREM ImplementsTheLedger == Spec => KeepsTheLedger
<1>1. Init => Ledger!Init
  <2> SUFFICES ASSUME Init PROVE Ledger!Init
    OBVIOUS
  <2>1. \A r \in Registers : Balance(r) = 0
    <3>1. \A r \in Registers : Balance(r) = 0 + SumFunction([m \in {} |-> Signed(m)])
      BY DEF Init, NoTill, Balance, ComputeBalance, RowsOf
    <3>2. SumFunction([m \in {} |-> Signed(m)]) = 0
      BY SumEmpty DEF SumFunction
    <3>3. QED  BY <3>1, <3>2
  <2>2. QED  BY <2>1 DEF Init, NoTill, Drawer, Ledger!Init, Ledger!Unused
<1>2. IInv /\ [Next]_vars => [Ledger!Next]_Drawer
  BY LedgerStep
<1>3. QED  BY <1>1, <1>2, Invariance, PTL DEF Spec, KeepsTheLedger, Ledger!Spec
-----------------------------------------------------------------------------
(***************************************************************************)
(* The counter, the dining room and the shop.  Sales only go forward: what *)
(* is made stays made, with its cart, and what is paid or cancelled stays  *)
(* so.  A key is of one user and one cart.  A page waits for one call at   *)
(* most, and still has what it asked.  A guest whom no page forgot has at  *)
(* most one order that was made, is remembered by a page or is on its way  *)
(* in a call; while the guest is still here it is remembered by a page,    *)
(* and a cart with no attempt has none.  A guest is with one page at most. *)
(***************************************************************************)

IsMade(k) == sale[k] # Null
PlaceOf(u) == IF u \in Waiters THEN "hall" ELSE "counter"
Making == {"quote", "create"}

\* A request of a user, in a call or remembered by a page.
RequestOK(u, r) ==
    /\ r \in CallRequests
    /\ r.op \in Making =>
           /\ r.key \in RequestKeys /\ r.cart \in Carts /\ u \in Cashiers \union Waiters
           /\ IsMade(r.key) => (sale[r.key].cart = r.cart /\ sale[r.key].place = PlaceOf(u))
    /\ r.op \in {"quote", "checkout", "cancel"} => u \in Cashiers
    /\ r.op \in {"checkout", "cancel"} =>
           /\ r.key \in RequestKeys /\ IsMade(r.key) /\ sale[r.key].place # "shop"
    /\ r.op \in {"dispatch", "pay"} =>
           /\ u \in Waiters /\ r.key \in RequestKeys /\ r.cart = Null
           /\ IsMade(r.key) /\ sale[r.key].place = "hall"
    /\ r.op = "pay" => r.pay \in PayKeys
    /\ r.op \in {"sell", "confirm"} => u \in Clerks
    /\ r.op = "sell" =>
           /\ r.cart \in Carts
           /\ r.key # Null => (IsMade(r.key) /\ sale[r.key].place = "shop")
    /\ r.op = "confirm" => (r.key \in RequestKeys /\ IsMade(r.key) /\ sale[r.key].place = "shop")

\* What a page that waits for a call still has.
Awaits(p, u, r) ==
    /\ p.waits
    /\ (u \in Waiters \/ r.op = "create") => p.attempt = r
    /\ r.op = "quote" => (p.attempt = Null /\ p.cart = r.cart /\ p.order = Null)
    /\ r.op \in {"checkout", "cancel"} => p.order = r.key

\* How far a call is, and what its answer says.
Progress(t) ==
    /\ t.step \in {"sale", "order"} => t.req.op \in {"checkout", "cancel"}
    /\ (t.step = "order" /\ t.req.op = "cancel") => sale[t.req.key].sale = "CANCELLED"
    /\ t.step # "answered" => t.answer = Null
    /\ (t.req.op = "sell" /\ t.step # "answered") => t.req.key = Null
    /\ t.answer = "ok" =>
          /\ t.req.op = "sell" => t.req.key # Null
          /\ t.req.op \in {"create", "checkout"} =>
                /\ t.got # Null /\ IsMade(t.req.key)
                /\ t.by \in Cashiers => SaysTruly(t.got.order, sale[t.req.key])

CallOK(t) ==
    \/ t = NoCall
    \/ /\ t.step # "free" /\ t.by \in Users /\ RequestOK(t.by, t.req) /\ Progress(t)
       /\ t.awaited => Awaits(page[t.by], t.by, t.req)

OneCall == \A c, d \in Calls :
               call[c].awaited /\ call[d].awaited /\ call[c].by = call[d].by => c = d

CallsOK == (\A c \in Calls : CallOK(call[c])) /\ OneCall

PageOK(u, p) ==
    /\ p.attempt # Null =>
          /\ RequestOK(u, p.attempt)
          /\ p.attempt.op = "create" \/ (u \in Waiters /\ p.attempt.op \in {"dispatch", "pay"})
    /\ p.cart # Null => u \notin Waiters
    /\ p.order # Null => (u \in Cashiers /\ IsMade(p.order) /\ sale[p.order].place # "shop")
    /\ p.order = Null => p.status = Null
    /\ p.order # Null => SaysTruly(p.status, sale[p.order])

PagesOK == \A u \in Users : PageOK(u, page[u])

\* A key is of one user, and of one cart.
Abroad(u, r) ==
    /\ r # Null /\ r.op \in Making
    /\ r = page[u].attempt \/ \E c \in Calls : call[c].by = u /\ r = call[c].req
Remembered == {page[u].attempt : u \in Users} \union {call[c].req : c \in Calls}
OneOwner == \A r, s \in Remembered : \A u, v \in Users :
                Abroad(u, r) /\ Abroad(v, s) /\ r.key = s.key => (u = v /\ r.cart = s.cart)

SaleOK(k) ==
    IsMade(k) =>
        /\ (sale[k].order = Null) = (sale[k].place = "shop")
        /\ sale[k].sale # "PAID" => \A p \in PayKeys : payment[p] # k
        /\ sale[k].sale = "PAID" => \E p \in PayKeys : \A q \in PayKeys : (payment[q] = k) = (q = p)
        /\ sale[k].order = "QUEUED" =>
              sale[k].sale = "PAID" \/ (sale[k].place = "hall" /\ sale[k].sale = "CONFIRMED")
        /\ sale[k].order = "CANCELLED" => sale[k].sale = "CANCELLED"

PaymentsOK == \A p \in PayKeys : payment[p] # Null => IsMade(payment[p])

Gone == SumFunction([k \in Sold |-> sale[k].cart.units])

GoodsOK == IsFiniteSet(Sold) /\ stock + Gone = Stock0

MoneyOK == (\A k \in RequestKeys : SaleOK(k)) /\ PaymentsOK /\ GoodsOK

\* A request that makes order k for g.
For(r, k, g) == r # Null /\ r.op = "create" /\ r.key = k /\ r.cart.who = g

\* Whatever may make, or has made, order k for g.
Stands(k, g) ==
    \/ IsMade(k) /\ sale[k].place # "shop" /\ sale[k].cart.who = g
    \/ \E u \in Users : For(page[u].attempt, k, g)
    \/ \E c \in Calls : For(call[c].req, k, g)

\* A cashier's cart that no attempt has been made of.
Asks(u, g) ==
    /\ page[u].cart # Null /\ page[u].cart.who = g /\ page[u].order = Null
    /\ \A k \in RequestKeys : ~For(page[u].attempt, k, g)

GuestOK(g) ==
    /\ \A k, l \in RequestKeys : Stands(k, g) /\ Stands(l, g) => k = l
    /\ guest[g] = "here" =>
          \A k \in RequestKeys : Stands(k, g) => \E u \in Users : For(page[u].attempt, k, g)
    /\ \A u \in Cashiers : Asks(u, g) => \A k \in RequestKeys : ~Stands(k, g)

OnePage == \A g \in Guests : \A u, v \in With(g) : u = v

GuestsOK == \A g \in Guests : guest[g] # "forgotten" => GuestOK(g)

CounterInv == CounterTypeOK /\ CallsOK /\ PagesOK /\ OneOwner /\ MoneyOK /\ OnePage /\ GuestsOK
-----------------------------------------------------------------------------
(* Sales, payments and goods.                                              *)

CallT == [step : {"free", "sent", "sale", "order", "answered"},
          by : Users \union {Null}, awaited : BOOLEAN,
          req : CallRequests \union {Null}, got : Sales \union {Null},
          answer : {Null, "ok", "short", "conflict", "denied", "busy"}]
PageT == [cart : Carts \union {Null}, attempt : CallRequests \union {Null},
          held : BOOLEAN, order : RequestKeys \union {Null},
          status : {Null, "DRAFT", "QUEUED", "CANCELLED"},
          pay : PayKeys \union {Null}, payHeld : BOOLEAN, waits : BOOLEAN]

LEMMA TypeShape ==
    CounterTypeOK <=> /\ sale \in [RequestKeys -> Sales \union {Null}]
                      /\ payment \in [PayKeys -> RequestKeys \union {Null}]
                      /\ stock \in Nat
                      /\ call \in [Calls -> CallT]
                      /\ page \in [Users -> PageT]
                      /\ guest \in [Guests -> {"here", "ordered", "forgotten"}]
BY DEF CounterTypeOK, CallT, PageT

LEMMA Nothing ==
    /\ Null \notin RequestKeys /\ Null \notin PayKeys /\ Null \notin Carts
    /\ Null \notin CallRequests /\ Null \notin Sales
    /\ Null # "DRAFT" /\ Null # "QUEUED" /\ Null # "CANCELLED" /\ Null # "ok"
BY NullAssumption

LEMMA CartUnits ==
    ASSUME NEW cart \in Carts
    PROVE  cart.units \in Nat \ {0} /\ cart.who \in Guests
BY CounterAssumption DEF Carts

\* What a sale must look like, whatever its payments.
Shape(s) ==
    /\ (s.order = Null) = (s.place = "shop")
    /\ s.order = "QUEUED" => s.sale = "PAID" \/ (s.place = "hall" /\ s.sale = "CONFIRMED")
    /\ s.order = "CANCELLED" => s.sale = "CANCELLED"

OutOf(s) == s.sale \in {"CONFIRMED", "PAID"}

\* A step that writes one sale, made before or made by it.
Written(k, new) ==
    /\ k \in RequestKeys /\ new \in Sales /\ Shape(new)
    /\ sale' = [sale EXCEPT ![k] = new]
    /\ IF IsMade(k)
       THEN /\ new.cart = sale[k].cart /\ new.place = sale[k].place
            /\ OutOf(sale[k]) => OutOf(new)
            /\ sale[k].sale \in {"PAID", "CANCELLED"} => new.sale = sale[k].sale
       ELSE ~OutOf(new)

\* The payments it makes: none, or one that was nobody's.
Charged(k, new) ==
    \/ /\ payment' = payment
       /\ new.sale = "PAID" => IsMade(k) /\ sale[k].sale = "PAID"
    \/ /\ IsMade(k) /\ new.sale = "PAID" /\ sale[k].sale # "PAID"
       /\ \E p \in PayKeys : payment[p] = Null /\ payment' = [payment EXCEPT ![p] = k]

\* The goods it sends out.
Sent(k, new) ==
    IF OutOf(new) /\ (~IsMade(k) \/ ~OutOf(sale[k]))
    THEN stock' = stock - new.cart.units
    ELSE stock' = stock

LEMMA SaleWritten ==
    ASSUME CounterTypeOK, MoneyOK, NEW k, NEW new, Written(k, new), Charged(k, new)
    PROVE  (\A l \in RequestKeys : SaleOK(l)') /\ PaymentsOK'
<1>1. /\ sale \in [RequestKeys -> Sales \union {Null}] /\ payment \in [PayKeys -> RequestKeys \union {Null}]
      /\ k \in RequestKeys /\ new \in Sales /\ new # Null
  BY Nothing DEF CounterTypeOK, Written
<1>2. /\ sale'[k] = new
      /\ \A l \in RequestKeys : l # k => sale'[l] = sale[l]
  BY <1>1 DEF Written
<1>3. PaymentsOK'
  BY <1>1, <1>2 DEF PaymentsOK, IsMade, MoneyOK, Charged
<1>4. ASSUME NEW l \in RequestKeys, l # k PROVE SaleOK(l)'
  <2>1. SaleOK(l)
    BY DEF MoneyOK
  <2>2. \A p \in PayKeys : (payment'[p] = l) = (payment[p] = l)
    BY <1>1, <1>4, Nothing DEF Charged
  <2>3. QED  BY <1>2, <1>4, <2>1, <2>2 DEF SaleOK, IsMade
<1>5. SaleOK(k)'
  <2>1. IsMade(k) => SaleOK(k)
    BY <1>1 DEF MoneyOK
  <2>2. ~IsMade(k) => \A p \in PayKeys : payment[p] # k
    BY <1>1, Nothing DEF MoneyOK, PaymentsOK
  <2>3. CASE payment' = payment /\ (new.sale = "PAID" => IsMade(k) /\ sale[k].sale = "PAID")
    <3>1. IsMade(k) => (sale[k].sale = "PAID" => new.sale = "PAID")
      BY DEF Written
    <3>2. new.sale = "PAID" =>
              \E p \in PayKeys : \A q \in PayKeys : (payment'[q] = k) = (q = p)
      BY <2>1, <2>3 DEF SaleOK
    <3>3. new.sale # "PAID" => \A p \in PayKeys : payment'[p] # k
      BY <2>1, <2>2, <2>3, <3>1 DEF SaleOK
    <3>4. QED  BY <1>2, <3>2, <3>3 DEF SaleOK, Written, Shape
  <2>4. CASE /\ IsMade(k) /\ new.sale = "PAID" /\ sale[k].sale # "PAID"
             /\ \E p \in PayKeys : payment[p] = Null /\ payment' = [payment EXCEPT ![p] = k]
    <3>1. \A p \in PayKeys : payment[p] # k
      BY <2>1, <2>4 DEF SaleOK
    <3>2. \E p \in PayKeys : \A q \in PayKeys : (payment'[q] = k) = (q = p)
      BY <1>1, <2>4, <3>1
    <3>3. QED  BY <1>2, <2>4, <3>2 DEF SaleOK, Written, Shape
  <2>5. QED  BY <2>3, <2>4 DEF Charged
<1>6. QED  BY <1>3, <1>4, <1>5

LEMMA GoodsWritten ==
    ASSUME CounterTypeOK, MoneyOK, NEW k, NEW new, Written(k, new), Sent(k, new)
    PROVE  GoodsOK'
<1>1. /\ sale \in [RequestKeys -> Sales \union {Null}] /\ stock \in Nat
      /\ k \in RequestKeys /\ new \in Sales /\ new # Null
  BY Nothing DEF CounterTypeOK, Written
<1>2. /\ sale'[k] = new
      /\ \A l \in RequestKeys : l # k => sale'[l] = sale[l]
  BY <1>1 DEF Written
<1>3. IsFiniteSet(Sold) /\ stock + Gone = Stock0
  BY DEF MoneyOK, GoodsOK
<1> DEFINE e == [l \in RequestKeys |-> sale'[l].cart.units]
<1>4. \A l \in Sold : l \in RequestKeys /\ sale'[l] # Null /\ e[l] = sale[l].cart.units /\ e[l] \in Nat
  <2> SUFFICES ASSUME NEW l \in Sold
               PROVE  l \in RequestKeys /\ sale'[l] # Null /\ e[l] = sale[l].cart.units /\ e[l] \in Nat
    OBVIOUS
  <2>1. l \in RequestKeys /\ sale[l] \in Sales
    BY <1>1 DEF Sold, Made
  <2>2. sale'[l] # Null /\ sale'[l].cart = sale[l].cart
    BY <1>1, <1>2, <2>1, Nothing DEF Written, IsMade
  <2>3. sale[l].cart.units \in Nat
    BY <2>1, CartUnits DEF Sales
  <2>4. QED  BY <2>1, <2>2, <2>3
<1>5. [l \in Sold |-> sale[l].cart.units] = [l \in Sold |-> e[l]]
  BY <1>4
<1>6. Gone' = SumFunction([l \in Sold' |-> e[l]])
  <2>1. [l \in Sold' |-> sale'[l].cart.units] = [l \in Sold' |-> e[l]]
    BY DEF Sold, Made
  <2>2. QED  BY <2>1 DEF Gone
<1>7. CASE OutOf(new) /\ (~IsMade(k) \/ ~OutOf(sale[k]))
  <2>1. k \notin Sold /\ Sold' = Sold \union {k}
    BY <1>1, <1>2, <1>7 DEF Sold, Made, OutOf, IsMade
  <2>2. e[k] \in Nat /\ e[k] = new.cart.units
    BY <1>1, <1>2, CartUnits DEF Sales
  <2>3. \A l \in Sold \union {k} : e[l] \in Int
    BY <1>4, <2>2
  <2>4. IsFiniteSet(Sold')
    BY <1>3, <2>1, FS_AddElement
  <2> HIDE DEF e
  <2>5. /\ SumFunction([l \in Sold \union {k} |-> e[l]]) = SumFunction([l \in Sold |-> e[l]]) + e[k]
        /\ SumFunction([l \in Sold |-> e[l]]) \in Int
    BY <1>3, <2>1, <2>3, SumExtend
  <2>6. Gone' = Gone + e[k] /\ Gone \in Int
    BY <1>5, <1>6, <2>1, <2>5 DEF Gone
  <2>7. stock' = stock - e[k]
    BY <1>7, <2>2 DEF Sent
  <2>8. QED  BY <1>1, <1>3, <2>2, <2>4, <2>6, <2>7, CounterAssumption DEF GoodsOK
<1>8. CASE ~(OutOf(new) /\ (~IsMade(k) \/ ~OutOf(sale[k])))
  <2>1. Sold' = Sold
    BY <1>1, <1>2, <1>8 DEF Sold, Made, OutOf, IsMade, Written
  <2>2. stock' = stock
    BY <1>8 DEF Sent
  <2>3. Gone' = Gone
    BY <1>5, <1>6, <2>1 DEF Gone
  <2>4. QED  BY <1>3, <2>1, <2>2, <2>3 DEF GoodsOK
<1>9. QED  BY <1>7, <1>8
-----------------------------------------------------------------------------
(* Sales only go forward, and what was asked for stays as it was.          *)

Forward ==
    \A k \in RequestKeys : IsMade(k) =>
        /\ sale'[k] # Null /\ sale'[k].cart = sale[k].cart /\ sale'[k].place = sale[k].place
        /\ sale[k].sale \in {"PAID", "CANCELLED"} => sale'[k].sale = sale[k].sale

LEMMA WrittenForward ==
    ASSUME CounterTypeOK, NEW k, NEW new, Written(k, new)
    PROVE  /\ Forward /\ sale' \in [RequestKeys -> Sales \union {Null}] /\ sale'[k] = new
           /\ \A l \in RequestKeys : l # k => sale'[l] = sale[l]
<1>1. sale \in [RequestKeys -> Sales \union {Null}] /\ k \in RequestKeys /\ new \in Sales /\ new # Null
  BY Nothing DEF CounterTypeOK, Written
<1>2. sale'[k] = new /\ \A l \in RequestKeys : l # k => sale'[l] = sale[l]
  BY <1>1 DEF Written
<1>3. ASSUME NEW l \in RequestKeys, IsMade(l)
      PROVE  /\ sale'[l] # Null /\ sale'[l].cart = sale[l].cart /\ sale'[l].place = sale[l].place
             /\ sale[l].sale \in {"PAID", "CANCELLED"} => sale'[l].sale = sale[l].sale
  BY <1>1, <1>2, <1>3 DEF Written, IsMade
<1>4. QED  BY <1>1, <1>2, <1>3 DEF Forward, Written

LEMMA RequestKept ==
    ASSUME Forward, NEW u, NEW r, RequestOK(u, r),
           r.op \in Making /\ ~IsMade(r.key) /\ sale'[r.key] # Null =>
               sale'[r.key].cart = r.cart /\ sale'[r.key].place = PlaceOf(u)
    PROVE  RequestOK(u, r)'
<1>1. ASSUME r.key \in RequestKeys, IsMade(r.key)
      PROVE  /\ sale'[r.key] # Null /\ sale'[r.key].cart = sale[r.key].cart
             /\ sale'[r.key].place = sale[r.key].place
  BY <1>1 DEF Forward
<1>2. r.op \in Making =>
           /\ r.key \in RequestKeys /\ r.cart \in Carts /\ u \in Cashiers \union Waiters
           /\ sale'[r.key] # Null => (sale'[r.key].cart = r.cart /\ sale'[r.key].place = PlaceOf(u))
  BY <1>1 DEF RequestOK, IsMade
<1>3. r.op \in {"checkout", "cancel"} =>
           r.key \in RequestKeys /\ sale'[r.key] # Null /\ sale'[r.key].place # "shop"
  BY <1>1 DEF RequestOK
<1>4. r.op \in {"dispatch", "pay"} => sale'[r.key] # Null /\ sale'[r.key].place = "hall"
  BY <1>1 DEF RequestOK
<1>5. r.op \in {"sell", "confirm"} /\ r.key # Null =>
           sale'[r.key] # Null /\ sale'[r.key].place = "shop"
  <2>1. r \in CallRequests /\ (r.key # Null => r.key \in RequestKeys)
    BY DEF RequestOK, CallRequests
  <2>2. QED  BY <1>1, <2>1 DEF RequestOK
<1>6. r.op = "confirm" => r.key \in RequestKeys /\ r.key # Null
  BY Nothing DEF RequestOK
<1>7. QED  BY <1>2, <1>3, <1>4, <1>5, <1>6 DEF RequestOK, IsMade, PlaceOf

LEMMA ProgressKept ==
    ASSUME Forward, NEW t, RequestOK(t.by, t.req), Progress(t)
    PROVE  Progress(t)'
<1>1. t.req.op \in {"create", "checkout", "cancel"} => t.req.key \in RequestKeys
  BY DEF RequestOK, Making
<1>2. t.req.op = "cancel" => IsMade(t.req.key)
  BY DEF RequestOK
<1>3. (t.step = "order" /\ t.req.op = "cancel") => sale'[t.req.key].sale = "CANCELLED"
  BY <1>1, <1>2 DEF Progress, Forward
<1>4. t.answer = "ok" /\ t.req.op \in {"create", "checkout"} =>
         /\ t.got # Null /\ sale'[t.req.key] # Null
         /\ t.by \in Cashiers => SaysTruly(t.got.order, sale'[t.req.key])
  BY <1>1 DEF Progress, Forward, IsMade, SaysTruly
<1>5. QED  BY <1>3, <1>4 DEF Progress, IsMade

-----------------------------------------------------------------------------
(* The steps of the server.                                                *)

Advances(c) ==
    /\ page' = page /\ guest' = guest /\ CounterTypeOK' /\ MoneyOK' /\ Forward
    /\ \A k \in RequestKeys : ~IsMade(k) /\ sale'[k] # Null =>
          \/ /\ call[c].req.op = "create" /\ call[c].req.key = k
             /\ sale'[k].cart = call[c].req.cart /\ sale'[k].place = PlaceOf(call[c].by)
          \/ Fresh(k) /\ sale'[k].place = "shop"
    /\ \A d \in Calls \ {c} : call'[d] = call[d]
    /\ call[c].step # "free" /\ call'[c].step # "free"
    /\ call'[c].by = call[c].by /\ call'[c].awaited = call[c].awaited
    /\ \/ call'[c].req = call[c].req
       \/ /\ call[c].req.op = "sell" /\ call'[c].req.op = "sell"
          /\ RequestOK(call[c].by, call[c].req)'
    /\ Progress(call[c])'

\* A call that is under way.
LEMMA UnderWay ==
    ASSUME CallsOK, NEW c \in Calls, call[c].step # "free"
    PROVE  /\ call[c].by \in Users /\ RequestOK(call[c].by, call[c].req) /\ Progress(call[c])
           /\ call[c].req \in CallRequests
           /\ call[c].awaited => Awaits(page[call[c].by], call[c].by, call[c].req)
<1>1. CallOK(call[c]) /\ call[c] # NoCall
  BY DEF CallsOK, NoCall
<1>2. QED  BY <1>1 DEF CallOK, RequestOK

LEMMA RequestsKept ==
    ASSUME CounterInv, NEW c \in Calls, Advances(c)
    PROVE  \A u \in Users, r \in Remembered :
              RequestOK(u, r) /\ (page[u].attempt = r \/ \E d \in Calls : call[d].by = u /\ call[d].req = r)
              => RequestOK(u, r)'
<1> SUFFICES ASSUME NEW u \in Users, NEW r \in Remembered, RequestOK(u, r),
                    page[u].attempt = r \/ \E d \in Calls : call[d].by = u /\ call[d].req = r
             PROVE  RequestOK(u, r)'
  OBVIOUS
<1>1. Forward
  BY DEF Advances
<1>2. r # Null
  BY Nothing DEF RequestOK
<1>3. ASSUME r.op \in Making, ~IsMade(r.key), sale'[r.key] # Null
      PROVE  sale'[r.key].cart = r.cart /\ sale'[r.key].place = PlaceOf(u)
  <2>1. r.key \in RequestKeys
    BY <1>3 DEF RequestOK
  <2>2. ~Fresh(r.key)
    BY <1>2 DEF Fresh
  <2>3. /\ call[c].req.op = "create" /\ call[c].req.key = r.key
        /\ sale'[r.key].cart = call[c].req.cart /\ sale'[r.key].place = PlaceOf(call[c].by)
    BY <1>3, <2>1, <2>2 DEF Advances
  <2>4. call[c].by \in Users /\ call[c].req # Null
    BY UnderWay, Nothing DEF Advances, CounterInv
  <2>5. Abroad(u, r) /\ Abroad(call[c].by, call[c].req)
    BY <1>2, <1>3, <2>3, <2>4 DEF Abroad, Making
  <2>6. call[c].by = u /\ call[c].req.cart = r.cart
    BY <2>3, <2>4, <2>5 DEF CounterInv, OneOwner, Remembered
  <2>7. QED  BY <2>3, <2>6
<1>4. QED  BY <1>1, <1>3, RequestKept

LEMMA AdvanceCalls ==
    ASSUME CounterInv, NEW c \in Calls, Advances(c)
    PROVE  CallsOK'
<1>1. Forward /\ page' = page
  BY DEF Advances
<1>2. ASSUME NEW d \in Calls, call[d].step # "free", call'[d].req = call[d].req,
             call'[d].by = call[d].by
      PROVE  RequestOK(call[d].by, call[d].req)'
  <2>1. /\ call[d].by \in Users /\ RequestOK(call[d].by, call[d].req)
        /\ call[d].req \in Remembered
    BY <1>2, UnderWay DEF CounterInv, Remembered
  <2>2. PICK u \in Users, r \in Remembered : u = call[d].by /\ r = call[d].req
    BY <2>1
  <2>3. RequestOK(u, r)'
    BY <2>1, <2>2, RequestsKept
  <2>4. QED  BY <1>2, <2>2, <2>3
<1>3. ASSUME NEW d \in Calls, d # c PROVE CallOK(call[d])'
  <2>1. call'[d] = call[d]
    BY <1>3 DEF Advances
  <2>2. CASE call[d] = NoCall
    BY <2>1, <2>2 DEF CallOK
  <2>3. CASE call[d] # NoCall
    <3>1. call[d].step # "free"
      BY <2>3 DEF CounterInv, CallsOK, CallOK
    <3>2. RequestOK(call[d].by, call[d].req)'
      BY <1>2, <2>1, <3>1
    <3>3. /\ call[d].by \in Users /\ RequestOK(call[d].by, call[d].req) /\ Progress(call[d])
          /\ call[d].awaited => Awaits(page[call[d].by], call[d].by, call[d].req)
      BY <3>1, UnderWay DEF CounterInv
    <3>4. PICK t : t = call[d]
      OBVIOUS
    <3>5. Progress(t)'
      BY <1>1, <3>3, <3>4, ProgressKept
    <3>6. QED  BY <1>1, <2>1, <3>1, <3>2, <3>3, <3>4, <3>5 DEF CallOK, Awaits
  <2>4. QED  BY <2>2, <2>3
<1>4. CallOK(call[c])'
  <2>1. /\ call[c].by \in Users
        /\ call[c].awaited => Awaits(page[call[c].by], call[c].by, call[c].req)
        /\ RequestOK(call[c].by, call[c].req)
    BY UnderWay DEF CounterInv, Advances
  <2>2. RequestOK(call[c].by, call[c].req)'
    BY <1>2 DEF Advances
  <2>3. call'[c].awaited => Awaits(page'[call'[c].by], call'[c].by, call'[c].req)
    <3>1. CASE call'[c].req = call[c].req
      BY <2>1, <3>1 DEF Advances
    <3>2. CASE call[c].req.op = "sell" /\ call'[c].req.op = "sell"
      <4>1. call[c].by \notin Waiters
        BY <2>1, <3>2, CounterAssumption DEF RequestOK
      <4>2. QED  BY <2>1, <3>2, <4>1 DEF Awaits, Advances
    <3>3. QED  BY <3>1, <3>2 DEF Advances
  <2>4. QED  BY <2>1, <2>2, <2>3 DEF CallOK, Advances, Awaits
<1>5. OneCall'
  <2>1. \A d \in Calls : call'[d].by = call[d].by /\ call'[d].awaited = call[d].awaited
    BY DEF Advances
  <2>2. QED  BY <2>1 DEF CounterInv, CallsOK, OneCall
<1>6. QED  BY <1>3, <1>4, <1>5 DEF CallsOK

LEMMA AdvancePages ==
    ASSUME CounterInv, NEW c \in Calls, Advances(c)
    PROVE  PagesOK'
<1> SUFFICES ASSUME NEW u \in Users PROVE PageOK(u, page[u])'
  BY DEF PagesOK
<1>1. PageOK(u, page[u]) /\ page' = page
  BY DEF CounterInv, PagesOK, Advances
<1>2. page[u].attempt # Null => RequestOK(u, page[u].attempt)'
  <2>1. PICK r : r = page[u].attempt
    OBVIOUS
  <2>2. r # Null => RequestOK(u, r)'
    BY <1>1, <2>1, RequestsKept DEF PageOK, Remembered
  <2>3. QED  BY <1>1, <2>1, <2>2 DEF RequestOK, IsMade, PlaceOf
<1>3. page[u].order # Null =>
         /\ page[u].order \in RequestKeys /\ IsMade(page[u].order)
         /\ sale'[page[u].order] # Null /\ sale'[page[u].order].place = sale[page[u].order].place
         /\ sale[page[u].order].sale \in {"PAID", "CANCELLED"} =>
               sale'[page[u].order].sale = sale[page[u].order].sale
  <2>1. page[u].order \in RequestKeys \union {Null}
    BY TypeShape DEF CounterInv, PageT
  <2>2. QED  BY <1>1, <2>1 DEF PageOK, Forward, Advances
<1>4. page[u].order # Null => SaysTruly(page[u].status, sale'[page[u].order])
  BY <1>1, <1>3 DEF PageOK, SaysTruly
<1>5. QED  BY <1>1, <1>2, <1>3, <1>4 DEF PageOK, IsMade

LEMMA AdvanceOwners ==
    ASSUME CounterInv, NEW c \in Calls, Advances(c)
    PROVE  OneOwner'
<1>1. \A u \in Users : \A r : Abroad(u, r)' => Abroad(u, r)
  <2> SUFFICES ASSUME NEW u \in Users, NEW r, Abroad(u, r)' PROVE Abroad(u, r)
    OBVIOUS
  <2>1. CASE page'[u].attempt = r
    BY <2>1 DEF Abroad, Advances
  <2>2. ASSUME NEW d \in Calls, call'[d].by = u, call'[d].req = r PROVE Abroad(u, r)
    <3>1. call[d].by = u /\ call[d].req = r
      BY <2>2 DEF Abroad, Making, Advances
    <3>2. QED  BY <3>1 DEF Abroad
  <2>3. QED  BY <2>1, <2>2 DEF Abroad
<1>2. \A u \in Users : \A r : Abroad(u, r) => r \in Remembered
  BY DEF Abroad, Remembered
<1>3. QED  BY <1>1, <1>2 DEF OneOwner, CounterInv

LEMMA AdvanceGuests ==
    ASSUME CounterInv, NEW c \in Calls, Advances(c)
    PROVE  OnePage' /\ GuestsOK'
<1>1. page' = page /\ guest' = guest
  BY DEF Advances
<1>2. OnePage'
  BY <1>1 DEF OnePage, With, CounterInv
<1>3. ASSUME NEW k \in RequestKeys, NEW g \in Guests, Stands(k, g)' PROVE Stands(k, g)
  <2>1. CASE sale'[k] # Null /\ sale'[k].place # "shop" /\ sale'[k].cart.who = g
    <3>1. CASE IsMade(k)
      BY <2>1, <3>1 DEF Stands, Advances, Forward
    <3>2. CASE ~IsMade(k)
      <4>1. For(call[c].req, k, g)
        <5>1. call[c].req # Null
          BY UnderWay, Nothing DEF CounterInv, Advances
        <5>2. QED  BY <2>1, <3>2, <5>1 DEF Advances, For
      <4>2. QED  BY <4>1 DEF Stands
    <3>3. QED  BY <3>1, <3>2
  <2>2. ASSUME NEW d \in Calls, For(call'[d].req, k, g) PROVE Stands(k, g)
    <3>1. call'[d].req = call[d].req
      BY <2>2 DEF For, Advances
    <3>2. QED  BY <2>2, <3>1 DEF Stands
  <2>3. QED  BY <1>1, <1>3, <2>1, <2>2 DEF Stands, IsMade, For
<1>4. ASSUME NEW g \in Guests, GuestOK(g) PROVE GuestOK(g)'
  BY <1>1, <1>3, <1>4 DEF GuestOK, Asks, For
<1>5. QED  BY <1>1, <1>2, <1>4 DEF GuestsOK, CounterInv

LEMMA AdvanceKeeps ==
    ASSUME CounterInv, NEW c \in Calls, Advances(c)
    PROVE  CounterInv'
BY AdvanceCalls, AdvancePages, AdvanceOwners, AdvanceGuests DEF CounterInv, Advances
-----------------------------------------------------------------------------
(* Each step of the server advances its call.                              *)

Moved ==
    /\ page' = page /\ guest' = guest
    /\ sale' \in [RequestKeys -> Sales \union {Null}] /\ payment' \in [PayKeys -> RequestKeys \union {Null}]
    /\ stock' \in Nat /\ MoneyOK' /\ Forward

LEMMA StaysMoved ==
    ASSUME CounterInv, UNCHANGED <<server, page, guest>>
    PROVE  /\ Moved /\ sale' = sale
<1>1. CounterTypeOK /\ MoneyOK /\ sale' = sale /\ payment' = payment /\ stock' = stock
  BY DEF CounterInv, server
<1>2. MoneyOK'
  BY <1>1 DEF MoneyOK, SaleOK, PaymentsOK, GoodsOK, Gone, Sold, Made, IsMade
<1>3. Forward
  BY <1>1 DEF Forward, IsMade
<1>4. QED  BY <1>1, <1>2, <1>3, TypeShape DEF Moved

LEMMA WritesMoved ==
    ASSUME CounterInv, UNCHANGED <<page, guest>>,
           NEW k, NEW new, Written(k, new), Charged(k, new), Sent(k, new), stock' \in Nat
    PROVE  /\ Moved /\ sale'[k] = new
           /\ \A l \in RequestKeys : l # k => sale'[l] = sale[l]
<1>1. CounterTypeOK /\ MoneyOK
  BY DEF CounterInv
<1>2. MoneyOK'
  BY <1>1, SaleWritten, GoodsWritten DEF MoneyOK
<1>3. payment' \in [PayKeys -> RequestKeys \union {Null}]
  BY <1>1 DEF Charged, CounterTypeOK, Written
<1>4. QED  BY <1>1, <1>2, <1>3, WrittenForward DEF Moved

Says == {Null, "ok", "short", "conflict", "denied", "busy"}

LEMMA AnswerAdvances ==
    ASSUME CounterInv, NEW c \in Calls, call[c].step # "free", Moved, NEW answer \in Says,
           Reply(c, answer),
           \A k \in RequestKeys : ~IsMade(k) /\ sale'[k] # Null =>
              /\ call[c].req.op = "create" /\ call[c].req.key = k
              /\ sale'[k].cart = call[c].req.cart /\ sale'[k].place = PlaceOf(call[c].by),
           call[c].req.op = "sell" => answer # "ok",
           answer = "ok" /\ call[c].req.op \in {"create", "checkout"} =>
              /\ sale'[call[c].req.key] # Null
              /\ call[c].by \in Cashiers =>
                    SaysTruly(sale'[call[c].req.key].order, sale'[call[c].req.key])
    PROVE  Advances(c)
<1>1. /\ call \in [Calls -> CallT] /\ call[c].req \in CallRequests /\ Progress(call[c])
      /\ RequestOK(call[c].by, call[c].req)
  BY TypeShape, UnderWay DEF CounterInv
<1>2. PICK got \in Sales \union {Null} :
         got = IF call[c].req.key = Null THEN Null ELSE sale'[call[c].req.key]
  <2>1. call[c].req.key = Null \/ call[c].req.key \in RequestKeys
    BY <1>1 DEF CallRequests
  <2>2. QED  BY <2>1 DEF Moved
<1>3. call' = [call EXCEPT ![c].step = "answered", ![c].answer = answer, ![c].got = got]
  BY <1>2 DEF Reply
<1>4. PICK t \in CallT : t = call[c]
  BY <1>1
<1>5. call'[c] = [t EXCEPT !.step = "answered", !.answer = answer, !.got = got]
  BY <1>1, <1>3, <1>4
<1>6. /\ call'[c].step = "answered" /\ call'[c].answer = answer /\ call'[c].got = got
      /\ call'[c].by = call[c].by /\ call'[c].awaited = call[c].awaited
      /\ call'[c].req = call[c].req /\ call'[c] \in CallT
  <2>1. /\ t.by \in Users \union {Null} /\ t.awaited \in BOOLEAN /\ t.req \in CallRequests \union {Null}
    BY <1>4 DEF CallT
  <2>2. QED  BY <1>4, <1>5, <2>1 DEF CallT, Says
<1>7. call' \in [Calls -> CallT] /\ \A d \in Calls \ {c} : call'[d] = call[d]
  BY <1>1, <1>3, <1>6
<1>8. CounterTypeOK'
  BY <1>7, TypeShape DEF Moved, CounterInv, CounterTypeOK, CallT
<1>9. Progress(call[c])'
  <2>1. call[c].req.op \in {"create", "checkout"} => call[c].req.key \in RequestKeys
    BY <1>1 DEF RequestOK, Making
  <2>2. call[c].req.op \in {"create", "checkout"} => got = sale'[call[c].req.key]
    BY <1>2, <2>1, Nothing
  <2>3. QED  BY <1>6, <2>2 DEF Progress, IsMade
<1>10. QED  BY <1>6, <1>7, <1>8, <1>9 DEF Advances, Moved

LEMMA GoToAdvances ==
    ASSUME CounterInv, NEW c \in Calls, call[c].step \in {"sent", "sale"}, Moved,
           NEW step \in {"sale", "order"}, GoOn(c, step),
           \A k \in RequestKeys : ~IsMade(k) => sale'[k] = Null,
           call[c].req.op \in {"checkout", "cancel"},
           step = "order" /\ call[c].req.op = "cancel" => sale'[call[c].req.key].sale = "CANCELLED"
    PROVE  Advances(c)
<1>1. call \in [Calls -> CallT] /\ Progress(call[c])
  BY TypeShape, UnderWay DEF CounterInv
<1>2. PICK t \in CallT : t = call[c]
  BY <1>1
<1>3. call' = [call EXCEPT ![c] = [t EXCEPT !.step = step]]
  BY <1>1, <1>2 DEF GoOn
<1>4. /\ call'[c].step = step /\ call'[c].answer = call[c].answer
      /\ call'[c].by = call[c].by /\ call'[c].awaited = call[c].awaited
      /\ call'[c].req = call[c].req /\ call'[c] \in CallT
  BY <1>1, <1>2, <1>3 DEF CallT
<1>5. call' \in [Calls -> CallT] /\ \A d \in Calls \ {c} : call'[d] = call[d]
  BY <1>1, <1>3, <1>4
<1>6. CounterTypeOK'
  BY <1>5, TypeShape DEF Moved, CounterInv, CounterTypeOK, CallT
<1>7. Progress(call[c])'
  BY <1>1, <1>4, Nothing DEF Progress
<1>8. QED  BY <1>4, <1>5, <1>6, <1>7 DEF Advances, Moved

\* An answer that changes nothing.
LEMMA RefuseAdvances ==
    ASSUME CounterInv, NEW c \in Calls, call[c].step # "free", NEW answer \in Says,
           Refuse(c, answer), UNCHANGED <<page, guest>>,
           call[c].req.op = "sell" => answer # "ok",
           answer = "ok" /\ call[c].req.op \in {"create", "checkout"} =>
              /\ IsMade(call[c].req.key)
              /\ call[c].by \in Cashiers =>
                    SaysTruly(sale[call[c].req.key].order, sale[call[c].req.key])
    PROVE  Advances(c)
<1>1. Moved /\ sale' = sale
  BY StaysMoved DEF Refuse
<1>2. QED  BY <1>1, AnswerAdvances DEF Refuse, IsMade
LEMMA CreateAdvances ==
    ASSUME CounterInv, NEW c \in Calls, Create(c)
    PROVE  Advances(c)
<1> DEFINE r == call[c].req
           place == PlaceOf(call[c].by)
<1>1. /\ call[c].step # "free" /\ r.op = "create" /\ RequestOK(call[c].by, r)
      /\ r.key \in RequestKeys /\ r.cart \in Carts
  BY UnderWay DEF CounterInv, Create, At, RequestOK, Making
<1>2. CASE ~IsMade(r.key)
  <2> DEFINE new == NewSale(r.cart, place)
  <2>1. /\ sale' = [sale EXCEPT ![r.key] = new] /\ Reply(c, "ok")
        /\ UNCHANGED <<payment, stock, page, guest>>
    BY <1>2 DEF Create, IsMade, PlaceOf
  <2>2. new \in Sales /\ Shape(new) /\ ~OutOf(new) /\ new.cart = r.cart /\ new.place = place
        /\ new.order = "DRAFT" /\ new.sale = "DRAFT" /\ new # Null
    BY <1>1, Nothing DEF NewSale, Sales, Shape, OutOf, PlaceOf
  <2> HIDE DEF new
  <2>3. Written(r.key, new) /\ Charged(r.key, new) /\ Sent(r.key, new) /\ stock' \in Nat
    BY <1>1, <1>2, <2>1, <2>2 DEF Written, Charged, Sent, CounterInv, CounterTypeOK
  <2>4. /\ Moved /\ sale'[r.key] = new
        /\ \A l \in RequestKeys : l # r.key => sale'[l] = sale[l]
    BY <2>1, <2>3, WritesMoved
  <2>5. \A k \in RequestKeys : ~IsMade(k) /\ sale'[k] # Null =>
            r.key = k /\ sale'[k].cart = r.cart /\ sale'[k].place = place
    BY <2>2, <2>4 DEF IsMade
  <2>6. SaysTruly(sale'[r.key].order, sale'[r.key])
    BY <2>2, <2>4 DEF SaysTruly
  <2>7. QED  BY <1>1, <2>1, <2>2, <2>4, <2>5, <2>6, AnswerAdvances DEF Says
<1>3. CASE IsMade(r.key)
  <2>1. sale[r.key].cart = r.cart /\ sale[r.key].place = place
    BY <1>1, <1>3 DEF RequestOK, Making
  <2>2. Refuse(c, "ok") /\ UNCHANGED <<page, guest>>
    BY <1>3, <2>1 DEF Create, IsMade
  <2>3. call[c].by \in Cashiers => SaysTruly(sale[r.key].order, sale[r.key])
    <3>1. SaleOK(r.key)
      BY <1>1 DEF CounterInv, MoneyOK
    <3>2. call[c].by \in Cashiers => place = "counter"
      BY CounterAssumption DEF PlaceOf
    <3>3. QED  BY <1>3, <2>1, <3>1, <3>2 DEF SaleOK, SaysTruly
  <2>4. QED  BY <1>1, <1>3, <2>2, <2>3, RefuseAdvances DEF Says
<1>4. QED  BY <1>2, <1>3

LEMMA QuoteAdvances ==
    ASSUME CounterInv, NEW c \in Calls, Quote(c)
    PROVE  Advances(c)
<1>1. PICK answer \in {"ok", "short"} : Refuse(c, answer)
  BY DEF Quote
<1>2. call[c].step # "free" /\ call[c].req.op = "quote"
  BY DEF Quote, At
<1>3. UNCHANGED <<page, guest>>
  BY DEF Quote
<1>4. QED  BY <1>1, <1>2, <1>3, RefuseAdvances DEF Says

LEMMA TurnAwayAdvances ==
    ASSUME CounterInv, NEW c \in Calls, TurnAway(c)
    PROVE  Advances(c)
<1>1. PICK answer \in {"denied", "busy"} : Refuse(c, answer)
  BY DEF TurnAway
<1>2. call[c].step # "free" /\ UNCHANGED <<page, guest>>
  BY DEF TurnAway
<1>3. QED  BY <1>1, <1>2, RefuseAdvances DEF Says

\* The sale of a call on one that is made.
LEMMA MadeSale ==
    ASSUME CounterInv, NEW c \in Calls, call[c].step # "free",
           call[c].req.op \in {"checkout", "cancel", "dispatch", "pay", "confirm"}
    PROVE  /\ call[c].req.key \in RequestKeys /\ IsMade(call[c].req.key)
           /\ sale[call[c].req.key] \in Sales
           /\ Shape(sale[call[c].req.key])
           /\ call[c].req.pay \in PayKeys \union {Null}
           /\ stock \in Nat
           /\ sale[call[c].req.key].cart.units \in Nat
<1>1. RequestOK(call[c].by, call[c].req) /\ call[c].req \in CallRequests
  BY UnderWay DEF CounterInv
<1>2. call[c].req.key \in RequestKeys /\ IsMade(call[c].req.key)
  <2>1. CASE call[c].req.op \in {"dispatch", "pay"}
    BY <1>1, <2>1 DEF RequestOK
  <2>2. CASE call[c].req.op \in {"checkout", "cancel", "confirm"}
    BY <1>1, <2>2 DEF RequestOK
  <2>3. QED  BY <2>1, <2>2
<1>3. sale[call[c].req.key] \in Sales
  BY <1>2 DEF IsMade, CounterInv, CounterTypeOK
<1>4. SaleOK(call[c].req.key)
  BY <1>2 DEF CounterInv, MoneyOK
<1>5. QED  BY <1>1, <1>2, <1>3, <1>4, CartUnits
        DEF SaleOK, Shape, CallRequests, Sales, CounterInv, CounterTypeOK

\* A sale that is confirmed.
LEMMA ConfirmedWrites ==
    ASSUME CounterInv, NEW k \in RequestKeys, NEW pay \in PayKeys \union {Null}, IsMade(k),
           ConfirmVerdict(k, pay) = "go", Confirmed(k, pay), UNCHANGED <<page, guest>>
    PROVE  /\ Moved /\ \A l \in RequestKeys : ~IsMade(l) => sale'[l] = Null
           /\ \A l \in RequestKeys : IsMade(l) => sale'[l].order = sale[l].order
<1> DEFINE new == [sale[k] EXCEPT !.sale = IF pay = Null THEN "CONFIRMED" ELSE "PAID"]
<1>1. /\ sale \in [RequestKeys -> Sales \union {Null}] /\ payment \in [PayKeys -> RequestKeys \union {Null}]
      /\ stock \in Nat /\ sale[k] \in Sales /\ sale[k].cart.units \in Nat /\ SaleOK(k)
  BY CartUnits DEF CounterInv, CounterTypeOK, IsMade, Sales, MoneyOK
<1>2. sale[k].sale = "DRAFT" /\ Usable(pay, k) /\ sale[k].cart.units <= stock
  BY <1>1 DEF ConfirmVerdict
<1>3. sale' = [sale EXCEPT ![k] = new]
  BY <1>1 DEF Confirmed
<1>4. /\ new \in Sales /\ new.cart = sale[k].cart /\ new.place = sale[k].place
      /\ new.order = sale[k].order /\ new.sale = IF pay = Null THEN "CONFIRMED" ELSE "PAID"
  BY <1>1 DEF Sales
<1> HIDE DEF new
<1>5. Shape(new) /\ OutOf(new) /\ ~OutOf(sale[k])
  BY <1>1, <1>2, <1>4 DEF SaleOK, Shape, OutOf, IsMade
<1>6. Written(k, new)
  BY <1>2, <1>3, <1>4, <1>5 DEF Written
<1>7. Charged(k, new)
  <2>1. CASE pay = Null
    BY <1>4, <2>1 DEF Charged, Confirmed
  <2>2. CASE pay # Null
    <3>1. payment[pay] = Null
      BY <1>1, <1>2, <2>2 DEF Usable, SaleOK, IsMade
    <3>2. QED  BY <1>2, <1>4, <2>2, <3>1 DEF Charged, Confirmed
  <2>3. QED  BY <2>1, <2>2
<1>8. Sent(k, new) /\ stock' \in Nat
  BY <1>1, <1>2, <1>4, <1>5 DEF Sent, Confirmed
<1>9. Moved /\ sale'[k] = new /\ \A l \in RequestKeys : l # k => sale'[l] = sale[l]
  BY <1>6, <1>7, <1>8, WritesMoved
<1>10. QED  BY <1>4, <1>9 DEF IsMade

LEMMA CheckoutAdvances ==
    ASSUME CounterInv, NEW c \in Calls, CheckoutLook(c) \/ CheckoutConfirm(c) \/ CheckoutQueue(c)
    PROVE  Advances(c)
<1> DEFINE k == call[c].req.key
           pay == call[c].req.pay
<1>1. call[c].req.op = "checkout" /\ call[c].step \in {"sent", "sale", "order"} /\ UNCHANGED <<page, guest>>
  BY DEF CheckoutLook, CheckoutConfirm, CheckoutQueue, At
<1>2. /\ k \in RequestKeys /\ IsMade(k) /\ sale[k] \in Sales /\ Shape(sale[k])
      /\ pay \in PayKeys \union {Null}
      /\ stock \in Nat
  BY <1>1, MadeSale
<1>3. \A answer \in {"denied", "conflict"} : Refuse(c, answer) => Advances(c)
  BY <1>1, RefuseAdvances DEF Says
<1>4. \A step \in {"sale", "order"} :
          GoOn(c, step) /\ UNCHANGED server /\ call[c].step # "order" => Advances(c)
  BY <1>1, StaysMoved, GoToAdvances DEF IsMade
<1>5. CASE CheckoutLook(c)
  BY <1>3, <1>4, <1>5 DEF CheckoutLook, At
<1>6. CASE CheckoutConfirm(c)
  <2>1. CASE ConfirmVerdict(k, pay) = "go" /\ Confirmed(k, pay) /\ GoOn(c, "order")
    <3>1. Moved /\ \A l \in RequestKeys : ~IsMade(l) => sale'[l] = Null
      BY <1>1, <1>2, <2>1, ConfirmedWrites
    <3>2. call[c].step = "sale"
      BY <1>6 DEF CheckoutConfirm, At
    <3>3. QED  BY <1>1, <2>1, <3>1, <3>2, GoToAdvances
  <2>2. QED  BY <1>3, <1>4, <1>6, <2>1 DEF CheckoutConfirm, At
<1>7. CASE CheckoutQueue(c) /\ sale[k].sale = "PAID"
  <2> DEFINE new == [sale[k] EXCEPT !.order = IF @ = "DRAFT" THEN "QUEUED" ELSE @]
  <2>1. /\ sale' = [sale EXCEPT ![k] = new] /\ payment' = payment /\ stock' = stock /\ Reply(c, "ok")
    BY <1>2, <1>7 DEF CheckoutQueue, CounterInv, CounterTypeOK
  <2>2. /\ new \in Sales /\ new.cart = sale[k].cart /\ new.place = sale[k].place /\ new.sale = "PAID"
        /\ new.order = IF sale[k].order = "DRAFT" THEN "QUEUED" ELSE sale[k].order
    BY <1>2, <1>7 DEF Sales
  <2> HIDE DEF new
  <2>3. Shape(new) /\ OutOf(new) /\ OutOf(sale[k])
    BY <1>2, <1>7, <2>2, Nothing DEF Shape, OutOf
  <2>4. Written(k, new) /\ Charged(k, new) /\ Sent(k, new) /\ stock' \in Nat
    BY <1>2, <1>7, <2>1, <2>2, <2>3 DEF Written, Charged, Sent
  <2>5. Moved /\ sale'[k] = new /\ \A l \in RequestKeys : l # k => sale'[l] = sale[l]
    BY <1>1, <2>4, WritesMoved
  <2>6. new # Null
    BY <2>2, Nothing
  <2>7. SaysTruly(sale'[k].order, sale'[k])
    <3>1. sale[k].order # "CANCELLED"
      BY <1>2, <1>7 DEF CounterInv, MoneyOK, SaleOK
    <3>2. QED  BY <2>2, <2>5, <3>1 DEF SaysTruly
  <2>8. QED  BY <1>1, <1>2, <2>1, <2>2, <2>5, <2>6, <2>7, AnswerAdvances DEF Says, IsMade
<1>8. CASE CheckoutQueue(c) /\ sale[k].sale # "PAID"
  BY <1>3, <1>8 DEF CheckoutQueue
<1>9. QED  BY <1>5, <1>6, <1>7, <1>8
LEMMA CancelAdvances ==
    ASSUME CounterInv, NEW c \in Calls, CancelLook(c) \/ CancelSale(c) \/ CancelOrder(c)
    PROVE  Advances(c)
<1> DEFINE k == call[c].req.key
<1>1. call[c].req.op = "cancel" /\ call[c].step \in {"sent", "sale", "order"} /\ UNCHANGED <<page, guest>>
  BY DEF CancelLook, CancelSale, CancelOrder, At
<1>2. /\ k \in RequestKeys /\ IsMade(k) /\ sale[k] \in Sales /\ Shape(sale[k]) /\ stock \in Nat
      /\ sale[k].place # "shop"
  BY <1>1, MadeSale, UnderWay DEF RequestOK, CounterInv
<1>3. \A answer \in {"ok", "conflict"} : Refuse(c, answer) => Advances(c)
  BY <1>1, RefuseAdvances DEF Says
<1>4. CASE CancelLook(c)
  <2>1. sale[k].order \in {"DRAFT", "QUEUED", "CANCELLED"}
    BY <1>2 DEF Sales, Shape
  <2>2. CASE sale[k].order = "DRAFT"
    <3>1. GoOn(c, "sale") /\ UNCHANGED server
      BY <1>4, <2>2 DEF CancelLook
    <3>2. call[c].step = "sent"
      BY <1>4 DEF CancelLook, At
    <3>3. QED  BY <1>1, <3>1, <3>2, StaysMoved, GoToAdvances DEF IsMade
  <2>3. QED  BY <1>3, <1>4, <2>1, <2>2 DEF CancelLook
<1>5. CASE CancelSale(c) /\ ~Cancellable(k)
  BY <1>3, <1>5 DEF CancelSale
<1>6. CASE CancelSale(c) /\ Cancellable(k)
  <2> DEFINE new == [sale[k] EXCEPT !.sale = "CANCELLED"]
  <2>1. /\ sale' = [sale EXCEPT ![k] = new] /\ payment' = payment /\ stock' = stock
        /\ GoOn(c, "order") /\ call[c].step = "sale"
    BY <1>2, <1>6 DEF CancelSale, At, CounterInv, CounterTypeOK
  <2>2. /\ new \in Sales /\ new.cart = sale[k].cart /\ new.place = sale[k].place
        /\ new.sale = "CANCELLED" /\ new.order = sale[k].order
    BY <1>2 DEF Sales
  <2> HIDE DEF new
  <2>3. Shape(new) /\ ~OutOf(new) /\ ~OutOf(sale[k])
    BY <1>2, <1>6, <2>2 DEF Shape, OutOf, Cancellable
  <2>4. Written(k, new) /\ Charged(k, new) /\ Sent(k, new) /\ stock' \in Nat
    BY <1>2, <1>6, <2>1, <2>2, <2>3 DEF Written, Charged, Sent, Cancellable
  <2>5. Moved /\ sale'[k] = new /\ \A l \in RequestKeys : l # k => sale'[l] = sale[l]
    BY <1>1, <2>4, WritesMoved
  <2>6. QED  BY <1>1, <1>2, <2>1, <2>2, <2>5, GoToAdvances DEF IsMade
<1>7. CASE CancelOrder(c)
  <2> DEFINE new == [sale[k] EXCEPT !.order = IF @ = "DRAFT" THEN "CANCELLED" ELSE @]
  <2>1. /\ sale' = [sale EXCEPT ![k] = new] /\ payment' = payment /\ stock' = stock /\ Reply(c, "ok")
    BY <1>2, <1>7 DEF CancelOrder, CounterInv, CounterTypeOK
  <2>2. sale[k].sale = "CANCELLED"
    BY <1>1, <1>7, UnderWay DEF CancelOrder, At, Progress, CounterInv
  <2>3. /\ new \in Sales /\ new.cart = sale[k].cart /\ new.place = sale[k].place /\ new.sale = "CANCELLED"
        /\ new.order = IF sale[k].order = "DRAFT" THEN "CANCELLED" ELSE sale[k].order
    BY <1>2, <2>2 DEF Sales
  <2> HIDE DEF new
  <2>4. Shape(new) /\ ~OutOf(new) /\ ~OutOf(sale[k])
    BY <1>2, <2>2, <2>3, Nothing DEF Shape, OutOf
  <2>5. Written(k, new) /\ Charged(k, new) /\ Sent(k, new) /\ stock' \in Nat
    BY <1>2, <2>1, <2>2, <2>3, <2>4 DEF Written, Charged, Sent
  <2>6. Moved /\ sale'[k] = new /\ \A l \in RequestKeys : l # k => sale'[l] = sale[l]
    BY <1>1, <2>5, WritesMoved
  <2>7. QED  BY <1>1, <1>2, <2>1, <2>6, AnswerAdvances DEF Says, IsMade
<1>8. QED  BY <1>4, <1>5, <1>6, <1>7

LEMMA DispatchAdvances ==
    ASSUME CounterInv, NEW c \in Calls, Dispatch(c)
    PROVE  Advances(c)
<1> DEFINE k == call[c].req.key
<1>1. call[c].req.op = "dispatch" /\ call[c].step = "sent" /\ UNCHANGED <<page, guest>>
  BY DEF Dispatch, At
<1>2. /\ k \in RequestKeys /\ IsMade(k) /\ sale[k] \in Sales /\ Shape(sale[k]) /\ stock \in Nat
      /\ sale[k].place = "hall" /\ sale[k].cart.units \in Nat
  BY <1>1, MadeSale, UnderWay DEF RequestOK, CounterInv
<1>3. \A answer \in {"ok", "conflict"} : Refuse(c, answer) => Advances(c)
  BY <1>1, RefuseAdvances DEF Says
<1>4. ASSUME NEW status \in {"CONFIRMED", "PAID"},
             sale[k].sale = status \/ (sale[k].sale = "DRAFT" /\ status = "CONFIRMED"),
             sale' = [sale EXCEPT ![k] = [sale[k] EXCEPT !.order = "QUEUED", !.sale = status]],
             IF sale[k].sale = "DRAFT"
             THEN sale[k].cart.units <= stock /\ stock' = stock - sale[k].cart.units
             ELSE stock' = stock,
             payment' = payment, Reply(c, "ok")
      PROVE  Advances(c)
  <2> DEFINE new == [sale[k] EXCEPT !.order = "QUEUED", !.sale = status]
  <2>1. /\ new \in Sales /\ new.cart = sale[k].cart /\ new.place = sale[k].place /\ new.sale = status
        /\ new.order = "QUEUED" /\ sale' = [sale EXCEPT ![k] = new]
    BY <1>2, <1>4 DEF Sales
  <2> HIDE DEF new
  <2>2. Shape(new) /\ OutOf(new) /\ (OutOf(sale[k]) = (sale[k].sale # "DRAFT"))
    BY <1>2, <1>4, <2>1, Nothing DEF Shape, OutOf
  <2>3. stock' \in Nat
    BY <1>2, <1>4
  <2>4. Written(k, new) /\ Charged(k, new) /\ Sent(k, new)
    BY <1>2, <1>4, <2>1, <2>2 DEF Written, Charged, Sent
  <2>5. Moved /\ sale'[k] = new /\ \A l \in RequestKeys : l # k => sale'[l] = sale[l]
    BY <1>1, <2>3, <2>4, WritesMoved
  <2>6. QED  BY <1>1, <1>2, <1>4, <2>5, AnswerAdvances DEF Says, IsMade
<1>5. sale \in [RequestKeys -> Sales \union {Null}]
  BY DEF CounterInv, CounterTypeOK
<1>6. CASE /\ sale[k].sale = "DRAFT" /\ sale[k].cart.units <= stock
           /\ sale' = [[sale EXCEPT ![k].order = "QUEUED"] EXCEPT ![k].sale = "CONFIRMED"]
           /\ stock' = stock - sale[k].cart.units
           /\ Reply(c, "ok") /\ payment' = payment
  <2>1. sale' = [sale EXCEPT ![k] = [sale[k] EXCEPT !.order = "QUEUED", !.sale = "CONFIRMED"]]
    BY <1>2, <1>5, <1>6
  <2>2. QED  BY <1>4, <1>6, <2>1
<1>7. CASE /\ sale[k].sale \in {"CONFIRMED", "PAID"}
           /\ sale' = [sale EXCEPT ![k].order = "QUEUED"]
           /\ Reply(c, "ok") /\ payment' = payment /\ stock' = stock
  <2>1. [sale[k] EXCEPT !.order = "QUEUED", !.sale = sale[k].sale] = [sale[k] EXCEPT !.order = "QUEUED"]
    BY <1>2 DEF Sales
  <2>2. sale' = [sale EXCEPT ![k] = [sale[k] EXCEPT !.order = "QUEUED", !.sale = sale[k].sale]]
    BY <1>2, <1>5, <1>7, <2>1
  <2>3. QED  BY <1>4, <1>7, <2>2
<1>8. \/ \E answer \in {"ok", "conflict"} : Refuse(c, answer)
      \/ /\ sale[k].sale = "DRAFT" /\ ~(sale[k].cart.units > stock)
         /\ sale' = [[sale EXCEPT ![k].order = "QUEUED"] EXCEPT ![k].sale = "CONFIRMED"]
         /\ stock' = stock - sale[k].cart.units
         /\ Reply(c, "ok") /\ payment' = payment
      \/ /\ sale[k].sale \in {"CONFIRMED", "PAID"}
         /\ sale' = [sale EXCEPT ![k].order = "QUEUED"]
         /\ Reply(c, "ok") /\ payment' = payment /\ stock' = stock
  BY DEF Dispatch
<1>9. sale[k].cart.units > stock \/ sale[k].cart.units <= stock
  BY <1>2
<1>10. CASE \E answer \in {"ok", "conflict"} : Refuse(c, answer)
  BY <1>3, <1>10
<1>11. CASE /\ sale[k].sale = "DRAFT" /\ ~(sale[k].cart.units > stock)
            /\ sale' = [[sale EXCEPT ![k].order = "QUEUED"] EXCEPT ![k].sale = "CONFIRMED"]
            /\ stock' = stock - sale[k].cart.units
            /\ Reply(c, "ok") /\ payment' = payment
  <2>1. sale[k].cart.units <= stock
    BY <1>9, <1>11
  <2>2. QED  BY <1>6, <1>11, <2>1
<1>12. QED  BY <1>7, <1>8, <1>10, <1>11

LEMMA PayAdvances ==
    ASSUME CounterInv, NEW c \in Calls, Pay(c)
    PROVE  Advances(c)
<1> DEFINE k == call[c].req.key
           pay == call[c].req.pay
<1>1. call[c].req.op = "pay" /\ call[c].step = "sent" /\ UNCHANGED <<page, guest>>
  BY DEF Pay, At
<1>2. /\ k \in RequestKeys /\ IsMade(k) /\ sale[k] \in Sales /\ Shape(sale[k])
      /\ stock \in Nat /\ pay \in PayKeys
  BY <1>1, MadeSale, UnderWay DEF RequestOK, CounterInv
<1>3. \A answer \in {"ok", "conflict"} : Refuse(c, answer) => Advances(c)
  BY <1>1, RefuseAdvances DEF Says
<1>4. CASE /\ payment[pay] = Null /\ sale[k].sale = "CONFIRMED"
           /\ sale' = [sale EXCEPT ![k].sale = "PAID"]
           /\ payment' = [payment EXCEPT ![pay] = k]
           /\ Reply(c, "ok") /\ stock' = stock
  <2> DEFINE new == [sale[k] EXCEPT !.sale = "PAID"]
  <2>1. sale' = [sale EXCEPT ![k] = new]
    BY <1>2, <1>4 DEF CounterInv, CounterTypeOK
  <2>2. /\ new \in Sales /\ new.cart = sale[k].cart /\ new.place = sale[k].place /\ new.sale = "PAID"
        /\ new.order = sale[k].order
    BY <1>2 DEF Sales
  <2> HIDE DEF new
  <2>3. Shape(new) /\ OutOf(new) /\ OutOf(sale[k])
    BY <1>2, <1>4, <2>2 DEF Shape, OutOf
  <2>4. Written(k, new) /\ Charged(k, new) /\ Sent(k, new) /\ stock' \in Nat
    BY <1>2, <1>4, <2>1, <2>2, <2>3 DEF Written, Charged, Sent
  <2>5. Moved /\ sale'[k] = new /\ \A l \in RequestKeys : l # k => sale'[l] = sale[l]
    BY <1>1, <2>4, WritesMoved
  <2>6. QED  BY <1>1, <1>2, <1>4, <2>5, AnswerAdvances DEF Says, IsMade
<1>5. QED  BY <1>3, <1>4 DEF Pay

LEMMA ConfirmShopAdvances ==
    ASSUME CounterInv, NEW c \in Calls, ConfirmShop(c)
    PROVE  Advances(c)
<1> DEFINE k == call[c].req.key
           pay == call[c].req.pay
<1>1. call[c].req.op = "confirm" /\ call[c].step = "sent" /\ UNCHANGED <<page, guest>>
  BY DEF ConfirmShop, At
<1>2. k \in RequestKeys /\ IsMade(k) /\ pay \in PayKeys \union {Null}
  BY <1>1, MadeSale
<1>3. \A answer \in {"ok", "conflict"} : Refuse(c, answer) => Advances(c)
  BY <1>1, RefuseAdvances DEF Says
<1>4. CASE ConfirmVerdict(k, pay) = "go" /\ Confirmed(k, pay) /\ Reply(c, "ok")
  <2>1. Moved /\ \A l \in RequestKeys : ~IsMade(l) => sale'[l] = Null
    BY <1>1, <1>2, <1>4, ConfirmedWrites
  <2>2. QED  BY <1>1, <1>4, <2>1, AnswerAdvances DEF Says
<1>5. QED  BY <1>3, <1>4 DEF ConfirmShop

LEMMA SellAdvances ==
    ASSUME CounterInv, NEW c \in Calls, Sell(c)
    PROVE  Advances(c)
<1> DEFINE cart == call[c].req.cart
           new == NewSale(cart, "shop")
<1>1. /\ call[c].req.op = "sell" /\ call[c].step = "sent" /\ UNCHANGED <<page, guest>>
      /\ payment' = payment /\ stock' = stock
  BY DEF Sell, At
<1>2. PICK k \in RequestKeys :
          /\ Fresh(k) /\ sale' = [sale EXCEPT ![k] = new]
          /\ call' = [call EXCEPT ![c].step = "answered", ![c].answer = "ok",
                                  ![c].req.key = k, ![c].got = sale'[k]]
  BY DEF Sell
<1>3. RequestOK(call[c].by, call[c].req) /\ call[c].req \in CallRequests /\ cart \in Carts
      /\ call[c].by \in Clerks
  BY <1>1, UnderWay DEF CounterInv, RequestOK
<1>4. /\ new \in Sales /\ new.order = Null /\ new.place = "shop" /\ new.sale = "DRAFT" /\ new.cart = cart
      /\ Shape(new) /\ ~OutOf(new)
  BY <1>3, Nothing DEF NewSale, Sales, Shape, OutOf
<1>5. ~IsMade(k) /\ stock \in Nat /\ call \in [Calls -> CallT]
  BY <1>2, TypeShape DEF Fresh, IsMade, CounterInv
<1> HIDE DEF new
<1>6. Written(k, new) /\ Charged(k, new) /\ Sent(k, new) /\ stock' \in Nat
  BY <1>1, <1>2, <1>4, <1>5 DEF Written, Charged, Sent
<1>7. Moved /\ sale'[k] = new /\ \A l \in RequestKeys : l # k => sale'[l] = sale[l]
  BY <1>1, <1>6, WritesMoved
<1>8. PICK t \in CallT, r \in CallRequests : t = call[c] /\ r = call[c].req
  BY <1>3, <1>5
<1> DEFINE asked == [r EXCEPT !.key = k]
<1>9. asked \in CallRequests /\ asked.op = "sell" /\ asked.cart = cart /\ asked.key = k
  BY <1>1, <1>8 DEF CallRequests
<1> HIDE DEF asked
<1>10. call'[c] = [t EXCEPT !.step = "answered", !.answer = "ok", !.req = asked, !.got = new]
  BY <1>2, <1>5, <1>7, <1>8 DEF asked, CallT
<1>11. /\ call'[c].step = "answered" /\ call'[c].answer = "ok" /\ call'[c].req = asked
       /\ call'[c].by = call[c].by /\ call'[c].awaited = call[c].awaited
       /\ call'[c] \in CallT
  <2>1. /\ t.by \in Users \union {Null} /\ t.awaited \in BOOLEAN
    BY <1>8 DEF CallT
  <2>2. QED  BY <1>4, <1>8, <1>9, <1>10, <2>1 DEF CallT
<1>12. call' \in [Calls -> CallT] /\ \A d \in Calls \ {c} : call'[d] = call[d]
  BY <1>2, <1>5, <1>11
<1>13. CounterTypeOK'
  BY <1>7, <1>12, TypeShape DEF Moved, CounterInv, CounterTypeOK, CallT
<1>14. Progress(call[c])'
  BY <1>9, <1>11, Nothing DEF Progress
<1>15. RequestOK(call[c].by, call[c].req)'
  <2>1. sale'[k] # Null /\ sale'[k].place = "shop"
    BY <1>4, <1>7, Nothing
  <2>2. QED  BY <1>3, <1>9, <1>11, <2>1 DEF RequestOK, Making, IsMade
<1>16. \A l \in RequestKeys : ~IsMade(l) /\ sale'[l] # Null => Fresh(l) /\ sale'[l].place = "shop"
  BY <1>2, <1>4, <1>7 DEF IsMade
<1>17. QED  BY <1>1, <1>7, <1>9, <1>11, <1>12, <1>13, <1>14, <1>15, <1>16 DEF Advances, Moved, IsMade
-----------------------------------------------------------------------------
(* The steps of a page: the server stays as it is, and other pages too.    *)

NewCall(u, r) == [NoCall EXCEPT !.step = "sent", !.by = u, !.awaited = TRUE, !.req = r]

\* A call stays, ends, is left, or is sent by the page.
Follows(u, d) ==
    \/ call'[d] = NoCall
    \/ call'[d] = call[d] /\ (call[d].awaited /\ call[d].by = u => Awaits(page'[u], u, call[d].req))
    \/ call[d].step # "free" /\ call'[d] = [call[d] EXCEPT !.awaited = FALSE]
    \/ \E r \in CallRequests :
          /\ call'[d] = NewCall(u, r) /\ RequestOK(u, r) /\ Awaits(page'[u], u, r)
          /\ r.op = "sell" => r.key = Null

\* What is abroad was, or has a fresh key.
Sows(u, v, r) ==
    \/ \E s \in CallRequests : Abroad(v, s) /\ s.key = r.key /\ s.cart = r.cart
    \/ /\ v = u /\ Fresh(r.key)
       /\ \A s : \A w \in Users : Abroad(w, s)' /\ s.key = r.key => w = u /\ s.cart = r.cart

PageStep(u) ==
    /\ UNCHANGED server /\ CounterTypeOK'
    /\ \A v \in Users \ {u} : page'[v] = page[v]
    /\ PageOK(u, page[u])'
    /\ (\A d \in Calls : Follows(u, d)) /\ OneCall'
    /\ \A v \in Users : \A r : Abroad(v, r)' => Sows(u, v, r)
    /\ \A g \in Guests : With(g)' \subseteq With(g) \/ With(g)' \subseteq {u}
    /\ \A g \in Guests : guest'[g] # "forgotten" =>
           guest[g] # "forgotten" /\ (GuestOK(g) => GuestOK(g)')

LEMMA SameServer ==
    ASSUME UNCHANGED server
    PROVE  /\ sale' = sale /\ payment' = payment /\ stock' = stock
           /\ \A u, r : RequestOK(u, r)' = RequestOK(u, r)
           /\ \A t : Progress(t)' = Progress(t)
<1>1. sale' = sale /\ payment' = payment /\ stock' = stock
  BY DEF server
<1>2. \A u, r : RequestOK(u, r)' = RequestOK(u, r)
  BY <1>1 DEF RequestOK, IsMade, PlaceOf
<1>3. \A t : Progress(t)' = Progress(t)
  BY <1>1 DEF Progress, IsMade
<1>4. QED  BY <1>1, <1>2, <1>3

LEMMA FollowedCalls ==
    ASSUME CounterInv, NEW u \in Users, PageStep(u)
    PROVE  CallsOK'
<1> SUFFICES ASSUME NEW d \in Calls PROVE CallOK(call[d])'
  BY DEF CallsOK, PageStep
<1>1. UNCHANGED server /\ Follows(u, d) /\ \A v \in Users \ {u} : page'[v] = page[v]
  BY DEF PageStep
<1>2. call[d] \in CallT /\ CallOK(call[d])
  BY TypeShape DEF CounterInv, CallsOK
<1>3. PICK t \in CallT : t = call[d]
  BY <1>2
<1>4. CASE call'[d] = NoCall
  BY <1>4 DEF CallOK
<1>5. CASE call'[d] = call[d] /\ (call[d].awaited /\ call[d].by = u => Awaits(page'[u], u, call[d].req))
  <2>1. CASE t = NoCall
    BY <1>3, <1>5, <2>1 DEF CallOK
  <2>2. CASE t # NoCall
    <3>1. t.step # "free" /\ t.by \in Users /\ RequestOK(t.by, t.req) /\ Progress(t)
          /\ (t.awaited => Awaits(page[t.by], t.by, t.req))
      BY <1>2, <1>3, <2>2 DEF CallOK
    <3>2. RequestOK(t.by, t.req)' /\ Progress(t)'
      BY <1>1, <3>1, SameServer
    <3>3. t.awaited => Awaits(page'[t.by], t.by, t.req)
      BY <1>1, <1>3, <1>5, <3>1
    <3>4. QED  BY <1>3, <1>5, <3>1, <3>2, <3>3 DEF CallOK, Awaits
  <2>3. QED  BY <2>1, <2>2
<1>6. CASE call[d].step # "free" /\ call'[d] = [call[d] EXCEPT !.awaited = FALSE]
  <2>1. t.step # "free" /\ t.by \in Users /\ RequestOK(t.by, t.req) /\ Progress(t)
    BY <1>2, <1>3, <1>6 DEF CallOK, NoCall
  <2>2. PICK n : n = [t EXCEPT !.awaited = FALSE]
    OBVIOUS
  <2>3. /\ n.step = t.step /\ n.by = t.by /\ n.req = t.req /\ n.answer = t.answer /\ n.got = t.got
        /\ n.awaited = FALSE /\ call'[d] = n
    BY <1>3, <1>6, <2>2 DEF CallT
  <2>4. Progress(n)
    BY <2>1, <2>3 DEF Progress
  <2>5. RequestOK(n.by, n.req)' /\ Progress(n)'
    BY <1>1, <2>1, <2>3, <2>4, SameServer
  <2>6. QED  BY <2>1, <2>3, <2>5 DEF CallOK
<1>7. ASSUME NEW r \in CallRequests, call'[d] = NewCall(u, r), RequestOK(u, r),
             Awaits(page'[u], u, r), r.op = "sell" => r.key = Null
      PROVE  CallOK(call[d])'
  <2>1. PICK n : n = NewCall(u, r)
    OBVIOUS
  <2>2. /\ n.step = "sent" /\ n.by = u /\ n.req = r /\ n.answer = Null /\ n.awaited = TRUE
        /\ call'[d] = n
    BY <1>7, <2>1 DEF NewCall, NoCall
  <2>3. Progress(n)
    BY <1>7, <2>2, Nothing DEF Progress
  <2>4. RequestOK(n.by, n.req)' /\ Progress(n)'
    BY <1>1, <1>7, <2>2, <2>3, SameServer
  <2>5. QED  BY <1>7, <2>2, <2>4 DEF CallOK, Awaits
<1>8. QED  BY <1>1, <1>4, <1>5, <1>6, <1>7 DEF Follows

LEMMA SownOwners ==
    ASSUME CounterInv, NEW u \in Users, PageStep(u)
    PROVE  OneOwner'
<1> SUFFICES ASSUME NEW r, NEW s, NEW v \in Users, NEW w \in Users,
                    Abroad(v, r)', Abroad(w, s)', r.key = s.key
             PROVE  v = w /\ r.cart = s.cart
  BY DEF OneOwner
<1>1. Sows(u, v, r) /\ Sows(u, w, s)
  BY DEF PageStep
<1>2. CASE /\ v = u /\ Fresh(r.key)
           /\ \A t : \A x \in Users : Abroad(x, t)' /\ t.key = r.key => x = u /\ t.cart = r.cart
  BY <1>2
<1>3. CASE /\ w = u /\ Fresh(s.key)
           /\ \A t : \A x \in Users : Abroad(x, t)' /\ t.key = s.key => x = u /\ t.cart = s.cart
  BY <1>3
<1>4. ASSUME NEW a \in CallRequests, Abroad(v, a), a.key = r.key, a.cart = r.cart,
             NEW b \in CallRequests, Abroad(w, b), b.key = s.key, b.cart = s.cart
      PROVE  v = w /\ r.cart = s.cart
  <2>1. a \in Remembered /\ b \in Remembered
    BY <1>4 DEF Abroad, Remembered
  <2>2. QED  BY <1>4, <2>1 DEF CounterInv, OneOwner
<1>5. QED  BY <1>1, <1>2, <1>3, <1>4 DEF Sows

LEMMA PageKeeps ==
    ASSUME CounterInv, NEW u \in Users, PageStep(u)
    PROVE  CounterInv'
<1>1. CallsOK' /\ OneOwner' /\ CounterTypeOK' /\ UNCHANGED server
  BY FollowedCalls, SownOwners DEF PageStep
<1>2. MoneyOK'
  <2>1. MoneyOK /\ sale' = sale /\ payment' = payment /\ stock' = stock
    BY <1>1, SameServer DEF CounterInv
  <2>2. QED  BY <2>1 DEF MoneyOK, SaleOK, PaymentsOK, GoodsOK, Gone, Sold, Made, IsMade
<1>3. PagesOK'
  <2> SUFFICES ASSUME NEW v \in Users, v # u PROVE PageOK(v, page[v])'
    BY DEF PagesOK, PageStep
  <2>1. PageOK(v, page[v]) /\ page'[v] = page[v] /\ sale' = sale
    BY <1>1, SameServer DEF CounterInv, PagesOK, PageStep
  <2>2. RequestOK(v, page[v].attempt)' = RequestOK(v, page[v].attempt)
    BY <2>1 DEF RequestOK, IsMade, PlaceOf
  <2>3. QED  BY <2>1, <2>2 DEF PageOK, IsMade
<1>4. OnePage'
  BY DEF OnePage, PageStep, CounterInv
<1>5. GuestsOK'
  BY DEF GuestsOK, PageStep, CounterInv
<1>6. QED  BY <1>1, <1>2, <1>3, <1>4, <1>5 DEF CounterInv
\* A guest for whom the step makes no order and frees no cart.
QuietFor(u, p, r, g) ==
    /\ \A k \in RequestKeys : For(p.attempt, k, g) \/ For(r, k, g) => Stands(k, g)
    /\ guest'[g] = "here" =>
          guest[g] = "here" /\ \A k \in RequestKeys : For(page[u].attempt, k, g) => For(p.attempt, k, g)
    /\ u \in Cashiers /\ Asks(u, g)' => Asks(u, g) \/ \A k \in RequestKeys : ~Stands(k, g)

\* The page u becomes p, and r is what it asks or remembers anew.
Turns(u, p, r) ==
    /\ UNCHANGED server /\ p \in PageT /\ page' = [page EXCEPT ![u] = p]
    /\ PageOK(u, page[u])' /\ call' \in [Calls -> CallT]
    /\ guest' \in [Guests -> {"here", "ordered", "forgotten"}]
    /\ (\A d \in Calls : Follows(u, d)) /\ OneCall'
    /\ \A d \in Calls : \/ call'[d].req = Null
                        \/ call'[d].by = call[d].by /\ call'[d].req = call[d].req
                        \/ call'[d].by = u /\ call'[d].req = r
    /\ p.attempt \in {Null, page[u].attempt, r}
    /\ r = Null \/ r.op \notin Making \/ r = page[u].attempt \/ Sows(u, u, r)
    /\ p.cart \in {Null, page[u].cart} \/ With(p.cart.who) \subseteq {u}
    /\ \/ p.attempt \in {Null, page[u].attempt} \/ p.attempt.cart = Null
       \/ With(p.attempt.cart.who) \subseteq {u}
    /\ \A g \in Guests : guest'[g] # "forgotten" =>
           guest[g] # "forgotten" /\ (GuestOK(g) => QuietFor(u, p, r, g) \/ GuestOK(g)')

LEMMA QuietGuest ==
    ASSUME CounterInv, NEW u \in Users, NEW p, NEW r, Turns(u, p, r), NEW g \in Guests,
           GuestOK(g), QuietFor(u, p, r, g)
    PROVE  GuestOK(g)'
<1>1. /\ sale' = sale /\ page'[u] = p /\ \A v \in Users \ {u} : page'[v] = page[v]
  BY SameServer, TypeShape DEF Turns, CounterInv
<1>2. ASSUME NEW k \in RequestKeys, Stands(k, g)' PROVE Stands(k, g)
  <2>1. CASE sale'[k] # Null /\ sale'[k].place # "shop" /\ sale'[k].cart.who = g
    BY <1>1, <2>1 DEF Stands, IsMade
  <2>2. ASSUME NEW v \in Users, For(page'[v].attempt, k, g) PROVE Stands(k, g)
    <3>1. CASE v = u
      BY <1>1, <2>2, <3>1 DEF QuietFor
    <3>2. CASE v # u
      BY <1>1, <2>2, <3>2 DEF Stands
    <3>3. QED  BY <3>1, <3>2
  <2>3. ASSUME NEW d \in Calls, For(call'[d].req, k, g) PROVE Stands(k, g)
    <3>1. CASE call'[d].req = call[d].req
      BY <2>3, <3>1 DEF Stands
    <3>2. CASE call'[d].req = r
      BY <2>3, <3>2 DEF QuietFor
    <3>3. QED  BY <2>3, <3>1, <3>2 DEF Turns, For
  <2>4. QED  BY <1>2, <2>1, <2>2, <2>3 DEF Stands, IsMade, For
<1>3. guest'[g] = "here" =>
          \A k \in RequestKeys : Stands(k, g)' => \E v \in Users : For(page'[v].attempt, k, g)
  <2> SUFFICES ASSUME guest'[g] = "here", NEW k \in RequestKeys, Stands(k, g)'
               PROVE  \E v \in Users : For(page'[v].attempt, k, g)
    OBVIOUS
  <2>1. PICK v \in Users : For(page[v].attempt, k, g)
    BY <1>2 DEF GuestOK, QuietFor
  <2>2. For(page'[v].attempt, k, g)
    <3>1. CASE v = u
      BY <1>1, <2>1, <3>1 DEF QuietFor
    <3>2. CASE v # u
      BY <1>1, <2>1, <3>2
    <3>3. QED  BY <3>1, <3>2
  <2>3. QED  BY <2>2
<1>4. ASSUME NEW v \in Cashiers, Asks(v, g)', NEW k \in RequestKeys PROVE ~Stands(k, g)'
  <2>1. CASE v = u
    BY <1>2, <1>4, <2>1 DEF QuietFor, GuestOK
  <2>2. CASE v # u
    <3>1. Asks(v, g)
      BY <1>1, <1>4, <2>2 DEF Asks, Users, For
    <3>2. QED  BY <1>2, <3>1 DEF GuestOK
  <2>3. QED  BY <2>1, <2>2
<1>5. QED  BY <1>2, <1>3, <1>4 DEF GuestOK, For

LEMMA TurnKeeps ==
    ASSUME CounterInv, NEW u \in Users, NEW p, NEW r, Turns(u, p, r)
    PROVE  CounterInv'
<1>1. /\ page'[u] = p /\ (\A v \in Users \ {u} : page'[v] = page[v]) /\ page' \in [Users -> PageT]
  BY TypeShape DEF Turns, CounterInv
<1>2. CounterTypeOK'
  <2>1. sale' = sale /\ payment' = payment /\ stock' = stock
    BY SameServer DEF Turns
  <2>2. QED  BY <1>1, <2>1, TypeShape DEF CounterInv, Turns, CounterTypeOK, CallT, PageT
<1>3. ASSUME NEW v \in Users, NEW s, Abroad(v, s)' PROVE Sows(u, v, s)
  <2>1. Abroad(v, s) => Sows(u, v, s)
    <3>1. ASSUME Abroad(v, s) PROVE s \in CallRequests
      <4>1. call \in [Calls -> CallT] /\ page \in [Users -> PageT]
        BY TypeShape DEF CounterInv
      <4>2. QED  BY <3>1, <4>1 DEF Abroad, CallT, PageT
    <3>2. QED  BY <3>1 DEF Sows
  <2>2. s # Null /\ s.op \in Making
    BY <1>3 DEF Abroad
  <2>3. CASE page'[v].attempt = s /\ v # u
    BY <1>1, <2>1, <2>2, <2>3 DEF Abroad
  <2>4. (v = u /\ s \in {r, page[u].attempt}) => Sows(u, v, s)
    <3>1. CASE v = u /\ s = page[u].attempt
      BY <2>1, <2>2, <3>1 DEF Abroad
    <3>2. CASE v = u /\ s = r
      BY <2>1, <2>2, <3>1, <3>2 DEF Turns, Abroad
    <3>3. QED  BY <3>1, <3>2
  <2>5. CASE page'[v].attempt = s /\ v = u
    BY <1>1, <2>2, <2>4, <2>5 DEF Turns
  <2>6. ASSUME NEW d \in Calls, call'[d].by = v, call'[d].req = s PROVE Sows(u, v, s)
    <3>1. CASE call'[d].by = call[d].by /\ call'[d].req = call[d].req
      BY <2>1, <2>2, <2>6, <3>1 DEF Abroad
    <3>2. CASE call'[d].by = u /\ call'[d].req = r
      BY <2>4, <2>6, <3>2
    <3>3. QED  BY <2>2, <2>6, <3>1, <3>2 DEF Turns
  <2>7. QED  BY <1>3, <2>3, <2>5, <2>6 DEF Abroad
<1>4. ASSUME NEW g \in Guests PROVE With(g)' \subseteq With(g) \/ With(g)' \subseteq {u}
  <2>1. \A v \in Users \ {u} : v \in With(g)' => v \in With(g)
    BY <1>1 DEF With
  <2>2. u \in With(g)' => u \in With(g) \/ With(g) \subseteq {u}
    <3>1. CASE p.cart # Null /\ p.cart.who = g
      BY <3>1 DEF Turns, With
    <3>2. CASE p.attempt # Null /\ p.attempt.cart # Null /\ p.attempt.cart.who = g
      BY <3>2 DEF Turns, With
    <3>3. QED  BY <1>1, <3>1, <3>2 DEF With
  <2>3. With(g)' \subseteq Users
    BY DEF With
  <2>4. QED  BY <2>1, <2>2, <2>3
<1>5. ASSUME NEW g \in Guests, guest'[g] # "forgotten"
      PROVE  guest[g] # "forgotten" /\ (GuestOK(g) => GuestOK(g)')
  BY <1>5, QuietGuest DEF Turns
<1>6. PageStep(u)
  BY <1>1, <1>2, <1>3, <1>4, <1>5 DEF PageStep, Turns
<1>7. QED  BY <1>6, PageKeeps
-----------------------------------------------------------------------------
(* What the page does to its calls.                                        *)

LEMMA NewCallShape ==
    ASSUME NEW u \in Users, NEW r \in CallRequests
    PROVE  /\ NewCall(u, r) \in CallT /\ NewCall(u, r).req = r /\ NewCall(u, r).by = u
           /\ NewCall(u, r).awaited = TRUE
BY DEF NewCall, NoCall, CallT

LEMMA NoCallShape == NoCall \in CallT /\ NoCall.req = Null /\ NoCall.awaited = FALSE
BY DEF NoCall, CallT

\* A page that waits for nothing has no call.
LEMMA IdleAlone ==
    ASSUME CounterInv, NEW u \in Users, ~page[u].waits
    PROVE  \A d \in Calls : ~(call[d].awaited /\ call[d].by = u)
<1> SUFFICES ASSUME NEW d \in Calls, call[d].awaited, call[d].by = u
             PROVE  FALSE
  OBVIOUS
<1>1. call[d] # NoCall
  BY DEF NoCall
<1>2. Awaits(page[u], u, call[d].req)
  BY <1>1 DEF CounterInv, CallsOK, CallOK
<1>3. QED  BY <1>2 DEF Awaits

\* One call of the page ends, or another takes its place.
LEMMA CallTurns ==
    ASSUME CounterInv, NEW u \in Users, NEW c \in Calls,
           \A d \in Calls \ {c} : ~(call[d].awaited /\ call[d].by = u),
           NEW new, call' = [call EXCEPT ![c] = new],
           \/ new = NoCall
           \/ \E r \in CallRequests :
                 /\ new = NewCall(u, r) /\ RequestOK(u, r) /\ Awaits(page'[u], u, r)
                 /\ r.op = "sell" => r.key = Null
    PROVE  /\ call' \in [Calls -> CallT] /\ (\A d \in Calls : Follows(u, d)) /\ OneCall'
           /\ call'[c] = new /\ \A d \in Calls \ {c} : call'[d] = call[d]
<1>1. call \in [Calls -> CallT]
  BY TypeShape DEF CounterInv
<1>2. new \in CallT /\ (new.awaited => new.by = u)
  <2>1. CASE new = NoCall
    BY <2>1, NoCallShape
  <2>2. ASSUME NEW r \in CallRequests, new = NewCall(u, r)
        PROVE  new \in CallT /\ (new.awaited => new.by = u)
    BY <2>2, NewCallShape
  <2>3. QED  BY <2>1, <2>2
<1>3. call' \in [Calls -> CallT] /\ call'[c] = new /\ \A d \in Calls \ {c} : call'[d] = call[d]
  BY <1>1, <1>2
<1>4. Follows(u, c)
  BY <1>3 DEF Follows
<1>5. ASSUME NEW d \in Calls \ {c} PROVE Follows(u, d)
  BY <1>3, <1>5 DEF Follows
<1>6. OneCall'
  BY <1>2, <1>3 DEF OneCall, CounterInv, CallsOK
<1>7. QED  BY <1>3, <1>4, <1>5, <1>6

LEMMA SendTurns ==
    ASSUME CounterInv, NEW u \in Users, Idle(u), NEW r \in CallRequests, Send(u, r),
           RequestOK(u, r), Awaits(page'[u], u, r), r.op = "sell" => r.key = Null
    PROVE  /\ call' \in [Calls -> CallT] /\ (\A d \in Calls : Follows(u, d)) /\ OneCall'
           /\ \A d \in Calls : \/ call'[d].req = Null
                               \/ call'[d].by = call[d].by /\ call'[d].req = call[d].req
                               \/ call'[d].by = u /\ call'[d].req = r
<1>1. PICK c \in Calls : call[c].step = "free" /\ call' = [call EXCEPT ![c] = NewCall(u, r)]
  BY DEF Send, NewCall
<1>2. \A d \in Calls : ~(call[d].awaited /\ call[d].by = u)
  BY IdleAlone DEF Idle
<1>3. /\ call' \in [Calls -> CallT] /\ (\A d \in Calls : Follows(u, d)) /\ OneCall'
      /\ call'[c] = NewCall(u, r) /\ \A d \in Calls \ {c} : call'[d] = call[d]
  BY <1>1, <1>2, CallTurns
<1>4. call'[c].by = u /\ call'[c].req = r
  <2>1. PICK n : n = NewCall(u, r)
    OBVIOUS
  <2>2. n.by = u /\ n.req = r
    BY <2>1 DEF NewCall, NoCall
  <2>3. call'[c] = n
    BY <1>3, <2>1
  <2>4. QED  BY <2>2, <2>3
<1>5. QED  BY <1>3, <1>4

\* The call that a page waits for.
LEMMA Awaited ==
    ASSUME CounterInv, NEW c \in Calls, call[c].awaited, NEW u, u = call[c].by
    PROVE  /\ u \in Users /\ call[c].step # "free"
           /\ RequestOK(u, call[c].req) /\ call[c].req \in CallRequests /\ Progress(call[c])
           /\ Awaits(page[u], u, call[c].req)
           /\ \A d \in Calls \ {c} : ~(call[d].awaited /\ call[d].by = u)
<1>1. call[c] # NoCall
  BY DEF NoCall
<1>2. call[c].step # "free"
  BY <1>1 DEF CounterInv, CallsOK, CallOK
<1>3. QED  BY <1>2, UnderWay DEF CounterInv, CallsOK, OneCall

LEMMA ReceiveEnds ==
    ASSUME CounterInv, NEW c \in Calls, call[c].awaited, call' = [call EXCEPT ![c] = NoCall]
    PROVE  /\ call' \in [Calls -> CallT] /\ (\A d \in Calls : Follows(call[c].by, d)) /\ OneCall'
           /\ call'[c] = NoCall /\ \A d \in Calls \ {c} : call'[d] = call[d]
           /\ \A d \in Calls : \/ call'[d].req = Null
                               \/ call'[d].by = call[d].by /\ call'[d].req = call[d].req
<1>1. /\ call' \in [Calls -> CallT] /\ (\A d \in Calls : Follows(call[c].by, d)) /\ OneCall'
      /\ call'[c] = NoCall /\ \A d \in Calls \ {c} : call'[d] = call[d]
  BY Awaited, CallTurns
<1>2. QED  BY <1>1 DEF NoCall

\* Calls stay as they are: an idle page has none that waits.
LEMMA IdleStays ==
    ASSUME CounterInv, NEW u \in Users, Idle(u), UNCHANGED call
    PROVE  /\ call' \in [Calls -> CallT] /\ (\A d \in Calls : Follows(u, d)) /\ OneCall'
           /\ \A d \in Calls : call'[d].by = call[d].by /\ call'[d].req = call[d].req
<1>1. \A d \in Calls : ~(call[d].awaited /\ call[d].by = u)
  BY IdleAlone DEF Idle
<1>2. call' = call /\ call \in [Calls -> CallT] /\ OneCall
  BY TypeShape DEF CounterInv, CallsOK
<1>3. QED  BY <1>1, <1>2 DEF Follows, OneCall

\* A guest of whom nothing changes.
LEMMA NothingNew ==
    ASSUME CounterInv, NEW u \in Users, NEW p, NEW r, NEW g \in Guests,
           page'[u] = p, guest'[g] = guest[g],
           p.attempt = page[u].attempt, r = page[u].attempt \/ r = Null \/ r.op # "create",
           p.cart = page[u].cart, p.order = page[u].order
    PROVE  QuietFor(u, p, r, g)
<1>1. \A k \in RequestKeys : For(p.attempt, k, g) \/ For(r, k, g) => Stands(k, g)
  BY DEF Stands, For
<1>2. Asks(u, g)' => Asks(u, g)
  BY DEF Asks, For
<1>3. QED  BY <1>1, <1>2 DEF QuietFor
LEMMA PageFits ==
    ASSUME UNCHANGED server, NEW u, NEW p, page'[u] = p, PageOK(u, p)
    PROVE  PageOK(u, page[u])'
<1>1. sale' = sale /\ RequestOK(u, p.attempt)' = RequestOK(u, p.attempt)
  BY SameServer
<1>2. QED  BY <1>1 DEF PageOK, IsMade

\* No order stands for a guest who may ask, but the page's own.
LEMMA NoneStands ==
    ASSUME CounterInv, NEW u \in Users, NEW g \in Guests, MayAsk(u, g),
           guest[g] # "forgotten", GuestOK(g), \A k \in RequestKeys : ~For(page[u].attempt, k, g)
    PROVE  \A k \in RequestKeys : ~Stands(k, g)
<1> SUFFICES ASSUME NEW k \in RequestKeys, Stands(k, g) PROVE FALSE
  OBVIOUS
<1>1. guest[g] = "here"
  BY DEF MayAsk, CounterInv, CounterTypeOK
<1>2. PICK v \in Users : For(page[v].attempt, k, g)
  BY <1>1 DEF GuestOK
<1>3. page[v].attempt # Null /\ RequestOK(v, page[v].attempt)
  BY <1>2 DEF For, CounterInv, PagesOK, PageOK
<1>4. page[v].attempt.cart # Null
  BY <1>2, <1>3, Nothing DEF RequestOK, Making, For
<1>5. v \in With(g)
  BY <1>2, <1>3, <1>4 DEF With, For
<1>6. QED  BY <1>2, <1>5 DEF MayAsk

LEMMA UserKinds ==
    ASSUME NEW u \in Users
    PROVE  /\ u \in Cashiers => u \notin Waiters /\ u \notin Clerks
           /\ u \in Waiters => u \notin Clerks
           /\ u \in Cashiers \/ u \in Waiters \/ u \in Clerks
BY CounterAssumption DEF Users

-----------------------------------------------------------------------------
(* The counter.                                                            *)

LEMMA FillCounterKeeps ==
    ASSUME CounterInv, NEW u \in Cashiers, FillCounter(u)
    PROVE  CounterInv'
<1>1. PICK cart \in Carts : MayAsk(u, cart.who) /\ page' = [page EXCEPT ![u].cart = cart]
  BY DEF FillCounter
<1>2. Idle(u) /\ UNCHANGED server /\ call' = call /\ guest' = guest /\ u \in Users
  BY DEF FillCounter, Users
<1>3. PICK q \in PageT : q = page[u]
  BY <1>2, TypeShape DEF CounterInv
<1>4. PICK p : p = [q EXCEPT !.cart = cart]
  OBVIOUS
<1>5. /\ p \in PageT /\ p.cart = cart /\ p.attempt = q.attempt /\ p.order = q.order /\ p.status = q.status
  BY <1>3, <1>4 DEF PageT
<1>6. page' = [page EXCEPT ![u] = p] /\ page'[u] = p
  BY <1>1, <1>2, <1>3, <1>4, TypeShape DEF CounterInv
<1>7. PageOK(u, page[u])'
  <2>1. PageOK(u, q) /\ u \notin Waiters
    BY <1>2, <1>3, UserKinds DEF CounterInv, PagesOK
  <2>2. PageOK(u, p)
    BY <1>5, <2>1 DEF PageOK
  <2>3. QED  BY <1>2, <1>6, <2>2, PageFits
<1>8. ASSUME NEW g \in Guests, guest[g] # "forgotten", GuestOK(g)
      PROVE  QuietFor(u, p, Null, g)
  <2>1. \A k \in RequestKeys : For(p.attempt, k, g) => Stands(k, g)
    BY <1>2, <1>3, <1>5 DEF Stands
  <2>2. ASSUME Asks(u, g)' PROVE \A k \in RequestKeys : ~Stands(k, g)
    <3>1. cart.who = g /\ \A k \in RequestKeys : ~For(page[u].attempt, k, g)
      BY <1>3, <1>5, <1>6, <2>2 DEF Asks, For
    <3>2. QED  BY <1>1, <1>2, <1>8, <3>1, NoneStands
  <2>3. QED  BY <1>2, <1>3, <1>5, <2>1, <2>2 DEF QuietFor, For
<1>9. guest' \in [Guests -> {"here", "ordered", "forgotten"}]
  BY <1>2 DEF CounterInv, CounterTypeOK
<1>10. Turns(u, p, Null)
  BY <1>1, <1>2, <1>3, <1>5, <1>6, <1>7, <1>8, <1>9, IdleStays DEF Turns, MayAsk
<1>11. QED  BY <1>2, <1>10, TurnKeeps
-----------------------------------------------------------------------------
(* Steps that leave the cart, the attempt and the order of the page.       *)

LEMMA FreshSows ==
    ASSUME CounterInv, NEW u \in Users, NEW p, page' = [page EXCEPT ![u] = p],
           NEW r, Fresh(r.key), p.attempt \in {Null, page[u].attempt, r},
           \A d \in Calls : \/ call'[d].req = Null
                            \/ call'[d].by = call[d].by /\ call'[d].req = call[d].req
                            \/ call'[d].by = u /\ call'[d].req = r
    PROVE  Sows(u, u, r)
<1> SUFFICES ASSUME NEW s, NEW w \in Users, Abroad(w, s)', s.key = r.key
             PROVE  w = u /\ s.cart = r.cart
  BY DEF Sows
<1>1. /\ page'[u] = p /\ \A v \in Users \ {u} : page'[v] = page[v]
  BY TypeShape DEF CounterInv
<1>2. s # Null /\ \A v \in Users : page[v].attempt # s
  BY DEF Fresh, Abroad
<1>3. \A d \in Calls : call[d].req # s
  BY <1>2 DEF Fresh
<1>4. CASE page'[w].attempt = s
  BY <1>1, <1>2, <1>4
<1>5. ASSUME NEW d \in Calls, call'[d].by = w, call'[d].req = s PROVE w = u /\ s.cart = r.cart
  BY <1>2, <1>3, <1>5
<1>6. QED  BY <1>4, <1>5 DEF Abroad

LEMMA SilentKeeps ==
    ASSUME CounterInv, NEW u \in Users, UNCHANGED server, guest' = guest,
           NEW p \in PageT, page' = [page EXCEPT ![u] = p],
           p.attempt = page[u].attempt, p.cart = page[u].cart, p.order = page[u].order,
           \/ p.status = page[u].status
           \/ p.order # Null /\ SaysTruly(p.status, sale[p.order]),
           NEW r,
           r = Null \/ r = page[u].attempt \/ r.op \notin Making \/ (r.op = "quote" /\ Fresh(r.key)),
           call' \in [Calls -> CallT], \A d \in Calls : Follows(u, d), OneCall',
           \A d \in Calls : \/ call'[d].req = Null
                            \/ call'[d].by = call[d].by /\ call'[d].req = call[d].req
                            \/ call'[d].by = u /\ call'[d].req = r
    PROVE  CounterInv'
<1>1. page'[u] = p
  BY TypeShape DEF CounterInv
<1>2. PageOK(u, page[u])'
  <2>1. PageOK(u, page[u])
    BY DEF CounterInv, PagesOK
  <2>2. PageOK(u, p)
    BY <2>1 DEF PageOK
  <2>3. QED  BY <1>1, <2>2, PageFits
<1>3. r = Null \/ r.op \notin Making \/ r = page[u].attempt \/ Sows(u, u, r)
  BY FreshSows
<1>4. \A g \in Guests : QuietFor(u, p, r, g)
  <2>1. r = page[u].attempt \/ r = Null \/ r.op # "create"
    BY DEF Making
  <2>2. QED  BY <1>1, <2>1, NothingNew
<1>5. guest' \in [Guests -> {"here", "ordered", "forgotten"}]
  BY DEF CounterInv, CounterTypeOK
<1>6. Turns(u, p, r)
  BY <1>2, <1>3, <1>4, <1>5 DEF Turns
<1>7. QED  BY <1>6, TurnKeeps

LEMMA EditPaymentsKeeps ==
    ASSUME CounterInv, NEW u \in Cashiers, EditPayments(u)
    PROVE  CounterInv'
<1>1. PICK k \in PayKeys : page' = [page EXCEPT ![u].pay = k]
  BY DEF EditPayments
<1>2. Idle(u) /\ UNCHANGED server /\ call' = call /\ guest' = guest /\ u \in Users
  BY DEF EditPayments, Users
<1>3. PICK q \in PageT : q = page[u]
  BY <1>2, TypeShape DEF CounterInv
<1>4. PICK p \in PageT : p = [q EXCEPT !.pay = k]
  BY DEF PageT
<1>5. /\ p.cart = q.cart /\ p.attempt = q.attempt /\ p.order = q.order /\ p.status = q.status
  BY <1>3, <1>4 DEF PageT
<1>6. page' = [page EXCEPT ![u] = p]
  BY <1>1, <1>2, <1>3, <1>4, TypeShape DEF CounterInv
<1>7. QED  BY <1>2, <1>3, <1>5, <1>6, IdleStays, SilentKeeps

\* A page that sends what it remembers, or what makes nothing.
LEMMA SilentSend ==
    ASSUME CounterInv, NEW u \in Users, UNCHANGED <<server, guest>>, Idle(u),
           NEW p \in PageT, page' = [page EXCEPT ![u] = p],
           p.attempt = page[u].attempt, p.cart = page[u].cart, p.order = page[u].order,
           p.status = page[u].status,
           NEW r \in CallRequests, Send(u, r), RequestOK(u, r), Awaits(p, u, r),
           r = page[u].attempt \/ r.op \notin Making \/ (r.op = "quote" /\ Fresh(r.key)),
           r.op = "sell" => r.key = Null
    PROVE  CounterInv'
<1>1. page'[u] = p
  BY TypeShape DEF CounterInv
<1>2. /\ call' \in [Calls -> CallT] /\ (\A d \in Calls : Follows(u, d)) /\ OneCall'
      /\ \A d \in Calls : \/ call'[d].req = Null
                          \/ call'[d].by = call[d].by /\ call'[d].req = call[d].req
                          \/ call'[d].by = u /\ call'[d].req = r
  BY <1>1, SendTurns
<1>3. QED  BY <1>2, SilentKeeps

LEMMA PressSaveKeeps ==
    ASSUME CounterInv, NEW u \in Cashiers, PressSave(u)
    PROVE  CounterInv'
<1>1. Idle(u) /\ UNCHANGED <<server, guest>> /\ u \in Users /\ page[u].order = Null
  BY DEF PressSave, Users
<1>2. PICK q \in PageT : q = page[u]
  BY <1>1, TypeShape DEF CounterInv
<1>3. PageOK(u, q) /\ u \notin Waiters
  BY <1>1, <1>2, UserKinds DEF CounterInv, PagesOK
<1>4. CASE /\ page[u].attempt # Null /\ Send(u, page[u].attempt)
           /\ page' = [page EXCEPT ![u].held = TRUE, ![u].waits = TRUE]
  <2>1. PICK r \in CallRequests : r = page[u].attempt
    BY <1>2, <1>4 DEF PageT
  <2>2. PICK p \in PageT : p = [q EXCEPT !.held = TRUE, !.waits = TRUE]
    BY DEF PageT
  <2>3. /\ p.cart = q.cart /\ p.attempt = q.attempt /\ p.order = q.order /\ p.status = q.status
        /\ p.waits
    BY <1>2, <2>2 DEF PageT
  <2>4. page' = [page EXCEPT ![u] = p]
    BY <1>1, <1>2, <1>4, <2>2, TypeShape DEF CounterInv
  <2>5. RequestOK(u, r) /\ r.op = "create"
    BY <1>2, <1>3, <1>4, <2>1 DEF PageOK
  <2>6. Awaits(p, u, r)
    BY <1>2, <2>1, <2>3, <2>5 DEF Awaits
  <2>7. QED  BY <1>1, <1>2, <1>4, <2>1, <2>3, <2>4, <2>5, <2>6, SilentSend
<1>5. ASSUME page[u].attempt = Null, page[u].cart # Null,
             NEW k \in RequestKeys, Fresh(k), Send(u, CallRequest("quote", k, page[u].cart, Null)),
             page' = [page EXCEPT ![u].waits = TRUE]
      PROVE  CounterInv'
  <2>1. PICK r : r = CallRequest("quote", k, page[u].cart, Null)
    OBVIOUS
  <2>2. r \in CallRequests /\ r.op = "quote" /\ r.key = k /\ r.cart = page[u].cart
    BY <1>2, <1>5, <2>1 DEF CallRequest, CallRequests, PageT
  <2>3. PICK p \in PageT : p = [q EXCEPT !.waits = TRUE]
    BY DEF PageT
  <2>4. /\ p.cart = q.cart /\ p.attempt = q.attempt /\ p.order = q.order /\ p.status = q.status
        /\ p.waits
    BY <1>2, <2>3 DEF PageT
  <2>5. page' = [page EXCEPT ![u] = p]
    BY <1>1, <1>2, <1>5, <2>3, TypeShape DEF CounterInv
  <2>6. RequestOK(u, r)
    <3>1. r.cart \in Carts
      BY <1>2, <1>5, <2>2 DEF PageT
    <3>2. ~IsMade(k)
      BY <1>5 DEF Fresh, IsMade
    <3>3. QED  BY <2>2, <3>1, <3>2 DEF RequestOK, Making
  <2>7. Awaits(p, u, r)
    BY <1>1, <1>2, <1>3, <1>5, <2>2, <2>4 DEF Awaits
  <2>8. Send(u, r) /\ Fresh(r.key) /\ r.op \notin {"sell"}
    BY <1>5, <2>1, <2>2
  <2>9. QED  BY <1>1, <1>2, <2>2, <2>4, <2>5, <2>6, <2>7, <2>8, SilentSend
<1>6. QED  BY <1>4, <1>5 DEF PressSave

LEMMA PressOrderKeeps ==
    ASSUME CounterInv, NEW u \in Cashiers, PressCheckout(u) \/ PressCancel(u)
    PROVE  CounterInv'
<1>1. Idle(u) /\ UNCHANGED <<server, guest>> /\ u \in Users /\ page[u].status = "DRAFT"
  BY DEF PressCheckout, PressCancel, Users
<1>2. PICK q \in PageT : q = page[u]
  BY <1>1, TypeShape DEF CounterInv
<1>3. PageOK(u, q) /\ u \notin Waiters
  BY <1>1, <1>2, UserKinds DEF CounterInv, PagesOK
<1>4. q.order \in RequestKeys /\ IsMade(q.order) /\ sale[q.order].place # "shop"
  BY <1>1, <1>2, <1>3, Nothing DEF PageOK, PageT
<1>5. PICK r \in CallRequests : /\ Send(u, r) /\ r.op \in {"checkout", "cancel"} /\ r.key = q.order
  <2>1. /\ CallRequest("checkout", q.order, Null, q.pay) \in CallRequests
        /\ CallRequest("cancel", q.order, Null, Null) \in CallRequests
        /\ CallRequest("checkout", q.order, Null, q.pay).op = "checkout"
        /\ CallRequest("cancel", q.order, Null, Null).op = "cancel"
        /\ CallRequest("checkout", q.order, Null, q.pay).key = q.order
        /\ CallRequest("cancel", q.order, Null, Null).key = q.order
    BY <1>4 DEF CallRequest, CallRequests, PageT
  <2>2. QED  BY <1>2, <2>1 DEF PressCheckout, PressCancel
<1>6. PICK p \in PageT :
         /\ page' = [page EXCEPT ![u] = p]
         /\ p.cart = q.cart /\ p.attempt = q.attempt /\ p.order = q.order /\ p.status = q.status
         /\ p.waits
  <2>1. /\ [q EXCEPT !.payHeld = TRUE, !.waits = TRUE] \in PageT
        /\ [q EXCEPT !.waits = TRUE] \in PageT
    BY DEF PageT
  <2>2. CASE PressCheckout(u)
    <3>1. page' = [page EXCEPT ![u] = [q EXCEPT !.payHeld = TRUE, !.waits = TRUE]]
      BY <1>1, <1>2, <2>2, TypeShape DEF CounterInv, PressCheckout
    <3>2. QED  BY <2>1, <3>1 DEF PageT
  <2>3. CASE PressCancel(u)
    <3>1. page' = [page EXCEPT ![u] = [q EXCEPT !.waits = TRUE]]
      BY <1>1, <1>2, <2>3, TypeShape DEF CounterInv, PressCancel
    <3>2. QED  BY <2>1, <3>1 DEF PageT
  <2>4. QED  BY <2>2, <2>3
<1>7. RequestOK(u, r)
  BY <1>4, <1>5 DEF RequestOK, Making
<1>8. Awaits(p, u, r)
  BY <1>3, <1>5, <1>6 DEF Awaits
<1>9. QED  BY <1>1, <1>2, <1>5, <1>6, <1>7, <1>8, SilentSend DEF Making
LEMMA BlankShape ==
    /\ Blank \in PageT /\ Blank.cart = Null /\ Blank.attempt = Null /\ Blank.order = Null
    /\ Blank.status = Null
BY DEF Blank, PageT

Becomes(u, p) == page' = [page EXCEPT ![u] = p]

ShownAs(u, rest, k, status) ==
    \E x \in PayKeys \union {Null} :
        page' = [page EXCEPT ![u] = [rest EXCEPT !.order = k, !.status = status, !.pay = x,
                                                 !.payHeld = FALSE, !.waits = FALSE]]

LEMMA ShowOrderShape ==
    ASSUME NEW u, NEW rest \in PageT, NEW k \in RequestKeys,
           NEW status \in {Null, "DRAFT", "QUEUED", "CANCELLED"}, ShownAs(u, rest, k, status)
    PROVE  \E p \in PageT : /\ Becomes(u, p)
                            /\ p.cart = rest.cart /\ p.attempt = rest.attempt
                            /\ p.order = k /\ p.status = status
<1>1. PICK x \in PayKeys \union {Null} :
         page' = [page EXCEPT ![u] = [rest EXCEPT !.order = k, !.status = status, !.pay = x,
                                                  !.payHeld = FALSE, !.waits = FALSE]]
  BY DEF ShownAs
<1>2. PICK p : p = [rest EXCEPT !.order = k, !.status = status, !.pay = x,
                                !.payHeld = FALSE, !.waits = FALSE]
  OBVIOUS
<1>3. p \in PageT /\ p.cart = rest.cart /\ p.attempt = rest.attempt /\ p.order = k /\ p.status = status
  BY <1>2 DEF PageT
<1>4. Becomes(u, p)
  BY <1>1, <1>2 DEF Becomes
<1>5. QED  BY <1>3, <1>4

LEMMA ToldGuests ==
    ASSUME CounterInv, NEW who, Told(who)
    PROVE  /\ guest' \in [Guests -> {"here", "ordered", "forgotten"}]
           /\ \A g \in Guests : /\ guest'[g] = "here" => guest[g] = "here" /\ g # who
                                /\ guest'[g] = "forgotten" <=> guest[g] = "forgotten"
<1>1. guest \in [Guests -> {"here", "ordered", "forgotten"}]
  BY DEF CounterInv, CounterTypeOK
<1>2. QED  BY <1>1 DEF Told

LEMMA ContinueKeeps ==
    ASSUME CounterInv, NEW u \in Cashiers, Continue(u)
    PROVE  CounterInv'
<1>1. Idle(u) /\ UNCHANGED server /\ call' = call /\ u \in Users /\ page[u].cart = Null
  BY DEF Continue, Users
<1>2. PICK q \in PageT : q = page[u]
  BY <1>1, TypeShape DEF CounterInv
<1>3. PageOK(u, q)
  BY <1>1, <1>2 DEF CounterInv, PagesOK
<1>4. PICK k \in RequestKeys, paid \in BOOLEAN :
         /\ sale[k] # Null /\ sale[k].order # Null
         /\ ShowOrder(u, page[u], k, "DRAFT", paid) /\ Told(sale[k].cart.who)
  BY DEF Continue
<1>5. PICK p \in PageT : /\ Becomes(u, p)
                         /\ p.cart = q.cart /\ p.attempt = q.attempt /\ p.order = k /\ p.status = "DRAFT"
  <2>1. ShowOrder(u, q, k, "DRAFT", paid)
    BY <1>2, <1>4
  <2>2. PICK status \in {Null, "DRAFT", "QUEUED", "CANCELLED"} : status = "DRAFT"
    OBVIOUS
  <2>3. ShownAs(u, q, k, status)
    BY <2>1, <2>2 DEF ShowOrder, ShownAs
  <2>4. QED  BY <2>2, <2>3, ShowOrderShape
<1>6. page' = [page EXCEPT ![u] = p] /\ page'[u] = p
  BY <1>1, <1>5, TypeShape DEF CounterInv, Becomes
<1>7. PageOK(u, page[u])'
  <2>1. sale[k].place # "shop"
    BY <1>4 DEF CounterInv, MoneyOK, SaleOK, IsMade
  <2>2. PageOK(u, p)
    BY <1>3, <1>4, <1>5, <2>1, Nothing DEF PageOK, IsMade, SaysTruly
  <2>3. QED  BY <1>1, <1>6, <2>2, PageFits
<1>8. \A g \in Guests : guest'[g] # "forgotten" => guest[g] # "forgotten" /\ QuietFor(u, p, Null, g)
  <2> SUFFICES ASSUME NEW g \in Guests, guest'[g] # "forgotten"
               PROVE  guest[g] # "forgotten" /\ QuietFor(u, p, Null, g)
    OBVIOUS
  <2>1. guest[g] # "forgotten" /\ (guest'[g] = "here" => guest[g] = "here")
    BY <1>4, ToldGuests
  <2>2. ~Asks(u, g)'
    BY <1>1, <1>2, <1>5, <1>6 DEF Asks
  <2>3. \A x \in RequestKeys : For(p.attempt, x, g) \/ For(Null, x, g) => Stands(x, g)
    BY <1>1, <1>2, <1>5 DEF Stands, For
  <2>4. QED  BY <1>2, <1>5, <2>1, <2>2, <2>3 DEF QuietFor
<1>9. guest' \in [Guests -> {"here", "ordered", "forgotten"}]
  BY <1>4, ToldGuests
<1>10. Turns(u, p, Null)
  BY <1>1, <1>2, <1>5, <1>6, <1>7, <1>8, <1>9, IdleStays DEF Turns
<1>11. QED  BY <1>1, <1>10, TurnKeeps

\* A page that is cleared: its calls end, or nothing comes of them.
LEMMA BlankKeeps ==
    ASSUME CounterInv, NEW u \in Users, UNCHANGED server,
           NEW p \in PageT, page' = [page EXCEPT ![u] = p],
           p.cart = Null, p.order = Null, p.status = Null, p.attempt \in {Null, page[u].attempt},
           guest' \in [Guests -> {"here", "ordered", "forgotten"}],
           \A g \in Guests : guest'[g] # "forgotten" =>
               /\ guest[g] # "forgotten"
               /\ GuestOK(g) => \/ GuestOK(g)'
                                \/ guest'[g] = "here" =>
                                     /\ guest[g] = "here"
                                     /\ \A k \in RequestKeys : For(page[u].attempt, k, g) => For(p.attempt, k, g),
           call' \in [Calls -> CallT], \A d \in Calls : Follows(u, d), OneCall',
           \A d \in Calls : \/ call'[d].req = Null
                            \/ call'[d].by = call[d].by /\ call'[d].req = call[d].req
    PROVE  CounterInv'
<1>1. page'[u] = p
  BY TypeShape DEF CounterInv
<1>2. PageOK(u, page[u])'
  <2>1. PageOK(u, page[u])
    BY DEF CounterInv, PagesOK
  <2>2. PageOK(u, p)
    BY <2>1, Nothing DEF PageOK
  <2>3. QED  BY <1>1, <2>2, PageFits
<1>3. ASSUME NEW g \in Guests PROVE /\ ~Asks(u, g)'
                                    /\ \A k \in RequestKeys :
                                           For(p.attempt, k, g) \/ For(Null, k, g) => Stands(k, g)
  <2>1. ~Asks(u, g)'
    BY <1>1 DEF Asks
  <2>2. QED  BY <2>1 DEF Stands, For
<1>4. Turns(u, p, Null)
  BY <1>2, <1>3 DEF Turns, QuietFor
<1>5. QED  BY <1>4, TurnKeeps

LEMMA NewOrderKeeps ==
    ASSUME CounterInv, NEW u \in Users, UNCHANGED server, NewOrder(u),
           call' \in [Calls -> CallT], \A d \in Calls : Follows(u, d), OneCall',
           \A d \in Calls : \/ call'[d].req = Null
                            \/ call'[d].by = call[d].by /\ call'[d].req = call[d].req
    PROVE  CounterInv'
<1>1. guest \in [Guests -> {"here", "ordered", "forgotten"}]
  BY DEF CounterInv, CounterTypeOK
<1>2. guest' \in [Guests -> {"here", "ordered", "forgotten"}]
  BY <1>1 DEF NewOrder
<1>3. ASSUME NEW g \in Guests, guest'[g] # "forgotten"
      PROVE  /\ guest[g] # "forgotten"
             /\ guest'[g] = "here" =>
                    guest[g] = "here" /\ \A k \in RequestKeys : ~For(page[u].attempt, k, g)
  BY <1>1, <1>3 DEF NewOrder, For
<1>4. page' = [page EXCEPT ![u] = Blank]
  BY DEF NewOrder
<1>5. QED  BY <1>2, <1>3, <1>4, BlankShape, BlankKeeps

LEMMA PressNewKeeps ==
    ASSUME CounterInv, NEW u \in Cashiers, PressNew(u)
    PROVE  CounterInv'
<1>1. u \in Users /\ Idle(u) /\ UNCHANGED server /\ call' = call /\ NewOrder(u)
  BY DEF PressNew, Users
<1>2. QED  BY <1>1, IdleStays, NewOrderKeeps

\* An answer that leaves all but how the page waits.
LEMMA SilentEnd ==
    ASSUME CounterInv, NEW c \in Calls, call[c].awaited, NEW u \in Users, u = call[c].by,
           UNCHANGED <<server, guest>>, call' = [call EXCEPT ![c] = NoCall],
           NEW p \in PageT, page' = [page EXCEPT ![u] = p],
           p.attempt = page[u].attempt, p.cart = page[u].cart, p.order = page[u].order,
           \/ p.status = page[u].status
           \/ p.order # Null /\ SaysTruly(p.status, sale[p.order])
    PROVE  CounterInv'
<1>1. /\ call' \in [Calls -> CallT] /\ (\A d \in Calls : Follows(u, d)) /\ OneCall'
      /\ \A d \in Calls : \/ call'[d].req = Null
                          \/ call'[d].by = call[d].by /\ call'[d].req = call[d].req
  BY ReceiveEnds
<1>2. PICK r : r = Null
  OBVIOUS
<1>3. \A d \in Calls : \/ call'[d].req = Null
                       \/ call'[d].by = call[d].by /\ call'[d].req = call[d].req
                       \/ call'[d].by = u /\ call'[d].req = r
  BY <1>1
<1>4. QED  BY <1>1, <1>2, <1>3, SilentKeeps

\* The page's answer only ends its wait.
LEMMA WaitEnds ==
    ASSUME CounterInv, NEW c \in Calls, call[c].awaited, NEW u \in Users, u = call[c].by,
           UNCHANGED <<server, guest>>, call' = [call EXCEPT ![c] = NoCall],
           page' = [page EXCEPT ![u].waits = FALSE]
    PROVE  CounterInv'
<1>1. PICK q \in PageT : q = page[u]
  BY TypeShape DEF CounterInv
<1>2. PICK p \in PageT : p = [q EXCEPT !.waits = FALSE]
  BY DEF PageT
<1>3. p.cart = q.cart /\ p.attempt = q.attempt /\ p.order = q.order /\ p.status = q.status
  BY <1>1, <1>2 DEF PageT
<1>4. page' = [page EXCEPT ![u] = p]
  BY <1>1, <1>2, TypeShape DEF CounterInv
<1>5. QED  BY <1>1, <1>3, <1>4, SilentEnd

LEMMA ReceiveCancelKeeps ==
    ASSUME CounterInv, NEW c \in Calls, call[c].awaited, NEW u \in Users, u = call[c].by,
           UNCHANGED server, ReceiveCancel(u, c)
    PROVE  CounterInv'
<1>1. call' = [call EXCEPT ![c] = NoCall]
  BY DEF ReceiveCancel
<1>2. CASE NewOrder(u)
  <2>1. /\ call' \in [Calls -> CallT] /\ (\A d \in Calls : Follows(u, d)) /\ OneCall'
        /\ \A d \in Calls : \/ call'[d].req = Null
                            \/ call'[d].by = call[d].by /\ call'[d].req = call[d].req
    BY <1>1, ReceiveEnds
  <2>2. QED  BY <1>2, <2>1, NewOrderKeeps
<1>3. CASE page' = [page EXCEPT ![u].waits = FALSE] /\ UNCHANGED guest
  BY <1>1, <1>3, WaitEnds
<1>4. QED  BY <1>2, <1>3 DEF ReceiveCancel
\* The first order asked for a guest.
LEMMA OrderNew ==
    ASSUME NEW u \in Users, NEW r, r # Null, r.op = "create", r.key \in RequestKeys,
           NEW g, g = r.cart.who,
           \A k \in RequestKeys : ~Stands(k, g), With(g) \subseteq {u}, UNCHANGED server,
           page'[u].attempt = r, \A v \in Users \ {u} : page'[v] = page[v],
           \A d \in Calls : \/ call'[d].req = Null
                            \/ call'[d].by = call[d].by /\ call'[d].req = call[d].req
                            \/ call'[d].by = u /\ call'[d].req = r
    PROVE  GuestOK(g)'
<1>1. ASSUME NEW k \in RequestKeys, Stands(k, g)' PROVE k = r.key
  <2>1. ~(sale'[k] # Null /\ sale'[k].place # "shop" /\ sale'[k].cart.who = g)
    BY SameServer DEF Stands, IsMade
  <2>2. ASSUME NEW v \in Users, For(page'[v].attempt, k, g) PROVE k = r.key
    BY <2>2 DEF Stands, For
  <2>3. ASSUME NEW d \in Calls, For(call'[d].req, k, g) PROVE k = r.key
    BY <2>3 DEF Stands, For
  <2>4. QED  BY <1>1, <2>1, <2>2, <2>3 DEF Stands, IsMade, For
<1>2. For(page'[u].attempt, r.key, g)
  BY DEF For
<1>3. ASSUME NEW v \in Cashiers PROVE ~Asks(v, g)'
  <2>1. CASE v = u
    BY <1>2, <2>1 DEF Asks, For
  <2>2. CASE v # u
    <3>1. v \in Users /\ page'[v] = page[v] /\ v \notin With(g)
      BY <2>2 DEF Users
    <3>2. QED  BY <3>1 DEF With, Asks
  <2>3. QED  BY <2>1, <2>2
<1>4. QED  BY <1>1, <1>2, <1>3 DEF GuestOK, For

LEMMA ReceiveQuoteKeeps ==
    ASSUME CounterInv, NEW c \in Calls, call[c].awaited, NEW u \in Users, u = call[c].by,
           call[c].req.op = "quote", UNCHANGED server, ReceiveQuote(u, c)
    PROVE  CounterInv'
<1>1. CASE call[c].answer # "ok"
  <2>1. /\ page' = [page EXCEPT ![u].waits = FALSE] /\ call' = [call EXCEPT ![c] = NoCall]
        /\ guest' = guest
    BY <1>1 DEF ReceiveQuote
  <2>2. QED  BY <2>1, WaitEnds
<1>2. CASE call[c].answer = "ok"
  <2>1. PICK q \in PageT, r \in CallRequests : q = page[u] /\ r = call[c].req
    BY Awaited, TypeShape DEF CounterInv
  <2>2. PICK new \in CallRequests : new = [r EXCEPT !.op = "create"]
    BY DEF CallRequests
  <2>3. new.op = "create" /\ new.key = r.key /\ new.cart = r.cart /\ new # Null
    BY <2>1, <2>2, Nothing DEF CallRequests
  <2>4. /\ page' = [page EXCEPT ![u].attempt = new, ![u].held = TRUE]
        /\ call' = [call EXCEPT ![c] = NewCall(u, new)] /\ guest' = guest
    BY <1>2, <2>1, <2>2 DEF ReceiveQuote, NewCall
  <2>5. PICK p \in PageT : p = [q EXCEPT !.attempt = new, !.held = TRUE]
    BY DEF PageT
  <2>6. /\ p.attempt = new /\ p.cart = q.cart /\ p.order = q.order /\ p.status = q.status
        /\ p.waits = q.waits
    BY <2>1, <2>5 DEF PageT
  <2>7. page' = [page EXCEPT ![u] = p] /\ page'[u] = p /\ \A v \in Users \ {u} : page'[v] = page[v]
    BY <2>1, <2>4, <2>5, TypeShape DEF CounterInv
  <2>8. /\ RequestOK(u, r) /\ r.key \in RequestKeys /\ r.cart \in Carts /\ u \in Cashiers /\ r.op = "quote"
        /\ q.waits /\ q.attempt = Null /\ q.cart = r.cart /\ q.order = Null
    BY <2>1, Awaited DEF RequestOK, Making, Awaits
  <2>9. RequestOK(u, new)
    BY <2>3, <2>8 DEF RequestOK, Making
  <2>10. Awaits(p, u, new)
    BY <2>3, <2>6, <2>8, UserKinds DEF Awaits
  <2>11. /\ call' \in [Calls -> CallT] /\ (\A d \in Calls : Follows(u, d)) /\ OneCall'
         /\ call'[c] = NewCall(u, new) /\ \A d \in Calls \ {c} : call'[d] = call[d]
    <3>1. \A d \in Calls \ {c} : ~(call[d].awaited /\ call[d].by = u)
      BY Awaited
    <3>2. Awaits(page'[u], u, new)
      BY <2>7, <2>10
    <3>3. QED  BY <2>3, <2>4, <2>9, <3>1, <3>2, CallTurns
  <2>12. call'[c].by = u /\ call'[c].req = new
    <3>1. PICK n : n = NewCall(u, new)
      OBVIOUS
    <3>2. n.by = u /\ n.req = new
      BY <3>1 DEF NewCall, NoCall
    <3>3. call'[c] = n
      BY <2>11, <3>1
    <3>4. QED  BY <3>2, <3>3
  <2>13. PageOK(u, page[u])'
    <3>1. PageOK(u, p)
      <4>1. PageOK(u, q)
        BY <2>1 DEF CounterInv, PagesOK
      <4>2. QED  BY <2>3, <2>6, <2>9, <4>1 DEF PageOK
    <3>2. QED  BY <2>7, <3>1, PageFits
  <2>14. Sows(u, u, new)
    BY <2>1, <2>3, <2>8, Nothing DEF Sows, Abroad, Making
  <2> DEFINE g == r.cart.who
  <2>15. g \in Guests /\ u \in With(g)
    BY <2>1, <2>8, CartUnits, Nothing DEF With
  <2>16. With(g) \subseteq {u}
    BY <2>15 DEF CounterInv, OnePage
  <2>17. ASSUME GuestOK(g) PROVE GuestOK(g)'
    <3>1. \A k \in RequestKeys : ~Stands(k, g)
      BY <2>1, <2>8, <2>17, Nothing DEF GuestOK, Asks, For
    <3>2. \A d \in Calls : \/ call'[d].by = call[d].by /\ call'[d].req = call[d].req
                           \/ call'[d].by = u /\ call'[d].req = new
      BY <2>11, <2>12
    <3>3. QED  BY <2>3, <2>6, <2>7, <2>8, <2>16, <3>1, <3>2, OrderNew
  <2>18. ASSUME NEW h \in Guests, h # g PROVE QuietFor(u, p, new, h)
    <3>1. \A k \in RequestKeys : ~For(new, k, h)
      BY <2>3, <2>18 DEF For
    <3>2. ~Asks(u, h)'
      BY <2>6, <2>7, <2>8, <2>18 DEF Asks
    <3>3. QED  BY <2>1, <2>4, <2>6, <2>8, <3>1, <3>2 DEF QuietFor, For
  <2>19. guest' \in [Guests -> {"here", "ordered", "forgotten"}]
    BY <2>4 DEF CounterInv, CounterTypeOK
  <2>20. Turns(u, p, new)
    <3>1. \A d \in Calls : \/ call'[d].by = call[d].by /\ call'[d].req = call[d].req
                           \/ call'[d].by = u /\ call'[d].req = new
      BY <2>11, <2>12
    <3>2. With(p.attempt.cart.who) \subseteq {u}
      BY <2>3, <2>6, <2>16
    <3>3. \A h \in Guests : guest'[h] # "forgotten" =>
             guest[h] # "forgotten" /\ (GuestOK(h) => QuietFor(u, p, new, h) \/ GuestOK(h)')
      <4>1. \A h \in Guests : GuestOK(h) => QuietFor(u, p, new, h) \/ GuestOK(h)'
        <5> SUFFICES ASSUME NEW h \in Guests, GuestOK(h)
                     PROVE  QuietFor(u, p, new, h) \/ GuestOK(h)'
          OBVIOUS
        <5>1. CASE h = g
          BY <2>17, <5>1
        <5>2. CASE h # g
          BY <2>18, <5>2
        <5>3. QED  BY <5>1, <5>2
      <4>2. QED  BY <2>4, <4>1
    <3>4. p.attempt \in {Null, page[u].attempt, new} /\ p.cart \in {Null, page[u].cart}
      BY <2>1, <2>6
    <3>5. QED  BY <2>7, <2>11, <2>13, <2>14, <2>19, <3>1, <3>2, <3>3, <3>4 DEF Turns
  <2>21. QED  BY <2>20, TurnKeeps
<1>3. QED  BY <1>1, <1>2

\* An attempt is dropped that can make no order any more.
LEMMA Dropped ==
    ASSUME CounterInv, NEW c \in Calls, NEW u \in Users, call[c].by = u, NEW r \in CallRequests,
           r = call[c].req, r = page[u].attempt, r.op = "create",
           NEW g \in Guests, g = r.cart.who, GuestOK(g), ~Uncertain(r.key, c),
           sale' = sale, page'[u].attempt = Null, \A v \in Users \ {u} : page'[v] = page[v],
           call'[c].req = Null, \A d \in Calls \ {c} : call'[d] = call[d]
    PROVE  GuestOK(g)'
<1>1. r # Null /\ r.key \in RequestKeys
  BY Nothing DEF CounterInv, PagesOK, PageOK, RequestOK, Making
<1>2. Stands(r.key, g)
  BY <1>1 DEF Stands, For
<1>3. ASSUME NEW k \in RequestKeys, Stands(k, g)' PROVE FALSE
  <2>1. CASE sale'[k] # Null /\ sale'[k].place # "shop" /\ sale'[k].cart.who = g
    <3>1. Stands(k, g)
      BY <2>1 DEF Stands, IsMade
    <3>2. k = r.key
      BY <1>1, <1>2, <3>1 DEF GuestOK
    <3>3. QED  BY <2>1, <3>2 DEF Uncertain
  <2>2. ASSUME NEW v \in Users, For(page'[v].attempt, k, g) PROVE FALSE
    <3>1. v # u /\ For(page[v].attempt, k, g)
      BY <2>2 DEF For
    <3>2. k = r.key
      BY <1>1, <1>2, <3>1 DEF GuestOK, Stands
    <3>3. /\ Abroad(v, page[v].attempt) /\ Abroad(u, r)
          /\ page[v].attempt \in Remembered /\ r \in Remembered
      BY <1>1, <3>1 DEF Abroad, Remembered, Making, For
    <3>4. page[v].attempt.key = r.key
      BY <3>1, <3>2 DEF For
    <3>5. QED  BY <3>1, <3>3, <3>4 DEF CounterInv, OneOwner
  <2>3. ASSUME NEW d \in Calls, For(call'[d].req, k, g) PROVE FALSE
    <3>1. d # c /\ For(call[d].req, k, g)
      BY <2>3 DEF For
    <3>2. k = r.key
      BY <1>1, <1>2, <3>1 DEF GuestOK, Stands
    <3>3. QED  BY <3>1, <3>2 DEF Uncertain, For
  <2>4. QED  BY <1>3, <2>1, <2>2, <2>3 DEF Stands, IsMade, For
<1>4. QED  BY <1>3 DEF GuestOK
LEMMA ReceiveCreateKeeps ==
    ASSUME CounterInv, NEW c \in Calls, call[c].awaited, NEW u \in Cashiers, u = call[c].by,
           call[c].req.op = "create", UNCHANGED server, ReceiveCreate(u, c)
    PROVE  CounterInv'
<1>1. u \in Users /\ call' = [call EXCEPT ![c] = NoCall] /\ sale' = sale
  BY SameServer DEF ReceiveCreate, Users
<1>2. PICK q \in PageT, r \in CallRequests : q = page[u] /\ r = call[c].req
  BY <1>1, Awaited, TypeShape DEF CounterInv
<1>3. /\ r.op = "create" /\ q.attempt = r /\ q.waits /\ PageOK(u, q) /\ RequestOK(u, r)
      /\ r.key \in RequestKeys /\ r.cart \in Carts /\ r.cart.who \in Guests /\ r # Null
  BY <1>1, <1>2, Awaited, CartUnits, Nothing DEF Awaits, CounterInv, PagesOK, RequestOK, Making
<1>4. /\ call' \in [Calls -> CallT] /\ (\A d \in Calls : Follows(u, d)) /\ OneCall'
      /\ call'[c].req = Null /\ \A d \in Calls \ {c} : call'[d] = call[d]
      /\ \A d \in Calls : \/ call'[d].req = Null
                          \/ call'[d].by = call[d].by /\ call'[d].req = call[d].req
  BY <1>1, ReceiveEnds, NoCallShape
<1>5. PICK rest \in PageT : rest = [q EXCEPT !.attempt = Null, !.held = FALSE]
  BY DEF PageT
<1>6. /\ rest.attempt = Null /\ rest.cart = q.cart /\ rest.order = q.order /\ rest.status = q.status
  BY <1>2, <1>5 DEF PageT
<1>7. CASE call[c].answer = "ok"
  <2>1. /\ ShowOrder(u, rest, r.key, call[c].got.order, call[c].got.sale = "PAID")
        /\ Told(r.cart.who)
    BY <1>2, <1>5, <1>7 DEF ReceiveCreate
  <2>2. /\ call[c].got # Null /\ IsMade(r.key)
        /\ SaysTruly(call[c].got.order, sale[r.key])
    BY <1>1, <1>2, <1>3, <1>7, Awaited DEF Progress
  <2>3. call[c].got.order \in {Null, "DRAFT", "QUEUED", "CANCELLED"}
    <3>1. call[c] \in CallT
      BY TypeShape DEF CounterInv
    <3>2. call[c].got \in Sales
      BY <2>2, <3>1 DEF CallT
    <3>3. QED  BY <3>2 DEF Sales
  <2>4. PICK status \in {Null, "DRAFT", "QUEUED", "CANCELLED"} : status = call[c].got.order
    BY <2>3
  <2>5. PICK p \in PageT : /\ Becomes(u, p)
                           /\ p.cart = q.cart /\ p.attempt = Null /\ p.order = r.key /\ p.status = status
    <3>1. ShownAs(u, rest, r.key, status)
      BY <2>1, <2>4 DEF ShowOrder, ShownAs
    <3>2. QED  BY <1>3, <1>6, <3>1, ShowOrderShape
  <2>6. page' = [page EXCEPT ![u] = p] /\ page'[u] = p
    BY <1>1, <2>5, TypeShape DEF CounterInv, Becomes
  <2>7. PageOK(u, page[u])'
    <3>1. sale[r.key].place # "shop"
      BY <1>3, <2>2 DEF RequestOK, Making, PlaceOf
    <3>2. PageOK(u, p)
      BY <1>3, <2>2, <2>4, <2>5, <3>1, Nothing DEF PageOK
    <3>3. QED  BY <1>1, <2>6, <3>2, PageFits
  <2>8. \A g \in Guests : guest'[g] # "forgotten" => guest[g] # "forgotten" /\ QuietFor(u, p, Null, g)
    <3> SUFFICES ASSUME NEW g \in Guests, guest'[g] # "forgotten"
                 PROVE  guest[g] # "forgotten" /\ QuietFor(u, p, Null, g)
      OBVIOUS
    <3>1. guest[g] # "forgotten" /\ (guest'[g] = "here" => guest[g] = "here" /\ g # r.cart.who)
      BY <2>1, ToldGuests
    <3>2. ~Asks(u, g)'
      BY <1>3, <2>5, <2>6, Nothing DEF Asks
    <3>3. guest'[g] = "here" => \A k \in RequestKeys : ~For(page[u].attempt, k, g)
      BY <1>2, <1>3, <3>1 DEF For
    <3>4. QED  BY <2>5, <3>1, <3>2, <3>3 DEF QuietFor, For
  <2>9. guest' \in [Guests -> {"here", "ordered", "forgotten"}]
    BY <2>1, ToldGuests
  <2>10. Turns(u, p, Null)
    BY <1>1, <1>2, <1>4, <2>5, <2>6, <2>7, <2>8, <2>9 DEF Turns
  <2>11. QED  BY <1>1, <2>10, TurnKeeps
<1>8. CASE call[c].answer # "ok" /\ ~Drops(call[c].answer)
  <2>1. guest' = guest
    BY <1>8 DEF ReceiveCreate, ForgetIf, Drops
  <2>2. page' = [page EXCEPT ![u].waits = FALSE]
    BY <1>1, <1>2, <1>8, TypeShape DEF ReceiveCreate, CounterInv
  <2>3. QED  BY <1>1, <2>1, <2>2, WaitEnds
<1>9. CASE call[c].answer # "ok" /\ Drops(call[c].answer)
  <2>1. /\ ForgetIf(TRUE, c) /\ page' = [page EXCEPT ![u] = [rest EXCEPT !.waits = FALSE]]
    BY <1>2, <1>5, <1>9 DEF ReceiveCreate, Drops
  <2>2. PICK p \in PageT : p = [rest EXCEPT !.waits = FALSE]
    BY DEF PageT
  <2>3. p.attempt = Null /\ p.cart = q.cart /\ p.order = q.order /\ p.status = q.status
    BY <1>6, <2>2 DEF PageT
  <2>4. /\ page' = [page EXCEPT ![u] = p] /\ page'[u] = p
        /\ \A v \in Users \ {u} : page'[v] = page[v]
    BY <1>1, <2>1, <2>2, TypeShape DEF CounterInv
  <2>5. PageOK(u, page[u])'
    <3>1. PageOK(u, p)
      BY <1>3, <2>3 DEF PageOK
    <3>2. QED  BY <1>1, <2>4, <3>1, PageFits
  <2>6. guest \in [Guests -> {"here", "ordered", "forgotten"}]
    BY DEF CounterInv, CounterTypeOK
  <2>7. guest' = IF Uncertain(r.key, c) THEN [guest EXCEPT ![r.cart.who] = "forgotten"] ELSE guest
    BY <1>2, <2>1 DEF ForgetIf
  <2>8. guest' \in [Guests -> {"here", "ordered", "forgotten"}]
    BY <2>6, <2>7
  <2>9. ASSUME NEW g \in Guests, guest'[g] # "forgotten"
        PROVE  guest[g] # "forgotten" /\ (GuestOK(g) => QuietFor(u, p, Null, g) \/ GuestOK(g)')
    <3>1. guest[g] # "forgotten" /\ guest'[g] = guest[g]
      BY <2>6, <2>7, <2>9
    <3>2. CASE g = r.cart.who
      <4>1. ~Uncertain(r.key, c)
        BY <2>6, <2>7, <2>9, <3>2
      <4>2. GuestOK(g) => GuestOK(g)'
        BY <1>1, <1>2, <1>3, <1>4, <2>3, <2>4, <3>2, <4>1, Dropped
      <4>3. QED  BY <3>1, <4>2
    <3>3. CASE g # r.cart.who
      <4>1. \A k \in RequestKeys : ~For(page[u].attempt, k, g)
        BY <1>2, <1>3, <3>3 DEF For
      <4>2. Asks(u, g)' => Asks(u, g)
        BY <1>2, <2>3, <2>4, <4>1 DEF Asks, For
      <4>3. QED  BY <2>3, <3>1, <4>1, <4>2 DEF QuietFor, For
    <3>4. QED  BY <3>2, <3>3
  <2>10. Turns(u, p, Null)
    BY <1>1, <1>2, <1>4, <2>3, <2>4, <2>5, <2>8, <2>9 DEF Turns
  <2>11. QED  BY <1>1, <2>10, TurnKeeps
<1>10. QED  BY <1>7, <1>8, <1>9

LEMMA ReceiveCheckoutKeeps ==
    ASSUME CounterInv, NEW c \in Calls, call[c].awaited, NEW u \in Users, u = call[c].by,
           call[c].req.op = "checkout", UNCHANGED server, ReceiveCheckout(u, c)
    PROVE  CounterInv'
<1>1. /\ call' = [call EXCEPT ![c] = NoCall] /\ guest' = guest
  BY DEF ReceiveCheckout
<1>2. PICK q \in PageT, r \in CallRequests : q = page[u] /\ r = call[c].req
  BY Awaited, TypeShape DEF CounterInv
<1>3. r.op = "checkout" /\ q.order = r.key /\ r.key \in RequestKeys /\ u \in Cashiers
  BY <1>2, Awaited DEF Awaits, RequestOK
<1>4. call[c] \in CallT
  BY TypeShape DEF CounterInv
<1>5. PICK held \in BOOLEAN : held = (q.payHeld /\ call[c].answer \notin {"denied", "conflict"})
  BY DEF PageT
<1>6. PICK status : status = IF call[c].answer = "ok" THEN call[c].got.order ELSE q.status
  OBVIOUS
<1>7. /\ status \in {Null, "DRAFT", "QUEUED", "CANCELLED"}
      /\ \/ status = q.status
         \/ SaysTruly(status, sale[r.key])
  <2>1. CASE call[c].answer = "ok"
    <3>1. /\ call[c].got # Null
          /\ SaysTruly(call[c].got.order, sale[r.key])
      BY <1>2, <1>3, <2>1, Awaited DEF Progress
    <3>2. call[c].got \in Sales
      BY <1>4, <3>1 DEF CallT
    <3>3. QED  BY <1>6, <2>1, <3>1, <3>2 DEF Sales
  <2>2. CASE call[c].answer # "ok"
    BY <1>2, <1>6, <2>2 DEF PageT
  <2>3. QED  BY <2>1, <2>2
<1>8. PICK p : p = [q EXCEPT !.waits = FALSE, !.status = status, !.payHeld = held]
  OBVIOUS
<1>9. p \in PageT /\ p.cart = q.cart /\ p.attempt = q.attempt /\ p.order = q.order /\ p.status = status
  BY <1>2, <1>7, <1>8 DEF PageT
<1>10. page' = [page EXCEPT ![u] = p]
  BY <1>2, <1>5, <1>6, <1>8, TypeShape DEF CounterInv, ReceiveCheckout, PageT
<1>11. p.status = page[u].status \/ (p.order # Null /\ SaysTruly(p.status, sale[p.order]))
  BY <1>2, <1>3, <1>7, <1>9, Nothing
<1>12. QED  BY <1>1, <1>2, <1>9, <1>10, <1>11, SilentEnd
-----------------------------------------------------------------------------
(* The dining room.                                                        *)

LEMMA PressAddKeeps ==
    ASSUME CounterInv, NEW u \in Waiters, PressAdd(u)
    PROVE  CounterInv'
<1>1. PICK k \in RequestKeys, cart \in Carts :
         Fresh(k) /\ MayAsk(u, cart.who) /\ Record(u, CallRequest("create", k, cart, Null))
  BY DEF PressAdd
<1>2. PICK r : r = CallRequest("create", k, cart, Null)
  OBVIOUS
<1>3. r \in CallRequests /\ r.op = "create" /\ r.key = k /\ r.cart = cart /\ r # Null
  BY <1>2, Nothing DEF CallRequest, CallRequests
<1>4. /\ u \in Users /\ Idle(u) /\ page[u].attempt = Null /\ UNCHANGED <<server, guest>>
      /\ Send(u, r) /\ page' = [page EXCEPT ![u].attempt = r, ![u].held = TRUE, ![u].waits = TRUE]
  BY <1>1, <1>2 DEF Record, Users
<1>5. PICK q \in PageT : q = page[u]
  BY <1>4, TypeShape DEF CounterInv
<1>6. PICK p : p = [q EXCEPT !.attempt = r, !.held = TRUE, !.waits = TRUE]
  OBVIOUS
<1>7. /\ p \in PageT /\ p.cart = q.cart /\ p.attempt = r /\ p.order = q.order /\ p.status = q.status
      /\ p.waits
  BY <1>3, <1>5, <1>6 DEF PageT
<1>8. page' = [page EXCEPT ![u] = p] /\ page'[u] = p /\ \A v \in Users \ {u} : page'[v] = page[v]
  BY <1>4, <1>5, <1>6, TypeShape DEF CounterInv
<1>9. RequestOK(u, r)
  <2>1. ~IsMade(k)
    BY <1>1 DEF Fresh, IsMade
  <2>2. QED  BY <1>3, <2>1 DEF RequestOK, Making
<1>10. Awaits(p, u, r)
  BY <1>3, <1>7 DEF Awaits
<1>11. /\ call' \in [Calls -> CallT] /\ (\A d \in Calls : Follows(u, d)) /\ OneCall'
       /\ \A d \in Calls : \/ call'[d].req = Null
                           \/ call'[d].by = call[d].by /\ call'[d].req = call[d].req
                           \/ call'[d].by = u /\ call'[d].req = r
  <2>1. Awaits(page'[u], u, r)
    BY <1>8, <1>10
  <2>2. QED  BY <1>3, <1>4, <1>9, <2>1, SendTurns
<1>12. Sows(u, u, r)
  BY <1>1, <1>3, <1>4, <1>7, <1>8, <1>11, FreshSows
<1>13. PageOK(u, page[u])'
  <2>1. PageOK(u, p)
    <3>1. PageOK(u, q)
      BY <1>4, <1>5 DEF CounterInv, PagesOK
    <3>2. QED  BY <1>3, <1>7, <1>9, <3>1 DEF PageOK
  <2>2. QED  BY <1>4, <1>8, <2>1, PageFits
<1> DEFINE g == cart.who
<1>14. g \in Guests /\ With(g) \subseteq {u} /\ u \notin Cashiers
  BY <1>1, <1>4, CartUnits, UserKinds DEF MayAsk
<1>15. ASSUME guest[g] # "forgotten", GuestOK(g) PROVE GuestOK(g)'
  <2>1. \A l \in RequestKeys : ~Stands(l, g)
    BY <1>1, <1>4, <1>14, <1>15, NoneStands DEF For
  <2>2. /\ UNCHANGED server /\ page'[u].attempt = r /\ u \in Users
        /\ r # Null /\ r.op = "create" /\ r.key \in RequestKeys /\ g = r.cart.who
        /\ With(g) \subseteq {u} /\ \A v \in Users \ {u} : page'[v] = page[v]
    BY <1>3, <1>4, <1>7, <1>8, <1>14
  <2> HIDE DEF g
  <2>3. QED  BY <1>11, <2>1, <2>2, OrderNew
<1>16. ASSUME NEW h \in Guests, h # g PROVE QuietFor(u, p, r, h)
  <2>1. \A l \in RequestKeys : ~For(r, l, h) /\ ~For(page[u].attempt, l, h)
    BY <1>3, <1>4, <1>16 DEF For
  <2>2. QED  BY <1>4, <1>7, <1>14, <2>1 DEF QuietFor
<1>17. \A h \in Guests : guest'[h] # "forgotten" =>
          guest[h] # "forgotten" /\ (GuestOK(h) => QuietFor(u, p, r, h) \/ GuestOK(h)')
  <2> SUFFICES ASSUME NEW h \in Guests, guest[h] # "forgotten", GuestOK(h)
               PROVE  QuietFor(u, p, r, h) \/ GuestOK(h)'
    BY <1>4
  <2>1. CASE h = g
    BY <1>15, <2>1
  <2>2. CASE h # g
    BY <1>16, <2>2
  <2>3. QED  BY <2>1, <2>2
<1>18. guest' \in [Guests -> {"here", "ordered", "forgotten"}]
  BY <1>4 DEF CounterInv, CounterTypeOK
<1>19. Turns(u, p, r)
  <2>1. With(p.attempt.cart.who) \subseteq {u}
    BY <1>3, <1>7, <1>14
  <2>2. QED  BY <1>4, <1>5, <1>7, <1>8, <1>11, <1>12, <1>13, <1>17, <1>18, <2>1 DEF Turns
<1>20. QED  BY <1>4, <1>19, TurnKeeps

LEMMA PressGoodsKeeps ==
    ASSUME CounterInv, NEW u \in Waiters, PressDispatch(u) \/ PressPay(u)
    PROVE  CounterInv'
<1>1. PICK r \in CallRequests :
         /\ Record(u, r) /\ r.op \in {"dispatch", "pay"} /\ r.cart = Null /\ r.key \in RequestKeys
         /\ IsMade(r.key) /\ sale[r.key].place = "hall" /\ (r.op = "pay" => r.pay \in PayKeys)
  <2>1. ASSUME NEW k \in InHall, NEW x \in PayKeys
        PROVE  /\ CallRequest("pay", k, Null, x) \in CallRequests
               /\ CallRequest("pay", k, Null, x).op = "pay" /\ CallRequest("pay", k, Null, x).cart = Null
               /\ CallRequest("pay", k, Null, x).key = k /\ CallRequest("pay", k, Null, x).pay = x
    BY DEF CallRequest, CallRequests, InHall
  <2>2. ASSUME NEW k \in InHall
        PROVE  /\ CallRequest("dispatch", k, Null, Null) \in CallRequests
               /\ CallRequest("dispatch", k, Null, Null).op = "dispatch"
               /\ CallRequest("dispatch", k, Null, Null).cart = Null
               /\ CallRequest("dispatch", k, Null, Null).key = k
    BY DEF CallRequest, CallRequests, InHall
  <2>3. \A k \in InHall : k \in RequestKeys /\ IsMade(k) /\ sale[k].place = "hall"
    BY DEF InHall, IsMade
  <2>4. QED  BY <2>1, <2>2, <2>3 DEF PressDispatch, PressPay
<1>2. /\ u \in Users /\ Idle(u) /\ page[u].attempt = Null /\ UNCHANGED <<server, guest>>
      /\ Send(u, r) /\ page' = [page EXCEPT ![u].attempt = r, ![u].held = TRUE, ![u].waits = TRUE]
  BY <1>1 DEF Record, Users
<1>3. PICK q \in PageT : q = page[u]
  BY <1>2, TypeShape DEF CounterInv
<1>4. PICK p \in PageT : p = [q EXCEPT !.attempt = r, !.held = TRUE, !.waits = TRUE]
  BY <1>1 DEF PageT
<1>5. /\ p.cart = q.cart /\ p.attempt = r /\ p.order = q.order /\ p.status = q.status /\ p.waits
  BY <1>1, <1>3, <1>4 DEF PageT
<1>6. page' = [page EXCEPT ![u] = p] /\ page'[u] = p
  BY <1>2, <1>3, <1>4, TypeShape DEF CounterInv
<1>7. RequestOK(u, r) /\ Awaits(p, u, r)
  BY <1>1, <1>5 DEF RequestOK, Awaits, Making
<1>8. /\ call' \in [Calls -> CallT] /\ (\A d \in Calls : Follows(u, d)) /\ OneCall'
      /\ \A d \in Calls : \/ call'[d].req = Null
                          \/ call'[d].by = call[d].by /\ call'[d].req = call[d].req
                          \/ call'[d].by = u /\ call'[d].req = r
  <2>1. Awaits(page'[u], u, r) /\ r.op # "sell"
    BY <1>1, <1>6, <1>7
  <2>2. QED  BY <1>2, <1>7, <2>1, SendTurns
<1>9. PageOK(u, page[u])'
  <2>1. PageOK(u, p)
    <3>1. PageOK(u, q)
      BY <1>2, <1>3 DEF CounterInv, PagesOK
    <3>2. QED  BY <1>1, <1>5, <1>7, <3>1 DEF PageOK
  <2>2. QED  BY <1>2, <1>6, <2>1, PageFits
<1>10. \A h \in Guests : QuietFor(u, p, r, h)
  BY <1>1, <1>2, <1>5, UserKinds DEF QuietFor, For
<1>11. guest' \in [Guests -> {"here", "ordered", "forgotten"}]
  BY <1>2 DEF CounterInv, CounterTypeOK
<1>12. Turns(u, p, r)
  BY <1>1, <1>2, <1>3, <1>5, <1>6, <1>8, <1>9, <1>10, <1>11 DEF Turns, Making
<1>13. QED  BY <1>2, <1>12, TurnKeeps

LEMMA PressRetryKeeps ==
    ASSUME CounterInv, NEW u \in Waiters, PressRetry(u)
    PROVE  CounterInv'
<1>1. /\ Idle(u) /\ UNCHANGED <<server, guest>> /\ u \in Users /\ page[u].attempt # Null
      /\ Send(u, page[u].attempt) /\ page' = [page EXCEPT ![u].waits = TRUE]
  BY DEF PressRetry, Users
<1>2. PICK q \in PageT : q = page[u]
  BY <1>1, TypeShape DEF CounterInv
<1>3. PICK r \in CallRequests : r = page[u].attempt
  BY <1>1, <1>2 DEF PageT
<1>4. PICK p \in PageT : p = [q EXCEPT !.waits = TRUE]
  BY DEF PageT
<1>5. /\ p.cart = q.cart /\ p.attempt = q.attempt /\ p.order = q.order /\ p.status = q.status /\ p.waits
  BY <1>2, <1>4 DEF PageT
<1>6. page' = [page EXCEPT ![u] = p]
  BY <1>1, <1>2, <1>4, TypeShape DEF CounterInv
<1>7. RequestOK(u, r) /\ r.op \in {"create", "dispatch", "pay"}
  BY <1>1, <1>3 DEF CounterInv, PagesOK, PageOK
<1>8. Awaits(p, u, r)
  BY <1>2, <1>3, <1>5, <1>7 DEF Awaits
<1>9. QED  BY <1>1, <1>2, <1>3, <1>5, <1>6, <1>7, <1>8, SilentSend

LEMMA ReceiveInHallKeeps ==
    ASSUME CounterInv, NEW c \in Calls, call[c].awaited, NEW u \in Waiters, u = call[c].by,
           UNCHANGED server, ReceiveInHall(u, c)
    PROVE  CounterInv'
<1>1. /\ u \in Users /\ call' = [call EXCEPT ![c] = NoCall] /\ sale' = sale
      /\ page' = [page EXCEPT ![u] = Blank]
  BY SameServer DEF ReceiveInHall, Users
<1>2. PICK r \in CallRequests : r = call[c].req /\ r = page[u].attempt /\ RequestOK(u, r)
  BY <1>1, Awaited DEF Awaits
<1>3. /\ call' \in [Calls -> CallT] /\ (\A d \in Calls : Follows(u, d)) /\ OneCall'
      /\ call'[c].req = Null /\ \A d \in Calls \ {c} : call'[d] = call[d]
      /\ \A d \in Calls : \/ call'[d].req = Null
                          \/ call'[d].by = call[d].by /\ call'[d].req = call[d].req
  BY <1>1, ReceiveEnds, NoCallShape
<1>4. page'[u] = Blank /\ \A v \in Users \ {u} : page'[v] = page[v]
  BY <1>1, TypeShape DEF CounterInv
<1>5. guest \in [Guests -> {"here", "ordered", "forgotten"}]
  BY DEF CounterInv, CounterTypeOK
<1>6. SUFFICES /\ guest' \in [Guests -> {"here", "ordered", "forgotten"}]
               /\ \A g \in Guests : guest'[g] # "forgotten" =>
                    /\ guest[g] # "forgotten"
                    /\ GuestOK(g) => \/ GuestOK(g)'
                                     \/ guest'[g] = "here" =>
                                          /\ guest[g] = "here"
                                          /\ \A k \in RequestKeys : ~For(page[u].attempt, k, g)
  BY <1>1, <1>3, BlankShape, BlankKeeps
<1>7. CASE r.op # "create"
  BY <1>2, <1>5, <1>7 DEF ReceiveInHall, For
<1>8. CASE r.op = "create" /\ call[c].answer = "ok"
  <2>1. Told(r.cart.who)
    BY <1>2, <1>8 DEF ReceiveInHall
  <2>2. /\ guest' \in [Guests -> {"here", "ordered", "forgotten"}]
        /\ \A g \in Guests : /\ guest'[g] = "here" => guest[g] = "here" /\ g # r.cart.who
                             /\ guest'[g] = "forgotten" <=> guest[g] = "forgotten"
    BY <2>1, ToldGuests
  <2>3. QED  BY <1>2, <2>2 DEF For
<1>9. CASE r.op = "create" /\ call[c].answer # "ok"
  <2>1. guest' = IF Uncertain(r.key, c) THEN [guest EXCEPT ![r.cart.who] = "forgotten"] ELSE guest
    BY <1>2, <1>9 DEF ReceiveInHall, ForgetIf
  <2>2. guest' \in [Guests -> {"here", "ordered", "forgotten"}]
    BY <1>5, <2>1
  <2>3. ASSUME NEW g \in Guests, guest'[g] # "forgotten"
        PROVE  /\ guest[g] # "forgotten"
               /\ GuestOK(g) => \/ GuestOK(g)'
                                \/ guest'[g] = "here" =>
                                     /\ guest[g] = "here"
                                     /\ \A k \in RequestKeys : ~For(page[u].attempt, k, g)
    <3>1. guest[g] # "forgotten" /\ guest'[g] = guest[g]
      BY <1>5, <2>1, <2>3
    <3>2. CASE g = r.cart.who
      <4>1. ~Uncertain(r.key, c)
        BY <1>5, <2>1, <2>3, <3>2
      <4>2. GuestOK(g) => GuestOK(g)'
        <5>1. page'[u].attempt = Null /\ call[c].by = u
          BY <1>4, BlankShape
        <5>2. QED  BY <1>1, <1>2, <1>3, <1>4, <1>9, <3>2, <4>1, <5>1, Dropped
      <4>3. QED  BY <3>1, <4>2
    <3>3. CASE g # r.cart.who
      BY <1>2, <3>1, <3>3 DEF For
    <3>4. QED  BY <3>2, <3>3
  <2>4. QED  BY <2>2, <2>3
<1>10. QED  BY <1>7, <1>8, <1>9
-----------------------------------------------------------------------------
(* The shop.                                                               *)

\* A clerk's page: no order, no attempt, and calls that only wait.
LEMMA ClerkShape ==
    ASSUME CounterInv, NEW u \in Clerks
    PROVE  /\ u \in Users /\ u \notin Cashiers /\ u \notin Waiters
           /\ page[u].attempt = Null /\ page[u].order = Null /\ page[u].status = Null
           /\ \A r : RequestOK(u, r) => r.op \in {"sell", "confirm"}
<1>1. u \in Users /\ u \notin Cashiers /\ u \notin Waiters
  BY CounterAssumption DEF Users
<1>2. \A r : RequestOK(u, r) => r.op \in {"sell", "confirm"}
  BY <1>1 DEF RequestOK, Making, CallRequests
<1>3. PageOK(u, page[u])
  BY <1>1 DEF CounterInv, PagesOK
<1>4. QED  BY <1>1, <1>2, <1>3 DEF PageOK

LEMMA ClerkStays ==
    ASSUME CounterInv, NEW u \in Clerks, UNCHANGED call, page'[u].waits = page[u].waits
    PROVE  /\ call' \in [Calls -> CallT] /\ (\A d \in Calls : Follows(u, d)) /\ OneCall'
           /\ \A d \in Calls : call'[d].by = call[d].by /\ call'[d].req = call[d].req
<1>1. call' = call /\ call \in [Calls -> CallT] /\ OneCall
  BY TypeShape DEF CounterInv, CallsOK
<1>2. ASSUME NEW d \in Calls, call[d].awaited, call[d].by = u
      PROVE  Awaits(page'[u], u, call[d].req)
  <2>1. RequestOK(u, call[d].req) /\ page[u].waits
    BY <1>2, Awaited DEF Awaits
  <2>2. QED  BY <2>1, ClerkShape DEF Awaits
<1>3. QED  BY <1>1, <1>2 DEF Follows, OneCall

LEMMA FillShopKeeps ==
    ASSUME CounterInv, NEW u \in Clerks, FillShop(u)
    PROVE  CounterInv'
<1>1. PICK cart \in Carts : MayAsk(u, cart.who) /\ page' = [page EXCEPT ![u].cart = cart]
  BY DEF FillShop
<1>2. UNCHANGED server /\ call' = call /\ guest' = guest /\ u \in Users
  BY ClerkShape DEF FillShop
<1>3. PICK q \in PageT : q = page[u]
  BY <1>2, TypeShape DEF CounterInv
<1>4. PICK p : p = [q EXCEPT !.cart = cart]
  OBVIOUS
<1>5. /\ p \in PageT /\ p.cart = cart /\ p.attempt = q.attempt /\ p.order = q.order /\ p.status = q.status
      /\ p.waits = q.waits
  BY <1>3, <1>4 DEF PageT
<1>6. page' = [page EXCEPT ![u] = p] /\ page'[u] = p
  BY <1>1, <1>2, <1>3, <1>4, TypeShape DEF CounterInv
<1>7. PageOK(u, page[u])'
  <2>1. PageOK(u, p)
    BY <1>3, <1>5, ClerkShape, Nothing DEF PageOK
  <2>2. QED  BY <1>2, <1>6, <2>1, PageFits
<1>8. \A g \in Guests : QuietFor(u, p, Null, g)
  BY <1>2, <1>3, <1>5, ClerkShape DEF QuietFor, For
<1>9. guest' \in [Guests -> {"here", "ordered", "forgotten"}]
  BY <1>2 DEF CounterInv, CounterTypeOK
<1>10. /\ call' \in [Calls -> CallT] /\ (\A d \in Calls : Follows(u, d)) /\ OneCall'
       /\ \A d \in Calls : call'[d].by = call[d].by /\ call'[d].req = call[d].req
  BY <1>2, <1>3, <1>5, <1>6, ClerkStays
<1>11. Turns(u, p, Null)
  BY <1>1, <1>2, <1>3, <1>5, <1>6, <1>7, <1>8, <1>9, <1>10 DEF Turns, MayAsk
<1>12. QED  BY <1>2, <1>11, TurnKeeps

LEMMA EditPaymentKeeps ==
    ASSUME CounterInv, NEW u \in Clerks, EditPayment(u) \/ Clear(u)
    PROVE  CounterInv'
<1>1. UNCHANGED server /\ call' = call /\ guest' = guest /\ u \in Users
  BY ClerkShape DEF EditPayment, Clear
<1>2. PICK q \in PageT : q = page[u]
  BY <1>1, TypeShape DEF CounterInv
<1>3. PICK cart \in {Null, q.cart}, pay \in PayKeys \union {Null} :
         page' = [page EXCEPT ![u] = [q EXCEPT !.cart = cart, !.pay = pay]]
  <2>1. page \in [Users -> PageT]
    BY TypeShape DEF CounterInv
  <2>2. \A pay : [q EXCEPT !.pay = pay] = [q EXCEPT !.cart = q.cart, !.pay = pay]
    BY DEF PageT
  <2>3. CASE EditPayment(u)
    <3>1. PICK pay \in PayKeys \union {Null} : page' = [page EXCEPT ![u].pay = pay]
      BY <2>3 DEF EditPayment
    <3>2. page' = [page EXCEPT ![u] = [q EXCEPT !.pay = pay]]
      BY <1>1, <1>2, <2>1, <3>1
    <3>3. QED  BY <2>2, <3>2
  <2>4. CASE Clear(u)
    BY <1>1, <1>2, <2>1, <2>4 DEF Clear
  <2>5. QED  BY <2>3, <2>4
<1>4. PICK p : p = [q EXCEPT !.cart = cart, !.pay = pay]
  OBVIOUS
<1>5. /\ p \in PageT /\ p.cart = cart /\ p.attempt = q.attempt /\ p.order = q.order /\ p.status = q.status
      /\ p.waits = q.waits
  BY <1>3, <1>4 DEF PageT
<1>6. page' = [page EXCEPT ![u] = p] /\ page'[u] = p
  BY <1>1, <1>3, <1>4, TypeShape DEF CounterInv
<1>7. PageOK(u, page[u])'
  <2>1. PageOK(u, p)
    BY <1>2, <1>5, ClerkShape, Nothing DEF PageOK
  <2>2. QED  BY <1>1, <1>6, <2>1, PageFits
<1>8. \A g \in Guests : QuietFor(u, p, Null, g)
  BY <1>1, <1>2, <1>5, ClerkShape DEF QuietFor, For
<1>9. guest' \in [Guests -> {"here", "ordered", "forgotten"}]
  BY <1>1 DEF CounterInv, CounterTypeOK
<1>10. /\ call' \in [Calls -> CallT] /\ (\A d \in Calls : Follows(u, d)) /\ OneCall'
       /\ \A d \in Calls : call'[d].by = call[d].by /\ call'[d].req = call[d].req
  BY <1>1, <1>2, <1>5, <1>6, ClerkStays
<1>11. Turns(u, p, Null)
  BY <1>1, <1>2, <1>3, <1>5, <1>6, <1>7, <1>8, <1>9, <1>10 DEF Turns
<1>12. QED  BY <1>1, <1>11, TurnKeeps

LEMMA PressConfirmKeeps ==
    ASSUME CounterInv, NEW u \in Clerks, PressConfirm(u)
    PROVE  CounterInv'
<1>1. /\ Idle(u) /\ UNCHANGED <<server, guest>> /\ u \in Users /\ page[u].cart # Null
      /\ Send(u, CallRequest("sell", Null, page[u].cart, page[u].pay))
      /\ page' = [page EXCEPT ![u].waits = TRUE]
  BY ClerkShape DEF PressConfirm
<1>2. PICK q \in PageT : q = page[u]
  BY <1>1, TypeShape DEF CounterInv
<1>3. PICK r : r = CallRequest("sell", Null, page[u].cart, page[u].pay)
  OBVIOUS
<1>4. r \in CallRequests /\ r.op = "sell" /\ r.key = Null /\ r.cart \in Carts /\ Send(u, r)
  BY <1>1, <1>2, <1>3 DEF CallRequest, CallRequests, PageT
<1>5. PICK p \in PageT : p = [q EXCEPT !.waits = TRUE]
  BY DEF PageT
<1>6. /\ p.cart = q.cart /\ p.attempt = q.attempt /\ p.order = q.order /\ p.status = q.status /\ p.waits
  BY <1>2, <1>5 DEF PageT
<1>7. page' = [page EXCEPT ![u] = p]
  BY <1>1, <1>2, <1>5, TypeShape DEF CounterInv
<1>8. RequestOK(u, r) /\ Awaits(p, u, r) /\ r.op \notin Making
  BY <1>4, <1>6, ClerkShape DEF RequestOK, Awaits, Making
<1>9. QED  BY <1>1, <1>2, <1>4, <1>6, <1>7, <1>8, SilentSend

LEMMA ReceiveSellKeeps ==
    ASSUME CounterInv, NEW c \in Calls, call[c].awaited, NEW u \in Users, u = call[c].by,
           call[c].req.op = "sell", UNCHANGED server, ReceiveSell(u, c)
    PROVE  CounterInv'
<1>1. CASE call[c].answer # "ok"
  <2>1. /\ page' = [page EXCEPT ![u].waits = FALSE] /\ call' = [call EXCEPT ![c] = NoCall]
        /\ guest' = guest
    BY <1>1 DEF ReceiveSell
  <2>2. QED  BY <2>1, WaitEnds
<1>2. CASE call[c].answer = "ok"
  <2>1. PICK r \in CallRequests : r = call[c].req
    BY Awaited
  <2>2. PICK new \in CallRequests : new = [r EXCEPT !.op = "confirm"]
    BY DEF CallRequests
  <2>3. new.op = "confirm" /\ new.key = r.key /\ new.cart = r.cart
    BY <2>1, <2>2 DEF CallRequests
  <2>4. call' = [call EXCEPT ![c] = NewCall(u, new)] /\ page' = page /\ guest' = guest
    BY <1>2, <2>1, <2>2 DEF ReceiveSell, NewCall
  <2>5. RequestOK(u, r) /\ r.key # Null /\ u \in Clerks /\ page[u].waits
    BY <1>2, <2>1, Awaited DEF Progress, RequestOK, Awaits
  <2>6. RequestOK(u, new)
    <3>1. r.key \in RequestKeys /\ IsMade(r.key) /\ sale[r.key].place = "shop"
      BY <2>1, <2>5 DEF RequestOK, CallRequests
    <3>2. QED  BY <2>3, <2>5, <3>1 DEF RequestOK, Making
  <2>7. Awaits(page'[u], u, new)
    BY <2>3, <2>4, <2>5, ClerkShape DEF Awaits
  <2>8. /\ call' \in [Calls -> CallT] /\ (\A d \in Calls : Follows(u, d)) /\ OneCall'
        /\ call'[c] = NewCall(u, new) /\ \A d \in Calls \ {c} : call'[d] = call[d]
    <3>1. \A d \in Calls \ {c} : ~(call[d].awaited /\ call[d].by = u)
      BY Awaited
    <3>2. new.op # "sell"
      BY <2>3
    <3>3. QED  BY <2>4, <2>6, <2>7, <3>1, <3>2, CallTurns
  <2>9. call'[c].by = u /\ call'[c].req = new
    <3>1. PICK n : n = NewCall(u, new)
      OBVIOUS
    <3>2. n.by = u /\ n.req = new
      BY <3>1 DEF NewCall, NoCall
    <3>3. call'[c] = n
      BY <2>8, <3>1
    <3>4. QED  BY <3>2, <3>3
  <2>10. PICK p \in PageT : p = page[u] /\ page' = [page EXCEPT ![u] = p]
    BY <2>4, TypeShape DEF CounterInv
  <2>11. /\ \A d \in Calls : \/ call'[d].req = Null
                             \/ call'[d].by = call[d].by /\ call'[d].req = call[d].req
                             \/ call'[d].by = u /\ call'[d].req = new
         /\ new.op \notin Making
    BY <2>3, <2>8, <2>9 DEF Making
  <2>12. /\ p.attempt = page[u].attempt /\ p.cart = page[u].cart /\ p.order = page[u].order
         /\ p.status = page[u].status /\ page' = [page EXCEPT ![u] = p]
         /\ call' \in [Calls -> CallT] /\ (\A d \in Calls : Follows(u, d)) /\ OneCall'
         /\ guest' = guest
    BY <2>4, <2>8, <2>10
  <2>13. /\ \/ new = Null \/ new = page[u].attempt \/ new.op \notin Making
            \/ (new.op = "quote" /\ Fresh(new.key))
         /\ \/ p.status = page[u].status
            \/ p.order # Null /\ SaysTruly(p.status, sale[p.order])
    BY <2>11, <2>12
  <2>14. PICK asked : asked = new
    OBVIOUS
  <2>15. QED  BY <2>11, <2>12, <2>13, <2>14, SilentKeeps
<1>3. QED  BY <1>1, <1>2

LEMMA ReceiveConfirmKeeps ==
    ASSUME CounterInv, NEW c \in Calls, call[c].awaited, NEW u \in Users, u = call[c].by,
           call[c].req.op = "confirm", UNCHANGED server, ReceiveConfirm(u, c)
    PROVE  CounterInv'
<1>1. call' = [call EXCEPT ![c] = NoCall] /\ guest' = guest
  BY DEF ReceiveConfirm
<1>2. CASE call[c].answer # "ok"
  <2>1. page' = [page EXCEPT ![u].waits = FALSE]
    BY <1>2, TypeShape DEF ReceiveConfirm, CounterInv
  <2>2. QED  BY <1>1, <2>1, WaitEnds
<1>3. CASE call[c].answer = "ok"
  <2>1. u \in Clerks
    BY Awaited DEF RequestOK
  <2>2. page' = [page EXCEPT ![u] = Blank]
    BY <1>3 DEF ReceiveConfirm
  <2>3. /\ call' \in [Calls -> CallT] /\ (\A d \in Calls : Follows(u, d)) /\ OneCall'
        /\ \A d \in Calls : \/ call'[d].req = Null
                            \/ call'[d].by = call[d].by /\ call'[d].req = call[d].req
    BY <1>1, ReceiveEnds
  <2>4. /\ guest' \in [Guests -> {"here", "ordered", "forgotten"}]
        /\ \A k \in RequestKeys : \A g \in Guests : ~For(page[u].attempt, k, g)
    BY <1>1, <2>1, ClerkShape DEF CounterInv, CounterTypeOK, For
  <2>5. QED  BY <1>1, <2>2, <2>3, <2>4, BlankShape, BlankKeeps
<1>4. QED  BY <1>2, <1>3
-----------------------------------------------------------------------------
(* What happens to a page or a call from outside.                          *)

LEMMA GiveUpKeeps ==
    ASSUME CounterInv, NEW c \in Calls, GiveUp(c)
    PROVE  CounterInv'
<1>1. PICK u : u = call[c].by
  OBVIOUS
<1>2. /\ call[c].awaited /\ UNCHANGED server /\ guest' = guest
      /\ page' = [page EXCEPT ![u].waits = FALSE] /\ call' = [call EXCEPT ![c].awaited = FALSE]
  BY <1>1 DEF GiveUp
<1>3. /\ u \in Users /\ call[c].step # "free"
      /\ \A d \in Calls \ {c} : ~(call[d].awaited /\ call[d].by = u)
  BY <1>1, <1>2, Awaited
<1>4. PICK q \in PageT : q = page[u]
  BY <1>3, TypeShape DEF CounterInv
<1>5. PICK p \in PageT : p = [q EXCEPT !.waits = FALSE]
  BY DEF PageT
<1>6. p.cart = q.cart /\ p.attempt = q.attempt /\ p.order = q.order /\ p.status = q.status
  BY <1>4, <1>5 DEF PageT
<1>7. page' = [page EXCEPT ![u] = p]
  BY <1>2, <1>3, <1>4, <1>5, TypeShape DEF CounterInv
<1>8. PICK t \in CallT : t = call[c] /\ call \in [Calls -> CallT]
  BY TypeShape DEF CounterInv
<1>9. PICK n \in CallT : n = [t EXCEPT !.awaited = FALSE]
  BY DEF CallT
<1>10. n.by = t.by /\ n.req = t.req /\ n.awaited = FALSE
  BY <1>8, <1>9 DEF CallT
<1>11. /\ call' \in [Calls -> CallT] /\ call'[c] = n /\ \A d \in Calls \ {c} : call'[d] = call[d]
  BY <1>2, <1>8, <1>9
<1>12. \A d \in Calls : Follows(u, d)
  BY <1>3, <1>8, <1>9, <1>11 DEF Follows
<1>13. OneCall'
  BY <1>10, <1>11 DEF OneCall, CounterInv, CallsOK
<1>14. \A d \in Calls : call'[d].by = call[d].by /\ call'[d].req = call[d].req
  BY <1>8, <1>10, <1>11
<1>15. PICK r : r = Null
  OBVIOUS
<1>16. QED  BY <1>2, <1>3, <1>4, <1>6, <1>7, <1>11, <1>12, <1>13, <1>14, <1>15, SilentKeeps

LEMMA LostKeeps ==
    ASSUME CounterInv, NEW c \in Calls, Lost(c)
    PROVE  CounterInv'
<1>1. /\ call[c].step # "free" /\ call[c].awaited = FALSE /\ UNCHANGED server /\ guest' = guest
      /\ page' = page /\ call' = [call EXCEPT ![c] = NoCall]
  BY TypeShape DEF Lost, CounterInv, CallT
<1>2. PICK u \in Users : u = call[c].by
  BY <1>1, UnderWay DEF CounterInv
<1>3. PICK p \in PageT : p = page[u] /\ page' = [page EXCEPT ![u] = p]
  BY <1>1, TypeShape DEF CounterInv
<1>4. /\ call' \in [Calls -> CallT] /\ call'[c] = NoCall /\ \A d \in Calls \ {c} : call'[d] = call[d]
  BY <1>1, NoCallShape, TypeShape DEF CounterInv
<1>5. ASSUME NEW d \in Calls PROVE Follows(u, d)
  <2>1. CASE d = c
    BY <1>4, <2>1 DEF Follows
  <2>2. CASE d # c
    <3>1. call[d].awaited /\ call[d].by = u => Awaits(page[u], u, call[d].req)
      BY Awaited
    <3>2. QED  BY <1>1, <1>4, <2>2, <3>1 DEF Follows
  <2>3. QED  BY <2>1, <2>2
<1>6. OneCall'
  BY <1>4, NoCallShape DEF OneCall, CounterInv, CallsOK
<1>7. \A d \in Calls : call'[d].req = Null \/ (call'[d].by = call[d].by /\ call'[d].req = call[d].req)
  BY <1>4, NoCallShape
<1>8. PICK r : r = Null
  OBVIOUS
<1>9. p.attempt = page[u].attempt /\ p.cart = page[u].cart /\ p.order = page[u].order
      /\ p.status = page[u].status
  BY <1>3
<1>10. QED  BY <1>1, <1>3, <1>4, <1>5, <1>6, <1>7, <1>8, <1>9, SilentKeeps

LEMMA ReloadKeeps ==
    ASSUME CounterInv, NEW u \in Users, Reload(u)
    PROVE  CounterInv'
<1>1. PICK lost : lost = page[u].attempt
  OBVIOUS
<1>2. PICK stored : stored = IF u \in Cashiers THEN lost ELSE Null
  OBVIOUS
<1>3. /\ UNCHANGED server
      /\ page' = [page EXCEPT ![u] = [Blank EXCEPT !.attempt = stored]]
      /\ call' = [c \in Calls |-> IF call[c].by = u THEN [call[c] EXCEPT !.awaited = FALSE] ELSE call[c]]
      /\ guest' = IF u \in Waiters /\ lost # Null /\ lost.op = "create"
                  THEN [guest EXCEPT ![lost.cart.who] = "forgotten"] ELSE guest
  BY <1>1, <1>2 DEF Reload
<1>4. page \in [Users -> PageT] /\ call \in [Calls -> CallT]
      /\ guest \in [Guests -> {"here", "ordered", "forgotten"}]
  BY TypeShape DEF CounterInv
<1>5. stored \in {Null, page[u].attempt} /\ stored \in CallRequests \union {Null}
  BY <1>1, <1>2, <1>4 DEF PageT
<1>6. PICK p \in PageT : p = [Blank EXCEPT !.attempt = stored]
  BY <1>5, BlankShape DEF PageT
<1>7. p.cart = Null /\ p.order = Null /\ p.status = Null /\ p.attempt = stored
  BY <1>6, BlankShape DEF Blank
<1>8. page' = [page EXCEPT ![u] = p]
  BY <1>3, <1>6
<1>9. ASSUME NEW d \in Calls
      PROVE  /\ call'[d] \in CallT /\ call'[d].by = call[d].by /\ call'[d].req = call[d].req
             /\ call'[d].awaited => call[d].awaited
             /\ Follows(u, d)
  <2>1. CASE call[d].by # u
    <3>1. call'[d] = call[d]
      BY <1>3, <2>1
    <3>2. QED  BY <1>4, <2>1, <3>1 DEF Follows
  <2>2. CASE call[d].by = u
    <3>1. PICK t \in CallT : t = call[d]
      BY <1>4
    <3>2. PICK n \in CallT : n = [t EXCEPT !.awaited = FALSE]
      BY DEF CallT
    <3>3. n.by = t.by /\ n.req = t.req /\ n.awaited = FALSE
      BY <3>1, <3>2 DEF CallT
    <3>4. call'[d] = n
      BY <1>3, <2>2, <3>1, <3>2
    <3>5. CASE t.step = "free"
      <4>1. t = NoCall
        BY <3>1, <3>5 DEF CounterInv, CallsOK, CallOK
      <4>2. n = NoCall
        BY <3>2, <4>1 DEF NoCall
      <4>3. QED  BY <3>1, <3>3, <3>4, <4>2 DEF Follows
    <3>6. CASE t.step # "free"
      BY <3>1, <3>2, <3>3, <3>4, <3>6 DEF Follows
    <3>7. QED  BY <3>5, <3>6
  <2>3. QED  BY <2>1, <2>2
<1>10. call' \in [Calls -> CallT]
  BY <1>3, <1>9
<1>11. OneCall'
  BY <1>9 DEF OneCall, CounterInv, CallsOK
<1>12. guest' \in [Guests -> {"here", "ordered", "forgotten"}]
  BY <1>3, <1>4
<1>13. ASSUME NEW g \in Guests, guest'[g] # "forgotten"
       PROVE  /\ guest[g] # "forgotten" /\ guest'[g] = guest[g]
              /\ \A k \in RequestKeys : For(page[u].attempt, k, g) => For(p.attempt, k, g)
  <2>1. guest[g] # "forgotten" /\ guest'[g] = guest[g]
    BY <1>3, <1>4, <1>13
  <2>2. ASSUME NEW k \in RequestKeys, For(lost, k, g) PROVE For(stored, k, g)
    <3>1. u \in Cashiers \/ u \in Waiters
      BY <1>1, <2>2, UserKinds, ClerkShape DEF For
    <3>2. CASE u \in Cashiers
      BY <1>2, <2>2, <3>2
    <3>3. CASE u \in Waiters
      <4>1. guest' = [guest EXCEPT ![g] = "forgotten"]
        BY <1>3, <2>2, <3>3 DEF For
      <4>2. QED  BY <1>4, <1>13, <4>1
    <3>4. QED  BY <3>1, <3>2, <3>3
  <2>3. QED  BY <1>1, <1>7, <2>1, <2>2
<1>14. \A d \in Calls : Follows(u, d)
  BY <1>9
<1>15. \A d \in Calls : call'[d].req = Null \/ (call'[d].by = call[d].by /\ call'[d].req = call[d].req)
  BY <1>9
<1>16. p.attempt \in {Null, page[u].attempt}
  BY <1>5, <1>7
<1>17. QED
  BY <1>3, <1>7, <1>8, <1>10, <1>11, <1>12, <1>13, <1>14, <1>15, <1>16, BlankKeeps

LEMMA ReceiveKeeps ==
    ASSUME CounterInv, NEW c \in Calls, Receive(c)
    PROVE  CounterInv'
<1>1. call[c].awaited /\ UNCHANGED server
  BY DEF Receive
<1>2. PICK u \in Users : u = call[c].by /\ RequestOK(u, call[c].req)
  BY <1>1, Awaited
<1>3. CASE u \in Waiters /\ ReceiveInHall(u, c)
  BY <1>1, <1>2, <1>3, ReceiveInHallKeeps
<1>4. CASE call[c].req.op = "quote" /\ ReceiveQuote(u, c)
  BY <1>1, <1>2, <1>4, ReceiveQuoteKeeps DEF RequestOK
<1>5. CASE u \in Cashiers /\ call[c].req.op = "create" /\ ReceiveCreate(u, c)
  BY <1>1, <1>2, <1>5, ReceiveCreateKeeps
<1>6. CASE call[c].req.op = "checkout" /\ ReceiveCheckout(u, c)
  BY <1>1, <1>2, <1>6, ReceiveCheckoutKeeps
<1>7. CASE call[c].req.op = "cancel" /\ ReceiveCancel(u, c)
  BY <1>1, <1>2, <1>7, ReceiveCancelKeeps
<1>8. CASE call[c].req.op = "sell" /\ ReceiveSell(u, c)
  BY <1>1, <1>2, <1>8, ReceiveSellKeeps
<1>9. CASE call[c].req.op = "confirm" /\ ReceiveConfirm(u, c)
  BY <1>1, <1>2, <1>9, ReceiveConfirmKeeps
<1>10. QED  BY <1>2, <1>3, <1>4, <1>5, <1>6, <1>7, <1>8, <1>9 DEF Receive
-----------------------------------------------------------------------------
(* The theorems.                                                           *)

LEMMA InitOK == CounterInit => CounterInv
<1> SUFFICES ASSUME CounterInit PROVE CounterInv
  OBVIOUS
<1>1. /\ \A k \in RequestKeys : sale[k] = Null
      /\ \A p \in PayKeys : payment[p] = Null
      /\ \A c \in Calls : call[c] = NoCall
      /\ \A u \in Users : page[u] = Blank
      /\ \A g \in Guests : guest[g] = "here"
      /\ stock = Stock0
  BY DEF CounterInit
<1>2. CounterTypeOK
  <2>1. sale \in [RequestKeys -> Sales \union {Null}] /\ payment \in [PayKeys -> RequestKeys \union {Null}]
        /\ stock \in Nat /\ guest \in [Guests -> {"here", "ordered", "forgotten"}]
    BY CounterAssumption DEF CounterInit
  <2>2. call \in [Calls -> CallT]
    BY NoCallShape DEF CounterInit
  <2>3. page \in [Users -> PageT]
    BY BlankShape DEF CounterInit
  <2>4. QED  BY <2>1, <2>2, <2>3, TypeShape
<1>3. CallsOK
  BY <1>1, NoCallShape DEF CallsOK, CallOK, OneCall
<1>4. PagesOK
  BY <1>1, BlankShape, Nothing DEF PagesOK, PageOK
<1>5. OneOwner
  BY <1>1, NoCallShape, BlankShape DEF OneOwner, Abroad
<1>6. MoneyOK
  <2>1. (\A k \in RequestKeys : SaleOK(k)) /\ PaymentsOK
    BY <1>1 DEF SaleOK, PaymentsOK, IsMade
  <2>2. Sold = {}
    BY <1>1 DEF Sold, Made
  <2>3. IsFiniteSet(Sold)
    BY <2>2, FS_EmptySet
  <2>4. Gone = 0
    <3> DEFINE f == [k \in Sold |-> sale[k].cart.units]
    <3>1. DOMAIN f = {}
      BY <2>2
    <3> HIDE DEF f
    <3>2. SumFunction(f) = SumFunctionOnSet(f, {})
      BY <3>1 DEF SumFunction
    <3>3. QED  BY <3>2, SumEmpty DEF Gone, f
  <2>5. QED  BY <1>1, <2>1, <2>3, <2>4, CounterAssumption DEF MoneyOK, GoodsOK
<1>7. OnePage
  BY <1>1, BlankShape DEF OnePage, With
<1>8. GuestsOK
  <2>1. ASSUME NEW g \in Guests PROVE \A k \in RequestKeys : ~Stands(k, g)
    BY <1>1, NoCallShape, BlankShape DEF Stands, IsMade, For
  <2>2. QED  BY <2>1 DEF GuestsOK, GuestOK
<1>9. QED  BY <1>2, <1>3, <1>4, <1>5, <1>6, <1>7, <1>8 DEF CounterInv

LEMMA NextKeeps == CounterInv /\ [CounterNext]_counterVars => CounterInv'
<1> SUFFICES ASSUME CounterInv, [CounterNext]_counterVars PROVE CounterInv'
  OBVIOUS
<1>1. ASSUME NEW c \in Calls,
             \/ Quote(c) \/ Create(c) \/ CheckoutLook(c) \/ CheckoutConfirm(c) \/ CheckoutQueue(c)
             \/ CancelLook(c) \/ CancelSale(c) \/ CancelOrder(c) \/ Dispatch(c) \/ Pay(c)
             \/ Sell(c) \/ ConfirmShop(c) \/ TurnAway(c)
      PROVE  CounterInv'
  <2>1. Advances(c)
    <3>1. CASE Quote(c)
      BY <3>1, QuoteAdvances
    <3>2. CASE Create(c)
      BY <3>2, CreateAdvances
    <3>3. CASE CheckoutLook(c) \/ CheckoutConfirm(c) \/ CheckoutQueue(c)
      BY <3>3, CheckoutAdvances
    <3>4. CASE CancelLook(c) \/ CancelSale(c) \/ CancelOrder(c)
      BY <3>4, CancelAdvances
    <3>5. CASE Dispatch(c)
      BY <3>5, DispatchAdvances
    <3>6. CASE Pay(c)
      BY <3>6, PayAdvances
    <3>7. CASE Sell(c)
      BY <3>7, SellAdvances
    <3>8. CASE ConfirmShop(c)
      BY <3>8, ConfirmShopAdvances
    <3>9. CASE TurnAway(c)
      BY <3>9, TurnAwayAdvances
    <3>10. QED  BY <1>1, <3>1, <3>2, <3>3, <3>4, <3>5, <3>6, <3>7, <3>8, <3>9
  <2>2. QED  BY <2>1, AdvanceKeeps
<1>2. ASSUME NEW c \in Calls, Lost(c) \/ Receive(c) \/ GiveUp(c)
      PROVE  CounterInv'
  BY <1>2, LostKeeps, ReceiveKeeps, GiveUpKeeps
<1>3. ASSUME NEW u \in Cashiers,
             \/ FillCounter(u) \/ PressSave(u) \/ Continue(u) \/ EditPayments(u)
             \/ PressCheckout(u) \/ PressCancel(u) \/ PressNew(u)
      PROVE  CounterInv'
  <2>1. CASE FillCounter(u)
    BY <2>1, FillCounterKeeps
  <2>2. CASE PressSave(u)
    BY <2>2, PressSaveKeeps
  <2>3. CASE Continue(u)
    BY <2>3, ContinueKeeps
  <2>4. CASE EditPayments(u)
    BY <2>4, EditPaymentsKeeps
  <2>5. CASE PressCheckout(u) \/ PressCancel(u)
    BY <2>5, PressOrderKeeps
  <2>6. CASE PressNew(u)
    BY <2>6, PressNewKeeps
  <2>7. QED  BY <1>3, <2>1, <2>2, <2>3, <2>4, <2>5, <2>6
<1>4. ASSUME NEW u \in Waiters, PressAdd(u) \/ PressDispatch(u) \/ PressPay(u) \/ PressRetry(u)
      PROVE  CounterInv'
  BY <1>4, PressAddKeeps, PressGoodsKeeps, PressRetryKeeps
<1>5. ASSUME NEW u \in Clerks, FillShop(u) \/ EditPayment(u) \/ Clear(u) \/ PressConfirm(u)
      PROVE  CounterInv'
  BY <1>5, FillShopKeeps, EditPaymentKeeps, PressConfirmKeeps
<1>6. ASSUME NEW u \in Users, Reload(u) PROVE CounterInv'
  BY <1>6, ReloadKeeps
<1>7. CASE UNCHANGED counterVars
  <2>1. /\ sale' = sale /\ payment' = payment /\ stock' = stock /\ call' = call /\ page' = page
        /\ guest' = guest
    BY <1>7 DEF counterVars
  <2>2. CounterTypeOK' /\ OnePage'
    BY <2>1 DEF CounterInv, CounterTypeOK, OnePage, With
  <2>3. CallsOK' /\ PagesOK'
    <3>1. UNCHANGED server
      BY <2>1 DEF server
    <3>2. ASSUME NEW c \in Calls PROVE CallOK(call[c])'
      <4>1. PICK t : t = call[c] /\ CallOK(t)
        BY DEF CounterInv, CallsOK
      <4>2. CallOK(t)'
        BY <2>1, <3>1, <4>1, SameServer DEF CallOK, Awaits
      <4>3. QED  BY <2>1, <4>1, <4>2
    <3>3. ASSUME NEW u \in Users PROVE PageOK(u, page[u])'
      BY <2>1, <3>1, PageFits DEF CounterInv, PagesOK
    <3>4. OneCall'
      BY <2>1 DEF CounterInv, CallsOK, OneCall
    <3>5. QED  BY <3>2, <3>3, <3>4 DEF CallsOK, PagesOK
  <2>4. OneOwner'
    BY <2>1 DEF CounterInv, OneOwner, Abroad, Remembered
  <2>5. MoneyOK'
    BY <2>1 DEF CounterInv, MoneyOK, SaleOK, PaymentsOK, GoodsOK, Gone, Sold, Made, IsMade
  <2>6. GuestsOK'
    BY <2>1 DEF CounterInv, GuestsOK, GuestOK, Stands, Asks, For, IsMade
  <2>7. QED  BY <2>2, <2>3, <2>4, <2>5, <2>6 DEF CounterInv
<1>8. CASE CounterNext
  BY <1>1, <1>2, <1>3, <1>4, <1>5, <1>6, <1>8 DEF CounterNext
<1>9. QED  BY <1>7, <1>8

\* What the pages remember and what the calls carry agree with the sales, in every
\* state the counter, the dining room and the shop can reach.
THEOREM CounterInvariance == CounterSpec => []CounterInv
BY InitOK, NextKeeps, PTL DEF CounterSpec

\* Each sale's goods leave once, and it is paid exactly when one payment is its own;
\* nothing goes to the kitchen unpaid but in the dining room.
THEOREM GoodsAndMoney == CounterSpec => []MoneyFollowsGoods
<1>1. CounterInv => MoneyFollowsGoods
  <2> SUFFICES ASSUME CounterInv PROVE MoneyFollowsGoods
    OBVIOUS
  <2>1. CounterTypeOK /\ stock + SumFunction([k \in Sold |-> sale[k].cart.units]) = Stock0
    BY DEF CounterInv, MoneyOK, GoodsOK, Gone
  <2>2. ASSUME NEW k \in Made
        PROVE  /\ Cardinality({p \in PayKeys : payment[p] = k}) = IF sale[k].sale = "PAID" THEN 1 ELSE 0
               /\ sale[k].order = "QUEUED" =>
                     sale[k].sale = "PAID" \/ (sale[k].place = "hall" /\ sale[k].sale = "CONFIRMED")
               /\ sale[k].order = "CANCELLED" => sale[k].sale = "CANCELLED"
    <3>1. SaleOK(k) /\ IsMade(k)
      BY <2>2 DEF CounterInv, MoneyOK, Made, IsMade
    <3>2. CASE sale[k].sale = "PAID"
      <4>1. PICK p \in PayKeys : \A q \in PayKeys : (payment[q] = k) = (q = p)
        BY <3>1, <3>2 DEF SaleOK
      <4>2. {q \in PayKeys : payment[q] = k} = {p}
        BY <4>1
      <4>3. QED  BY <3>1, <3>2, <4>2, FS_Singleton DEF SaleOK
    <3>3. CASE sale[k].sale # "PAID"
      <4>1. {q \in PayKeys : payment[q] = k} = {}
        BY <3>1, <3>3 DEF SaleOK
      <4>2. QED  BY <3>1, <3>3, <4>1, FS_EmptySet DEF SaleOK
    <3>4. QED  BY <3>2, <3>3
  <2>3. \A u \in Cashiers : page[u].order # Null => SaysTruly(page[u].status, sale[page[u].order])
    BY DEF CounterInv, PagesOK, PageOK, Users
  <2>4. QED  BY <2>1, <2>2, <2>3 DEF MoneyFollowsGoods
<1>2. QED  BY <1>1, CounterInvariance, PTL

\* A guest is served once, unless the page was told to drop what may have been done.
THEOREM ServedOnce == CounterSpec => []OneOrderEach
<1>1. CounterInv => OneOrderEach
  <2> SUFFICES ASSUME CounterInv, NEW g \in Guests, guest[g] # "forgotten"
               PROVE  Cardinality(OrdersOf(g)) <= 1
    BY DEF OneOrderEach
  <2>1. ASSUME NEW k \in OrdersOf(g) PROVE k \in RequestKeys /\ Stands(k, g)
    <3>1. k \in RequestKeys /\ IsMade(k) /\ sale[k].cart.who = g /\ sale[k].order # Null
      BY Nothing DEF OrdersOf, Made, IsMade
    <3>2. sale[k].place # "shop"
      BY <3>1 DEF CounterInv, MoneyOK, SaleOK
    <3>3. QED  BY <3>1, <3>2 DEF Stands
  <2>2. \A k, l \in OrdersOf(g) : k = l
    BY <2>1 DEF CounterInv, GuestsOK, GuestOK
  <2>3. CASE OrdersOf(g) = {}
    BY <2>3, FS_EmptySet
  <2>4. ASSUME NEW k \in OrdersOf(g) PROVE Cardinality(OrdersOf(g)) <= 1
    <3>1. OrdersOf(g) = {k}
      BY <2>2
    <3>2. Cardinality({k}) = 1
      BY FS_Singleton
    <3>3. QED  BY <3>1, <3>2
  <2>5. QED  BY <2>3, <2>4
<1>2. QED  BY <1>1, CounterInvariance, PTL
=============================================================================
