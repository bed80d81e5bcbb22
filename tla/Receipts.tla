------------------------------ MODULE Receipts ------------------------------
(* Commercial receipts: receipts.service.ts and receipt-snapshot.ts.  A receipt *)
(* is issued once for a sale, with the next number of the organization and a    *)
(* copy of the sale that never changes, while the sale goes on being paid and   *)
(* returned.  Mails and rows of audit are put into the queues of JobQueue.      *)
EXTENDS JobQueue

CONSTANTS
    Sales,   \* sales of one organization
    Procs,   \* requests that may be open at once
    Total,   \* what each sale is worth
    MaxRequests, \* bound on the requests of a behaviour
    None     \* no receipt

\* What a receipt says of its sale.
Snapshot == [number : Nat \ {0}, paid : 0..Total, balance : 0..Total]

ASSUME ReceiptsAssumption ==
    /\ Keys \subseteq Sales \* the receipts whose mails and rows of audit are followed
    /\ Total \in Nat \ {0} /\ MaxRequests \in Nat
    /\ Sales # {}
    /\ None \notin Procs /\ None \notin Snapshot

VARIABLES
    sale,     \* sales: status and what has been paid
    receipt,  \* commercial_receipts, by the sale they are of
    seq,      \* receipt_sequences: the last number, and the transaction on its row
    tx,       \* the request each process runs
    begun     \* requests begun so far

receiptVars == <<sale, receipt, seq, tx, begun>>
vars == <<job, emailLog, outbox, auditLog, crashes, sale, receipt, seq, tx, begun>>

EligibleSaleStatuses == {"CONFIRMED", "PARTIALLY_PAID", "PAID"}
Statuses == EligibleSaleStatuses \union {"REFUNDED"}
Steps == {"idle", "find", "sale", "payments", "number", "create", "resolve",
          "found", "issued", "mailed"}

Idle == [step |-> "idle", sale |-> CHOOSE s \in Sales : TRUE, paid |-> 0, got |-> None]

ReceiptsTypeOK ==
    /\ sale \in [Sales -> [status : Statuses, paid : 0..Total]]
    /\ receipt \in [Sales -> Snapshot \union {None}]
    /\ seq \in [last : Nat, holder : Procs \union {None}]
    /\ tx \in [Procs -> [step : Steps, sale : Sales, paid : 0..Total,
                         got : Snapshot \union {None}]]
    /\ begun \in 0..MaxRequests

Init ==
    /\ QueueInit
    /\ sale = [s \in Sales |-> [status |-> "CONFIRMED", paid |-> 0]]
    /\ receipt = [s \in Sales |-> None]
    /\ seq = [last |-> 0, holder |-> None]
    /\ tx = [p \in Procs |-> Idle]
    /\ begun = 0

At(p, step) == tx[p].step = step
Of(p) == tx[p].sale
GoTo(p, step) == tx' = [tx EXCEPT ![p].step = step]
Finish(p) == tx' = [tx EXCEPT ![p] = Idle]

-----------------------------------------------------------------------------
(* The sale once confirmed, as sales.service.ts changes it in transactions of  *)
(* its own.                                                                    *)

Paid(s, amount) ==
    [status |-> IF amount = Total THEN "PAID"
                ELSE IF amount = 0 THEN "CONFIRMED" ELSE "PARTIALLY_PAID",
     paid |-> amount]

Pay(s) ==
    /\ sale[s].status \in EligibleSaleStatuses
    /\ \E amount \in (sale[s].paid + 1)..Total : sale' = [sale EXCEPT ![s] = Paid(s, amount)]

ReturnSale(s) ==
    /\ sale[s].status \in EligibleSaleStatuses
    /\ sale' = [sale EXCEPT ![s].status = "REFUNDED"]

SaleMoves ==
    /\ \E s \in Sales : Pay(s) \/ ReturnSale(s)
    /\ UNCHANGED queueVars /\ UNCHANGED <<receipt, seq, tx, begun>>

-----------------------------------------------------------------------------
(* issue: a transaction that looks for a receipt and makes one, then the row   *)
(* of audit.                                                                   *)

Begin(p) ==
    /\ At(p, "idle")
    /\ begun < MaxRequests
    /\ begun' = begun + 1

Issue(p, s) ==
    /\ Begin(p)
    /\ tx' = [tx EXCEPT ![p] = [Idle EXCEPT !.step = "find", !.sale = s]]
    /\ UNCHANGED <<sale, receipt, seq>>

FindExisting(p) ==
    /\ At(p, "find")
    /\ IF receipt[Of(p)] # None
       THEN tx' = [tx EXCEPT ![p].step = "issued", ![p].got = receipt[Of(p)]]
       ELSE GoTo(p, "sale")
    /\ UNCHANGED <<sale, receipt, seq>>

\* Only the status is judged; the sale is not locked.
Eligible(s) == sale[s].status \in EligibleSaleStatuses

ReadSale(p) ==
    /\ At(p, "sale")
    /\ IF Eligible(Of(p)) THEN GoTo(p, "payments") ELSE Finish(p)
    /\ UNCHANGED <<sale, receipt, seq>>

\* The payments come with a query of their own, after the row of the sale.
ReadPayments(p) ==
    /\ At(p, "payments")
    /\ tx' = [tx EXCEPT ![p].step = "number", ![p].paid = sale[Of(p)].paid]
    /\ UNCHANGED <<sale, receipt, seq>>

\* nextReceiptNumber: the row of the sequence is raised and stays locked until
\* the transaction ends.
SequenceIsFree == seq.holder = None

NextReceiptNumber(p) ==
    /\ At(p, "number")
    /\ SequenceIsFree
    /\ seq' = [seq EXCEPT !.holder = p]
    /\ GoTo(p, "create")
    /\ UNCHANGED <<sale, receipt>>

BuildReceiptSnapshot(p) ==
    [number |-> seq.last + 1, paid |-> tx[p].paid, balance |-> Total - tx[p].paid]

\* FAULT: no unique index on the sale of a receipt
FirstOfSaleAlways(s) == TRUE

\* commercial_receipts_saleId_key
FirstOfSale(s) == receipt[s] = None

\* FAULT: a number taken by a transaction that was undone is not given back
AfterConflictKept == [last |-> seq.last + 1, holder |-> None]

\* The number is given back when the transaction is undone.
AfterConflict == [last |-> seq.last, holder |-> None]

Create(p) ==
    /\ At(p, "create")
    /\ IF FirstOfSale(Of(p))
       THEN /\ receipt' = [receipt EXCEPT ![Of(p)] = BuildReceiptSnapshot(p)]
            /\ seq' = [last |-> seq.last + 1, holder |-> None]
            /\ tx' = [tx EXCEPT ![p].step = "issued", ![p].got = BuildReceiptSnapshot(p)]
       ELSE /\ seq' = AfterConflict
            /\ GoTo(p, "resolve")
            /\ UNCHANGED receipt
    /\ UNCHANGED sale

\* runOrResolveConflict: a new transaction answers with the receipt that won.
ResolveConflict(p) ==
    /\ At(p, "resolve")
    /\ receipt[Of(p)] # None
    /\ tx' = [tx EXCEPT ![p].step = "issued", ![p].got = receipt[Of(p)]]
    /\ UNCHANGED <<sale, receipt, seq>>

\* The transaction or the process dies; Postgres undoes what was not committed.
Abort(p) ==
    /\ ~At(p, "idle")
    /\ seq' = IF seq.holder = p THEN AfterConflict ELSE seq
    /\ Finish(p)
    /\ UNCHANGED <<sale, receipt>>

IssueStep(p) ==
    /\ \/ \E s \in Sales : Issue(p, s)
       \/ /\ FindExisting(p) \/ ReadSale(p) \/ ReadPayments(p)
             \/ NextReceiptNumber(p) \/ Create(p) \/ ResolveConflict(p) \/ Abort(p)
          /\ UNCHANGED begun
    /\ UNCHANGED queueVars

Queue(kind, s) == IF s \in Keys THEN Enqueue(kind, s) ELSE UNCHANGED job

\* What issue and sendByEmail leave in the queue of audit once they are done.
AuditIssue(p) ==
    /\ At(p, "issued")
    /\ Queue("audit", Of(p))
    /\ Finish(p)

-----------------------------------------------------------------------------
(* sendByEmail: the stored copy is drawn again and put into the queue of mails. *)

FindReceipt(p, s) ==
    /\ Begin(p)
    /\ receipt[s] # None
    /\ tx' = [tx EXCEPT ![p] = [Idle EXCEPT !.step = "found", !.sale = s, !.got = receipt[s]]]
    /\ UNCHANGED job

\* A customer without an address ends the request.
SendReceiptEmail(p) ==
    /\ At(p, "found")
    /\ \/ Queue("mail", Of(p)) /\ GoTo(p, "mailed")
       \/ Finish(p) /\ UNCHANGED job

AuditMail(p) ==
    /\ At(p, "mailed")
    /\ Queue("audit", Of(p))
    /\ Finish(p)

QueueStep(p) ==
    /\ \/ \E s \in Sales : FindReceipt(p, s)
       \/ /\ AuditIssue(p) \/ SendReceiptEmail(p) \/ AuditMail(p)
          /\ UNCHANGED begun
    /\ UNCHANGED <<emailLog, outbox, auditLog, crashes, sale, receipt, seq>>

-----------------------------------------------------------------------------
\* Nothing is open: the system waits, for ever once the bound is used up.
Rest ==
    /\ \A p \in Procs : At(p, "idle")
    /\ \A j \in Jobs : job[j].stage \in {"free", "done", "dead"}
    /\ UNCHANGED vars

Next ==
    \/ SaleMoves
    \/ \E p \in Procs : IssueStep(p) \/ QueueStep(p)
    \/ QueueNext /\ UNCHANGED receiptVars
    \/ Rest

Spec == Init /\ [][Next]_vars

-----------------------------------------------------------------------------
TypeOK == QueueTypeOK /\ ReceiptsTypeOK

\* Types, and what the numbers and copies keep to in every state: the numbers of
\* the receipts are 1, 2, ... up to the last one given, each used once, so that a
\* race or an undone transaction leaves no hole and no double (nextReceiptNumber);
\* a receipt shows a balance that follows from what it says was paid, and no more
\* money than the sale has taken (buildReceiptSnapshot).
NumbersHaveNoGaps ==
    /\ {receipt[s].number : s \in {z \in Sales : receipt[z] # None}} = 1..seq.last
    /\ \A s, z \in Sales :
           receipt[s] # None /\ receipt[z] # None /\ s # z =>
               receipt[s].number # receipt[z].number
CopiesAreTrue ==
    \A s \in Sales : receipt[s] # None =>
        /\ receipt[s].paid + receipt[s].balance = Total
        /\ receipt[s].paid <= sale[s].paid
ReceiptsOK == TypeOK /\ NumbersHaveNoGaps /\ CopiesAreTrue

\* Every request about a sale is answered with the one receipt it has, which
\* was committed before; a row of audit, a job or a mail is about a receipt
\* that exists; and a mail is logged as sent only when it left (issue,
\* sendByEmail, recordLog).
AnnouncedIsTrue ==
    /\ \A p \in Procs : tx[p].got # None => tx[p].got = receipt[Of(p)]
    /\ \A j \in Jobs : job[j].stage # "free" => receipt[KeyOf(j)] # None
    /\ \A k \in Keys :
           /\ k \in auditLog \union outbox => receipt[k] # None
           /\ emailLog[k] = "SENT" => k \in outbox

\* Once a mail is logged as sent and no job about it is past the look at the log,
\* it stays so: no later job, try or restart sends it again or calls it failed,
\* but for a job that could not read the log in its last try (process, onFailed).
Settled(k) ==
    /\ emailLog[k] = "SENT"
    /\ \A j \in Jobs : job[j].kind = "mail" /\ KeyOf(j) = k =>
           job[j].stage \in {"free", "waiting", "look", "done", "dead"}
SettledMailStays ==
    [][\A k \in Keys : Settled(k) =>
           \/ Settled(k)'
           \/ \E j \in Jobs : InStage(j, "look") /\ InStage(j, "logFailed")']_vars
=============================================================================
