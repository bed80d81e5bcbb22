---------------------------- MODULE OfficeProofs ----------------------------
(***************************************************************************)
(* The safety of the office: of Receipts and the queues it feeds, for any  *)
(* number of sales, requests, jobs, tries and deaths of a worker, and then *)
(* of Subscriptions, for any number of users, branches, products and       *)
(* transactions.  The two share no name.                                   *)
(*                                                                         *)
(* A receipt once made is never changed, which carries most of it: what an *)
(* answer, a job, a mail or a row of audit is about stays there.  What is  *)
(* left is what a request and a job know at each stage: that its receipt   *)
(* exists, how much the sale had been paid, that the mail has left.        *)
(***************************************************************************)
EXTENDS Receipts, Subscriptions, FiniteTheorems

\* A job that may be tried has a try left.
Tries == \A j \in Jobs : job[j].stage \in {"waiting"} \union Running => job[j].made < Attempts

\* A job that is logging a mail as sent has sent it.
Left == \A j \in Jobs : job[j].stage \in {"logSent", "newSent", "oldSent"} => KeyOf(j) \in outbox

\* Jobs, rows of audit and mails are about receipts; the log about mails.
JobsTrue == \A j \in Jobs : job[j].stage # "free" => receipt[KeyOf(j)] # None
LogsTrue == \A k \in Keys : /\ k \in auditLog \union outbox => receipt[k] # None
                            /\ emailLog[k] = "SENT" => k \in outbox

QueueInv == QueueTypeOK /\ Tries /\ Left /\ JobsTrue /\ LogsTrue

\* What a request has read: the payments of a sale, which only grow, and a receipt.
Knows == \A p \in Procs : tx[p].step \in {"number", "create"} => tx[p].paid <= sale[Of(p)].paid
Holds == \A p \in Procs : /\ tx[p].step \in {"found", "issued", "mailed"} => tx[p].got # None
                          /\ tx[p].got # None => tx[p].got = receipt[Of(p)]

RequestInv == ReceiptsTypeOK /\ NumbersHaveNoGaps /\ CopiesAreTrue /\ Knows /\ Holds

IInv == QueueInv /\ RequestInv

-----------------------------------------------------------------------------
(* The queues.                                                             *)

\* A job put into the queue about a receipt that exists keeps all that is said of jobs.
LEMMA EnqueueKeeps ==
    ASSUME QueueInv, NEW kind \in Kinds, NEW k \in Keys, receipt[k] # None,
           Enqueue(kind, k), UNCHANGED <<emailLog, outbox, auditLog, crashes, receipt>>
    PROVE  QueueInv'
<1> DEFINE new == [kind |-> kind, key |-> k, stage |-> "waiting", made |-> 0]
<1>0. /\ 0 \in 0..Attempts /\ 0 < Attempts
  BY QueueAssumption
<1>1. /\ new \in [kind : Kinds, key : Keys, stage : Stages, made : 0..Attempts]
      /\ new.stage = "waiting" /\ new.made = 0 /\ new.key = k
  BY <1>0 DEF Stages
<1> HIDE DEF new
<1>2. CASE UNCHANGED job
  BY <1>2 DEF QueueInv, QueueTypeOK, Tries, Left, JobsTrue, LogsTrue, KeyOf
<1>3. CASE job' = [job EXCEPT ![NextSlot] = new]
  <2>1. \A j \in Jobs : job'[j] = job[j] \/ job'[j] = new
    BY <1>3 DEF QueueInv, QueueTypeOK
  <2>2. job' \in [Jobs -> [kind : Kinds, key : Keys, stage : Stages, made : 0..Attempts]]
    BY <1>1, <1>3 DEF QueueInv, QueueTypeOK
  <2>3. QueueTypeOK'
    BY <2>2 DEF QueueInv, QueueTypeOK
  <2>4. Tries' /\ Left' /\ JobsTrue' /\ LogsTrue'
    BY <1>0, <1>1, <2>1 DEF QueueInv, Tries, Left, JobsTrue, LogsTrue, KeyOf
  <2> QED  BY <2>3, <2>4 DEF QueueInv
<1> QED  BY <1>2, <1>3 DEF Enqueue, new

\* A job under way that becomes another one about the same receipt, with a try left
\* if it may be tried again and its mail sent if it logs it as sent, keeps it too.
LEMMA MoveKeeps ==
    ASSUME QueueInv, NEW j \in Jobs, job[j].stage # "free",
           NEW new \in [kind : Kinds, key : Keys, stage : Stages, made : 0..Attempts],
           job' = [job EXCEPT ![j] = new],
           new.key = job[j].key, new.stage # "free",
           new.stage \in {"waiting"} \union Running => new.made < Attempts,
           outbox \subseteq outbox', outbox' \subseteq outbox \union {KeyOf(j)},
           new.stage \in {"logSent", "newSent", "oldSent"} => KeyOf(j) \in outbox',
           auditLog' \subseteq auditLog \union {KeyOf(j)},
           emailLog' \in [Keys -> {NoRow, "SENT", "FAILED"}],
           \A k \in Keys : emailLog'[k] = "SENT" => k \in outbox',
           crashes' \in 0..MaxCrashes, UNCHANGED receipt
    PROVE  QueueInv'
<1>1. /\ job' \in [Jobs -> [kind : Kinds, key : Keys, stage : Stages, made : 0..Attempts]]
      /\ job'[j] = new
      /\ \A i \in Jobs : i # j => job'[i] = job[i]
  BY DEF QueueInv, QueueTypeOK
<1>2. KeyOf(j) \in Keys /\ receipt[KeyOf(j)] # None /\ KeyOf(j) = job[j].key
  BY DEF QueueInv, QueueTypeOK, JobsTrue, KeyOf
<1>3. QueueTypeOK'
  BY <1>1, <1>2 DEF QueueInv, QueueTypeOK
<1>4. Tries'
  BY <1>1 DEF QueueInv, Tries
<1>5. Left'
  BY <1>1, <1>2 DEF QueueInv, Left, KeyOf
<1>6. JobsTrue' /\ LogsTrue'
  BY <1>1, <1>2 DEF QueueInv, JobsTrue, LogsTrue, KeyOf
<1> QED  BY <1>3, <1>4, <1>5, <1>6 DEF QueueInv

\* The same when only the stage is new.
LEMMA StageKeeps ==
    ASSUME QueueInv, NEW j \in Jobs, NEW stage \in Stages \ {"free"}, job[j].stage # "free",
           Move(j, stage),
           stage \in {"waiting"} \union Running => job[j].made < Attempts,
           outbox \subseteq outbox', outbox' \subseteq outbox \union {KeyOf(j)},
           stage \in {"logSent", "newSent", "oldSent"} => KeyOf(j) \in outbox',
           auditLog' \subseteq auditLog \union {KeyOf(j)},
           emailLog' \in [Keys -> {NoRow, "SENT", "FAILED"}],
           \A k \in Keys : emailLog'[k] = "SENT" => k \in outbox',
           crashes' \in 0..MaxCrashes, UNCHANGED receipt
    PROVE  QueueInv'
<1> DEFINE new == [job[j] EXCEPT !.stage = stage]
<1>1. job[j] \in [kind : Kinds, key : Keys, stage : Stages, made : 0..Attempts]
  BY DEF QueueInv, QueueTypeOK
<1>2. /\ new \in [kind : Kinds, key : Keys, stage : Stages, made : 0..Attempts]
      /\ new.key = job[j].key /\ new.stage = stage /\ new.made = job[j].made
  BY <1>1
<1>3. job' = [job EXCEPT ![j] = new]
  BY DEF Move
<1> HIDE DEF new
<1> QED  BY <1>2, <1>3, MoveKeeps

\* Every step of a worker, and its death.
LEMMA QueueSteps ==
    ASSUME QueueInv, QueueNext, UNCHANGED receipt
    PROVE  QueueInv'
<1> PICK j \in Jobs : Work(j) \/ WorkerDies(j)
  BY DEF QueueNext
<1>0. /\ job[j] \in [kind : Kinds, key : Keys, stage : Stages, made : 0..Attempts]
      /\ emailLog \in [Keys -> {NoRow, "SENT", "FAILED"}] /\ crashes \in 0..MaxCrashes
      /\ \A k \in Keys : emailLog[k] = "SENT" => k \in outbox
      /\ KeyOf(j) \in Keys
  BY DEF QueueInv, QueueTypeOK, LogsTrue, KeyOf
<1>t. job[j].stage \in {"waiting"} \union Running => job[j].made < Attempts
  BY DEF QueueInv, Tries
<1>l. job[j].stage \in {"logSent", "newSent", "oldSent"} => KeyOf(j) \in outbox
  BY DEF QueueInv, Left
<1>1. CASE Take(j)
  BY <1>1, <1>0, <1>t, StageKeeps DEF Take, InStage, Stages, Running
<1>2. CASE LookAtLog(j)
  BY <1>2, <1>0, <1>t, StageKeeps DEF LookAtLog, InStage, Stages, Running
<1>3. CASE SendMail(j)
  BY <1>3, <1>0, <1>t, StageKeeps DEF SendMail, InStage, Stages, Running
<1>4. CASE FindToLogSent(j)
  BY <1>4, <1>0, <1>t, <1>l, StageKeeps DEF FindToLogSent, FindLog, InStage, Stages, Running
<1>5. CASE FindToLogFailed(j)
  BY <1>5, <1>0, <1>t, StageKeeps DEF FindToLogFailed, FindLog, InStage, Stages, Running, GivingUp
<1>6. CASE LogSent(j)
  <2> PICK at \in {"newSent", "oldSent"}, found \in BOOLEAN : WriteLog(j, at, found, "SENT", "done")
    BY <1>6 DEF LogSent
  <2>1. /\ emailLog' \in [Keys -> {NoRow, "SENT", "FAILED"}]
        /\ \A k \in Keys : emailLog'[k] = "SENT" => k \in outbox
    BY <1>0, <1>l DEF WriteLog, Written, InStage
  <2> QED  BY <2>1, <1>0, StageKeeps DEF WriteLog, InStage, Stages, Running
<1>7. CASE LogFailed(j)
  <2> PICK at \in {"newFailed", "oldFailed"}, found \in BOOLEAN : WriteLog(j, at, found, "FAILED", "dead")
    BY <1>7 DEF LogFailed
  <2>1. /\ emailLog' \in [Keys -> {NoRow, "SENT", "FAILED"}]
        /\ \A k \in Keys : emailLog'[k] = "SENT" => k \in outbox
    BY <1>0 DEF WriteLog, Written
  <2> QED  BY <2>1, <1>0, StageKeeps DEF WriteLog, InStage, Stages, Running
<1>8. CASE WriteAudit(j)
  BY <1>8, <1>0, StageKeeps DEF WriteAudit, InStage, Stages, Running
<1>9. CASE FailedTry(j)
  <2> DEFINE new == [job[j] EXCEPT !.stage = AfterFailure(j), !.made = @ + 1]
  <2>1. AfterFailure(j) \in {"waiting", "logFailed", "dead"}
    BY DEF AfterFailure
  <2>2. job[j].made + 1 \in 0..Attempts /\ (AfterFailure(j) = "waiting" => job[j].made + 1 < Attempts)
    BY <1>9, <1>0, <1>t, QueueAssumption DEF FailedTry, AfterFailure
  <2>3. /\ new \in [kind : Kinds, key : Keys, stage : Stages, made : 0..Attempts]
        /\ new.key = job[j].key /\ new.stage = AfterFailure(j) /\ new.made = job[j].made + 1
    BY <1>0, <2>1, <2>2 DEF Stages, GivingUp
  <2>4. job' = [job EXCEPT ![j] = new]
    BY <1>9 DEF FailedTry
  <2> HIDE DEF new
  <2>5. /\ new.stage # "free" /\ new.stage \notin {"logSent", "newSent", "oldSent"}
        /\ new.stage \in {"waiting"} \union Running => new.made < Attempts
    BY <2>1, <2>2, <2>3 DEF Running
  <2>6. job[j].stage # "free" /\ UNCHANGED <<emailLog, outbox, auditLog, crashes>>
    BY <1>9 DEF FailedTry, Running
  <2> QED  BY <1>0, <2>3, <2>4, <2>5, <2>6, MoveKeeps
<1>10. CASE WorkerDies(j)
  <2>1. crashes' \in 0..MaxCrashes
    BY <1>10, <1>0, QueueAssumption DEF WorkerDies
  <2>2. /\ auditLog' \subseteq auditLog \union {KeyOf(j)}
        /\ UNCHANGED <<emailLog, outbox, receipt>>
    BY <1>10 DEF WorkerDies
  <2>3. CASE job[j].stage \in Running
    BY <1>10, <2>1, <2>2, <2>3, <1>0, <1>t, StageKeeps DEF WorkerDies, Stages, Running
  <2>4. CASE job[j].stage \in GivingUp
    <3>1. job[j].stage \notin Running \union {"free"}
      BY <2>4 DEF Running, GivingUp
    <3> QED  BY <1>10, <2>1, <2>2, <3>1, <1>0, StageKeeps DEF WorkerDies, Stages, Running
  <2> QED  BY <1>10, <2>3, <2>4 DEF WorkerDies
<1> QED  BY <1>1, <1>2, <1>3, <1>4, <1>5, <1>6, <1>7, <1>8, <1>9, <1>10 DEF Work

\* What is said of the queues is kept by who leaves them alone and makes receipts only.
LEMMA QueueFrame ==
    ASSUME QueueInv, UNCHANGED queueVars,
           \A s \in Sales : receipt[s] # None => receipt'[s] = receipt[s]
    PROVE  QueueInv'
<1>1. QueueTypeOK' /\ Tries' /\ Left'
  BY DEF queueVars, QueueInv, QueueTypeOK, Tries, Left, KeyOf
<1>2. \A j \in Jobs : KeyOf(j) \in Sales
  BY ReceiptsAssumption DEF QueueInv, QueueTypeOK, KeyOf
<1>3. JobsTrue'
  BY <1>2 DEF queueVars, QueueInv, JobsTrue, KeyOf
<1>4. LogsTrue'
  BY ReceiptsAssumption DEF queueVars, QueueInv, LogsTrue
<1> QED  BY <1>1, <1>3, <1>4 DEF QueueInv

-----------------------------------------------------------------------------
(* The requests.                                                           *)

LEMMA InitHolds ==
    ASSUME Init
    PROVE  IInv
<1> USE DEF Init, QueueInit
<1>1. /\ NoJob \in [kind : Kinds, key : Keys, stage : Stages, made : 0..Attempts]
      /\ NoJob.stage = "free"
  BY QueueAssumption DEF NoJob, Kinds, Stages
<1>2. QueueTypeOK
  BY <1>1, QueueAssumption DEF QueueTypeOK, NoRow
<1>3. Tries /\ Left /\ JobsTrue /\ LogsTrue
  BY <1>1 DEF Tries, Left, JobsTrue, LogsTrue, Running, NoRow
<1>4. /\ Idle \in [step : Steps, sale : Sales, paid : 0..Total, got : Snapshot \union {None}]
      /\ Idle.step = "idle" /\ Idle.got = None
  BY ReceiptsAssumption DEF Idle, Steps
<1>5. ReceiptsTypeOK
  BY <1>4, ReceiptsAssumption DEF ReceiptsTypeOK, Statuses, EligibleSaleStatuses
<1>6. NumbersHaveNoGaps /\ CopiesAreTrue
  BY DEF NumbersHaveNoGaps, CopiesAreTrue
<1>7. Knows /\ Holds
  BY <1>4 DEF Knows, Holds
<1> QED  BY <1>2, <1>3, <1>5, <1>6, <1>7 DEF IInv, QueueInv, RequestInv

\* A request at rest has read nothing.
LEMMA IdleRequest ==
    /\ Idle \in [step : Steps, sale : Sales, paid : 0..Total, got : Snapshot \union {None}]
    /\ Idle.step = "idle" /\ Idle.got = None
BY ReceiptsAssumption DEF Idle, Steps

\* A step that makes no receipt and takes no number back.
LEMMA RequestFrame ==
    ASSUME RequestInv, UNCHANGED receipt, ReceiptsTypeOK', seq'.last = seq.last,
           \A s \in Sales : sale[s].paid <= sale'[s].paid,
           Knows', Holds'
    PROVE  RequestInv'
<1>1. NumbersHaveNoGaps'
  BY DEF RequestInv, NumbersHaveNoGaps
<1>2. CopiesAreTrue'
  <2> SUFFICES ASSUME NEW s \in Sales, receipt'[s] # None
               PROVE  /\ receipt'[s].paid + receipt'[s].balance = Total
                      /\ receipt'[s].paid <= sale'[s].paid
    BY DEF CopiesAreTrue
  <2>1. receipt[s] \in Snapshot /\ receipt'[s] = receipt[s]
    BY DEF RequestInv, ReceiptsTypeOK
  <2>2. sale[s].paid \in 0..Total /\ sale'[s].paid \in 0..Total /\ receipt[s].paid \in 0..Total
    BY <2>1 DEF RequestInv, ReceiptsTypeOK, Snapshot
  <2> QED  BY <2>1, <2>2, ReceiptsAssumption DEF RequestInv, CopiesAreTrue
<1> QED  BY <1>1, <1>2 DEF RequestInv

\* A step of one request that leaves sales, receipts and the last number as they are.
LEMMA StepFrame ==
    ASSUME RequestInv, NEW p \in Procs,
           NEW new \in [step : Steps, sale : Sales, paid : 0..Total, got : Snapshot \union {None}],
           tx' = [tx EXCEPT ![p] = new],
           UNCHANGED <<sale, receipt>>,
           seq' \in [last : Nat, holder : Procs \union {None}], seq'.last = seq.last,
           begun' \in 0..MaxRequests,
           new.step \in {"number", "create"} => new.paid <= sale[new.sale].paid,
           new.step \in {"found", "issued", "mailed"} => new.got # None,
           new.got # None => new.got = receipt[new.sale]
    PROVE  RequestInv'
<1>1. /\ tx' \in [Procs -> [step : Steps, sale : Sales, paid : 0..Total, got : Snapshot \union {None}]]
      /\ tx'[p] = new
      /\ \A q \in Procs : q # p => tx'[q] = tx[q]
  BY DEF RequestInv, ReceiptsTypeOK
<1>2. ReceiptsTypeOK'
  BY <1>1 DEF RequestInv, ReceiptsTypeOK
<1>3. Knows'
  BY <1>1 DEF RequestInv, Knows, Of
<1>4. Holds'
  BY <1>1 DEF RequestInv, Holds, Of
<1>5. \A s \in Sales : sale[s].paid <= sale'[s].paid
  BY ReceiptsAssumption DEF RequestInv, ReceiptsTypeOK
<1> QED  BY <1>2, <1>3, <1>4, <1>5, RequestFrame

\* The sales are paid and returned by others.
LEMMA SalesKeep ==
    ASSUME RequestInv, SaleMoves
    PROVE  RequestInv'
<1>1. /\ sale' \in [Sales -> [status : Statuses, paid : 0..Total]]
      /\ \A s \in Sales : sale[s].paid <= sale'[s].paid
  <2> PICK s \in Sales : Pay(s) \/ ReturnSale(s)
    BY DEF SaleMoves
  <2>0. /\ sale \in [Sales -> [status : Statuses, paid : 0..Total]]
        /\ \A z \in Sales : sale[z].paid \in 0..Total
    BY DEF RequestInv, ReceiptsTypeOK
  <2>1. CASE Pay(s)
    <3> PICK amount \in (sale[s].paid + 1)..Total : sale' = [sale EXCEPT ![s] = Paid(s, amount)]
      BY <2>1 DEF Pay
    <3>1. amount \in 0..Total /\ sale[s].paid <= amount
      BY <2>0, ReceiptsAssumption
    <3>2. Paid(s, amount) \in [status : Statuses, paid : 0..Total] /\ Paid(s, amount).paid = amount
      BY <3>1 DEF Paid, Statuses, EligibleSaleStatuses
    <3> QED  BY <2>0, <3>1, <3>2, ReceiptsAssumption
  <2>2. CASE ReturnSale(s)
    BY <2>2, <2>0, ReceiptsAssumption DEF ReturnSale, Statuses
  <2> QED  BY <2>1, <2>2
<1>2. UNCHANGED <<receipt, seq, tx, begun>>
  BY DEF SaleMoves
<1>3. ReceiptsTypeOK'
  BY <1>1, <1>2 DEF RequestInv, ReceiptsTypeOK
<1>4. Holds'
  BY <1>2 DEF RequestInv, Holds, Of
<1>5. Knows'
  <2> SUFFICES ASSUME NEW p \in Procs, tx[p].step \in {"number", "create"}
               PROVE  tx[p].paid <= sale'[tx[p].sale].paid
    BY <1>2 DEF Knows, Of
  <2>1. tx[p].sale \in Sales /\ tx[p].paid \in 0..Total
    BY DEF RequestInv, ReceiptsTypeOK
  <2>2. tx[p].paid <= sale[tx[p].sale].paid
    BY DEF RequestInv, Knows, Of
  <2>3. sale[tx[p].sale].paid \in 0..Total /\ sale'[tx[p].sale].paid \in 0..Total
    BY <1>1, <2>1 DEF RequestInv, ReceiptsTypeOK
  <2> QED  BY <1>1, <2>1, <2>2, <2>3, ReceiptsAssumption
<1> QED  BY <1>1, <1>2, <1>3, <1>4, <1>5, RequestFrame

\* How a step of a request leaves it.
LEMMA StepShapes ==
    ASSUME RequestInv, NEW p \in Procs
    PROVE  /\ tx[p] \in [step : Steps, sale : Sales, paid : 0..Total, got : Snapshot \union {None}]
           /\ Of(p) = tx[p].sale
           /\ \A step \in Steps : GoTo(p, step) => tx' = [tx EXCEPT ![p] = [tx[p] EXCEPT !.step = step]]
           /\ Finish(p) => tx' = [tx EXCEPT ![p] = Idle]
BY DEF RequestInv, ReceiptsTypeOK, Of, GoTo, Finish

\* A request that goes on to a stage at which it knows no more, or ends.
LEMMA StageFrame ==
    ASSUME RequestInv, NEW p \in Procs, UNCHANGED <<sale, receipt>>,
           seq' \in [last : Nat, holder : Procs \union {None}], seq'.last = seq.last,
           UNCHANGED begun,
           \/ Finish(p)
           \/ \E step \in Steps :
                 /\ GoTo(p, step)
                 /\ step \in {"number", "create"} => tx[p].step \in {"number", "create"}
                 /\ step \in {"found", "issued", "mailed"} => tx[p].step \in {"found", "issued", "mailed"}
    PROVE  RequestInv'
<1>1. begun' \in 0..MaxRequests
  BY DEF RequestInv, ReceiptsTypeOK
<1>2. CASE Finish(p)
  BY <1>1, <1>2, StepShapes, IdleRequest, StepFrame
<1>3. ASSUME NEW step \in Steps, GoTo(p, step),
             step \in {"number", "create"} => tx[p].step \in {"number", "create"},
             step \in {"found", "issued", "mailed"} => tx[p].step \in {"found", "issued", "mailed"}
      PROVE  RequestInv'
  <2> DEFINE new == [tx[p] EXCEPT !.step = step]
  <2>1. /\ new \in [step : Steps, sale : Sales, paid : 0..Total, got : Snapshot \union {None}]
        /\ new.step = step /\ new.sale = tx[p].sale /\ new.paid = tx[p].paid /\ new.got = tx[p].got
    BY StepShapes
  <2>2. tx' = [tx EXCEPT ![p] = new]
    BY <1>3, StepShapes
  <2>3. /\ new.step \in {"number", "create"} => new.paid <= sale[new.sale].paid
        /\ new.step \in {"found", "issued", "mailed"} => new.got # None
        /\ new.got # None => new.got = receipt[new.sale]
    BY <1>3, <2>1 DEF RequestInv, Knows, Holds, Of
  <2> HIDE DEF new
  <2> QED  BY <1>1, <2>1, <2>2, <2>3, StepFrame
<1> QED  BY <1>2, <1>3

\* A request that holds the receipt of its sale.
LEMMA AnswerFrame ==
    ASSUME RequestInv, NEW p \in Procs, UNCHANGED <<sale, receipt, seq, begun>>,
           receipt[Of(p)] # None,
           tx' = [tx EXCEPT ![p].step = "issued", ![p].got = receipt[Of(p)]]
    PROVE  RequestInv'
<1> DEFINE new == [tx[p] EXCEPT !.step = "issued", !.got = receipt[Of(p)]]
<1>1. receipt[Of(p)] \in Snapshot
  BY StepShapes DEF RequestInv, ReceiptsTypeOK
<1>2. /\ new \in [step : Steps, sale : Sales, paid : 0..Total, got : Snapshot \union {None}]
      /\ new.step = "issued" /\ new.sale = Of(p) /\ new.got = receipt[Of(p)]
  BY <1>1, StepShapes DEF Steps
<1>3. tx' = [tx EXCEPT ![p] = new]
  OBVIOUS
<1>4. /\ begun' \in 0..MaxRequests /\ seq'.last = seq.last
      /\ seq' \in [last : Nat, holder : Procs \union {None}]
  BY DEF RequestInv, ReceiptsTypeOK
<1> HIDE DEF new
<1>5. /\ new.step \notin {"number", "create"} /\ new.got # None
      /\ new.got = receipt[new.sale]
  BY <1>2
<1> QED  BY <1>2, <1>3, <1>4, <1>5, StepFrame

\* The receipt that a request makes, with the number after the last.
LEMMA ReceiptMade ==
    ASSUME RequestInv, NEW p \in Procs, Create(p), FirstOfSale(Of(p)), UNCHANGED begun
    PROVE  RequestInv'
<1> DEFINE copy == BuildReceiptSnapshot(p)
           new == [tx[p] EXCEPT !.step = "issued", !.got = copy]
           z == Of(p)
<1>0. /\ tx[p] \in [step : Steps, sale : Sales, paid : 0..Total, got : Snapshot \union {None}]
      /\ z \in Sales /\ z = tx[p].sale /\ seq.last \in Nat
      /\ tx[p].paid \in 0..Total /\ receipt[z] = None
      /\ sale[z].paid \in 0..Total /\ tx[p].paid <= sale[z].paid
  BY DEF RequestInv, ReceiptsTypeOK, Of, Knows, Create, At, FirstOfSale
<1>1. /\ copy \in Snapshot /\ copy # None /\ copy.number = seq.last + 1 /\ copy.paid = tx[p].paid
      /\ copy.paid + copy.balance = Total
  BY <1>0, ReceiptsAssumption DEF BuildReceiptSnapshot, Snapshot
<1>2. /\ receipt' = [receipt EXCEPT ![z] = copy]
      /\ seq' = [last |-> seq.last + 1, holder |-> None]
      /\ tx' = [tx EXCEPT ![p] = new] /\ UNCHANGED sale
  BY DEF Create
<1>3. /\ new \in [step : Steps, sale : Sales, paid : 0..Total, got : Snapshot \union {None}]
      /\ new.step = "issued" /\ new.sale = z /\ new.got = copy
  BY <1>0, <1>1 DEF Steps
<1> HIDE DEF copy, new, z
<1>4. /\ receipt' \in [Sales -> Snapshot \union {None}]
      /\ receipt'[z] = copy
      /\ \A s \in Sales : s # z => receipt'[s] = receipt[s]
  BY <1>0, <1>1, <1>2 DEF RequestInv, ReceiptsTypeOK
<1>5. /\ tx' \in [Procs -> [step : Steps, sale : Sales, paid : 0..Total, got : Snapshot \union {None}]]
      /\ tx'[p] = new
      /\ \A q \in Procs : q # p => tx'[q] = tx[q]
  BY <1>2, <1>3 DEF RequestInv, ReceiptsTypeOK
<1>6. seq'.last = seq.last + 1 /\ seq' \in [last : Nat, holder : Procs \union {None}]
  BY <1>0, <1>2
<1>7. ReceiptsTypeOK'
  BY <1>2, <1>4, <1>5, <1>6 DEF RequestInv, ReceiptsTypeOK
<1>8. \A s \in Sales : receipt[s] # None => /\ receipt[s].number \in 1..seq.last
                                           /\ s # z /\ receipt'[s] = receipt[s]
  BY <1>0, <1>4 DEF RequestInv, NumbersHaveNoGaps
<1>9. NumbersHaveNoGaps'
  <2>1. \A n \in 1..seq.last : \E s \in Sales : receipt[s] # None /\ receipt[s].number = n
    BY DEF RequestInv, NumbersHaveNoGaps
  <2>2. \A n \in 1..seq'.last : \E s \in Sales : receipt'[s] # None /\ receipt'[s].number = n
    BY <1>0, <1>1, <1>4, <1>6, <1>8, <2>1
  <2>3. \A s \in Sales : receipt'[s] # None => receipt'[s].number \in 1..seq'.last
    BY <1>0, <1>1, <1>4, <1>6, <1>8
  <2>4. {receipt'[s].number : s \in {y \in Sales : receipt'[y] # None}} = 1..seq'.last
    BY <2>2, <2>3
  <2>5. \A s, y \in Sales : receipt'[s] # None /\ receipt'[y] # None /\ s # y =>
                                receipt'[s].number # receipt'[y].number
    BY <1>0, <1>1, <1>4, <1>8 DEF RequestInv, NumbersHaveNoGaps
  <2> QED  BY <2>4, <2>5 DEF NumbersHaveNoGaps
<1>10. CopiesAreTrue'
  BY <1>0, <1>1, <1>2, <1>4 DEF RequestInv, CopiesAreTrue
<1>11. Knows'
  BY <1>2, <1>3, <1>5 DEF RequestInv, Knows, Of
<1>12. Holds'
  <2> SUFFICES ASSUME NEW q \in Procs
               PROVE  /\ tx'[q].step \in {"found", "issued", "mailed"} => tx'[q].got # None
                      /\ tx'[q].got # None => tx'[q].got = receipt'[tx'[q].sale]
    BY DEF Holds, Of
  <2>1. CASE q = p
    BY <2>1, <1>1, <1>3, <1>4, <1>5
  <2>2. CASE q # p
    <3>1. tx[q].sale \in Sales
      BY DEF RequestInv, ReceiptsTypeOK
    <3> QED  BY <2>2, <3>1, <1>5, <1>8 DEF RequestInv, Holds, Of
  <2> QED  BY <2>1, <2>2
<1> QED  BY <1>7, <1>9, <1>10, <1>11, <1>12 DEF RequestInv

\* Every step of a request that touches no queue.
LEMMA RequestSteps ==
    ASSUME RequestInv, NEW p \in Procs, IssueStep(p)
    PROVE  RequestInv'
<1>0. /\ seq \in [last : Nat, holder : Procs \union {None}] /\ begun \in 0..MaxRequests
      /\ tx[p] \in [step : Steps, sale : Sales, paid : 0..Total, got : Snapshot \union {None}]
      /\ Of(p) \in Sales /\ Of(p) = tx[p].sale
  BY DEF RequestInv, ReceiptsTypeOK, Of
<1>1. ASSUME NEW s \in Sales, Issue(p, s)
      PROVE  RequestInv'
  <2> DEFINE new == [Idle EXCEPT !.step = "find", !.sale = s]
  <2>1. /\ new \in [step : Steps, sale : Sales, paid : 0..Total, got : Snapshot \union {None}]
        /\ new.step = "find" /\ new.got = None
    BY IdleRequest DEF Steps
  <2>2. begun' \in 0..MaxRequests
    BY <1>0, <1>1, ReceiptsAssumption DEF Issue, Begin
  <2>3. tx' = [tx EXCEPT ![p] = new] /\ UNCHANGED <<sale, receipt, seq>>
    BY <1>1 DEF Issue
  <2> HIDE DEF new
  <2> QED  BY <1>0, <2>1, <2>2, <2>3, StepFrame
<1>2. CASE FindExisting(p) /\ UNCHANGED begun
  <2>1. CASE receipt[Of(p)] # None
    BY <1>2, <2>1, AnswerFrame DEF FindExisting
  <2>2. CASE receipt[Of(p)] = None
    <3>1. GoTo(p, "sale") /\ UNCHANGED <<sale, receipt, seq, begun>>
      BY <1>2, <2>2 DEF FindExisting
    <3> QED  BY <1>0, <3>1, StageFrame DEF Steps
  <2> QED  BY <2>1, <2>2
<1>3. CASE ReadSale(p) /\ UNCHANGED begun
  BY <1>0, <1>3, StageFrame DEF ReadSale, Steps
<1>4. CASE ReadPayments(p) /\ UNCHANGED begun
  <2> DEFINE new == [tx[p] EXCEPT !.step = "number", !.paid = sale[Of(p)].paid]
  <2>1. sale[Of(p)].paid \in 0..Total
    BY <1>0 DEF RequestInv, ReceiptsTypeOK
  <2>2. /\ new \in [step : Steps, sale : Sales, paid : 0..Total, got : Snapshot \union {None}]
        /\ new.step = "number" /\ new.sale = Of(p) /\ new.got = tx[p].got /\ new.paid = sale[Of(p)].paid
    BY <1>0, <2>1 DEF Steps
  <2>3. tx' = [tx EXCEPT ![p] = new] /\ UNCHANGED <<sale, receipt, seq, begun>>
    BY <1>4 DEF ReadPayments
  <2>4. /\ new.paid <= sale[new.sale].paid
        /\ new.got # None => new.got = receipt[new.sale]
    BY <2>1, <2>2, ReceiptsAssumption DEF RequestInv, Holds
  <2> HIDE DEF new
  <2> QED  BY <1>0, <2>2, <2>3, <2>4, StepFrame
<1>5. CASE NextReceiptNumber(p) /\ UNCHANGED begun
  <2>1. /\ GoTo(p, "create") /\ tx[p].step = "number" /\ UNCHANGED <<sale, receipt>>
        /\ seq' \in [last : Nat, holder : Procs \union {None}] /\ seq'.last = seq.last
    BY <1>0, <1>5 DEF NextReceiptNumber, At
  <2> QED  BY <1>5, <2>1, StageFrame DEF Steps
<1>6. CASE Create(p) /\ UNCHANGED begun
  <2>1. CASE FirstOfSale(Of(p))
    BY <1>6, <2>1, ReceiptMade
  <2>2. CASE ~FirstOfSale(Of(p))
    <3>1. /\ GoTo(p, "resolve") /\ UNCHANGED <<sale, receipt>>
          /\ seq' \in [last : Nat, holder : Procs \union {None}] /\ seq'.last = seq.last
      BY <1>0, <1>6, <2>2 DEF Create, AfterConflict
    <3> QED  BY <1>6, <3>1, StageFrame DEF Steps
  <2> QED  BY <2>1, <2>2
<1>7. CASE ResolveConflict(p) /\ UNCHANGED begun
  BY <1>7, AnswerFrame DEF ResolveConflict
<1>8. CASE Abort(p) /\ UNCHANGED begun
  <2>1. /\ Finish(p) /\ UNCHANGED <<sale, receipt>>
        /\ seq' \in [last : Nat, holder : Procs \union {None}] /\ seq'.last = seq.last
    BY <1>0, <1>8 DEF Abort, AfterConflict
  <2> QED  BY <1>8, <2>1, StageFrame
<1> QED  BY <1>1, <1>2, <1>3, <1>4, <1>5, <1>6, <1>7, <1>8 DEF IssueStep

\* No step of a request changes a receipt that was made.
LEMMA ReceiptsStay ==
    ASSUME RequestInv, NEW p \in Procs, IssueStep(p), NEW s \in Sales, receipt[s] # None
    PROVE  receipt'[s] = receipt[s]
<1>1. CASE Create(p)
  BY <1>1 DEF Create, FirstOfSale, RequestInv, ReceiptsTypeOK
<1>2. CASE UNCHANGED receipt
  BY <1>2
<1> QED  BY <1>1, <1>2 DEF IssueStep, Issue, FindExisting, ReadSale, ReadPayments,
                           NextReceiptNumber, ResolveConflict, Abort

\* The steps of a request that put jobs into the queues.
LEMMA QueuingSteps ==
    ASSUME IInv, NEW p \in Procs, QueueStep(p)
    PROVE  IInv'
<1>0. /\ seq' \in [last : Nat, holder : Procs \union {None}] /\ seq'.last = seq.last
      /\ UNCHANGED <<emailLog, outbox, auditLog, crashes, sale, receipt, seq>>
      /\ begun \in 0..MaxRequests
      /\ QueueInv /\ RequestInv
      /\ Of(p) = tx[p].sale /\ Of(p) \in Sales
  BY DEF IInv, RequestInv, ReceiptsTypeOK, QueueStep, Of
<1>1. ASSUME NEW s \in Sales, FindReceipt(p, s)
      PROVE  IInv'
  <2> DEFINE new == [Idle EXCEPT !.step = "found", !.sale = s, !.got = receipt[s]]
  <2>1. receipt[s] # None /\ receipt[s] \in Snapshot
    BY <1>0, <1>1 DEF FindReceipt, RequestInv, ReceiptsTypeOK
  <2>2. /\ new \in [step : Steps, sale : Sales, paid : 0..Total, got : Snapshot \union {None}]
        /\ new.step = "found" /\ new.sale = s /\ new.got = receipt[s]
    BY <2>1, IdleRequest DEF Steps
  <2>3. begun' \in 0..MaxRequests
    BY <1>0, <1>1, ReceiptsAssumption DEF FindReceipt, Begin
  <2>4. tx' = [tx EXCEPT ![p] = new] /\ UNCHANGED job
    BY <1>1 DEF FindReceipt
  <2> HIDE DEF new
  <2>5. RequestInv'
    BY <1>0, <2>1, <2>2, <2>3, <2>4, StepFrame
  <2>6. QueueInv'
    BY <1>0, <2>4, QueueFrame DEF queueVars
  <2> QED  BY <2>5, <2>6 DEF IInv
<1>2. ASSUME tx[p].step \in {"found", "issued", "mailed"}, NEW kind \in Kinds, Queue(kind, Of(p))
      PROVE  QueueInv'
  <2>1. receipt[Of(p)] # None
    BY <1>0, <1>2 DEF RequestInv, Holds
  <2>2. CASE Of(p) \in Keys
    BY <1>0, <1>2, <2>1, <2>2, EnqueueKeeps DEF Queue
  <2>3. CASE Of(p) \notin Keys
    BY <1>0, <1>2, <2>3, QueueFrame DEF Queue, queueVars
  <2> QED  BY <2>2, <2>3
<1>3. CASE AuditIssue(p) /\ UNCHANGED begun
  <2>1. RequestInv'
    BY <1>0, <1>3, StageFrame DEF AuditIssue
  <2>2. QueueInv'
    BY <1>2, <1>3 DEF AuditIssue, At, Kinds
  <2> QED  BY <2>1, <2>2 DEF IInv
<1>4. CASE AuditMail(p) /\ UNCHANGED begun
  <2>1. RequestInv'
    BY <1>0, <1>4, StageFrame DEF AuditMail
  <2>2. QueueInv'
    BY <1>2, <1>4 DEF AuditMail, At, Kinds
  <2> QED  BY <2>1, <2>2 DEF IInv
<1>5. CASE SendReceiptEmail(p) /\ UNCHANGED begun
  <2>1. RequestInv'
    BY <1>0, <1>5, StageFrame DEF SendReceiptEmail, At, Steps
  <2>2. QueueInv'
    BY <1>0, <1>2, <1>5, QueueFrame DEF SendReceiptEmail, At, Kinds, queueVars
  <2> QED  BY <2>1, <2>2 DEF IInv
<1> QED  BY <1>1, <1>3, <1>4, <1>5 DEF QueueStep

-----------------------------------------------------------------------------
(* The theorems.                                                           *)

\* What the proof rests on holds in every state.
THEOREM Invariance == Spec => []IInv
<1>1. Init => IInv
  BY InitHolds
<1>2. IInv /\ [Next]_vars => IInv'
  <2> SUFFICES ASSUME IInv, [Next]_vars
               PROVE  IInv'
    OBVIOUS
  <2>0. QueueInv /\ RequestInv
    BY DEF IInv
  <2>1. CASE SaleMoves
    <3>1. UNCHANGED queueVars /\ UNCHANGED receipt
      BY <2>1 DEF SaleMoves
    <3> QED  BY <2>0, <2>1, <3>1, SalesKeep, QueueFrame DEF IInv
  <2>2. ASSUME NEW p \in Procs, IssueStep(p)
        PROVE  IInv'
    <3>1. UNCHANGED queueVars
      BY <2>2 DEF IssueStep
    <3> QED  BY <2>0, <2>2, <3>1, RequestSteps, ReceiptsStay, QueueFrame DEF IInv
  <2>3. ASSUME NEW p \in Procs, QueueStep(p)
        PROVE  IInv'
    BY <2>3, QueuingSteps
  <2>4. CASE QueueNext /\ UNCHANGED receiptVars
    <3>1. UNCHANGED <<sale, receipt, seq, tx, begun>>
      BY <2>4 DEF receiptVars
    <3>2. RequestInv'
      BY <2>0, <3>1 DEF RequestInv, ReceiptsTypeOK, NumbersHaveNoGaps, CopiesAreTrue, Knows, Holds, Of
    <3> QED  BY <2>0, <2>4, <3>1, <3>2, QueueSteps DEF IInv
  <2>5. CASE UNCHANGED vars
    <3>1. UNCHANGED <<sale, receipt, seq, tx, begun>> /\ UNCHANGED queueVars
      BY <2>5 DEF vars, queueVars
    <3>2. RequestInv'
      BY <2>0, <3>1 DEF RequestInv, ReceiptsTypeOK, NumbersHaveNoGaps, CopiesAreTrue, Knows, Holds, Of
    <3> QED  BY <2>0, <3>1, <3>2, QueueFrame DEF IInv
  <2> QED  BY <2>1, <2>2, <2>3, <2>4, <2>5 DEF Next, Rest
<1> QED  BY <1>1, <1>2, PTL DEF Spec

\* The numbers of receipts are 1, 2, ... without a gap or a double, and each copy is
\* true of its sale, for any number of sales and requests (nextReceiptNumber,
\* buildReceiptSnapshot).
THEOREM NumbersTrue == Spec => []ReceiptsOK
<1>1. IInv => ReceiptsOK
  BY DEF IInv, QueueInv, RequestInv, ReceiptsOK, TypeOK
<1> QED  BY <1>1, Invariance, PTL

\* Every answer, job, row of audit and mail is about a receipt that was made, and a
\* mail logged as sent has left, whatever fails or dies (issue, sendByEmail, recordLog).
THEOREM Announced == Spec => []AnnouncedIsTrue
<1>1. IInv => AnnouncedIsTrue
  BY DEF IInv, QueueInv, RequestInv, JobsTrue, LogsTrue, Holds, AnnouncedIsTrue
<1> QED  BY <1>1, Invariance, PTL

-----------------------------------------------------------------------------
(* What is settled stays.                                                  *)

\* A row of audit is never at a stage of a mail.
AuditJobs == \A j \in Jobs : job[j].kind = "audit" =>
                 job[j].stage \in {"free", "waiting", "write", "done", "dead"}

\* A job changes its stage and its tries, and nothing else.
LEMMA JobMoves ==
    ASSUME QueueInv, NEW j \in Jobs, Work(j) \/ WorkerDies(j)
    PROVE  /\ \A i \in Jobs : /\ i # j => job'[i] = job[i]
                              /\ job'[i].kind = job[i].kind /\ job'[i].key = job[i].key
           /\ job[j].kind \in Kinds
           /\ \/ /\ job[j].stage = "waiting"
                 /\ job'[j].stage = IF job[j].kind = "mail" THEN "look" ELSE "write"
              \/ /\ job[j].stage = "look"
                 /\ job'[j].stage = IF AlreadySent(j) THEN "done" ELSE "send"
              \/ /\ job[j].stage \in {"send", "logSent", "logFailed"}
                 /\ job'[j].stage \in {"logSent", "newSent", "oldSent", "newFailed", "oldFailed"}
              \/ /\ job[j].stage \in {"newSent", "oldSent", "newFailed", "oldFailed", "write"}
                 /\ job'[j].stage \in {"done", "dead"}
              \/ /\ job[j].stage \in Running
                 /\ job'[j].stage = AfterFailure(j)
              \/ /\ job[j].stage \in Running \union GivingUp
                 /\ job'[j].stage \in {"waiting", "dead"}
           /\ \/ UNCHANGED emailLog
              \/ /\ job[j].stage \in {"newSent", "oldSent"}
                 /\ emailLog' \in {emailLog, [emailLog EXCEPT ![KeyOf(j)] = "SENT"]}
              \/ /\ job[j].stage \in {"newFailed", "oldFailed"}
                 /\ emailLog' \in {emailLog, [emailLog EXCEPT ![KeyOf(j)] = "FAILED"]}
<1>0. /\ job \in [Jobs -> [kind : Kinds, key : Keys, stage : Stages, made : 0..Attempts]]
      /\ job[j] \in [kind : Kinds, key : Keys, stage : Stages, made : 0..Attempts]
  BY DEF QueueInv, QueueTypeOK
<1>m. ASSUME NEW stage, Move(j, stage)
      PROVE  /\ \A i \in Jobs : /\ i # j => job'[i] = job[i]
                                /\ job'[i].kind = job[i].kind /\ job'[i].key = job[i].key
             /\ job'[j].stage = stage
  BY <1>0, <1>m DEF Move
<1>1. CASE Take(j)
  BY <1>0, <1>1, <1>m DEF Take, InStage
<1>2. CASE LookAtLog(j)
  BY <1>0, <1>2, <1>m DEF LookAtLog, InStage
<1>3. CASE SendMail(j)
  BY <1>0, <1>3, <1>m DEF SendMail, InStage
<1>4. CASE FindToLogSent(j) \/ FindToLogFailed(j)
  BY <1>0, <1>4, <1>m DEF FindToLogSent, FindToLogFailed, FindLog, InStage
<1>5. CASE LogSent(j) \/ LogFailed(j)
  BY <1>0, <1>5, <1>m DEF LogSent, LogFailed, WriteLog, Written, InStage
<1>6. CASE WriteAudit(j)
  BY <1>0, <1>6, <1>m DEF WriteAudit, InStage
<1>7. CASE FailedTry(j)
  BY <1>0, <1>7 DEF FailedTry
<1>8. CASE WorkerDies(j)
  BY <1>0, <1>8, <1>m DEF WorkerDies
<1> QED  BY <1>1, <1>2, <1>3, <1>4, <1>5, <1>6, <1>7, <1>8 DEF Work

\* What a step does to the jobs: nothing, a move of one, or one more that waits.
LEMMA JobSteps ==
    ASSUME QueueInv, [Next]_vars
    PROVE  \/ UNCHANGED <<job, emailLog>>
           \/ \E j \in Jobs : Work(j) \/ WorkerDies(j)
           \/ /\ UNCHANGED emailLog
              /\ \A i \in Jobs : job'[i] = job[i] \/ job'[i].stage = "waiting"
<1>1. CASE SaleMoves
  BY <1>1 DEF SaleMoves, queueVars
<1>2. ASSUME NEW p \in Procs, IssueStep(p)
      PROVE  UNCHANGED <<job, emailLog>>
  BY <1>2 DEF IssueStep, queueVars
<1>3. ASSUME NEW kind, NEW s, Queue(kind, s)
      PROVE  \A i \in Jobs : job'[i] = job[i] \/ job'[i].stage = "waiting"
  <2> DEFINE new == [kind |-> kind, key |-> s, stage |-> "waiting", made |-> 0]
  <2>1. new.stage = "waiting"
    OBVIOUS
  <2>2. job' = job \/ job' = [job EXCEPT ![NextSlot] = new]
    BY <1>3 DEF Queue, Enqueue
  <2> HIDE DEF new
  <2> QED  BY <2>1, <2>2 DEF QueueInv, QueueTypeOK
<1>4. ASSUME NEW p \in Procs, QueueStep(p)
      PROVE  /\ UNCHANGED emailLog
             /\ \A i \in Jobs : job'[i] = job[i] \/ job'[i].stage = "waiting"
  BY <1>3, <1>4 DEF QueueStep, FindReceipt, AuditIssue, SendReceiptEmail, AuditMail
<1>5. CASE UNCHANGED vars
  BY <1>5 DEF vars
<1> QED  BY <1>1, <1>2, <1>4, <1>5 DEF Next, QueueNext, Rest

LEMMA AuditJobsStay ==
    ASSUME QueueInv, AuditJobs, [Next]_vars
    PROVE  AuditJobs'
<1> SUFFICES ASSUME NEW i \in Jobs, job'[i].kind = "audit"
             PROVE  job'[i].stage \in {"free", "waiting", "write", "done", "dead"}
  BY DEF AuditJobs
<1>1. ASSUME NEW j \in Jobs, Work(j) \/ WorkerDies(j)
      PROVE  job'[i].stage \in {"free", "waiting", "write", "done", "dead"}
  <2>1. CASE i = j
    BY <1>1, <2>1, JobMoves DEF AuditJobs, AfterFailure, Running, GivingUp
  <2>2. CASE i # j
    BY <1>1, <2>2, JobMoves DEF AuditJobs
  <2> QED  BY <2>1, <2>2
<1> QED  BY <1>1, JobSteps DEF AuditJobs

LEMMA SettledStep ==
    ASSUME QueueInv, AuditJobs, [Next]_vars, NEW k \in Keys, Settled(k),
           ~\E j \in Jobs : InStage(j, "look") /\ InStage(j, "logFailed")'
    PROVE  Settled(k)'
<1> DEFINE calm == {"free", "waiting", "look", "done", "dead"}
<1>0. /\ emailLog[k] = "SENT" /\ emailLog \in [Keys -> {NoRow, "SENT", "FAILED"}]
      /\ \A i \in Jobs : job[i].kind = "mail" /\ job[i].key = k => job[i].stage \in calm
  BY DEF Settled, KeyOf, QueueInv, QueueTypeOK
<1> SUFFICES /\ emailLog'[k] = "SENT"
             /\ \A i \in Jobs : job'[i].kind = "mail" /\ job'[i].key = k => job'[i].stage \in calm
  BY DEF Settled, KeyOf
<1>1. ASSUME NEW j \in Jobs, Work(j) \/ WorkerDies(j)
      PROVE  /\ emailLog'[k] = "SENT"
             /\ \A i \in Jobs : job'[i].kind = "mail" /\ job'[i].key = k => job'[i].stage \in calm
  <2>1. ~(job[j].stage = "look" /\ job'[j].stage = "logFailed")
    BY DEF InStage
  <2>2. CASE job[j].kind = "mail" /\ job[j].key = k
    <3>1. job[j].stage \in calm
      BY <1>0, <2>2
    <3>2. AlreadySent(j)
      BY <1>0, <2>2 DEF AlreadySent, KeyOf
    <3>3. job'[j].stage \in calm
      BY <1>1, <2>1, <2>2, <3>1, <3>2, JobMoves DEF AfterFailure, Running, GivingUp
    <3>4. UNCHANGED emailLog
      BY <1>1, <3>1, JobMoves
    <3> QED  BY <1>0, <1>1, <3>3, <3>4, JobMoves
  <2>3. CASE ~(job[j].kind = "mail" /\ job[j].key = k)
    <3>1. \A i \in Jobs : job'[i].kind = "mail" /\ job'[i].key = k => job'[i].stage \in calm
      BY <1>0, <1>1, <2>3, JobMoves
    <3>2. job[j].kind = "audit" \/ job[j].key # k
      BY <1>1, <2>3, JobMoves DEF Kinds
    <3>3. emailLog'[k] = "SENT"
      BY <1>0, <1>1, <3>2, JobMoves DEF AuditJobs, KeyOf
    <3> QED  BY <3>1, <3>3
  <2> QED  BY <2>2, <2>3
<1> QED  BY <1>0, <1>1, JobSteps

\* Once a mail is logged as sent and nothing more is under way about it, it stays
\* logged as sent: no later job, try or death of a worker sends it again or calls it
\* failed, but for a last try that could not read the log (process, onFailed).
THEOREM SettledStays == Spec => SettledMailStays
<1>1. Init => AuditJobs
  BY DEF Init, QueueInit, AuditJobs, NoJob
<1>2. IInv => QueueInv
  BY DEF IInv
<1>3. QueueInv /\ AuditJobs /\ [Next]_vars => AuditJobs'
  BY AuditJobsStay
<1>4. QueueInv /\ AuditJobs /\ [Next]_vars =>
         \A k \in Keys : Settled(k) =>
            \/ Settled(k)'
            \/ \E j \in Jobs : InStage(j, "look") /\ InStage(j, "logFailed")'
  BY SettledStep
<1>5. Spec => [](QueueInv /\ AuditJobs)
  BY <1>1, <1>2, <1>3, Invariance, PTL DEF Spec
<1> QED  BY <1>4, <1>5, PTL DEF Spec, SettledMailStays
-----------------------------------------------------------------------------
(***************************************************************************)
(* Plans and their limits.  Whoever adds to what a plan limits, or changes *)
(* the plan, holds the row of the subscription from the look to the write: *)
(* what was decided then is still so (Decided), until something is made    *)
(* active again with no look at the limit.                                 *)
(***************************************************************************)

TxType == [pc : ChangeSteps, req : Requests \cup {Null}, locked : BOOLEAN, ans : Answers]
Comers == {"invite", "activate", "create"}
MemberOps == {"activate", "suspend", "own", "demote"}

\* What who holds the row decided on is still so.
Decided(t) ==
    /\ t.req.op \in Comers =>
           Stands /\ (returned \/ HasRoom(subscription.plan, KindOf(t.req)))
    /\ t.req.op = "changePlan" => returned \/ FitsPlan(t.req.what)
    /\ t.req.op = "renew" => subscription.plan # FreePlan

\* Who writes the subscription, or more than was there, holds its row.
StageOK(t) ==
    /\ t.pc \notin {"idle", "done"} => t.req \in Requests
    /\ t.locked => t.pc = "write" /\ Decided(t)
    /\ t.pc = "count" => t.req.op \in MemberOps
    /\ t.pc = "account" => t.req.op = "invite"
    /\ t.pc = "write" /\ t.req.op \in {"invite", "create", "changePlan", "cancel", "renew"} =>
           t.locked
    /\ t.pc \in {"count", "lock", "write"} /\ t.req.op \in MemberOps => member[t.req.what] # "NONE"

PlansInv ==
    /\ PlansTypeOK /\ GrowthKeepsLimits /\ ActiveMeansPaid
    /\ \A p \in Sessions : StageOK(change[p])

-----------------------------------------------------------------------------
(* Requests, and how many there are of each kind.                          *)

LEMMA RequestFacts ==
    ASSUME NEW q \in Requests
    PROVE  /\ KindOf(q) \in Resources
           /\ q.op \in {"invite"} \cup MemberOps => q.what \in Users
           /\ q.op = "create" => q.what \in {"branches", "products"} /\ KindOf(q) = q.what
           /\ q.op # "create" => KindOf(q) = "users"
           /\ q.op = "changePlan" => q.what \in Plans
           /\ q.op \in {"reopen", "remove"} => q.what \in Things
<1>1. q \in Request
  BY RequestsAssumption
<1>2. QED  BY <1>1 DEF Request, KindOf, Resources, MemberOps

LEMMA UsageNat ==
    ASSUME NEW kind \in Resources
    PROVE  Usage(kind) \in Nat /\ Usage(kind)' \in Nat
<1>1. /\ IsFiniteSet(ActiveUsers) /\ IsFiniteSet(ActiveUsers')
      /\ \A set \in {Branches, Products} :
             IsFiniteSet(ActiveThings(set)) /\ IsFiniteSet(ActiveThings(set)')
  BY PeopleAssumption, ThingsAssumption, FS_Subset DEF ActiveUsers, ActiveThings
<1>2. QED  BY <1>1, FS_CardinalityType DEF Usage, Resources

\* Who or what leaves makes room.
LEMMA UsageLess ==
    ASSUME PlansTypeOK, ActiveUsers' \subseteq ActiveUsers,
           \A x \in Things : thing'[x] = "ACTIVE" => thing[x] = "ACTIVE",
           NEW kind \in Resources
    PROVE  Usage(kind)' <= Usage(kind) /\ Usage(kind)' \in Nat
<1>1. /\ ActiveThings(Branches)' \subseteq ActiveThings(Branches)
      /\ ActiveThings(Products)' \subseteq ActiveThings(Products)
  BY DEF ActiveThings, Things
<1>2. /\ IsFiniteSet(ActiveUsers)
      /\ IsFiniteSet(ActiveThings(Branches)) /\ IsFiniteSet(ActiveThings(Products))
  BY PeopleAssumption, ThingsAssumption, FS_Subset DEF ActiveUsers, ActiveThings
<1>3. \A S, T : IsFiniteSet(S) /\ T \subseteq S =>
          Cardinality(T) <= Cardinality(S) /\ Cardinality(T) \in Nat
  BY FS_Subset, FS_CardinalityType
<1>4. QED  BY <1>1, <1>2, <1>3 DEF Usage, Resources

\* Whoever joins is one more.
LEMMA OneMoreUser ==
    ASSUME PlansTypeOK, NEW u, ActiveUsers' \subseteq ActiveUsers \cup {u}, UNCHANGED thing
    PROVE  /\ Usage("users")' <= Usage("users") + 1
           /\ \A kind \in Resources \ {"users"} : Usage(kind)' = Usage(kind)
<1>1. IsFiniteSet(ActiveUsers)
  BY PeopleAssumption, FS_Subset DEF ActiveUsers
<1>2. /\ IsFiniteSet(ActiveUsers \cup {u})
      /\ Cardinality(ActiveUsers \cup {u}) <= Cardinality(ActiveUsers) + 1
  <2>1. Cardinality(ActiveUsers) \in Nat
    BY <1>1, FS_CardinalityType
  <2>2. /\ IsFiniteSet(ActiveUsers \cup {u})
        /\ Cardinality(ActiveUsers \cup {u}) \in {Cardinality(ActiveUsers), Cardinality(ActiveUsers) + 1}
    BY <1>1, FS_AddElement
  <2>3. QED  BY <2>1, <2>2
<1>3. Cardinality(ActiveUsers') <= Cardinality(ActiveUsers \cup {u})
  BY <1>2, FS_Subset
<1>4. IsFiniteSet(ActiveUsers')
  BY <1>2, FS_Subset
<1>5. /\ Cardinality(ActiveUsers) \in Nat /\ Cardinality(ActiveUsers') \in Nat
      /\ Cardinality(ActiveUsers \cup {u}) \in Nat
  BY <1>1, <1>2, <1>4, FS_CardinalityType
<1>6. QED  BY <1>2, <1>3, <1>5 DEF Usage, Resources, ActiveThings

LEMMA OneMoreThing ==
    ASSUME PlansTypeOK, NEW kind \in {"branches", "products"}, NEW x \in PoolOf(kind),
           thing' = [thing EXCEPT ![x] = "ACTIVE"], UNCHANGED member
    PROVE  /\ Usage(kind)' <= Usage(kind) + 1
           /\ \A other \in Resources \ {kind} : Usage(other)' = Usage(other)
<1>1. x \in Things /\ \A other \in {"branches", "products"} \ {kind} : x \notin PoolOf(other)
  BY ThingsAssumption DEF PoolOf, Things
<1>2. /\ ActiveThings(PoolOf(kind))' \subseteq ActiveThings(PoolOf(kind)) \cup {x}
      /\ \A other \in {"branches", "products"} \ {kind} :
             ActiveThings(PoolOf(other))' = ActiveThings(PoolOf(other))
  BY <1>1 DEF ActiveThings, PoolOf, Things, PlansTypeOK
<1>3. \A other \in {"branches", "products"} :
          /\ Usage(other) = Cardinality(ActiveThings(PoolOf(other)))
          /\ Usage(other)' = Cardinality(ActiveThings(PoolOf(other))')
  BY DEF Usage, PoolOf
<1> DEFINE A == ActiveThings(PoolOf(kind))
           B == ActiveThings(PoolOf(kind))'
<1>4. IsFiniteSet(A) /\ B \subseteq A \cup {x}
  BY <1>2, ThingsAssumption, FS_Subset DEF ActiveThings, PoolOf
<1> HIDE DEF A, B
<1>5. IsFiniteSet(A \cup {x}) /\ Cardinality(A \cup {x}) <= Cardinality(A) + 1
  <2>1. IsFiniteSet(A \cup {x}) /\ Cardinality(A \cup {x}) \in {Cardinality(A), Cardinality(A) + 1}
    BY <1>4, FS_AddElement
  <2>2. Cardinality(A) \in Nat
    BY <1>4, FS_CardinalityType
  <2>3. QED  BY <2>1, <2>2
<1>6. IsFiniteSet(B) /\ Cardinality(B) <= Cardinality(A \cup {x})
  BY <1>4, <1>5, FS_Subset
<1>7. Cardinality(A) \in Nat /\ Cardinality(B) \in Nat /\ Cardinality(A \cup {x}) \in Nat
  BY <1>4, <1>5, <1>6, FS_CardinalityType
<1>8. Usage(kind)' <= Usage(kind) + 1
  BY <1>3, <1>5, <1>6, <1>7 DEF A, B
<1>9. Usage("users")' = Usage("users")
  BY DEF Usage, ActiveUsers
<1>10. QED  BY <1>2, <1>3, <1>8, <1>9 DEF Resources

-----------------------------------------------------------------------------
(* Steps that only change what a transaction is about.                     *)

LEMMA Parts ==
    PlansInv => /\ PlansTypeOK /\ GrowthKeepsLimits /\ ActiveMeansPaid
                /\ change \in [Sessions -> TxType]
                /\ \A p \in Sessions : StageOK(change[p])
                /\ \A p, q \in Sessions : change[p].locked /\ change[q].locked => p = q
BY DEF PlansInv, PlansTypeOK, TxType

\* What a transaction is about, while the tables stay.
LEMMA QuietStep ==
    ASSUME PlansInv, UNCHANGED tables, NEW p \in Sessions, NEW t \in TxType,
           change' = [change EXCEPT ![p] = t], StageOK(t), t.locked => ~LockedByOther(p)
    PROVE  PlansInv'
<1>1. change' \in [Sessions -> TxType] /\ change'[p] = t /\ \A q \in Sessions \ {p} : change'[q] = change[q]
  BY Parts
<1>2. UNCHANGED <<subscription, member, role, account, thing, today, returned>>
  BY DEF tables, people
<1>3. \A k, l \in Sessions : change'[k].locked /\ change'[l].locked => k = l
  BY <1>1, Parts DEF LockedByOther
<1>4. PlansTypeOK'
  BY <1>1, <1>2, <1>3, Parts DEF PlansTypeOK, TxType
<1>5. \A kind \in Resources : Usage(kind)' = Usage(kind)
  BY <1>2 DEF Usage, ActiveUsers, ActiveThings, Resources
<1>6. \A plan, kind : kind \in Resources => (HasRoom(plan, kind)' <=> HasRoom(plan, kind))
  BY <1>5 DEF HasRoom
<1>7. \A plan : FitsPlan(plan)' <=> FitsPlan(plan)
  BY <1>5 DEF FitsPlan
<1>8. GrowthKeepsLimits' /\ ActiveMeansPaid'
  BY <1>2, <1>4, <1>7, Parts DEF GrowthKeepsLimits, LimitsHold, ActiveMeansPaid
<1>9. ASSUME NEW q \in Sessions
      PROVE  StageOK(change[q])'
  <2>1. PICK r \in TxType : r = change'[q] /\ StageOK(r)
    BY <1>1, Parts
  <2>2. r.locked => r.req \in Requests
    BY <2>1 DEF StageOK
  <2>3. r.locked => Decided(r)'
    <3>1. KindOf(r.req)' = KindOf(r.req)
      OBVIOUS
    <3>2. QED  BY <1>2, <1>6, <1>7, <2>1, <2>2, <3>1, RequestFacts DEF StageOK, Decided, Stands
  <2>4. QED  BY <1>2, <2>1, <2>3 DEF StageOK
<1>10. QED  BY <1>4, <1>8, <1>9 DEF PlansInv

\* The step of a write: the tables keep their types, who was a member stays one,
\* and what others decided on holds.
LEMMA WriteStep ==
    ASSUME PlansInv, NEW p \in Sessions, NEW t \in TxType, change' = [change EXCEPT ![p] = t],
           ~t.locked, StageOK(t)',
           subscription' \in [plan : Plans, status : {"TRIALING", "ACTIVE", "PAST_DUE", "CANCELLED"},
                              end : Nat \cup {Null}],
           member' \in [Users -> {"NONE", "ACTIVE", "SUSPENDED"}], role' \in [Users -> Roles],
           account' \in [Users -> {"none", "own", "invited"}],
           thing' \in [Things -> {"NONE", "ACTIVE", "INACTIVE"}],
           UNCHANGED today, returned' \in BOOLEAN,
           \A q \in Requests : q.op \in MemberOps /\ member[q.what] # "NONE" => member'[q.what] # "NONE",
           returned' \/ LimitsHold', ActiveMeansPaid',
           \A q \in Sessions \ {p} : change[q].locked =>
               \A r \in TxType : r = change[q] => Decided(r)'
    PROVE  PlansInv'
<1>1. change' \in [Sessions -> TxType] /\ change'[p] = t /\ \A q \in Sessions \ {p} : change'[q] = change[q]
  BY Parts
<1>2. \A k, l \in Sessions : change'[k].locked /\ change'[l].locked => k = l
  BY <1>1, Parts
<1>3. PlansTypeOK'
  BY <1>1, <1>2, Parts DEF PlansTypeOK, TxType
<1>4. ASSUME NEW q \in Sessions
      PROVE  StageOK(change[q])'
  <2>1. CASE q = p
    BY <1>1, <2>1 DEF StageOK, Decided
  <2>2. CASE q # p
    <3>1. PICK r \in TxType : r = change'[q] /\ r = change[q] /\ StageOK(r)
      BY <1>1, <2>2, Parts
    <3>2. r.locked => Decided(r)'
      BY <2>2, <3>1
    <3>3. r.req \in Requests /\ r.req.op \in MemberOps /\ member[r.req.what] # "NONE"
              => member'[r.req.what] # "NONE"
      OBVIOUS
    <3>4. StageOK(r)'
      BY <3>1, <3>2, <3>3 DEF StageOK
    <3>5. QED  BY <3>1, <3>4 DEF StageOK, Decided
  <2>3. QED  BY <2>1, <2>2
<1>5. QED  BY <1>3, <1>4 DEF PlansInv, GrowthKeepsLimits

\* Where nothing grows unseen, what was decided stays decided.
LEMMA LessKeeps ==
    ASSUME PlansInv, UNCHANGED subscription, returned => returned',
           returned' \/ \A kind \in Resources : Usage(kind)' <= Usage(kind) /\ Usage(kind)' \in Nat
    PROVE  /\ returned' \/ LimitsHold'
           /\ \A r \in TxType : r.locked /\ StageOK(r) => Decided(r)'
<1>1. \A plan \in Plans, kind \in Resources : Limit[plan][kind] \in Nat \cup {Null}
  BY PlansAssumption
<1>2. \A kind \in Resources : Usage(kind) \in Nat
  BY UsageNat
<1>3. \A plan \in Plans : FitsPlan(plan) => returned' \/ FitsPlan(plan)'
  BY <1>1, <1>2 DEF FitsPlan
<1>4. \A plan \in Plans, kind \in Resources : HasRoom(plan, kind) => returned' \/ HasRoom(plan, kind)'
  BY <1>1, <1>2 DEF HasRoom
<1>5. subscription.plan \in Plans
  BY Parts DEF PlansTypeOK
<1>6. returned' \/ LimitsHold'
  BY <1>3, <1>5, Parts DEF GrowthKeepsLimits, LimitsHold
<1>7. ASSUME NEW r \in TxType, r.locked, StageOK(r)
      PROVE  Decided(r)'
  <2>1. r.req \in Requests /\ Decided(r)
    BY <1>7 DEF StageOK
  <2>2. KindOf(r.req) \in Resources /\ (r.req.op = "changePlan" => r.req.what \in Plans)
    BY <2>1, RequestFacts
  <2>3. r.req.op \in Comers => Stands' /\ (returned' \/ HasRoom(subscription.plan, KindOf(r.req))')
    BY <1>4, <1>5, <2>1, <2>2 DEF Decided, Stands
  <2>4. r.req.op = "changePlan" => returned' \/ FitsPlan(r.req.what)'
    BY <1>3, <2>1, <2>2 DEF Decided
  <2>5. QED  BY <2>1, <2>3, <2>4 DEF Decided, KindOf, HasRoom, FitsPlan
<1>8. QED  BY <1>6, <1>7

-----------------------------------------------------------------------------
(* The steps.                                                              *)

LEMMA PlansInitHolds == PlansInit => PlansInv
<1> SUFFICES ASSUME PlansInit
             PROVE  PlansInv
  OBVIOUS
<1>1. PlansTypeOK
  BY NullAssumption, PeopleAssumption, PlansAssumption, CalendarAssumption
  DEF PlansInit, PlansTypeOK, IdleTx, ChangeSteps, Answers, Roles
<1>2. /\ ActiveUsers = {Founder}
      /\ ActiveThings(Branches) = {MainBranch} /\ ActiveThings(Products) = {}
  BY PeopleAssumption, ThingsAssumption DEF PlansInit, ActiveUsers, ActiveThings, Things
<1>3. Usage("users") = 1 /\ Usage("branches") = 1 /\ Usage("products") = 0
  BY <1>2, FS_Singleton, FS_EmptySet DEF Usage
<1>4. \A kind \in Resources : Limit[FreePlan][kind] \in Nat \cup {Null}
  BY PlansAssumption
<1>5. LimitsHold
  BY <1>3, <1>4, PlansAssumption DEF PlansInit, LimitsHold, FitsPlan, Resources
<1>6. \A p \in Sessions : StageOK(change[p])
  BY DEF PlansInit, StageOK, IdleTx
<1>7. QED  BY <1>1, <1>5, <1>6 DEF PlansInv, GrowthKeepsLimits, ActiveMeansPaid, PlansInit

LEMMA IdleType == IdleTx \in TxType /\ ~IdleTx.locked /\ IdleTx.pc = "idle"
BY DEF IdleTx, TxType, ChangeSteps, Answers

LEMMA DoneStep ==
    ASSUME PlansInv, NEW p \in Sessions, NEW ans \in Answers, Done(p, ans)
    PROVE  \E t \in TxType : /\ change' = [change EXCEPT ![p] = t] /\ t.pc = "done" /\ ~t.locked
                             /\ StageOK(t) /\ StageOK(t)'
<1> DEFINE t == [IdleTx EXCEPT !.pc = "done", !.req = change[p].req, !.ans = ans]
<1>1. PICK r \in Requests \cup {Null} : r = change[p].req
  BY Parts DEF TxType
<1>2. PICK d \in TxType : /\ d = [IdleTx EXCEPT !.pc = "done", !.req = r, !.ans = ans]
                          /\ d.pc = "done" /\ ~d.locked
  <2>1. PICK i \in TxType : i = IdleTx /\ ~i.locked
    BY IdleType
  <2>2. PICK d \in TxType : d = [i EXCEPT !.pc = "done", !.req = r, !.ans = ans]
    BY <2>1 DEF TxType, ChangeSteps
  <2>3. d.pc = "done" /\ ~d.locked
    BY <2>1, <2>2 DEF TxType
  <2>4. QED  BY <2>1, <2>2, <2>3
<1>3. StageOK(d) /\ StageOK(d)'
  BY <1>2 DEF StageOK
<1>4. change' = [change EXCEPT ![p] = d]
  BY <1>1, <1>2 DEF Done
<1>5. QED  BY <1>2, <1>3, <1>4

LEMMA DoneKeeps ==
    ASSUME PlansInv, UNCHANGED tables, NEW p \in Sessions, NEW ans \in Answers, Done(p, ans)
    PROVE  PlansInv'
<1>1. PICK t \in TxType : /\ change' = [change EXCEPT ![p] = t] /\ t.pc = "done" /\ ~t.locked
                          /\ StageOK(t)
  BY DoneStep
<1>2. QED  BY <1>1, QuietStep

LEMMA GoToKeeps ==
    ASSUME PlansInv, UNCHANGED tables, NEW p \in Sessions, 
           NEW step \in ChangeSteps, GoToStep(p, step),
           change[p].pc \notin {"idle", "done", "write"}, step \notin {"idle", "done"},
           step = "write" => change[p].req.op \in MemberOps \cup {"read"},
           step = "count" => change[p].req.op \in MemberOps,
           step = "account" => change[p].req.op = "invite",
           step \in {"count", "lock", "write"} /\ change[p].req.op \in MemberOps =>
               member[change[p].req.what] # "NONE"
    PROVE  PlansInv'
<1>1. PICK s \in TxType : s = change[p] /\ StageOK(s)
  BY Parts
<1>2. PICK t \in TxType : t = [s EXCEPT !.pc = step]
  BY <1>1 DEF TxType
<1>3. change' = [change EXCEPT ![p] = t]
  BY <1>1, <1>2, Parts DEF GoToStep, TxType
<1>4. t.pc = step /\ t.req = s.req /\ ~t.locked
  BY <1>1, <1>2 DEF StageOK, TxType
<1>5. StageOK(t)
  BY <1>1, <1>4 DEF StageOK, MemberOps
<1>6. QED  BY <1>3, <1>4, <1>5, QuietStep

LEMMA HoldKeeps ==
    ASSUME PlansInv, UNCHANGED tables, NEW p \in Sessions, Hold(p), ~LockedByOther(p),
           change[p].pc = "lock", Decided(change[p])
    PROVE  PlansInv'
<1>1. PICK s \in TxType : s = change[p] /\ StageOK(s) /\ Decided(s)
  BY Parts DEF Decided
<1>2. PICK t \in TxType : t = [s EXCEPT !.pc = "write", !.locked = TRUE]
  BY <1>1 DEF TxType, ChangeSteps
<1>3. change' = [change EXCEPT ![p] = t]
  BY <1>1, <1>2, Parts DEF Hold, TxType
<1>4. t.pc = "write" /\ t.req = s.req /\ t.locked
  BY <1>2 DEF TxType
<1>5. StageOK(t)
  BY <1>1, <1>4 DEF StageOK, Decided
<1>6. QED  BY <1>3, <1>4, <1>5, QuietStep

LEMMA BeginKeeps ==
    ASSUME PlansInv, NEW p \in Sessions, NEW q \in Requests, BeginChange(p, q)
    PROVE  PlansInv'
<1>1. PICK t \in TxType : t = [IdleTx EXCEPT !.pc = Needs(q.op), !.req = q]
  <2>1. PICK i \in TxType : i = IdleTx
    BY IdleType
  <2>2. PICK t \in TxType : t = [i EXCEPT !.pc = Needs(q.op), !.req = q]
    BY <2>1 DEF TxType, ChangeSteps, Needs
  <2>3. QED  BY <2>1, <2>2
<1>2. change' = [change EXCEPT ![p] = t] /\ UNCHANGED tables
  BY <1>1 DEF BeginChange
<1>3. t.pc = Needs(q.op) /\ t.req = q /\ ~t.locked
  BY <1>1, IdleType DEF TxType
<1>4. StageOK(t)
  BY <1>3 DEF StageOK, Needs, MemberOps
<1>5. QED  BY <1>2, <1>3, <1>4, QuietStep

LEMMA IdleKeeps ==
    ASSUME PlansInv, NEW p \in Sessions, FinishChange(p) \/ AbortChange(p)
    PROVE  PlansInv'
<1>1. PICK t \in TxType : t = IdleTx
  BY DEF TxType, IdleTx, ChangeSteps, Answers
<1>2. change' = [change EXCEPT ![p] = t] /\ UNCHANGED tables /\ StageOK(t) /\ ~t.locked
  BY <1>1 DEF FinishChange, AbortChange, StageOK, IdleTx
<1>3. QED  BY <1>2, QuietStep

\* What is read before any lock.
LEMMA ReadsKeep ==
    ASSUME PlansInv, NEW p \in Sessions,
           ReadMember(p) \/ ReadInvited(p) \/ CountOwners(p) \/ ReadSubscription(p)
    PROVE  PlansInv'
<1> USE DEF ChangeSteps, Answers, MemberOps
<1>1. UNCHANGED tables
  BY DEF ReadMember, ReadInvited, CountOwners, ReadSubscription
<1>2. CASE ReadMember(p)
  <2>1. change[p].pc = "read" /\ change[p].req.op \in MemberOps
    BY <1>2 DEF ReadMember, AtStep
  <2>2. CASE Done(p, "missing")
    BY <1>1, <2>2, DoneKeeps
  <2>3. CASE member[change[p].req.what] # "NONE" /\ \E step \in {"lock", "count", "write"} : GoToStep(p, step)
    BY <1>1, <2>1, <2>3, GoToKeeps
  <2>4. QED  BY <1>2, <2>2, <2>3 DEF ReadMember
<1>3. CASE ReadInvited(p)
  <2>1. change[p].pc = "read" /\ change[p].req.op = "invite"
    BY <1>3 DEF ReadInvited, AtStep
  <2>2. CASE Done(p, "conflict")
    BY <1>1, <2>2, DoneKeeps
  <2>3. CASE GoToStep(p, "account") \/ GoToStep(p, "lock")
    BY <1>1, <2>1, <2>3, GoToKeeps
  <2>4. QED  BY <1>3, <2>2, <2>3 DEF ReadInvited
<1>4. CASE CountOwners(p)
  <2>1. change[p].pc = "count" /\ StageOK(change[p])
    BY <1>4, Parts DEF CountOwners
  <2>2. CASE Done(p, "refused")
    BY <1>1, <2>2, DoneKeeps
  <2>3. CASE GoToStep(p, "write")
    BY <1>1, <2>1, <2>3, GoToKeeps DEF StageOK
  <2>4. QED  BY <1>4, <2>2, <2>3 DEF CountOwners
<1>5. CASE ReadSubscription(p)
  <2>1. change[p].pc = "read" /\ change[p].req.op = "read"
    BY <1>5 DEF ReadSubscription, AtStep
  <2>2. CASE Done(p, "ok")
    BY <1>1, <2>2, DoneKeeps
  <2>3. CASE GoToStep(p, "write")
    BY <1>1, <2>1, <2>3, GoToKeeps
  <2>4. QED  BY <1>5, <2>2, <2>3 DEF ReadSubscription
<1>6. QED  BY <1>2, <1>3, <1>4, <1>5

\* What is decided under the lock of the subscription.
LEMMA LocksKeep ==
    ASSUME PlansInv, NEW p \in Sessions,
           AssertWithinLimit(p) \/ ChangePlanBegin(p) \/ CancelBegin(p) \/ RenewBegin(p)
    PROVE  PlansInv'
<1> USE DEF Answers, AtStep
<1>1. UNCHANGED tables /\ change[p].pc = "lock" /\ ~LockedByOther(p)
  BY DEF AssertWithinLimit, ChangePlanBegin, CancelBegin, RenewBegin
<1>2. CASE \E ans \in Answers : Done(p, ans)
  BY <1>1, <1>2, DoneKeeps
<1>3. CASE Hold(p) /\ Decided(change[p])
  BY <1>1, <1>3, HoldKeeps
<1>4. CASE AssertWithinLimit(p)
  <2>1. \/ \E ans \in Answers : Done(p, ans)
        \/ Hold(p) /\ Stands /\ HasRoom(subscription.plan, KindOf(change[p].req))
    BY <1>4 DEF AssertWithinLimit
  <2>2. change[p].req.op \in Comers
    BY <1>4 DEF AssertWithinLimit, Comers
  <2>3. QED  BY <1>2, <1>3, <2>1, <2>2 DEF Decided, Comers
<1>5. CASE ChangePlanBegin(p)
  <2>1. \/ \E ans \in Answers : Done(p, ans)
        \/ Hold(p) /\ FitsPlan(change[p].req.what)
    BY <1>5 DEF ChangePlanBegin
  <2>2. change[p].req.op = "changePlan"
    BY <1>5 DEF ChangePlanBegin
  <2>3. QED  BY <1>2, <1>3, <2>1, <2>2 DEF Decided, Comers
<1>6. CASE CancelBegin(p)
  <2>1. (\E ans \in Answers : Done(p, ans)) \/ Hold(p)
    BY <1>6 DEF CancelBegin
  <2>2. change[p].req.op = "cancel"
    BY <1>6 DEF CancelBegin
  <2>3. QED  BY <1>2, <1>3, <2>1, <2>2 DEF Decided, Comers
<1>7. CASE RenewBegin(p)
  <2>1. \/ \E ans \in Answers : Done(p, ans)
        \/ Hold(p) /\ subscription.plan # FreePlan
    BY <1>7 DEF RenewBegin
  <2>2. change[p].req.op = "renew"
    BY <1>7 DEF RenewBegin
  <2>3. QED  BY <1>2, <1>3, <2>1, <2>2 DEF Decided, Comers
<1>8. QED  BY <1>4, <1>5, <1>6, <1>7

\* Who holds the row is alone, and what it decided on is so.
LEMMA HolderFacts ==
    ASSUME PlansInv, NEW p \in Sessions, change[p].locked
    PROVE  Decided(change[p]) /\ \A q \in Sessions \ {p} : ~change[q].locked
BY Parts DEF StageOK

\* There was room for one more.
LEMMA RoomForOne ==
    ASSUME PlansInv, UNCHANGED <<subscription, returned>>, NEW kind \in Resources,
           returned \/ HasRoom(subscription.plan, kind),
           Usage(kind)' <= Usage(kind) + 1,
           \A other \in Resources \ {kind} : Usage(other)' = Usage(other)
    PROVE  returned' \/ LimitsHold'
<1>1. \A other \in Resources : Usage(other) \in Nat /\ Usage(other)' \in Nat
  BY UsageNat
<1>2. subscription.plan \in Plans
  BY Parts DEF PlansTypeOK
<1>3. \A other \in Resources : Limit[subscription.plan][other] \in Nat \cup {Null}
  BY <1>2, PlansAssumption
<1>4. returned \/ FitsPlan(subscription.plan)
  BY Parts DEF GrowthKeepsLimits, LimitsHold
<1>5. QED  BY <1>1, <1>3, <1>4 DEF HasRoom, LimitsHold, FitsPlan

LEMMA MakeAccountKeeps ==
    ASSUME PlansInv, NEW p \in Sessions, MakeAccount(p)
    PROVE  PlansInv'
<1>1. CASE Done(p, "error") /\ UNCHANGED account
  BY <1>1, DoneKeeps DEF MakeAccount, tables, people, Answers
<1>2. CASE GoToStep(p, "lock") /\ account' = [account EXCEPT ![change[p].req.what] = "invited"]
  <2>1. PICK s \in TxType : s = change[p] /\ s.pc = "account" /\ StageOK(s)
    BY <1>2, Parts DEF MakeAccount
  <2>2. PICK t \in TxType : t = [s EXCEPT !.pc = "lock"]
    BY <2>1 DEF TxType, ChangeSteps
  <2>3. change' = [change EXCEPT ![p] = t]
    BY <1>2, <2>1, <2>2, Parts DEF GoToStep, TxType
  <2>4. t.pc = "lock" /\ t.req = s.req /\ ~t.locked
    BY <2>1, <2>2 DEF StageOK, TxType
  <2>5. StageOK(t)'
    BY <2>1, <2>4 DEF StageOK, MemberOps
  <2>6. UNCHANGED <<subscription, member, role, thing, today, returned>>
    BY <1>2 DEF MakeAccount
  <2>7. \A kind \in Resources : Usage(kind)' = Usage(kind) /\ Usage(kind)' \in Nat
    BY <2>6, UsageNat DEF Usage, ActiveUsers, ActiveThings, Resources
  <2>8. /\ returned' \/ LimitsHold'
        /\ \A r \in TxType : r.locked /\ StageOK(r) => Decided(r)'
    BY <2>6, <2>7, LessKeeps
  <2>9. ActiveMeansPaid'
    BY <2>6, Parts DEF ActiveMeansPaid
  <2>10. account' \in [Users -> {"none", "own", "invited"}]
    BY <1>2, Parts DEF PlansTypeOK
  <2>11. QED  BY <2>3, <2>4, <2>5, <2>6, <2>8, <2>9, <2>10, Parts, WriteStep DEF PlansTypeOK
<1>3. QED  BY <1>1, <1>2 DEF MakeAccount

\* With a commit that ends the transaction, once its tables are known to be fine.
LEMMA CommitStep ==
    ASSUME PlansInv, NEW p \in Sessions, Done(p, "ok"),
           subscription' \in [plan : Plans, status : {"TRIALING", "ACTIVE", "PAST_DUE", "CANCELLED"},
                              end : Nat \cup {Null}],
           member' \in [Users -> {"NONE", "ACTIVE", "SUSPENDED"}], role' \in [Users -> Roles],
           thing' \in [Things -> {"NONE", "ACTIVE", "INACTIVE"}],
           UNCHANGED <<account, today>>, returned' \in BOOLEAN,
           \A u \in Users : member[u] # "NONE" => member'[u] # "NONE",
           returned' \/ LimitsHold', ActiveMeansPaid',
           \/ \A q \in Sessions \ {p} : ~change[q].locked
           \/ \A r \in TxType : r.locked /\ StageOK(r) => Decided(r)'
    PROVE  PlansInv'
<1>1. PICK t \in TxType : change' = [change EXCEPT ![p] = t] /\ t.pc = "done" /\ ~t.locked /\ StageOK(t)'
  BY DoneStep DEF Answers
<1>2. \A q \in Requests : q.op \in MemberOps => q.what \in Users
  BY RequestFacts
<1>3. \A q \in Sessions \ {p} : change[q].locked => \A r \in TxType : r = change[q] => Decided(r)'
  BY Parts
<1>4. account' \in [Users -> {"none", "own", "invited"}]
  BY Parts DEF PlansTypeOK
<1>5. QED  BY <1>1, <1>2, <1>3, <1>4, WriteStep

LEMMA WriteMemberKeeps ==
    ASSUME PlansInv, NEW p \in Sessions, WriteMember(p)
    PROVE  PlansInv'
<1> DEFINE q == change[p].req
           u == q.what
<1>1. /\ AtStep(p, "write", MemberOps) /\ Done(p, "ok")
      /\ member' = [member EXCEPT ![u] = CASE q.op = "activate" -> "ACTIVE"
                                          [] q.op = "suspend" -> "SUSPENDED"
                                          [] OTHER -> @]
      /\ role' = [role EXCEPT ![u] = CASE q.op = "own" -> "OWNER"
                                      [] q.op = "demote" -> "STAFF"
                                      [] OTHER -> @]
      /\ returned' = (returned \/ (q.op = "activate" /\ member[u] # "ACTIVE" /\ ~change[p].locked))
      /\ UNCHANGED <<subscription, account, thing, today>>
  BY DEF WriteMember, MemberOps
<1>2. StageOK(change[p]) /\ q \in Requests /\ u \in Users /\ member[u] # "NONE" /\ q.op \in MemberOps
  BY <1>1, Parts, RequestFacts DEF StageOK, AtStep
<1>3. /\ member' \in [Users -> {"NONE", "ACTIVE", "SUSPENDED"}]
      /\ \A v \in Users : member[v] # "NONE" => member'[v] # "NONE"
      /\ \A v \in Users \ {u} : member'[v] = member[v]
      /\ member'[u] = "ACTIVE" => q.op = "activate" \/ member[u] = "ACTIVE"
  BY <1>1, <1>2, Parts DEF PlansTypeOK
<1>4. role' \in [Users -> Roles]
  BY <1>1, <1>2, Parts DEF PlansTypeOK, Roles
<1>5. returned' \in BOOLEAN /\ (returned => returned')
  BY <1>1, Parts DEF PlansTypeOK
<1>6. ActiveMeansPaid'
  BY <1>1, Parts DEF ActiveMeansPaid
<1>7. subscription' \in [plan : Plans, status : {"TRIALING", "ACTIVE", "PAST_DUE", "CANCELLED"},
                         end : Nat \cup {Null}]
      /\ thing' \in [Things -> {"NONE", "ACTIVE", "INACTIVE"}]
  BY <1>1, Parts DEF PlansTypeOK
<1>8. CASE change[p].locked /\ q.op = "activate"
  <2>1. Decided(change[p]) /\ \A r \in Sessions \ {p} : ~change[r].locked
    BY <1>8, HolderFacts
  <2>2. returned \/ HasRoom(subscription.plan, "users")
    BY <1>2, <1>8, <2>1, RequestFacts DEF Decided, Comers
  <2>3. ActiveUsers' \subseteq ActiveUsers \cup {u}
    BY <1>3 DEF ActiveUsers
  <2>4. /\ Usage("users")' <= Usage("users") + 1
        /\ \A kind \in Resources \ {"users"} : Usage(kind)' = Usage(kind)
    BY <1>1, <2>3, OneMoreUser, Parts
  <2>5. UNCHANGED returned
    BY <1>1, <1>8, Parts DEF PlansTypeOK
  <2>6. returned' \/ LimitsHold'
    BY <1>1, <2>2, <2>4, <2>5, RoomForOne DEF Resources
  <2>7. QED  BY <1>1, <1>3, <1>4, <1>5, <1>6, <1>7, <2>1, <2>6, CommitStep
<1>9. CASE ~(change[p].locked /\ q.op = "activate")
  <2>1. returned' \/ ActiveUsers' \subseteq ActiveUsers
    BY <1>1, <1>3, <1>9 DEF ActiveUsers
  <2>2. returned' \/ \A kind \in Resources : Usage(kind)' <= Usage(kind) /\ Usage(kind)' \in Nat
    BY <1>1, <2>1, UsageLess, Parts
  <2>3. /\ returned' \/ LimitsHold'
        /\ \A r \in TxType : r.locked /\ StageOK(r) => Decided(r)'
    BY <1>1, <1>5, <2>2, LessKeeps
  <2>4. QED  BY <1>1, <1>3, <1>4, <1>5, <1>6, <1>7, <2>3, CommitStep
<1>10. QED  BY <1>8, <1>9

LEMMA WriteInvitedKeeps ==
    ASSUME PlansInv, NEW p \in Sessions, WriteInvited(p)
    PROVE  PlansInv'
<1> DEFINE u == change[p].req.what
<1>1. /\ change[p].pc = "write" /\ change[p].req.op = "invite"
      /\ UNCHANGED <<subscription, account, thing, today, returned>>
  BY DEF WriteInvited, AtStep
<1>2. change[p].locked /\ change[p].req \in Requests /\ u \in Users
  BY <1>1, Parts, RequestFacts DEF StageOK
<1>3. CASE Done(p, "error") /\ UNCHANGED <<member, role>>
  BY <1>1, <1>3, DoneKeeps DEF tables, people, Answers
<1>4. CASE /\ member[u] = "NONE" /\ Done(p, "ok") /\ member' = [member EXCEPT ![u] = "ACTIVE"]
           /\ \E r \in Roles : role' = [role EXCEPT ![u] = r]
  <2>1. Decided(change[p]) /\ \A r \in Sessions \ {p} : ~change[r].locked
    BY <1>2, HolderFacts
  <2>2. returned \/ HasRoom(subscription.plan, "users")
    BY <1>1, <1>2, <2>1, RequestFacts DEF Decided, Comers
  <2>3. ActiveUsers' \subseteq ActiveUsers \cup {u}
    BY <1>4, Parts DEF ActiveUsers, PlansTypeOK
  <2>4. /\ Usage("users")' <= Usage("users") + 1
        /\ \A kind \in Resources \ {"users"} : Usage(kind)' = Usage(kind)
    BY <1>1, <2>3, OneMoreUser, Parts
  <2>5. returned' \/ LimitsHold'
    BY <1>1, <2>2, <2>4, RoomForOne DEF Resources
  <2>6. /\ member' \in [Users -> {"NONE", "ACTIVE", "SUSPENDED"}]
        /\ \A v \in Users : member[v] # "NONE" => member'[v] # "NONE"
        /\ role' \in [Users -> Roles]
    BY <1>2, <1>4, Parts DEF PlansTypeOK
  <2>7. ActiveMeansPaid'
    BY <1>1, Parts DEF ActiveMeansPaid
  <2>8. QED  BY <1>1, <1>4, <2>1, <2>5, <2>6, <2>7, CommitStep, Parts DEF PlansTypeOK
<1>5. QED  BY <1>3, <1>4 DEF WriteInvited

LEMMA WriteNewKeeps ==
    ASSUME PlansInv, NEW p \in Sessions, WriteNew(p)
    PROVE  PlansInv'
<1> DEFINE kind == change[p].req.what
<1>1. /\ change[p].pc = "write" /\ change[p].req.op = "create" /\ Done(p, "ok")
      /\ UNCHANGED <<subscription, member, role, account, today, returned>>
  BY DEF WriteNew, AtStep, people
<1>2. /\ change[p].locked /\ change[p].req \in Requests /\ kind \in {"branches", "products"}
      /\ KindOf(change[p].req) = kind
  BY <1>1, Parts, RequestFacts DEF StageOK
<1>3. PICK x \in PoolOf(kind) : thing' = [thing EXCEPT ![x] = "ACTIVE"]
  BY DEF WriteNew
<1>4. Decided(change[p]) /\ \A r \in Sessions \ {p} : ~change[r].locked
  BY <1>2, HolderFacts
<1>5. returned \/ HasRoom(subscription.plan, kind)
  BY <1>1, <1>2, <1>4 DEF Decided, Comers
<1>6. PICK k \in {"branches", "products"} : k = kind
  BY <1>2
<1>7. /\ Usage(k)' <= Usage(k) + 1
      /\ \A other \in Resources \ {k} : Usage(other)' = Usage(other)
  BY <1>1, <1>3, <1>6, OneMoreThing, Parts
<1>8. returned' \/ LimitsHold'
  BY <1>1, <1>5, <1>6, <1>7, RoomForOne DEF Resources
<1>9. thing' \in [Things -> {"NONE", "ACTIVE", "INACTIVE"}]
  BY <1>3, Parts DEF PlansTypeOK
<1>10. ActiveMeansPaid'
  BY <1>1, Parts DEF ActiveMeansPaid
<1>11. QED  BY <1>1, <1>4, <1>8, <1>9, <1>10, CommitStep, Parts DEF PlansTypeOK

LEMMA WriteThingKeeps ==
    ASSUME PlansInv, NEW p \in Sessions, WriteThing(p)
    PROVE  PlansInv'
<1> DEFINE x == change[p].req.what
<1>1. UNCHANGED <<subscription, member, role, account, today>>
  BY DEF WriteThing, people
<1>2. CASE Done(p, "missing") /\ UNCHANGED <<thing, returned>>
  BY <1>1, <1>2, DoneKeeps DEF tables, people, Answers
<1>3. CASE /\ thing' = [thing EXCEPT ![x] = IF change[p].req.op = "remove" THEN "INACTIVE" ELSE "ACTIVE"]
           /\ returned' = (returned \/ (change[p].req.op = "reopen" /\ thing[x] # "ACTIVE"))
           /\ Done(p, "ok")
  <2>1. change[p].req.op \in {"reopen", "remove"}
    BY DEF WriteThing, AtStep
  <2>2. returned' \in BOOLEAN /\ (returned => returned')
    BY <1>3, Parts DEF PlansTypeOK
  <2>3. returned' \/ \A y \in Things : thing'[y] = "ACTIVE" => thing[y] = "ACTIVE"
    BY <1>3, <2>1, Parts DEF PlansTypeOK
  <2>4. ActiveUsers' \subseteq ActiveUsers
    BY <1>1 DEF ActiveUsers
  <2>5. returned' \/ \A kind \in Resources : Usage(kind)' <= Usage(kind) /\ Usage(kind)' \in Nat
    BY <2>3, <2>4, UsageLess, Parts
  <2>6. /\ returned' \/ LimitsHold'
        /\ \A r \in TxType : r.locked /\ StageOK(r) => Decided(r)'
    BY <1>1, <2>2, <2>5, LessKeeps
  <2>7. thing' \in [Things -> {"NONE", "ACTIVE", "INACTIVE"}]
    BY <1>3, Parts DEF PlansTypeOK
  <2>8. ActiveMeansPaid'
    BY <1>1, Parts DEF ActiveMeansPaid
  <2>9. QED  BY <1>1, <1>3, <2>2, <2>6, <2>7, <2>8, CommitStep, Parts DEF PlansTypeOK
<1>4. QED  BY <1>2, <1>3 DEF WriteThing

\* A new row of the subscription, which its holder writes, or nobody holds.
LEMMA RowStep ==
    ASSUME PlansInv, NEW p \in Sessions,
           NEW row \in [plan : Plans, status : {"TRIALING", "ACTIVE", "PAST_DUE", "CANCELLED"},
                        end : Nat \cup {Null}],
           SetSubscription(p, row), \A q \in Sessions \ {p} : ~change[q].locked,
           row.plan = subscription.plan \/ returned \/ FitsPlan(row.plan),
           row.status = "ACTIVE" => row.plan # FreePlan,
           row.status = "TRIALING" => row.plan = FreePlan,
           row.plan = FreePlan <=> row.end = Null
    PROVE  PlansInv'
<1>1. subscription' = row /\ Done(p, "ok") /\ UNCHANGED <<member, role, account, thing, today, returned>>
  BY DEF SetSubscription, people
<1>2. \A kind \in Resources : Usage(kind)' = Usage(kind)
  BY <1>1 DEF Usage, ActiveUsers, ActiveThings, Resources
<1>3. returned \/ FitsPlan(row.plan)
  BY Parts DEF GrowthKeepsLimits, LimitsHold
<1>4. returned' \/ LimitsHold'
  BY <1>1, <1>2, <1>3 DEF LimitsHold, FitsPlan
<1>5. ActiveMeansPaid'
  BY <1>1 DEF ActiveMeansPaid
<1>6. QED  BY <1>1, <1>4, <1>5, CommitStep, Parts DEF PlansTypeOK

LEMMA RowsKeep ==
    ASSUME PlansInv, NEW p \in Sessions, Expire(p) \/ WritePlan(p) \/ WriteCancel(p) \/ WriteRenew(p)
    PROVE  PlansInv'
<1> DEFINE Row == [plan : Plans, status : {"TRIALING", "ACTIVE", "PAST_DUE", "CANCELLED"},
                   end : Nat \cup {Null}]
<1>1. PICK s \in Row : s = subscription
  BY Parts DEF PlansTypeOK
<1>2. /\ s.status = "ACTIVE" => s.plan # FreePlan
      /\ s.status = "TRIALING" => s.plan = FreePlan
      /\ s.plan = FreePlan <=> s.end = Null
  BY <1>1, Parts DEF ActiveMeansPaid
<1>3. today \in Nat
  BY Parts DEF PlansTypeOK
<1>4. CASE Expire(p)
  <2>1. PICK row \in Row : row = [s EXCEPT !.status = "PAST_DUE"]
    OBVIOUS
  <2>2. SetSubscription(p, row) /\ \A q \in Sessions \ {p} : ~change[q].locked
    BY <1>1, <1>4, <2>1 DEF Expire, LockedByOther
  <2>3. row.plan = s.plan /\ row.end = s.end /\ row.status = "PAST_DUE"
    BY <2>1
  <2>4. QED  BY <1>1, <1>2, <2>2, <2>3, RowStep
<1>5. CASE WritePlan(p)
  <2> DEFINE plan == change[p].req.what
  <2>1. change[p].pc = "write" /\ change[p].req.op = "changePlan"
    BY <1>5 DEF WritePlan, AtStep
  <2>2. change[p].locked /\ plan \in Plans
    BY <2>1, Parts, RequestFacts DEF StageOK
  <2>3. /\ \A q \in Sessions \ {p} : ~change[q].locked
        /\ returned \/ FitsPlan(plan)
    BY <2>1, <2>2, HolderFacts DEF Decided
  <2>4. PICK row \in Row :
            row = [plan |-> plan, status |-> IF plan # FreePlan THEN "ACTIVE" ELSE "TRIALING",
                   end |-> IF plan # FreePlan THEN today + Period ELSE Null]
    <3>1. /\ (IF plan # FreePlan THEN "ACTIVE" ELSE "TRIALING")
                 \in {"TRIALING", "ACTIVE", "PAST_DUE", "CANCELLED"}
          /\ (IF plan # FreePlan THEN today + Period ELSE Null) \in Nat \cup {Null}
      BY <1>3, CalendarAssumption
    <3> HIDE DEF plan
    <3>2. QED  BY <2>2, <3>1
  <2>5. SetSubscription(p, row)
    BY <1>5, <2>4 DEF WritePlan
  <2>6. today + Period # Null
    BY <1>3, CalendarAssumption, NullAssumption
  <2>7. QED  BY <2>3, <2>4, <2>5, <2>6, RowStep
<1>6. CASE WriteCancel(p)
  <2>1. change[p].pc = "write" /\ change[p].req.op = "cancel"
    BY <1>6 DEF WriteCancel, AtStep
  <2>2. \A q \in Sessions \ {p} : ~change[q].locked
    BY <2>1, Parts, HolderFacts DEF StageOK
  <2>3. PICK row \in Row : row = [s EXCEPT !.status = "CANCELLED"]
    OBVIOUS
  <2>4. SetSubscription(p, row)
    BY <1>1, <1>6, <2>3 DEF WriteCancel
  <2>5. row.plan = s.plan /\ row.end = s.end /\ row.status = "CANCELLED"
    BY <2>3
  <2>6. QED  BY <1>1, <1>2, <2>2, <2>4, <2>5, RowStep
<1>7. CASE WriteRenew(p)
  <2>1. change[p].pc = "write" /\ change[p].req.op = "renew"
    BY <1>7 DEF WriteRenew, AtStep
  <2>2. change[p].locked
    BY <2>1, Parts DEF StageOK
  <2>3. s.plan # FreePlan /\ \A q \in Sessions \ {p} : ~change[q].locked
    BY <1>1, <2>1, <2>2, HolderFacts DEF Decided
  <2>4. PICK end \in Nat : end = RenewedEnd(s.end)
    BY <1>3, CalendarAssumption, NullAssumption DEF RenewedEnd
  <2>5. PICK row \in Row : row = [s EXCEPT !.status = "ACTIVE", !.end = end]
    OBVIOUS
  <2>6. SetSubscription(p, row)
    BY <1>1, <1>7, <2>4, <2>5 DEF WriteRenew
  <2>7. row.plan = s.plan /\ row.end = end /\ row.status = "ACTIVE" /\ end # Null
    BY <2>5, NullAssumption
  <2>8. QED  BY <1>1, <2>3, <2>6, <2>7, RowStep
<1>8. QED  BY <1>4, <1>5, <1>6, <1>7

LEMMA NextDayKeeps ==
    ASSUME PlansInv, NextDay
    PROVE  PlansInv'
<1>1. UNCHANGED <<subscription, member, role, account, thing, returned, change>> /\ today' = today + 1
  BY DEF NextDay, people
<1>2. PlansTypeOK' /\ ActiveMeansPaid'
  BY <1>1, Parts DEF PlansTypeOK, ActiveMeansPaid
<1>3. \A kind \in Resources : Usage(kind)' = Usage(kind)
  BY <1>1 DEF Usage, ActiveUsers, ActiveThings, Resources
<1>4. GrowthKeepsLimits'
  BY <1>1, <1>2, <1>3, Parts DEF GrowthKeepsLimits, LimitsHold, FitsPlan
<1>5. \A kind \in Resources : Usage(kind)' <= Usage(kind) /\ Usage(kind)' \in Nat
  BY <1>3, UsageNat
<1>6. \A r \in TxType : r.locked /\ StageOK(r) => Decided(r)'
  BY <1>1, <1>5, LessKeeps
<1>7. ASSUME NEW p \in Sessions
      PROVE  StageOK(change[p])'
  <2>1. PICK r \in TxType : r = change[p] /\ r = change'[p] /\ StageOK(r)
    BY <1>1, Parts
  <2>2. StageOK(r)'
    BY <1>1, <1>6, <2>1 DEF StageOK
  <2>3. QED  BY <2>1, <2>2 DEF StageOK, Decided
<1>8. QED  BY <1>2, <1>4, <1>7 DEF PlansInv

LEMMA NextKeeps == PlansInv /\ [PlansNext]_plansVars => PlansInv'
<1> SUFFICES ASSUME PlansInv, [PlansNext]_plansVars
             PROVE  PlansInv'
  OBVIOUS
<1>1. CASE PlansNext
  <2>1. ASSUME NEW p \in Sessions, NEW q \in Requests, BeginChange(p, q)
        PROVE  PlansInv'
    BY <2>1, BeginKeeps
  <2>2. ASSUME NEW p \in Sessions, FinishChange(p) \/ AbortChange(p)
        PROVE  PlansInv'
    BY <2>2, IdleKeeps
  <2>3. ASSUME NEW p \in Sessions, Step(p)
        PROVE  PlansInv'
    BY <2>3, ReadsKeep, LocksKeep, MakeAccountKeeps, WriteMemberKeeps, WriteInvitedKeeps,
       WriteNewKeeps, WriteThingKeeps, RowsKeep
    DEF Step, Invite, ChangeMember, ChangePlan, Cancel, Renew, GetEffective
  <2>4. QED  BY <1>1, <2>1, <2>2, <2>3, NextDayKeeps DEF PlansNext
<1>2. CASE UNCHANGED plansVars
  <2>1. UNCHANGED <<subscription, member, role, account, thing, today, returned, change>>
    BY <1>2 DEF plansVars, tables, people
  <2>2. PlansTypeOK' /\ ActiveMeansPaid'
    BY <2>1, Parts DEF PlansTypeOK, ActiveMeansPaid
  <2>3. GrowthKeepsLimits'
    BY <2>1, <2>2, Parts
    DEF GrowthKeepsLimits, LimitsHold, FitsPlan, Usage, ActiveUsers, ActiveThings
  <2>4. \A p \in Sessions : StageOK(change[p])'
    BY <2>1, Parts
    DEF StageOK, Decided, Stands, HasRoom, FitsPlan, KindOf, Usage, ActiveUsers, ActiveThings
  <2>5. QED  BY <2>2, <2>3, <2>4 DEF PlansInv
<1>3. QED  BY <1>1, <1>2

\* The invariant behind the others: who holds the row of the subscription is alone, and
\* what it decided on under it (room for one more, a plan that fits, a plan to renew)
\* is still so when it writes.
THEOREM PlansInvariance == PlansSpec => []PlansInv
BY PlansInitHolds, NextKeeps, PTL DEF PlansSpec

\* Whatever is created, invited, reactivated under the lock and changed of plan
\* at once, no more is active than the plan allows, until something is made
\* active again with no look at the limit.
THEOREM LimitsKept == PlansSpec => []GrowthKeepsLimits
<1>1. PlansInv => GrowthKeepsLimits
  BY DEF PlansInv
<1>2. QED  BY <1>1, PlansInvariance, PTL

\* Status, plan and paid period agree through any order of changes of plan,
\* renewals, cancellations and expiries that were decided on an old row.
THEOREM StatusFollowsPlan == PlansSpec => []ActiveMeansPaid
<1>1. PlansInv => ActiveMeansPaid
  BY DEF PlansInv
<1>2. QED  BY <1>1, PlansInvariance, PTL

\* Nobody joins and nothing is created while the subscription is cancelled: who
\* does so holds the row and found it in force.
THEOREM CancelledAdmitsNone == PlansSpec => CancelledBlocks
<1> DEFINE Closed ==
             subscription.status = "CANCELLED" => Joined' \subseteq Joined /\ Made' \subseteq Made
<1>1. ASSUME PlansInv, [PlansNext]_plansVars
      PROVE  [Closed]_plansVars
  <2> SUFFICES ASSUME PlansNext, subscription.status = "CANCELLED"
               PROVE  Joined' \subseteq Joined /\ Made' \subseteq Made
    BY <1>1
  <2>1. ASSUME UNCHANGED <<member, thing>>
        PROVE  Joined' \subseteq Joined /\ Made' \subseteq Made
    BY <2>1 DEF Joined, Made
  <2>2. ASSUME NEW p \in Sessions, \/ \E q \in Requests : BeginChange(p, q)
                                   \/ FinishChange(p) \/ AbortChange(p)
                                   \/ ReadInvited(p) \/ MakeAccount(p) \/ ReadMember(p)
                                   \/ CountOwners(p)
                                   \/ AssertWithinLimit(p) \/ ChangePlan(p) \/ Cancel(p) \/ Renew(p)
                                   \/ GetEffective(p)
        PROVE  UNCHANGED <<member, thing>>
    BY <2>2
       DEF BeginChange, FinishChange, AbortChange, ReadInvited, MakeAccount, ReadMember, CountOwners,
       AssertWithinLimit, ChangePlan, ChangePlanBegin, WritePlan, Cancel, CancelBegin, WriteCancel, Renew,
       RenewBegin, WriteRenew,
       GetEffective, ReadSubscription, Expire, SetSubscription, tables, people
  <2>3. ASSUME NEW p \in Sessions
        PROVE  /\ change[p].locked => Decided(change[p])
               /\ change[p].pc = "write" /\ change[p].req.op \in {"invite", "create"} => change[p].locked
               /\ change[p].pc = "write" /\ change[p].req.op \in MemberOps =>
                     member[change[p].req.what] # "NONE"
    BY <1>1, Parts DEF StageOK
  <2>4. ASSUME NEW p \in Sessions
        PROVE  ~(WriteInvited(p) /\ member' # member) /\ ~WriteNew(p)
    BY <2>3 DEF WriteInvited, WriteNew, AtStep, Decided, Stands, Comers
  <2>5. ASSUME NEW p \in Sessions, WriteMember(p)
        PROVE  Joined' \subseteq Joined /\ UNCHANGED thing
    <3>1. /\ change[p].pc = "write" /\ change[p].req.op \in MemberOps /\ UNCHANGED thing
          /\ \A u \in Users \ {change[p].req.what} : member'[u] = member[u]
      BY <1>1, <2>5, Parts DEF WriteMember, AtStep, MemberOps, PlansTypeOK
    <3>2. QED  BY <2>3, <3>1 DEF Joined
  <2>6. ASSUME NEW p \in Sessions, WriteThing(p)
        PROVE  Made' \subseteq Made /\ UNCHANGED member
    BY <1>1, <2>6, Parts DEF WriteThing, Made, people, PlansTypeOK
  <2>7. CASE NextDay
    BY <2>1, <2>7 DEF NextDay, people
  <2>8. ASSUME NEW p \in Sessions, WriteInvited(p)
        PROVE  UNCHANGED <<member, thing>>
    BY <2>4, <2>8 DEF WriteInvited
  <2>9. QED  BY <2>1, <2>2, <2>4, <2>5, <2>6, <2>7, <2>8
        DEF PlansNext, Step, Invite, ChangeMember, Joined, Made
<1>2. PlansSpec => [][Closed]_plansVars
  BY <1>1, PlansInvariance, PTL DEF PlansSpec
<1>3. QED  BY <1>2 DEF CancelledBlocks
=============================================================================
