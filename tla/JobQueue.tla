------------------------------ MODULE JobQueue ------------------------------
(* The job queues of the backend: mail.service.ts and audit.service.ts put     *)
(* jobs into Redis, email.processor.ts and audit.processor.ts run them outside *)
(* of the request.  A job is tried a bounded number of times; a worker that    *)
(* dies in the middle of a job leaves it to another one, from its beginning.   *)
(* BullMQ itself (attempts, stalled jobs, concurrency) is external.            *)
EXTENDS Naturals, FiniteSets

CONSTANTS
    MaxJobs,     \* slots of the queue: how many jobs a behaviour may enqueue
    Workers,     \* jobs that may run at once
    Attempts,    \* tries of a job before it is given up
    MaxCrashes,  \* bound on the workers that die
    Keys         \* what a mail is about: its idempotency key

ASSUME QueueAssumption ==
    /\ MaxJobs \in Nat /\ Workers \in Nat \ {0}
    /\ Attempts \in Nat \ {0} /\ MaxCrashes \in Nat
    /\ Keys # {}

VARIABLES
    job,       \* the slots of the queue
    emailLog,  \* email_logs: the status kept under each key
    outbox,    \* the keys under which a mail has left
    auditLog,  \* audit_logs: what has a row
    crashes    \* workers that died so far

queueVars == <<job, emailLog, outbox, auditLog, crashes>>

Jobs == 1..MaxJobs
NoRow == "none"
Kinds == {"mail", "audit"}

\* Where a job stands.  A mail: look -> send -> logSent -> newSent or oldSent ->
\* done; given up: logFailed -> newFailed or oldFailed -> dead.  A row of audit:
\* write -> done.
Running == {"look", "send", "logSent", "newSent", "oldSent", "write"}
GivingUp == {"logFailed", "newFailed", "oldFailed"}
Stages == {"free", "waiting", "done", "dead"} \union Running \union GivingUp

NoJob == [kind |-> "audit", key |-> CHOOSE k \in Keys : TRUE, stage |-> "free", made |-> 0]

QueueTypeOK ==
    /\ job \in [Jobs -> [kind : Kinds, key : Keys, stage : Stages, made : 0..Attempts]]
    /\ emailLog \in [Keys -> {NoRow, "SENT", "FAILED"}]
    /\ outbox \subseteq Keys
    /\ auditLog \subseteq Keys
    /\ crashes \in 0..MaxCrashes

QueueInit ==
    /\ job = [j \in Jobs |-> NoJob]
    /\ emailLog = [k \in Keys |-> NoRow]
    /\ outbox = {}
    /\ auditLog = {}
    /\ crashes = 0

\* The slot the next job takes.
NextSlot == CHOOSE j \in Jobs : /\ job[j].stage = "free"
                                /\ \A i \in Jobs : job[i].stage = "free" => j <= i
Room == \E j \in Jobs : job[j].stage = "free"

\* queue.add, whose errors the services log and swallow: the job is queued, or
\* is lost while the request goes on.
Enqueue(kind, key) ==
    \/ /\ Room
       /\ job' = [job EXCEPT ![NextSlot] =
                     [kind |-> kind, key |-> key, stage |-> "waiting", made |-> 0]]
    \/ UNCHANGED job

Move(j, stage) == job' = [job EXCEPT ![j].stage = stage]
InStage(j, stage) == job[j].stage = stage
KeyOf(j) == job[j].key

-----------------------------------------------------------------------------
\* A worker takes the job.
Take(j) ==
    /\ InStage(j, "waiting")
    /\ Cardinality({i \in Jobs : job[i].stage \in Running}) < Workers
    /\ Move(j, IF job[j].kind = "mail" THEN "look" ELSE "write")
    /\ UNCHANGED <<emailLog, outbox, auditLog, crashes>>

\* FAULT: the log is not looked at before a mail is sent
AlreadySentNever(j) == FALSE

\* A mail whose key is logged as sent is not sent again.
AlreadySent(j) == emailLog[KeyOf(j)] = "SENT"

LookAtLog(j) ==
    /\ InStage(j, "look")
    /\ Move(j, IF AlreadySent(j) THEN "done" ELSE "send")
    /\ UNCHANGED <<emailLog, outbox, auditLog, crashes>>

\* The provider takes the mail and says so.
SendMail(j) ==
    /\ InStage(j, "send")
    /\ outbox' = outbox \union {KeyOf(j)}
    /\ Move(j, "logSent")
    /\ UNCHANGED <<emailLog, auditLog, crashes>>

\* recordLog looks for the row of the key, then updates it or makes it, in two
\* statements of a transaction.
Found(j) == emailLog[KeyOf(j)] # NoRow

FindLog(j, from, new, old) ==
    /\ InStage(j, from)
    /\ Move(j, IF Found(j) THEN old ELSE new)
    /\ UNCHANGED <<emailLog, outbox, auditLog, crashes>>

FindToLogSent(j) == FindLog(j, "logSent", "newSent", "oldSent")
FindToLogFailed(j) == FindLog(j, "logFailed", "newFailed", "oldFailed")

\* A row made meanwhile by another job is left as it is: the P2002 is swallowed.
Written(j, found, status) ==
    IF found \/ emailLog[KeyOf(j)] = NoRow
    THEN [emailLog EXCEPT ![KeyOf(j)] = status]
    ELSE emailLog

WriteLog(j, at, found, status, to) ==
    /\ InStage(j, at)
    /\ emailLog' = Written(j, found, status)
    /\ Move(j, to)
    /\ UNCHANGED <<outbox, auditLog, crashes>>

LogSent(j) == \/ WriteLog(j, "newSent", FALSE, "SENT", "done")
              \/ WriteLog(j, "oldSent", TRUE, "SENT", "done")
LogFailed(j) == \/ WriteLog(j, "newFailed", FALSE, "FAILED", "dead")
                \/ WriteLog(j, "oldFailed", TRUE, "FAILED", "dead")

\* AuditProcessor: one row for each job that is run.
WriteAudit(j) ==
    /\ InStage(j, "write")
    /\ auditLog' = auditLog \union {KeyOf(j)}
    /\ Move(j, "done")
    /\ UNCHANGED <<emailLog, outbox, crashes>>

\* What becomes of a job after a try that failed: another try, or the end,
\* which onFailed records for a mail and only prints for a row of audit.
AfterFailure(j) ==
    IF job[j].made + 1 < Attempts THEN "waiting"
    ELSE IF job[j].kind = "mail" THEN "logFailed" ELSE "dead"

\* The provider or the database refuses.  The mail may have left all the same
\* when it is the log of it that fails.
FailedTry(j) ==
    /\ job[j].stage \in Running
    /\ job' = [job EXCEPT ![j].stage = AfterFailure(j), ![j].made = @ + 1]
    /\ UNCHANGED <<emailLog, outbox, auditLog, crashes>>

\* The process dies: the job stalls and starts again, no try counted.  A row of
\* audit may have been committed.  What was being recorded in onFailed is lost.
WorkerDies(j) ==
    /\ crashes < MaxCrashes
    /\ job[j].stage \in Running \union GivingUp
    /\ crashes' = crashes + 1
    /\ Move(j, IF job[j].stage \in Running THEN "waiting" ELSE "dead")
    /\ \/ UNCHANGED auditLog
       \/ /\ InStage(j, "write")
          /\ auditLog' = auditLog \union {KeyOf(j)}
    /\ UNCHANGED <<emailLog, outbox>>

Work(j) ==
    \/ Take(j) \/ LookAtLog(j) \/ SendMail(j)
    \/ FindToLogSent(j) \/ FindToLogFailed(j)
    \/ LogSent(j) \/ LogFailed(j)
    \/ WriteAudit(j) \/ FailedTry(j)

QueueNext == \E j \in Jobs : Work(j) \/ WorkerDies(j)
=============================================================================
