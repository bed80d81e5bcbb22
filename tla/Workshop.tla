------------------------------ MODULE Workshop ------------------------------
(* Recipes, runs and batches: recipes.service.ts and production.service.ts,     *)
(* with the two pages that call them.  A page sends one call at a time over a   *)
(* network that may lose it, or leave its answer unknown while the call goes    *)
(* on; each call is a transaction that locks rows as it goes.                   *)
EXTENDS Waiting, SequencesExt

CONSTANTS
    Cooks,        \* users with the page of recipes open
    Bakers,       \* users with the page of batches open
    Keys,         \* request keys; the key of a batch or run also stands for its id
    Calls,        \* calls that may be on their way at once
    Recipes,      \* what a version may list: sequences of ingredients
    Products,     \* numbers, for the order of their ids
    Raw,          \* what a batch takes
    Prepared,     \* what batches and runs make
    Stock0,       \* units of each product at the start
    Amounts,      \* quantities, and reasons, that a form may hold
    MaxRevision,  \* bound on the versions of the recipe
    None          \* nothing

Users == Cooks \union Bakers

VARIABLES
    published, \* recipe_versions of one recipe, in the order of their revisions
    job,       \* production_batches and recipe_runs, by request key
    stock,     \* units of each product in the warehouse
    call,      \* calls: their request, the rows they hold, what is left to lock
    page       \* what each user's page remembers and shows

vars == <<published, job, stock, call, page>>

Statuses == {"PREPARING", "READY", "CANCELLED"}

Jobs == [kind : {"batch", "run"}, inputs : Recipes \union {<<Raw>>},
         done : Seq([status : Statuses, data : Amounts])]
Requests ==
    [op : {"publish"}, key : Keys, expected : 1..MaxRevision, inputs : Recipes]
    \union [op : {"plan"}, key : Keys, kind : {"run"}, revision : 1..MaxRevision]
    \union [op : {"plan"}, key : Keys, kind : {"batch"}]
    \union [op : {"act"}, key : Keys, version : 0..3, status : Statuses, data : Amounts]

ASSUME WorkshopAssumption ==
    /\ Cooks \intersect Bakers = {} /\ Amounts \subseteq Nat \ {0}
    /\ Products \subseteq Nat
    /\ \A r \in Recipes : Range(r) \subseteq Products \ {Prepared}
    /\ Raw \in Products \ {Prepared} /\ Prepared \in Products
    /\ Stock0 \in [Products -> Nat] /\ MaxRevision \in Nat \ {0}
    /\ None \notin Keys \union Users \union Requests \union Jobs

Rows == ({"key", "job"} \X Keys) \union {<<"recipe", None>>} \union ({"stock"} \X Products)
NoCall == [step |-> "free", by |-> None, awaited |-> FALSE, req |-> None,
           held |-> {}, todo |-> {}, answer |-> None]

TypeOK ==
    /\ published \in Seq([key : Keys \union {None}, on : 0..MaxRevision,
                         inputs : Recipes])
    /\ job \in [Keys -> Jobs \union {None}]
    /\ stock \in [Products -> Nat]
    /\ call \in [Calls -> [step : {"free", "sent", "working", "answered"},
                           by : Users \union {None}, awaited : BOOLEAN,
                           req : Requests \union {None}, held : SUBSET Rows,
                           todo : SUBSET Rows,
                           answer : {None, "ok", "refused", "denied"}]]
    /\ page \in [Users -> [attempt : Requests \union {None}, waits : BOOLEAN,
                           revision : 1..MaxRevision, seen : [Keys -> -1..3],
                           notice : Requests \union {None}]]

Init ==
    /\ \E r \in Recipes : published = <<[key |-> None, on |-> 0, inputs |-> r]>>
    /\ job = [k \in Keys |-> None]
    /\ stock = Stock0
    /\ call = [c \in Calls |-> NoCall]
    /\ page = [u \in Users |-> [attempt |-> None, waits |-> FALSE, revision |-> 1,
                                seen |-> [k \in Keys |-> -1], notice |-> None]]

Status(j) == IF j.done = <<>> THEN "DRAFT" ELSE Last(j.done).status
Version(j) == Len(j.done)
Published(k) == \E i \in DOMAIN published : published[i].key = k

-----------------------------------------------------------------------------
(* What a transaction decides once it holds its first row: "again" answers a   *)
(* request that was already carried out, "go" carries it out.                  *)

PublishVerdict(r) ==
    IF \E i \in DOMAIN published : published[i].key = r.key
    THEN IF \E i \in DOMAIN published : /\ published[i].key = r.key
                                        /\ published[i].on = r.expected
                                        /\ published[i].inputs = r.inputs
         THEN "again" ELSE "refused"
    ELSE "go"

PlannedInputs(r) == IF r.kind = "run" THEN published[r.revision].inputs ELSE <<Raw>>

\* The hash of a plan covers all that was asked: here what it takes.
SamePlan(j, r) == j.kind = r.kind /\ j.inputs = PlannedInputs(r)

\* The version is compared with its recipe, which is not locked.
RunPlanVerdict(r) ==
    IF job[r.key] # None THEN IF SamePlan(job[r.key], r) THEN "again" ELSE "refused"
    ELSE IF r.revision = Len(published) THEN "go" ELSE "refused"

BatchPlanVerdict(r) ==
    IF job[r.key] # None THEN IF SamePlan(job[r.key], r) THEN "again" ELSE "refused" ELSE "go"

Retried(j, r) == Status(j) = r.status /\ Version(j) = r.version + 1

\* FAULT: a retry is recognised by its version and status alone
SameBatchActionAlways(j, r) == TRUE

\* The quantity and the lot of READY, the reason of CANCELLED.
SameBatchAction(j, r) == r.status = "PREPARING" \/ Last(j.done).data = r.data

\* FAULT: the hash of the action leaves out its quantities
SameRunActionAlways(j, r) == TRUE

\* actionHash covers all that the request says.
SameRunAction(j, r) == Last(j.done).data = r.data

Follows(from, to) ==
    \/ from = "DRAFT" /\ to \in {"PREPARING", "CANCELLED"}
    \/ from = "PREPARING" /\ to \in {"READY", "CANCELLED"}

BatchVerdict(j, r) ==
    IF Retried(j, r) THEN IF SameBatchAction(j, r) THEN "again" ELSE "refused"
    ELSE IF Version(j) = r.version /\ Follows(Status(j), r.status) THEN "go" ELSE "refused"

RunVerdict(j, r) ==
    IF Retried(j, r) THEN IF SameRunAction(j, r) THEN "again" ELSE "refused"
    ELSE IF Version(j) = r.version /\ Follows(Status(j), r.status) THEN "go" ELSE "refused"

Verdict(r) ==
    CASE r.op = "publish" -> PublishVerdict(r)
      [] r.op = "plan" -> IF r.kind = "run" THEN RunPlanVerdict(r) ELSE BatchPlanVerdict(r)
      [] r.op = "act" -> IF job[r.key] = None THEN "refused"
                         ELSE IF job[r.key].kind = "run" THEN RunVerdict(job[r.key], r)
                         ELSE BatchVerdict(job[r.key], r)

-----------------------------------------------------------------------------
(* The rows that are locked after the first.                                   *)

StockNeeded(r) ==
    CASE r.status = "PREPARING" -> Range(job[r.key].inputs)
      [] r.status = "READY" -> {Prepared}
      [] r.status = "CANCELLED" -> {}

FirstRow(r) == IF r.op = "act" THEN <<"job", r.key>> ELSE <<"key", r.key>>

OtherRows(r) ==
    CASE r.op = "publish" -> {<<"recipe", None>>}
      [] r.op = "plan" -> {}
      [] r.op = "act" -> {"stock"} \X StockNeeded(r)

\* FAULT: the ingredients are taken in any order
NextRowsAny(rows) == rows

\* Stock is taken in the order of the ids of its products.
NextRows(rows) ==
    {row \in rows : row[1] = "stock" => \A other \in rows : row[2] <= other[2]}

\* A batch takes what it planned; a run what the cook says was used.
Taken(r) == IF job[r.key].kind = "run" THEN r.data ELSE 1

\* FAULT: the revision is not compared again under the lock of the recipe
PassesAnyRevision(r, row) ==
    row[1] = "stock" /\ r.status = "PREPARING" => stock[row[2]] >= Taken(r)

\* What is checked once a row is locked: the revision, and that stock suffices.
Passes(r, row) ==
    /\ row[1] = "recipe" => Len(published) = r.expected
    /\ row[1] = "stock" /\ r.status = "PREPARING" => stock[row[2]] >= Taken(r)

-----------------------------------------------------------------------------
(* The transactions.                                                           *)

\* FAULT: FOR UPDATE is left out
HeldByNobody(c, row) == TRUE

Unlocked(c, row) == \A d \in Calls \ {c} : row \notin call[d].held

Answer(c, answer) ==
    call' = [call EXCEPT ![c].step = "answered", ![c].answer = answer,
                         ![c].held = {}, ![c].todo = {}]

Begin(c) ==
    LET r == call[c].req
    IN  /\ call[c].step = "sent"
        /\ Unlocked(c, FirstRow(r))
        /\ CASE Verdict(r) = "again" -> Answer(c, "ok")
             [] Verdict(r) = "refused" -> Answer(c, "refused")
             [] Verdict(r) = "go" ->
                    call' = [call EXCEPT ![c].step = "working", ![c].held = {FirstRow(r)},
                                         ![c].todo = OtherRows(r)]
        /\ UNCHANGED <<published, job, stock, page>>

LockNext(c) ==
    /\ call[c].step = "working"
    /\ \E row \in NextRows(call[c].todo) :
        /\ Unlocked(c, row)
        /\ IF Passes(call[c].req, row)
           THEN call' = [call EXCEPT ![c].held = @ \union {row}, ![c].todo = @ \ {row}]
           ELSE Answer(c, "refused")
    /\ UNCHANGED <<published, job, stock, page>>

CommitPublish(r) ==
    /\ published' = Append(published, [key |-> r.key, on |-> r.expected, inputs |-> r.inputs])
    /\ UNCHANGED <<job, stock>>

CommitPlan(r) ==
    /\ job' = [job EXCEPT ![r.key] = [kind |-> r.kind, inputs |-> PlannedInputs(r), done |-> <<>>]]
    /\ UNCHANGED <<published, stock>>

CommitAct(r) ==
    /\ job' = [job EXCEPT ![r.key].done = Append(@, [status |-> r.status, data |-> r.data])]
    /\ stock' = CASE r.status = "PREPARING" ->
                         [p \in Products |-> IF p \in Range(job[r.key].inputs)
                                             THEN stock[p] - Taken(r) ELSE stock[p]]
                  [] r.status = "READY" -> [stock EXCEPT ![Prepared] = @ + r.data]
                  [] r.status = "CANCELLED" -> stock
    /\ UNCHANGED published

Commit(c) ==
    LET r == call[c].req
    IN  /\ call[c].step = "working" /\ call[c].todo = {}
        /\ \/ r.op = "publish" /\ CommitPublish(r)
           \/ r.op = "plan" /\ CommitPlan(r)
           \/ r.op = "act" /\ CommitAct(r)
        /\ Answer(c, "ok")
        /\ UNCHANGED page

\* A guard turns the call away before the service: the session has ended, the
\* role has changed, too many calls.
TurnAway(c) ==
    /\ call[c].step = "sent"
    /\ \E answer \in {"refused", "denied"} : Answer(c, answer)
    /\ UNCHANGED <<published, job, stock, page>>

\* A call nobody waits for gets lost, is undone by an error, or ends unread.
Lost(c) ==
    /\ call[c].step # "free" /\ ~call[c].awaited
    /\ call' = [call EXCEPT ![c] = NoCall]
    /\ UNCHANGED <<published, job, stock, page>>

-----------------------------------------------------------------------------
(* The pages.  A page that has an attempt and waits for nothing is uncertain.  *)

Send(u, r) ==
    \E c \in Calls :
        /\ call[c].step = "free"
        /\ call' = [call EXCEPT ![c] = [NoCall EXCEPT !.step = "sent", !.by = u,
                                                     !.awaited = TRUE, !.req = r]]

\* crypto.randomUUID
Fresh(k) ==
    /\ job[k] = None /\ ~Published(k)
    /\ \A c \in Calls : call[c].req # None => call[c].req.key # k
    /\ \A u \in Users : page[u].attempt # None => page[u].attempt.key # k

\* useRecordedAction: every call of the page of recipes is kept until answered.
Record(u, r) ==
    /\ Send(u, r)
    /\ page' = [page EXCEPT ![u].attempt = r, ![u].waits = TRUE, ![u].notice = None]
    /\ UNCHANGED <<published, job, stock>>

Busy(u) == page[u].waits \/ page[u].attempt # None

PressPublish(u) ==
    /\ u \in Cooks /\ ~Busy(u)
    /\ page[u].revision < MaxRevision
    /\ \E k \in Keys, inputs \in Recipes :
        /\ Fresh(k)
        /\ Record(u, [op |-> "publish", key |-> k, expected |-> page[u].revision,
                      inputs |-> inputs])

PressPlanRun(u) ==
    /\ u \in Cooks /\ ~Busy(u)
    /\ \E k \in Keys :
        /\ Fresh(k)
        /\ Record(u, [op |-> "plan", key |-> k, kind |-> "run", revision |-> page[u].revision])

\* The status that the page shows of a job.
Shown(u, k) == Status([job[k] EXCEPT !.done = SubSeq(@, 1, page[u].seen[k])])

ActionOf(u, k, status, data) ==
    [op |-> "act", key |-> k, version |-> page[u].seen[k], status |-> status, data |-> data]

PressRunAction(u) ==
    /\ u \in Cooks /\ ~Busy(u)
    /\ \E k \in Keys, status \in Statuses, data \in Amounts :
        /\ page[u].seen[k] >= 0 /\ job[k].kind = "run"
        /\ Follows(Shown(u, k), status)
        /\ Record(u, ActionOf(u, k, status, data))

\* The page of batches keeps only the call that creates one.
PressCreateBatch(u) ==
    /\ u \in Bakers /\ ~Busy(u)
    /\ \E k \in Keys : Fresh(k) /\ Record(u, [op |-> "plan", key |-> k, kind |-> "batch"])

\* The buttons of a batch stay open while the creation of another is uncertain.
PressBatchAction(u) ==
    /\ u \in Bakers /\ ~page[u].waits
    /\ \E k \in Keys, status \in Statuses, data \in Amounts :
        /\ page[u].seen[k] >= 0 /\ job[k].kind = "batch"
        /\ Follows(Shown(u, k), status)
        /\ status = "PREPARING" => data = 1
        /\ Send(u, ActionOf(u, k, status, data))
        /\ page' = [page EXCEPT ![u].waits = TRUE, ![u].notice = None]
    /\ UNCHANGED <<published, job, stock>>

\* The recorded request is sent again as it was.
Retry(u) ==
    /\ page[u].attempt # None /\ ~page[u].waits
    /\ Send(u, page[u].attempt)
    /\ page' = [page EXCEPT ![u].waits = TRUE, ![u].notice = None]
    /\ UNCHANGED <<published, job, stock>>

\* useRecordedAction forgets an attempt at any answer below 500.
RecordedKeeps(answer) == FALSE

\* The creation of a batch forgets it at 400, 403 and 404.
CreateKeeps(answer) == answer = "denied"

Keeps(u, r, answer) ==
    IF u \in Cooks THEN RecordedKeeps(answer)
    ELSE IF r.op = "plan" THEN CreateKeeps(answer) ELSE page[u].attempt # None

Receive(c) ==
    LET u == call[c].by
        r == call[c].req
    IN  /\ call[c].step = "answered" /\ call[c].awaited
        /\ page' = [page EXCEPT
                      ![u].waits = FALSE,
                      ![u].attempt = IF Keeps(u, r, call[c].answer) THEN @ ELSE None,
                      ![u].notice = IF call[c].answer = "ok" THEN r ELSE None]
        /\ call' = [call EXCEPT ![c] = NoCall]
        /\ UNCHANGED <<published, job, stock>>

\* No answer comes in time, or one that says nothing: the call may still go on.
GiveUp(c) ==
    /\ call[c].awaited
    /\ page' = [page EXCEPT ![call[c].by].waits = FALSE]
    /\ call' = [call EXCEPT ![c].awaited = FALSE]
    /\ UNCHANGED <<published, job, stock>>

Reload(u) ==
    /\ page' = [page EXCEPT
                  ![u].revision = Len(published),
                  ![u].seen = [k \in Keys |-> IF job[k] = None THEN -1 ELSE Version(job[k])]]
    /\ page' # page
    /\ UNCHANGED <<published, job, stock, call>>

Next ==
    \/ \E c \in Calls : \/ Begin(c) \/ LockNext(c) \/ Commit(c) \/ TurnAway(c)
                        \/ Lost(c) \/ Receive(c) \/ GiveUp(c)
    \/ \E u \in Users : \/ PressPublish(u) \/ PressPlanRun(u) \/ PressRunAction(u)
                        \/ PressCreateBatch(u) \/ PressBatchAction(u)
                        \/ Retry(u) \/ Reload(u)

Spec == Init /\ [][Next]_vars

-----------------------------------------------------------------------------
(* Properties                                                                  *)

Did(k, status) == {i \in 1..Version(job[k]) : job[k].done[i].status = status}
Started == {k \in Keys : job[k] # None /\ Did(k, "PREPARING") # {}}
Finished == {k \in Keys : job[k] # None /\ Did(k, "READY") # {}}
First(k, status) == job[k].done[CHOOSE i \in Did(k, status) : TRUE].data
Used(k) == IF job[k].kind = "run" THEN First(k, "PREPARING") ELSE 1

\* The stock is what it was, less what each job that was ever started took, once,
\* plus what each finished job made, once: whatever was sent twice, abandoned or
\* sent by two users (production.service.ts action, recipes.service.ts action).
StockIsItsJobs ==
    /\ TypeOK
    /\ \A p \in Products :
        stock[p] + SumFunction([k \in {j \in Started : p \in Range(job[j].inputs)} |-> Used(k)])
            = Stock0[p] + (IF p # Prepared THEN 0
                           ELSE SumFunction([k \in Finished |-> First(k, "READY")]))

\* Each version was written by someone who asked to follow the one before it, and
\* no request made two of them (recipes.service.ts save).
EachVersionFollowsTheLast ==
    \A i \in DOMAIN published :
        /\ published[i].on = i - 1
        /\ \A j \in DOMAIN published : published[i].key = published[j].key => i = j

\* What a page says was registered was, with the quantities it was asked with, even
\* when the answer is that of an earlier call (the notices of both pages).
NoticesAreTrue ==
    \A u \in Users :
        LET r == page[u].notice
        IN  r # None =>
                CASE r.op = "publish" ->
                        /\ r.expected < Len(published)
                        /\ published[r.expected + 1].key = r.key
                        /\ published[r.expected + 1].inputs = r.inputs
                  [] r.op = "plan" ->
                        /\ job[r.key] # None
                        /\ job[r.key].inputs = PlannedInputs(r)
                  [] r.op = "act" ->
                        /\ r.version < Version(job[r.key])
                        /\ job[r.key].done[r.version + 1] = [status |-> r.status, data |-> r.data]

Wanted(c) ==
    IF call[c].step = "sent" THEN {FirstRow(call[c].req)}
    ELSE NextRows(call[c].todo)
WaitsFor(c) == {d \in Calls \ {c} : Wanted(c) \intersect call[d].held # {}}

\* No circle of transactions waits for each other's rows: recipes that list the same
\* ingredients in another order take them in the order of their ids.
NoDeadlock == InACircle([c \in Calls |-> WaitsFor(c)]) = {}
=============================================================================
