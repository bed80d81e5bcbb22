---------------------------- MODULE WorkshopProofs ----------------------------
(***************************************************************************)
(* The safety of Workshop, for any number of users, request keys, calls    *)
(* and products, any recipes and any quantities.                           *)
(* In the second part, the safety of Menu, for any menu, tickets, orders   *)
(* and goods.  The two components share no name.                           *)
(*                                                                         *)
(* A call writes at its commit only. What it found when it began is still  *)
(* true there, because it holds the row it found it in (Going, Passes,     *)
(* Apart); and what a call or a page once knew to be carried out stays so, *)
(* because versions are only added and a job only goes on (Carried). That  *)
(* nobody waits in a circle rests on the order in which stock is taken.    *)
(***************************************************************************)
EXTENDS Workshop, Menu, FiniteTheorems

Entry == [status : Statuses, data : Amounts]

CallType ==
    [step : {"free", "sent", "working", "answered"}, by : Users \union {None},
     awaited : BOOLEAN, req : Requests \union {None}, held : SUBSET Rows,
     todo : SUBSET Rows, answer : {None, "ok", "refused", "denied"}]

PageType ==
    [attempt : Requests \union {None}, waits : BOOLEAN, revision : 1..MaxRevision,
     seen : [Keys -> -1..3], notice : Requests \union {None}]

VersionType == [key : Keys \union {None}, on : 0..MaxRevision, inputs : Recipes]

\* A request that the form of a page could hold, and still can be sent again.
RequestOK(r) ==
    /\ r \in Requests
    /\ r.op = "publish" => r.expected < MaxRevision
    /\ r.op = "plan" =>
          /\ r.kind = "run" => r.revision <= Len(published)
          /\ job[r.key] # None =>
                job[r.key].kind = r.kind /\ job[r.key].inputs = PlannedInputs(r)
    /\ r.op = "act" =>
          /\ job[r.key] # None
          /\ job[r.key].kind = "batch" /\ r.status = "PREPARING" => r.data = 1

\* What was asked is in the tables.
Carried(r) ==
    /\ r.op = "publish" =>
          /\ r.expected < Len(published)
          /\ published[r.expected + 1].key = r.key
          /\ published[r.expected + 1].inputs = r.inputs
    /\ r.op = "plan" => job[r.key] # None
    /\ r.op = "act" =>
          /\ r.version < Version(job[r.key])
          /\ job[r.key].done[r.version + 1] = [status |-> r.status, data |-> r.data]

\* What was asked is not in the tables, and can be put there.
Going(r) ==
    /\ r.op = "publish" => ~Published(r.key)
    /\ r.op = "plan" => job[r.key] = None
    /\ r.op = "act" => /\ Version(job[r.key]) = r.version
                       /\ Follows(Status(job[r.key]), r.status)

\* A call that works holds its first row and some of the others, stock in its order.
Working(t) ==
    /\ Going(t.req)
    /\ t.todo \subseteq OtherRows(t.req)
    /\ t.held = ({FirstRow(t.req)} \union OtherRows(t.req)) \ t.todo
    /\ \A row \in t.held : Passes(t.req, row)
    /\ \A row \in t.held, other \in t.todo :
          row[1] = "stock" /\ other[1] = "stock" => row[2] < other[2]

CallOK(t) ==
    /\ t.step = "free" => t = NoCall
    /\ t.step # "free" => t.by \in Users /\ RequestOK(t.req)
    /\ t.step # "working" => t.held = {} /\ t.todo = {}
    /\ t.step = "working" => Working(t)
    /\ t.step = "answered" /\ t.answer = "ok" => Carried(t.req)

PageOK(w) ==
    /\ w.attempt # None => RequestOK(w.attempt)
    /\ w.revision <= Len(published)
    /\ \A k \in Keys : w.seen[k] >= 0 => job[k] # None
    /\ w.notice # None => RequestOK(w.notice) /\ Carried(w.notice)

Chain ==
    /\ Len(published) \in 1..MaxRevision
    /\ \A i \in DOMAIN published : published[i].on = i - 1
    /\ \A i, j \in DOMAIN published : published[i].key = published[j].key => i = j

\* What has been done of a job: nothing, or one step, or two, each after the other.
JobOK(j) ==
    /\ Len(j.done) <= 2
    /\ Len(j.done) >= 1 => Follows("DRAFT", j.done[1].status)
    /\ Len(j.done) = 2 => Follows(j.done[1].status, j.done[2].status)
    /\ Len(j.done) >= 1 /\ j.done[1].status = "PREPARING" /\ j.kind = "batch" => j.done[1].data = 1

\* The requests that may still be received, or sent again.
Abroad == ({call[c].req : c \in Calls} \union {page[u].attempt : u \in Users}) \ {None}

\* A key stands for one plan.
Alike == \A r, s \in Abroad : r.op = "plan" /\ s.op = "plan" /\ r.key = s.key => r = s

\* No row is held by two calls.
Apart == \A c, d \in Calls : c # d => call[c].held \intersect call[d].held = {}

JobsOK == \A k \in Keys : job[k] # None => JobOK(job[k])
CallsOK == \A c \in Calls : CallOK(call[c])
PagesOK == \A u \in Users : PageOK(page[u])

\* What each job took and made.
Began(j) == j # None /\ Len(j.done) >= 1 /\ j.done[1].status = "PREPARING"
Ended(j) == j # None /\ Len(j.done) = 2 /\ j.done[2].status = "READY"
UsedBy(j) == IF j.kind = "run" THEN j.done[1].data ELSE 1
MadeBy(j) == j.done[2].data

Takers(jobs, p) == {k \in Keys : Began(jobs[k]) /\ p \in Range(jobs[k].inputs)}
Makers(jobs) == {k \in Keys : Ended(jobs[k])}
SumUsed(jobs, p) == SumFunctionOnSet([k \in Keys |-> UsedBy(jobs[k])], Takers(jobs, p))
SumMade(jobs) == SumFunctionOnSet([k \in Keys |-> MadeBy(jobs[k])], Makers(jobs))

Books ==
    /\ IsFiniteSet({k \in Keys : Began(job[k])})
    /\ \A p \in Products :
          stock[p] + SumUsed(job, p) = Stock0[p] + (IF p = Prepared THEN SumMade(job) ELSE 0)

Tables == TypeOK /\ Chain /\ JobsOK /\ Books

IInv == Tables /\ CallsOK /\ PagesOK /\ Alike /\ Apart

-----------------------------------------------------------------------------
(* Facts about the data.                                                   *)

\* What a request is made of.
LEMMA RequestFields ==
    ASSUME NEW r \in Requests
    PROVE  /\ r # None /\ r.op \in {"publish", "plan", "act"} /\ r.key \in Keys
           /\ r.op = "publish" => r.expected \in 1..MaxRevision /\ r.inputs \in Recipes
           /\ r.op = "plan" => /\ r.kind \in {"run", "batch"}
                               /\ r.kind = "run" => r.revision \in 1..MaxRevision
           /\ r.op = "act" => r.version \in 0..3 /\ r.status \in Statuses /\ r.data \in Amounts
BY WorkshopAssumption DEF Requests

\* What a job is made of.
LEMMA JobFields ==
    ASSUME NEW j \in Jobs
    PROVE  /\ j # None /\ j.kind \in {"batch", "run"} /\ j.done \in Seq(Entry)
           /\ Len(j.done) \in Nat /\ DOMAIN j.done = 1..Len(j.done)
           /\ \A i \in 1..Len(j.done) : /\ j.done[i] \in Entry /\ j.done[i].status \in Statuses
                                        /\ j.done[i].data \in Amounts
           /\ j.inputs \in Recipes \union {<<Raw>>}
           /\ Range(j.inputs) \subseteq Products \ {Prepared}
<1>1. /\ j # None /\ j.kind \in {"batch", "run"} /\ j.done \in Seq(Entry)
      /\ j.inputs \in Recipes \union {<<Raw>>}
  BY WorkshopAssumption DEF Jobs, Entry
<1>2. /\ Len(j.done) \in Nat /\ DOMAIN j.done = 1..Len(j.done)
      /\ \A i \in 1..Len(j.done) : j.done[i] \in Entry
  BY <1>1
<1>3. Range(<<Raw>>) = {Raw}
  BY DEF Range
<1>4. Range(j.inputs) \subseteq Products \ {Prepared}
  BY <1>1, <1>3, WorkshopAssumption
<1> QED  BY <1>1, <1>2, <1>4 DEF Entry

\* The quantities and products are numbers.
LEMMA Numbers ==
    /\ Amounts \subseteq Nat /\ Products \subseteq Nat /\ MaxRevision \in Nat /\ MaxRevision >= 1
    /\ Stock0 \in [Products -> Nat]
BY WorkshopAssumption

\* A job that goes on has done nothing yet, or is being prepared.
LEMMA JobLife ==
    ASSUME NEW j \in Jobs, JobOK(j), NEW to, Follows(Status(j), to)
    PROVE  \/ Len(j.done) = 0 /\ to \in {"PREPARING", "CANCELLED"} /\ Follows("DRAFT", to)
           \/ /\ Len(j.done) = 1 /\ to \in {"READY", "CANCELLED"}
              /\ j.done[1].status = "PREPARING" /\ Follows("PREPARING", to)
<1>0. Len(j.done) \in Nat /\ Len(j.done) <= 2
  BY JobFields DEF JobOK
<1>1. Len(j.done) = 0 \/ Len(j.done) = 1 \/ Len(j.done) = 2
  <2> DEFINE n == Len(j.done)
  <2> HIDE DEF n
  <2>1. n \in Nat /\ n <= 2 => n = 0 \/ n = 1 \/ n = 2
    OBVIOUS
  <2> QED  BY <1>0, <2>1 DEF n
<1>2. CASE Len(j.done) = 0
  <2>1. j.done = <<>>
    BY <1>2, JobFields
  <2>2. Status(j) = "DRAFT"
    BY <2>1 DEF Status
  <2>3. Follows("DRAFT", to)
    BY <2>2
  <2>4. to \in {"PREPARING", "CANCELLED"}
    BY <2>3 DEF Follows
  <2> QED  BY <1>2, <2>3, <2>4
<1>3. CASE Len(j.done) = 1
  <2>1. j.done # <<>>
    BY <1>3, JobFields
  <2>2. Status(j) = j.done[1].status
    BY <1>3, <2>1 DEF Status, Last
  <2>3. Follows("DRAFT", j.done[1].status) /\ Follows(j.done[1].status, to)
    BY <1>3, <2>2 DEF JobOK
  <2>4. j.done[1].status = "PREPARING" /\ to \in {"READY", "CANCELLED"}
    BY <2>3 DEF Follows
  <2> QED  BY <1>3, <2>3, <2>4
<1>4. CASE Len(j.done) = 2
  <2>1. j.done # <<>> /\ Status(j) = j.done[2].status
    BY <1>4, JobFields DEF Status, Last
  <2> QED  BY <1>4, <2>1 DEF Follows, JobOK
<1> QED  BY <1>1, <1>2, <1>3, <1>4

\* One step more of a job, whose status allows it.
LEMMA JobGoesOn ==
    ASSUME NEW j \in Jobs, JobOK(j), NEW e \in Entry, Follows(Status(j), e.status),
           j.kind = "batch" /\ e.status = "PREPARING" => e.data = 1,
           NEW new, new = [j EXCEPT !.done = Append(@, e)]
    PROVE  /\ new \in Jobs /\ JobOK(new)
           /\ new.kind = j.kind /\ new.inputs = j.inputs
           /\ Len(new.done) = Len(j.done) + 1 /\ new.done[Len(j.done) + 1] = e
           /\ \A i \in 1..Len(j.done) : new.done[i] = j.done[i]
           /\ Began(new) <=> Began(j) \/ e.status = "PREPARING"
           /\ e.status = "PREPARING" => ~Began(j) /\ ~Ended(j)
                                        /\ UsedBy(new) = IF j.kind = "run" THEN e.data ELSE 1
           /\ e.status # "PREPARING" /\ Began(j) => UsedBy(new) = UsedBy(j)
           /\ Ended(new) <=> e.status = "READY"
           /\ ~Ended(j)
           /\ e.status = "READY" => MadeBy(new) = e.data
<1>0. /\ j.done \in Seq(Entry) /\ Len(j.done) \in Nat /\ j # None
      /\ e.status \in Statuses /\ e.data \in Amounts
  BY JobFields DEF Entry
<1>1. /\ new.done = Append(j.done, e) /\ new.kind = j.kind /\ new.inputs = j.inputs
      /\ new \in Jobs
  <2> DEFINE longer == Append(j.done, e)
  <2>1. longer \in Seq(Entry)
    BY <1>0
  <2>2. new = [j EXCEPT !.done = longer]
    OBVIOUS
  <2> HIDE DEF longer
  <2>3. j \in [kind : {"batch", "run"}, inputs : Recipes \union {<<Raw>>}, done : Seq(Entry)]
    BY DEF Jobs, Entry
  <2>4. /\ new.done = longer /\ new.kind = j.kind /\ new.inputs = j.inputs
        /\ new \in [kind : {"batch", "run"}, inputs : Recipes \union {<<Raw>>}, done : Seq(Entry)]
    BY <2>1, <2>2, <2>3
  <2> QED  BY <2>4 DEF Jobs, Entry, longer
<1>2. /\ Len(new.done) = Len(j.done) + 1 /\ new.done[Len(j.done) + 1] = e
      /\ \A i \in 1..Len(j.done) : new.done[i] = j.done[i]
  BY <1>0, <1>1
<1>3. new # None
  BY <1>1, JobFields
<1> HIDE DEF Jobs
<1>4. CASE Len(j.done) = 0
  <2>1. e.status \in {"PREPARING", "CANCELLED"} /\ Follows("DRAFT", e.status)
    BY <1>4, JobLife
  <2>2. Len(new.done) = 1 /\ new.done[1] = e
    BY <1>2, <1>4
  <2>3. JobOK(new)
    BY <1>1, <2>1, <2>2 DEF JobOK
  <2> QED  BY <1>0, <1>1, <1>2, <1>3, <1>4, <2>1, <2>2, <2>3 DEF Began, Ended, UsedBy
<1>5. CASE Len(j.done) = 1
  <2>1. /\ e.status \in {"READY", "CANCELLED"} /\ j.done[1].status = "PREPARING"
        /\ Follows("PREPARING", e.status)
    BY <1>5, JobLife
  <2>2. Len(new.done) = 2 /\ new.done[1] = j.done[1] /\ new.done[2] = e
    BY <1>2, <1>5
  <2>3. JobOK(new)
    BY <1>1, <1>5, <2>1, <2>2 DEF JobOK
  <2> QED  BY <1>0, <1>1, <1>2, <1>3, <1>5, <2>1, <2>2, <2>3 DEF Began, Ended, UsedBy, MadeBy
<1> QED  BY <1>4, <1>5, JobLife

\* The rows that a request locks.
LEMMA RowsOf ==
    ASSUME NEW r, RequestOK(r), job \in [Keys -> Jobs \union {None}]
    PROVE  /\ r.op = "act" => job[r.key] \in Jobs /\ StockNeeded(r) \subseteq Products
           /\ FirstRow(r) \in Rows /\ FirstRow(r) = <<IF r.op = "act" THEN "job" ELSE "key", r.key>>
           /\ OtherRows(r) \subseteq Rows /\ FirstRow(r) \notin OtherRows(r)
           /\ \A row \in OtherRows(r) :
                \/ r.op = "publish" /\ row = <<"recipe", None>>
                \/ /\ r.op = "act" /\ row[2] \in StockNeeded(r)
                   /\ row = <<"stock", row[2]>>
           /\ r.op = "publish" => OtherRows(r) = {<<"recipe", None>>}
           /\ r.op = "act" => \A p \in StockNeeded(r) : <<"stock", p>> \in OtherRows(r)
<1>1. /\ r.op \in {"publish", "plan", "act"} /\ r.key \in Keys
      /\ r.op = "act" => r.status \in Statuses
  BY RequestFields DEF RequestOK
<1>2. ASSUME r.op = "act"
      PROVE  job[r.key] \in Jobs /\ StockNeeded(r) \subseteq Products
  <2>1. job[r.key] \in Jobs
    BY <1>1, <1>2 DEF RequestOK
  <2>2. Range(job[r.key].inputs) \subseteq Products
    BY <2>1, JobFields
  <2> QED  BY <1>1, <1>2, <2>1, <2>2, WorkshopAssumption DEF StockNeeded, Statuses
<1>3. FirstRow(r) \in Rows /\ FirstRow(r) = <<IF r.op = "act" THEN "job" ELSE "key", r.key>>
  BY <1>1 DEF FirstRow, Rows
<1>4. CASE r.op = "publish"
  <2>1. OtherRows(r) = {<<"recipe", None>>}
    BY <1>4 DEF OtherRows
  <2>2. "publish" # "act" /\ "recipe" # "key"
    OBVIOUS
  <2> QED  BY <1>3, <1>4, <2>1, <2>2 DEF Rows
<1>5. CASE r.op = "plan"
  BY <1>3, <1>5 DEF OtherRows
<1>6. CASE r.op = "act"
  <2>1. OtherRows(r) = {"stock"} \X StockNeeded(r)
    BY <1>6 DEF OtherRows
  <2>2. StockNeeded(r) \subseteq Products
    BY <1>2, <1>6
  <2> HIDE DEF StockNeeded
  <2> QED  BY <1>2, <1>3, <1>6, <2>1, <2>2 DEF Rows
<1> QED  BY <1>1, <1>4, <1>5, <1>6

-----------------------------------------------------------------------------
(* Steps that leave the tables alone.                                      *)

tables == <<published, job, stock>>

LEMMA Typed ==
    ASSUME TypeOK
    PROVE  /\ call \in [Calls -> CallType] /\ page \in [Users -> PageType]
           /\ job \in [Keys -> Jobs \union {None}] /\ stock \in [Products -> Nat]
           /\ published \in Seq(VersionType) /\ Len(published) \in Nat
           /\ DOMAIN published = 1..Len(published)
BY DEF TypeOK, CallType, PageType, VersionType

LEMMA TablesFrame ==
    ASSUME Tables, UNCHANGED tables, call' \in [Calls -> CallType], page' \in [Users -> PageType]
    PROVE  Tables'
<1>1. TypeOK'
  BY DEF Tables, tables, TypeOK, CallType, PageType
<1>2. Chain' /\ JobsOK'
  BY DEF Tables, tables, Chain, JobsOK
<1>3. Books'
  BY DEF Tables, tables, Books
<1> QED  BY <1>1, <1>2, <1>3 DEF Tables

\* What is said of a request, a call or a page depends on the tables only.
LEMMA SameFacts ==
    ASSUME UNCHANGED tables, NEW t
    PROVE  /\ CallOK(t) => CallOK(t)'
           /\ PageOK(t) => PageOK(t)'
<1>1. published' = published /\ job' = job /\ stock' = stock
  BY DEF tables
<1>2. CallOK(t) => CallOK(t)'
  BY <1>1 DEF CallOK, RequestOK, Carried, Working, Going, Passes, Taken, OtherRows, StockNeeded,
              PlannedInputs, Published
<1>3. PageOK(t) => PageOK(t)'
  BY <1>1 DEF PageOK, RequestOK, Carried, PlannedInputs
<1> QED  BY <1>2, <1>3

\* One call becomes another that is as it should be.
LEMMA CallsFrame ==
    ASSUME IInv, UNCHANGED tables, NEW c \in Calls, NEW new \in CallType, CallOK(new),
           call' = [call EXCEPT ![c] = new],
           \A d \in Calls \ {c} : new.held \intersect call[d].held = {}
    PROVE  /\ call' \in [Calls -> CallType] /\ CallsOK' /\ Apart'
           /\ call'[c] = new /\ \A d \in Calls \ {c} : call'[d] = call[d]
<1>1. /\ call' \in [Calls -> CallType]
      /\ call'[c] = new /\ \A d \in Calls \ {c} : call'[d] = call[d]
  BY Typed DEF IInv, Tables
<1>2. Apart'
  BY <1>1 DEF IInv, Apart
<1>3. ASSUME NEW d \in Calls
      PROVE  CallOK(call[d])'
  <2> DEFINE t == IF d = c THEN new ELSE call[d]
  <2>1. PICK u : u = t
    OBVIOUS
  <2>2. CallOK(u) /\ call'[d] = u
    BY <1>1, <2>1 DEF IInv, CallsOK
  <2>3. CallOK(u)'
    BY <2>2, SameFacts
  <2> QED  BY <2>2, <2>3
<1> QED  BY <1>1, <1>2, <1>3 DEF CallsOK

\* One page becomes another that is as it should be.
LEMMA PagesFrame ==
    ASSUME IInv, UNCHANGED tables, NEW u \in Users, NEW new \in PageType, PageOK(new),
           page' = [page EXCEPT ![u] = new]
    PROVE  /\ page' \in [Users -> PageType] /\ PagesOK'
           /\ page'[u] = new /\ \A v \in Users \ {u} : page'[v] = page[v]
<1>1. /\ page' \in [Users -> PageType]
      /\ page'[u] = new /\ \A v \in Users \ {u} : page'[v] = page[v]
  BY Typed DEF IInv, Tables
<1>2. ASSUME NEW v \in Users
      PROVE  PageOK(page[v])'
  <2> DEFINE t == IF v = u THEN new ELSE page[v]
  <2>1. PICK w : w = t
    OBVIOUS
  <2>2. PageOK(w) /\ page'[v] = w
    BY <1>1, <2>1 DEF IInv, PagesOK
  <2>3. PageOK(w)'
    BY <2>2, SameFacts
  <2> QED  BY <2>2, <2>3
<1> QED  BY <1>1, <1>2 DEF PagesOK

\* A new plan has a key of its own.
LEMMA AlikeFrame ==
    ASSUME Alike, NEW r, Abroad' \subseteq Abroad \union {r},
           r.op = "plan" => \A s \in Abroad : s.op = "plan" /\ s.key = r.key => s = r
    PROVE  Alike'
BY DEF Alike

LEMMA CallStep ==
    ASSUME IInv, UNCHANGED tables, UNCHANGED page, NEW c \in Calls,
           NEW new \in CallType, CallOK(new), new.req \in {call[c].req, None},
           call' = [call EXCEPT ![c] = new],
           \A d \in Calls \ {c} : new.held \intersect call[d].held = {}
    PROVE  IInv'
<1>1. /\ call' \in [Calls -> CallType] /\ CallsOK' /\ Apart'
      /\ call'[c] = new /\ \A d \in Calls \ {c} : call'[d] = call[d]
  BY CallsFrame
<1>2. Tables'
  BY <1>1, TablesFrame, Typed DEF IInv, Tables
<1>3. PagesOK'
  <2> SUFFICES ASSUME NEW v \in Users
               PROVE  PageOK(page[v])'
    BY DEF PagesOK
  <2>1. PICK w : w = page[v]
    OBVIOUS
  <2>2. PageOK(w) /\ page'[v] = w
    BY <2>1 DEF IInv, PagesOK
  <2>3. PageOK(w)'
    BY <2>2, SameFacts
  <2> QED  BY <2>2, <2>3
<1>4. Abroad' \subseteq Abroad
  BY <1>1 DEF Abroad
<1>5. Alike'
  BY <1>4 DEF IInv, Alike
<1> QED  BY <1>1, <1>2, <1>3, <1>5 DEF IInv

\* A plan that is sent is the only one of its key.
OnlyPlan(r) ==
    r # None /\ r.op = "plan" => \A s \in Abroad : s.op = "plan" /\ s.key = r.key => s = r

LEMMA CallAndPageStep ==
    ASSUME IInv, UNCHANGED tables, NEW c \in Calls,
           NEW new \in CallType, CallOK(new), new.held = {},
           call' = [call EXCEPT ![c] = new],
           NEW u \in Users, NEW w \in PageType, PageOK(w), page' = [page EXCEPT ![u] = w],
           w.attempt \in {page[u].attempt, None, new.req}, OnlyPlan(new.req)
    PROVE  IInv'
<1>1. /\ call' \in [Calls -> CallType] /\ CallsOK' /\ Apart'
      /\ call'[c] = new /\ \A d \in Calls \ {c} : call'[d] = call[d]
  BY CallsFrame
<1>2. /\ page' \in [Users -> PageType] /\ PagesOK'
      /\ page'[u] = w /\ \A v \in Users \ {u} : page'[v] = page[v]
  BY PagesFrame
<1>3. Tables'
  BY <1>1, <1>2, TablesFrame DEF IInv
<1>4. Abroad' \subseteq (Abroad \union {new.req}) \ {None}
  BY <1>1, <1>2 DEF Abroad
<1>5. Alike'
  <2>1. CASE new.req = None
    BY <1>4, <2>1 DEF IInv, Alike
  <2>2. CASE new.req # None
    BY <1>4, <2>2, AlikeFrame DEF IInv, OnlyPlan
  <2> QED  BY <2>1, <2>2
<1> QED  BY <1>1, <1>2, <1>3, <1>5 DEF IInv

\* A call that is answered, by what it did or by what was done before.
LEMMA AnswerFields ==
    ASSUME IInv, NEW c \in Calls, NEW a \in {"ok", "refused", "denied"}, Answer(c, a),
           call[c].step # "free"
    PROVE  \E new \in CallType :
              /\ call' = [call EXCEPT ![c] = new]
              /\ new.held = {} /\ new.todo = {} /\ new.step = "answered" /\ new.answer = a
              /\ new.by = call[c].by /\ new.req = call[c].req /\ new.awaited = call[c].awaited
              /\ (a = "ok" => Carried(new.req)) => CallOK(new)
<1> DEFINE new == [call[c] EXCEPT !.step = "answered", !.answer = a, !.held = {}, !.todo = {}]
<1>1. call[c] \in CallType /\ CallOK(call[c])
  BY Typed DEF IInv, Tables, CallsOK
<1>2. /\ new \in CallType
      /\ new.held = {} /\ new.todo = {} /\ new.step = "answered" /\ new.answer = a
      /\ new.by = call[c].by /\ new.req = call[c].req /\ new.awaited = call[c].awaited
  BY <1>1 DEF CallType
<1>3. call' = [call EXCEPT ![c] = new]
  BY DEF Answer
<1> HIDE DEF new
<1>4. (a = "ok" => Carried(new.req)) => CallOK(new)
  BY <1>1, <1>2 DEF CallOK
<1> QED  BY <1>2, <1>3, <1>4

LEMMA AnswerKeeps ==
    ASSUME IInv, NEW c \in Calls, NEW a \in {"ok", "refused", "denied"}, Answer(c, a),
           call[c].step # "free", a = "ok" => Carried(call[c].req),
           UNCHANGED tables, UNCHANGED page
    PROVE  IInv'
<1> PICK new \in CallType :
              /\ call' = [call EXCEPT ![c] = new]
              /\ new.held = {} /\ new.todo = {} /\ new.step = "answered" /\ new.answer = a
              /\ new.by = call[c].by /\ new.req = call[c].req /\ new.awaited = call[c].awaited
              /\ (a = "ok" => Carried(new.req)) => CallOK(new)
  BY AnswerFields
<1> QED  BY CallStep

\* What was already carried out is in the tables.
LEMMA AgainIsCarried ==
    ASSUME Tables, NEW r, RequestOK(r), Verdict(r) = "again"
    PROVE  Carried(r)
<1>0. RequestOK(r) /\ r \in Requests /\ r.op \in {"publish", "plan", "act"} /\ r.key \in Keys
  BY RequestFields DEF RequestOK
<1>1. CASE r.op = "publish"
  <2>1. PublishVerdict(r) = "again"
    BY <1>1 DEF Verdict
  <2>2. PICK i \in DOMAIN published : /\ published[i].key = r.key
                                      /\ published[i].on = r.expected
                                      /\ published[i].inputs = r.inputs
    BY <2>1 DEF PublishVerdict
  <2>3. i \in 1..Len(published) /\ Len(published) \in Nat /\ r.expected = i - 1
    BY <2>2, Typed DEF Tables, Chain
  <2>4. r.expected < Len(published) /\ r.expected + 1 = i
    BY <2>3
  <2> QED  BY <1>1, <2>2, <2>4 DEF Carried
<1>2. CASE r.op = "plan"
  BY <1>2 DEF Verdict, RunPlanVerdict, BatchPlanVerdict, Carried
<1>3. CASE r.op = "act"
  <2> DEFINE j == job[r.key]
  <2>1. j \in Jobs /\ JobOK(j) /\ j # None
    BY <1>0, <1>3, Typed DEF Tables, JobsOK, RequestOK
  <2>2. r.version \in 0..3 /\ r.status \in Statuses /\ r.data \in Amounts
    BY <1>0, <1>3, RequestFields
  <2>3. /\ Retried(j, r)
        /\ \/ j.kind = "run" /\ SameRunAction(j, r)
           \/ j.kind = "batch" /\ SameBatchAction(j, r)
    BY <1>3, <2>1, JobFields DEF Verdict, RunVerdict, BatchVerdict
  <2> HIDE DEF j
  <2>4. /\ j.done \in Seq(Entry) /\ Len(j.done) \in Nat
        /\ \A i \in 1..Len(j.done) : j.done[i] \in Entry
    BY <2>1, JobFields
  <2>5. Len(j.done) = r.version + 1
    BY <2>3 DEF Retried, Version
  <2>6. r.version + 1 \in 1..Len(j.done) /\ r.version < Len(j.done)
    BY <2>2, <2>4, <2>5
  <2>7. Last(j.done) = j.done[r.version + 1] /\ Last(j.done) \in Entry
    BY <2>4, <2>5, <2>6 DEF Last
  <2>8. Last(j.done).status = r.status
    <3>1. j.done # <<>>
      BY <2>4, <2>6
    <3> QED  BY <2>3, <3>1 DEF Retried, Status
  <2>9. Last(j.done).data = r.data
    <3>1. CASE j.kind = "run" \/ r.status # "PREPARING"
      BY <2>3, <3>1 DEF SameRunAction, SameBatchAction
    <3>2. CASE j.kind = "batch" /\ r.status = "PREPARING"
      <4>1. r.data = 1
        BY <1>3, <3>2 DEF RequestOK, j
      <4>2. Len(j.done) = 1 \/ Len(j.done) = 2
        <5> DEFINE n == Len(j.done)
        <5>1. n \in Nat /\ n >= 1 /\ n <= 2
          BY <2>1, <2>2, <2>4, <2>5 DEF JobOK
        <5> HIDE DEF n
        <5>2. n = 1 \/ n = 2
          BY <5>1
        <5> QED  BY <5>2 DEF n
      <4>3. CASE Len(j.done) = 1
        <5>1. Last(j.done) = j.done[1]
          BY <4>3 DEF Last
        <5> QED  BY <2>1, <2>8, <3>2, <4>1, <4>3, <5>1 DEF JobOK
      <4>4. CASE Len(j.done) = 2
        <5>1. Last(j.done) = j.done[2]
          BY <4>4 DEF Last
        <5> QED  BY <2>1, <2>8, <3>2, <4>4, <5>1 DEF JobOK, Follows
      <4> QED  BY <4>2, <4>3, <4>4
    <3> QED  BY <2>1, <3>1, <3>2, JobFields
  <2>10. j.done[r.version + 1] = [status |-> r.status, data |-> r.data]
    BY <2>7, <2>8, <2>9 DEF Entry
  <2> QED  BY <1>3, <2>6, <2>10 DEF Carried, Version, j
<1> QED  BY <1>0, <1>1, <1>2, <1>3

LEMMA CallFields ==
    ASSUME IInv, NEW c \in Calls
    PROVE  /\ call[c] \in CallType /\ CallOK(call[c])
           /\ job \in [Keys -> Jobs \union {None}]
           /\ call[c].step # "free" => call[c].by \in Users /\ RequestOK(call[c].req)
BY Typed DEF IInv, Tables, CallsOK, CallOK

\* What is asked and may be done is not in the tables yet.
LEMMA GoIsGoing ==
    ASSUME Tables, NEW r, RequestOK(r), Verdict(r) = "go"
    PROVE  Going(r)
<1>0. r.op \in {"publish", "plan", "act"}
  BY RequestFields DEF RequestOK
<1>1. CASE r.op = "publish"
  BY <1>1 DEF Verdict, PublishVerdict, Going, Published
<1>2. CASE r.op = "plan"
  BY <1>2 DEF Verdict, RunPlanVerdict, BatchPlanVerdict, Going
<1>3. CASE r.op = "act"
  BY <1>3 DEF Verdict, RunVerdict, BatchVerdict, Going
<1> QED  BY <1>0, <1>1, <1>2, <1>3

LEMMA BeginKeeps ==
    ASSUME IInv, NEW c \in Calls, Begin(c)
    PROVE  IInv'
<1> DEFINE r == call[c].req
<1>0. /\ call[c].step = "sent" /\ Unlocked(c, FirstRow(r)) /\ UNCHANGED tables /\ UNCHANGED page
      /\ CASE Verdict(r) = "again" -> Answer(c, "ok")
           [] Verdict(r) = "refused" -> Answer(c, "refused")
           [] Verdict(r) = "go" ->
                  call' = [call EXCEPT ![c].step = "working", ![c].held = {FirstRow(r)},
                                       ![c].todo = OtherRows(r)]
  BY DEF Begin, tables
<1>1. RequestOK(r) /\ call[c] \in CallType /\ call[c].by \in Users /\ Tables
  BY <1>0, CallFields DEF IInv
<1>2. Verdict(r) \in {"again", "refused", "go"}
  <2>1. r.op \in {"publish", "plan", "act"}
    BY <1>1, RequestFields DEF RequestOK
  <2> QED  BY <2>1 DEF Verdict, PublishVerdict, RunPlanVerdict, BatchPlanVerdict, RunVerdict, BatchVerdict
<1>3. CASE Verdict(r) = "again"
  BY <1>0, <1>1, <1>3, AgainIsCarried, AnswerKeeps
<1>4. CASE Verdict(r) = "refused"
  BY <1>0, <1>4, AnswerKeeps
<1>5. CASE Verdict(r) = "go"
  <2> DEFINE new == [call[c] EXCEPT !.step = "working", !.held = {FirstRow(r)}, !.todo = OtherRows(r)]
  <2>0. job \in [Keys -> Jobs \union {None}]
    BY CallFields
  <2>1. /\ FirstRow(r) \in Rows /\ FirstRow(r) = <<IF r.op = "act" THEN "job" ELSE "key", r.key>>
        /\ OtherRows(r) \subseteq Rows /\ FirstRow(r) \notin OtherRows(r)
    BY <1>1, <2>0, RowsOf
  <2>2. /\ new \in CallType /\ new.step = "working" /\ new.held = {FirstRow(r)}
        /\ new.todo = OtherRows(r) /\ new.req = r /\ new.by = call[c].by
    BY <1>1, <2>1 DEF CallType
  <2>3. call' = [call EXCEPT ![c] = new]
    BY <1>0, <1>5
  <2> HIDE DEF new
  <2>4. Going(r)
    BY <1>1, <1>5, GoIsGoing
  <2>5. FirstRow(r)[1] \in {"job", "key"}
    BY <2>1
  <2>6. Passes(r, FirstRow(r))
    BY <2>5 DEF Passes
  <2>7. Working(new)
    <3> HIDE DEF r
    <3> QED  BY <2>1, <2>2, <2>4, <2>5, <2>6 DEF Working
  <2>8. CallOK(new)
    BY <1>1, <2>2, <2>7 DEF CallOK
  <2>9. \A d \in Calls \ {c} : new.held \intersect call[d].held = {}
    BY <1>0, <2>2 DEF Unlocked
  <2> QED  BY <1>0, <2>2, <2>3, <2>8, <2>9, CallStep
<1> QED  BY <1>2, <1>3, <1>4, <1>5

LEMMA LockNextKeeps ==
    ASSUME IInv, NEW c \in Calls, LockNext(c)
    PROVE  IInv'
<1> DEFINE r == call[c].req
<1>0. call[c].step = "working" /\ UNCHANGED tables /\ UNCHANGED page
  BY DEF LockNext, tables
<1> PICK row \in NextRows(call[c].todo) :
        /\ Unlocked(c, row)
        /\ IF Passes(r, row)
           THEN call' = [call EXCEPT ![c].held = @ \union {row}, ![c].todo = @ \ {row}]
           ELSE Answer(c, "refused")
  BY DEF LockNext
<1>1. CASE ~Passes(r, row)
  BY <1>0, <1>1, AnswerKeeps
<1>2. CASE Passes(r, row)
  <2> DEFINE new == [call[c] EXCEPT !.held = @ \union {row}, !.todo = @ \ {row}]
  <2>0. /\ call[c] \in CallType /\ RequestOK(r) /\ Working(call[c]) /\ call[c].by \in Users
        /\ job \in [Keys -> Jobs \union {None}]
    BY <1>0, CallFields DEF CallOK
  <2>1. /\ row \in call[c].todo
        /\ row[1] = "stock" => \A other \in call[c].todo : row[2] <= other[2]
    BY DEF NextRows
  <2>2. /\ new \in CallType /\ new.step = "working" /\ new.held = call[c].held \union {row}
        /\ new.todo = call[c].todo \ {row} /\ new.req = r /\ new.by = call[c].by
    BY <1>0, <2>0, <2>1 DEF CallType
  <2>3. call' = [call EXCEPT ![c] = new]
    BY <1>2
  <2> HIDE DEF new
  <2>4. call[c].todo \subseteq OtherRows(r) /\ row \in OtherRows(r)
    BY <2>0, <2>1 DEF Working
  <2>5. ASSUME NEW other \in new.todo, row[1] = "stock", other[1] = "stock"
        PROVE  row[2] < other[2]
    <3>1. other \in OtherRows(r) /\ other # row /\ row[2] <= other[2]
      BY <2>1, <2>2, <2>4, <2>5
    <3>2. StockNeeded(r) \subseteq Nat
      <4>1. r.op = "act"
        BY <2>0, <2>4, <2>5, RowsOf
      <4> QED  BY <2>0, <4>1, RowsOf, Numbers
    <3>3. /\ row = <<"stock", row[2]>> /\ other = <<"stock", other[2]>>
          /\ row[2] \in StockNeeded(r) /\ other[2] \in StockNeeded(r)
      BY <2>0, <2>4, <2>5, <3>1, RowsOf
    <3>4. row[2] # other[2]
      BY <3>1, <3>3
    <3>5. row[2] \in Nat /\ other[2] \in Nat
      BY <3>2, <3>3
    <3> QED  BY <3>1, <3>4, <3>5
  <2>6. new.held = ({FirstRow(r)} \union OtherRows(r)) \ new.todo
    BY <2>0, <2>1, <2>2, <2>4 DEF Working
  <2>7. \A one \in new.held, other \in new.todo :
            one[1] = "stock" /\ other[1] = "stock" => one[2] < other[2]
    BY <2>0, <2>2, <2>5 DEF Working
  <2>8. Working(new)
    BY <1>2, <2>0, <2>2, <2>4, <2>6, <2>7 DEF Working
  <2>9. CallOK(new)
    BY <2>0, <2>2, <2>8 DEF CallOK
  <2>10. \A d \in Calls \ {c} : new.held \intersect call[d].held = {}
    BY <2>2 DEF Unlocked, IInv, Apart
  <2> QED  BY <1>0, <2>2, <2>3, <2>9, <2>10, CallStep
<1> QED  BY <1>1, <1>2

\* A call at rest holds nothing.
LEMMA NoCallFields ==
    /\ NoCall \in CallType /\ NoCall.step = "free" /\ NoCall.held = {} /\ NoCall.todo = {}
    /\ NoCall.req = None /\ NoCall.awaited = FALSE /\ CallOK(NoCall)
BY DEF NoCall, CallType, CallOK

LEMMA TurnAwayKeeps ==
    ASSUME IInv, NEW c \in Calls, TurnAway(c)
    PROVE  IInv'
<1> PICK answer \in {"refused", "denied"} : Answer(c, answer)
  BY DEF TurnAway
<1>1. call[c].step = "sent" /\ UNCHANGED tables /\ UNCHANGED page
  BY DEF TurnAway, tables
<1>2. answer \in {"ok", "refused", "denied"} /\ answer # "ok"
  OBVIOUS
<1> QED  BY <1>1, <1>2, AnswerKeeps

LEMMA LostKeeps ==
    ASSUME IInv, NEW c \in Calls, Lost(c)
    PROVE  IInv'
BY NoCallFields, CallStep DEF Lost, tables

LEMMA PageFields ==
    ASSUME IInv, NEW u \in Users
    PROVE  page[u] \in PageType /\ PageOK(page[u])
BY Typed DEF IInv, Tables, PagesOK

LEMMA ReceiveKeeps ==
    ASSUME IInv, NEW c \in Calls, Receive(c)
    PROVE  IInv'
<1> DEFINE u == call[c].by
           r == call[c].req
           kept == IF Keeps(u, r, call[c].answer) THEN page[u].attempt ELSE None
           note == IF call[c].answer = "ok" THEN r ELSE None
           w == [page[u] EXCEPT !.waits = FALSE, !.attempt = kept, !.notice = note]
<1>0. /\ call[c].step = "answered" /\ UNCHANGED tables
      /\ page' = [page EXCEPT ![u] = w] /\ call' = [call EXCEPT ![c] = NoCall]
  BY DEF Receive, tables
<1>1. u \in Users /\ RequestOK(r) /\ (call[c].answer = "ok" => Carried(r))
  BY <1>0, CallFields DEF CallOK
<1>2. page[u] \in PageType /\ PageOK(page[u])
  BY <1>1, PageFields
<1>3. kept \in {page[u].attempt, None} /\ (note # None => note = r /\ Carried(r))
  BY <1>1
<1>4. r \in Requests
  BY <1>1 DEF RequestOK
<1> HIDE DEF kept, note, r
<1>5. note \in Requests \union {None}
  BY <1>4 DEF note
<1>6. /\ w \in PageType /\ w.attempt = kept /\ w.notice = note
      /\ w.revision = page[u].revision /\ w.seen = page[u].seen
  BY <1>2, <1>3, <1>5 DEF PageType
<1> HIDE DEF w
<1>7. PageOK(w)
  BY <1>1, <1>2, <1>3, <1>6 DEF PageOK
<1>8. /\ OnlyPlan(NoCall.req) /\ w.attempt \in {page[u].attempt, None, NoCall.req}
      /\ NoCall \in CallType /\ NoCall.held = {} /\ CallOK(NoCall)
  BY <1>3, <1>6, NoCallFields DEF OnlyPlan
<1> HIDE DEF u
<1> QED  BY <1>0, <1>1, <1>6, <1>7, <1>8, CallAndPageStep

LEMMA GiveUpKeeps ==
    ASSUME IInv, NEW c \in Calls, GiveUp(c)
    PROVE  IInv'
<1> DEFINE u == call[c].by
           w == [page[u] EXCEPT !.waits = FALSE]
           new == [call[c] EXCEPT !.awaited = FALSE]
<1>0. /\ call[c].awaited /\ UNCHANGED tables
      /\ page' = [page EXCEPT ![u] = w] /\ call' = [call EXCEPT ![c] = new]
  BY DEF GiveUp, tables
<1>1. call[c] \in CallType /\ CallOK(call[c])
  BY CallFields
<1>2. call[c].step # "free"
  BY <1>0, <1>1, NoCallFields DEF CallOK
<1>3. u \in Users
  BY <1>2, CallFields
<1>4. page[u] \in PageType /\ PageOK(page[u])
  BY <1>3, PageFields
<1>5. /\ w \in PageType /\ w.attempt = page[u].attempt /\ w.notice = page[u].notice
      /\ w.revision = page[u].revision /\ w.seen = page[u].seen
  BY <1>4 DEF PageType
<1>6. /\ new \in CallType /\ new.step = call[c].step /\ new.req = call[c].req /\ new.by = call[c].by
      /\ new.held = call[c].held /\ new.todo = call[c].todo /\ new.answer = call[c].answer
  BY <1>1 DEF CallType
<1> HIDE DEF w, new, u
<1>7. PageOK(w) /\ CallOK(new)
  BY <1>1, <1>2, <1>4, <1>5, <1>6 DEF PageOK, CallOK, Working
<1>8. \A d \in Calls \ {c} : new.held \intersect call[d].held = {}
  BY <1>6 DEF IInv, Apart
<1>9. /\ call' \in [Calls -> CallType] /\ CallsOK' /\ Apart'
      /\ call'[c] = new /\ \A d \in Calls \ {c} : call'[d] = call[d]
  BY <1>0, <1>6, <1>7, <1>8, CallsFrame
<1>10. /\ page' \in [Users -> PageType] /\ PagesOK'
      /\ page'[u] = w /\ \A v \in Users \ {u} : page'[v] = page[v]
  BY <1>0, <1>3, <1>5, <1>7, PagesFrame
<1>11. Abroad' \subseteq Abroad
  BY <1>3, <1>5, <1>6, <1>9, <1>10 DEF Abroad
<1>12. Alike'
  BY <1>11 DEF IInv, Alike
<1> QED  BY <1>0, <1>9, <1>10, <1>12, TablesFrame DEF IInv

-----------------------------------------------------------------------------
(* What the pages send.                                                    *)

\* A request sent by a page that keeps it, or keeps nothing of it.
LEMMA SendKeeps ==
    ASSUME IInv, NEW u \in Users, NEW r, RequestOK(r), Send(u, r), UNCHANGED tables,
           NEW w \in PageType, page' = [page EXCEPT ![u] = w],
           w.attempt \in {page[u].attempt, r}, w.notice = None,
           w.revision = page[u].revision, w.seen = page[u].seen,
           OnlyPlan(r)
    PROVE  IInv'
<1> DEFINE new == [NoCall EXCEPT !.step = "sent", !.by = u, !.awaited = TRUE, !.req = r]
<1> PICK c \in Calls : call[c].step = "free" /\ call' = [call EXCEPT ![c] = new]
  BY DEF Send
<1>1. r \in Requests /\ r # None
  BY RequestFields DEF RequestOK
<1>2. /\ new \in CallType /\ new.step = "sent" /\ new.by = u /\ new.req = r
      /\ new.held = {} /\ new.todo = {}
  BY <1>1 DEF CallType, NoCall
<1> HIDE DEF new
<1>3. CallOK(new)
  BY <1>2 DEF CallOK
<1>4. PageOK(page[u])
  BY PageFields
<1>5. PageOK(w)
  BY <1>4 DEF PageOK
<1>6. /\ OnlyPlan(new.req) /\ w.attempt \in {page[u].attempt, None, new.req}
      /\ new \in CallType /\ new.held = {} /\ call' = [call EXCEPT ![c] = new]
  BY <1>2
<1> QED  BY <1>3, <1>5, <1>6, CallAndPageStep

\* A fresh key is that of no request.
LEMMA FreshKey ==
    ASSUME NEW k \in Keys, Fresh(k)
    PROVE  job[k] = None /\ ~Published(k) /\ \A s \in Abroad : s.key # k
BY DEF Fresh, Abroad

\* A call that its page keeps.
LEMMA RecordKeeps ==
    ASSUME IInv, NEW u \in Users, NEW r, RequestOK(r), Record(u, r),
           r.op = "plan" => \A s \in Abroad : s.key # r.key
    PROVE  IInv'
<1> DEFINE w == [page[u] EXCEPT !.attempt = r, !.waits = TRUE, !.notice = None]
<1>1. page[u] \in PageType /\ r \in Requests
  BY PageFields DEF RequestOK
<1>2. /\ w \in PageType /\ w.attempt = r /\ w.notice = None
      /\ w.revision = page[u].revision /\ w.seen = page[u].seen
  BY <1>1 DEF PageType
<1>3. page' = [page EXCEPT ![u] = w] /\ Send(u, r) /\ UNCHANGED tables
  BY DEF Record, tables
<1> HIDE DEF w
<1>4. OnlyPlan(r)
  BY DEF OnlyPlan
<1> QED  BY <1>2, <1>3, <1>4, SendKeeps

LEMMA PressPublishKeeps ==
    ASSUME IInv, NEW u \in Users, PressPublish(u)
    PROVE  IInv'
<1> PICK k \in Keys, inputs \in Recipes :
        Record(u, [op |-> "publish", key |-> k, expected |-> page[u].revision, inputs |-> inputs])
  BY DEF PressPublish
<1> DEFINE r == [op |-> "publish", key |-> k, expected |-> page[u].revision, inputs |-> inputs]
<1>1. page[u].revision \in 1..MaxRevision /\ page[u].revision < MaxRevision
  BY PageFields DEF PageType, PressPublish
<1>2. r \in Requests
  BY <1>1 DEF Requests
<1>3. r.op = "publish" /\ r.expected = page[u].revision
  OBVIOUS
<1>4. Record(u, r)
  OBVIOUS
<1> HIDE DEF r
<1>5. RequestOK(r)
  BY <1>1, <1>2, <1>3 DEF RequestOK
<1> QED  BY <1>3, <1>4, <1>5, RecordKeeps

LEMMA PressPlanRunKeeps ==
    ASSUME IInv, NEW u \in Users, PressPlanRun(u)
    PROVE  IInv'
<1> PICK k \in Keys :
        /\ Fresh(k)
        /\ Record(u, [op |-> "plan", key |-> k, kind |-> "run", revision |-> page[u].revision])
  BY DEF PressPlanRun
<1> DEFINE r == [op |-> "plan", key |-> k, kind |-> "run", revision |-> page[u].revision]
<1>1. page[u].revision \in 1..MaxRevision /\ page[u].revision <= Len(published)
  BY PageFields DEF PageType, PageOK
<1>2. r \in Requests
  BY <1>1 DEF Requests
<1>3. r.op = "plan" /\ r.kind = "run" /\ r.revision = page[u].revision /\ r.key = k
  OBVIOUS
<1>4. Record(u, r)
  OBVIOUS
<1> HIDE DEF r
<1>5. RequestOK(r) /\ \A s \in Abroad : s.key # r.key
  BY <1>1, <1>2, <1>3, FreshKey DEF RequestOK
<1> QED  BY <1>4, <1>5, RecordKeeps

LEMMA PressCreateBatchKeeps ==
    ASSUME IInv, NEW u \in Users, PressCreateBatch(u)
    PROVE  IInv'
<1> PICK k \in Keys : Fresh(k) /\ Record(u, [op |-> "plan", key |-> k, kind |-> "batch"])
  BY DEF PressCreateBatch
<1> DEFINE r == [op |-> "plan", key |-> k, kind |-> "batch"]
<1>2. r \in Requests
  BY DEF Requests
<1>3. r.op = "plan" /\ r.kind = "batch" /\ r.key = k
  OBVIOUS
<1>4. Record(u, r)
  OBVIOUS
<1> HIDE DEF r
<1>5. RequestOK(r) /\ \A s \in Abroad : s.key # r.key
  BY <1>2, <1>3, FreshKey DEF RequestOK
<1> QED  BY <1>4, <1>5, RecordKeeps

\* An action on a job that the page shows.
LEMMA ActionOK ==
    ASSUME IInv, NEW u \in Users, NEW k \in Keys, NEW status \in Statuses, NEW data \in Amounts,
           page[u].seen[k] >= 0,
           job[k].kind = "batch" /\ status = "PREPARING" => data = 1
    PROVE  RequestOK(ActionOf(u, k, status, data)) /\ ActionOf(u, k, status, data).op = "act"
<1> DEFINE r == ActionOf(u, k, status, data)
<1>1. page[u].seen[k] \in -1..3 /\ job[k] # None
  BY PageFields DEF PageType, PageOK
<1>2. page[u].seen[k] \in 0..3
  BY <1>1
<1>3. r \in Requests
  BY <1>2 DEF ActionOf, Requests
<1>4. r.op = "act" /\ r.key = k /\ r.status = status /\ r.data = data
  BY DEF ActionOf
<1> HIDE DEF r
<1>5. RequestOK(r)
  BY <1>1, <1>3, <1>4 DEF RequestOK
<1> QED  BY <1>4, <1>5 DEF r

LEMMA PressRunActionKeeps ==
    ASSUME IInv, NEW u \in Users, PressRunAction(u)
    PROVE  IInv'
<1> PICK k \in Keys, status \in Statuses, data \in Amounts :
        /\ page[u].seen[k] >= 0 /\ job[k].kind = "run"
        /\ Record(u, ActionOf(u, k, status, data))
  BY DEF PressRunAction
<1> QED  BY ActionOK, RecordKeeps

LEMMA PressBatchActionKeeps ==
    ASSUME IInv, NEW u \in Users, PressBatchAction(u)
    PROVE  IInv'
<1> PICK k \in Keys, status \in Statuses, data \in Amounts :
        /\ page[u].seen[k] >= 0 /\ job[k].kind = "batch"
        /\ status = "PREPARING" => data = 1
        /\ Send(u, ActionOf(u, k, status, data))
        /\ page' = [page EXCEPT ![u].waits = TRUE, ![u].notice = None]
  BY DEF PressBatchAction
<1> DEFINE w == [page[u] EXCEPT !.waits = TRUE, !.notice = None]
<1>1. page[u] \in PageType
  BY PageFields
<1>2. /\ w \in PageType /\ w.attempt = page[u].attempt /\ w.notice = None
      /\ w.revision = page[u].revision /\ w.seen = page[u].seen
  BY <1>1 DEF PageType
<1>3. page' = [page EXCEPT ![u] = w] /\ UNCHANGED tables
  BY DEF PressBatchAction, tables
<1> HIDE DEF w
<1>4. RequestOK(ActionOf(u, k, status, data)) /\ OnlyPlan(ActionOf(u, k, status, data))
  BY ActionOK DEF OnlyPlan
<1> QED  BY <1>2, <1>3, <1>4, SendKeeps

LEMMA RetryKeeps ==
    ASSUME IInv, NEW u \in Users, Retry(u)
    PROVE  IInv'
<1> DEFINE r == page[u].attempt
           w == [page[u] EXCEPT !.waits = TRUE, !.notice = None]
<1>0. /\ r # None /\ Send(u, r) /\ page' = [page EXCEPT ![u] = w] /\ UNCHANGED tables
  BY DEF Retry, tables
<1>1. page[u] \in PageType /\ RequestOK(r)
  BY <1>0, PageFields DEF PageOK
<1>2. /\ w \in PageType /\ w.attempt = page[u].attempt /\ w.notice = None
      /\ w.revision = page[u].revision /\ w.seen = page[u].seen
  BY <1>1 DEF PageType
<1>3. r \in Abroad
  BY <1>0 DEF Abroad
<1>4. OnlyPlan(r)
  BY <1>3 DEF IInv, Alike, OnlyPlan
<1> HIDE DEF w, r
<1> QED  BY <1>0, <1>1, <1>2, <1>4, SendKeeps

LEMMA ReloadKeeps ==
    ASSUME IInv, NEW u \in Users, Reload(u)
    PROVE  IInv'
<1> DEFINE last == Len(published)
           seen == [k \in Keys |-> IF job[k] = None THEN -1 ELSE Version(job[k])]
           w == [page[u] EXCEPT !.revision = last, !.seen = seen]
<1>0. page' = [page EXCEPT ![u] = w] /\ UNCHANGED tables /\ UNCHANGED call
  BY DEF Reload, tables
<1>1. page[u] \in PageType /\ PageOK(page[u])
  BY PageFields
<1>2. last \in 1..MaxRevision
  BY DEF IInv, Tables, Chain
<1>3. \A k \in Keys : job[k] # None => Version(job[k]) \in 0..2
  <2> SUFFICES ASSUME NEW k \in Keys, job[k] # None
               PROVE  Version(job[k]) \in 0..2
    OBVIOUS
  <2>1. job[k] \in Jobs /\ JobOK(job[k])
    BY Typed DEF IInv, Tables, JobsOK
  <2> DEFINE n == Len(job[k].done)
  <2>2. n \in Nat /\ n <= 2
    BY <2>1, JobFields DEF JobOK
  <2> HIDE DEF n
  <2>3. n \in 0..2
    BY <2>2
  <2> QED  BY <2>3 DEF n, Version
<1>4. seen \in [Keys -> -1..3] /\ \A k \in Keys : seen[k] >= 0 => job[k] # None
  BY <1>3
<1> HIDE DEF seen
<1>5. /\ w \in PageType /\ w.attempt = page[u].attempt /\ w.notice = page[u].notice
      /\ w.revision = last /\ w.seen = seen
  <2> HIDE DEF last
  <2> QED  BY <1>1, <1>2, <1>4 DEF PageType
<1> HIDE DEF w
<1>6. PageOK(w)
  BY <1>1, <1>2, <1>4, <1>5 DEF PageOK
<1>7. /\ page' \in [Users -> PageType] /\ PagesOK'
      /\ page'[u] = w /\ \A v \in Users \ {u} : page'[v] = page[v]
  BY <1>0, <1>5, <1>6, PagesFrame
<1>8. CallsOK'
  <2> SUFFICES ASSUME NEW d \in Calls
               PROVE  CallOK(call[d])'
    BY DEF CallsOK
  <2>1. PICK t : t = call[d]
    OBVIOUS
  <2>2. CallOK(t) /\ call'[d] = t
    BY <1>0, <2>1 DEF IInv, CallsOK
  <2>3. CallOK(t)'
    BY <1>0, <2>2, SameFacts
  <2> QED  BY <2>2, <2>3
<1>9. Apart' /\ Abroad' = Abroad
  BY <1>0, <1>5, <1>7 DEF IInv, Apart, Abroad
<1>10. Alike'
  BY <1>9 DEF IInv, Alike
<1> QED  BY <1>0, <1>7, <1>8, <1>9, <1>10, TablesFrame, Typed DEF IInv, Tables

-----------------------------------------------------------------------------
(* The books.                                                              *)

\* Jobs that took and made something did it in numbers; who made something took it.
LEMMA JobNumbers ==
    ASSUME NEW j \in Jobs, JobOK(j)
    PROVE  /\ Began(j) => UsedBy(j) \in Nat
           /\ Ended(j) => Began(j) /\ MadeBy(j) \in Nat
<1>1. /\ Len(j.done) \in Nat
      /\ \A i \in 1..Len(j.done) : j.done[i].status \in Statuses /\ j.done[i].data \in Nat
  BY JobFields, Numbers
<1>2. ASSUME Began(j)
      PROVE  UsedBy(j) \in Nat
  BY <1>1, <1>2 DEF Began, UsedBy
<1>3. ASSUME Ended(j)
      PROVE  Began(j) /\ MadeBy(j) \in Nat
  <2>1. Len(j.done) = 2 /\ j.done[2].status = "READY" /\ j # None
    BY <1>3 DEF Ended
  <2>2. Follows(j.done[1].status, "READY")
    BY <2>1 DEF JobOK
  <2>3. j.done[1].status = "PREPARING"
    BY <2>2 DEF Follows
  <2> QED  BY <1>1, <2>1, <2>3 DEF Began, MadeBy
<1> QED  BY <1>2, <1>3

\* The sets and the sums of the books.
LEMMA BookFields ==
    ASSUME TypeOK, JobsOK, Books
    PROVE  /\ \A k \in Keys : /\ Began(job[k]) => UsedBy(job[k]) \in Nat
                              /\ Ended(job[k]) => Began(job[k]) /\ MadeBy(job[k]) \in Nat
           /\ \A p : IsFiniteSet(Takers(job, p)) /\ SumUsed(job, p) \in Nat
           /\ IsFiniteSet(Makers(job)) /\ SumMade(job) \in Nat
<1>1. \A k \in Keys : /\ Began(job[k]) => UsedBy(job[k]) \in Nat
                      /\ Ended(job[k]) => Began(job[k]) /\ MadeBy(job[k]) \in Nat
  <2> SUFFICES ASSUME NEW k \in Keys, job[k] # None
               PROVE  /\ Began(job[k]) => UsedBy(job[k]) \in Nat
                      /\ Ended(job[k]) => Began(job[k]) /\ MadeBy(job[k]) \in Nat
    BY DEF Began, Ended
  <2>1. job[k] \in Jobs /\ JobOK(job[k])
    BY Typed DEF JobsOK
  <2> QED  BY <2>1, JobNumbers
<1> DEFINE B == {k \in Keys : Began(job[k])}
<1>2. IsFiniteSet(B)
  BY DEF Books
<1>3. Makers(job) \subseteq B /\ \A p : Takers(job, p) \subseteq B
  BY <1>1 DEF Makers, Takers
<1>4. IsFiniteSet(Makers(job)) /\ \A p : IsFiniteSet(Takers(job, p))
  <2> HIDE DEF B
  <2> QED  BY <1>2, <1>3, FS_Subset
<1>5. ASSUME NEW p
      PROVE  SumUsed(job, p) \in Nat
  <2> DEFINE f == [k \in Keys |-> UsedBy(job[k])]
  <2>1. \A x \in Takers(job, p) : f[x] \in Nat
    BY <1>1 DEF Takers
  <2> HIDE DEF f
  <2>2. SumFunctionOnSet(f, Takers(job, p)) \in Nat
    BY <1>4, <2>1, SumNat
  <2> QED  BY <2>2 DEF SumUsed, f
<1>6. SumMade(job) \in Nat
  <2> DEFINE f == [k \in Keys |-> MadeBy(job[k])]
  <2>1. \A x \in Makers(job) : f[x] \in Nat
    BY <1>1 DEF Makers
  <2> HIDE DEF f
  <2>2. SumFunctionOnSet(f, Makers(job)) \in Nat
    BY <1>4, <2>1, SumNat
  <2> QED  BY <2>2 DEF SumMade, f
<1> QED  BY <1>1, <1>4, <1>5, <1>6

\* What no job took or made anew leaves the sums as they were.
SameUse(jobs) ==
    \A k \in Keys : /\ Began(jobs[k]) <=> Began(job[k])
                    /\ Began(job[k]) => /\ UsedBy(jobs[k]) = UsedBy(job[k])
                                        /\ jobs[k].inputs = job[k].inputs
SameMake(jobs) ==
    \A k \in Keys : /\ Ended(jobs[k]) <=> Ended(job[k])
                    /\ Ended(job[k]) => MadeBy(jobs[k]) = MadeBy(job[k])

LEMMA UsedSame ==
    ASSUME TypeOK, JobsOK, Books, NEW jobs, SameUse(jobs)
    PROVE  /\ {k \in Keys : Began(jobs[k])} = {k \in Keys : Began(job[k])}
           /\ \A p : SumUsed(jobs, p) = SumUsed(job, p)
<1>1. {k \in Keys : Began(jobs[k])} = {k \in Keys : Began(job[k])}
  BY DEF SameUse
<1>2. ASSUME NEW p
      PROVE  SumUsed(jobs, p) = SumUsed(job, p)
  <2> DEFINE f == [k \in Keys |-> UsedBy(job[k])]
             g == [k \in Keys |-> UsedBy(jobs[k])]
  <2>1. Takers(jobs, p) = Takers(job, p)
    BY DEF Takers, SameUse
  <2>2. \A x \in Takers(job, p) : g[x] = f[x]
    BY DEF Takers, SameUse
  <2>3. IsFiniteSet(Takers(job, p))
    BY BookFields
  <2> HIDE DEF f, g
  <2>4. SumFunctionOnSet(g, Takers(job, p)) = SumFunctionOnSet(f, Takers(job, p))
    BY <2>2, <2>3, SumSame
  <2> QED  BY <2>1, <2>4, Zenon DEF SumUsed, f, g
<1> QED  BY <1>1, <1>2

LEMMA MadeSame ==
    ASSUME TypeOK, JobsOK, Books, NEW jobs, SameMake(jobs)
    PROVE  SumMade(jobs) = SumMade(job)
<1> DEFINE f == [k \in Keys |-> MadeBy(job[k])]
           g == [k \in Keys |-> MadeBy(jobs[k])]
<1>1. Makers(jobs) = Makers(job)
  BY DEF Makers, SameMake
<1>2. \A x \in Makers(job) : g[x] = f[x]
  BY DEF Makers, SameMake
<1>3. IsFiniteSet(Makers(job))
  BY BookFields
<1> HIDE DEF f, g
<1>4. SumFunctionOnSet(g, Makers(job)) = SumFunctionOnSet(f, Makers(job))
  BY <1>2, <1>3, SumSame
<1> QED  BY <1>1, <1>4, Zenon DEF SumMade, f, g

\* A job that begins, beside others that stay, takes its units of each ingredient once.
LEMMA UsedMore ==
    ASSUME TypeOK, JobsOK, Books, NEW jobs, NEW k \in Keys,
           ~Began(job[k]), Began(jobs[k]), UsedBy(jobs[k]) \in Nat,
           \A i \in Keys \ {k} : jobs[i] = job[i]
    PROVE  /\ IsFiniteSet({i \in Keys : Began(jobs[i])})
           /\ \A p : SumUsed(jobs, p) = SumUsed(job, p) +
                         (IF p \in Range(jobs[k].inputs) THEN UsedBy(jobs[k]) ELSE 0)
<1>1. {i \in Keys : Began(jobs[i])} = {i \in Keys : Began(job[i])} \cup {k}
  OBVIOUS
<1>2. IsFiniteSet({i \in Keys : Began(jobs[i])})
  BY <1>1, FS_AddElement DEF Books
<1>3. ASSUME NEW p
      PROVE  SumUsed(jobs, p) = SumUsed(job, p) +
                 (IF p \in Range(jobs[k].inputs) THEN UsedBy(jobs[k]) ELSE 0)
  <2> DEFINE f == [i \in Keys |-> UsedBy(job[i])]
             g == [i \in Keys |-> UsedBy(jobs[i])]
             S == Takers(job, p)
  <2>0. k \notin S /\ IsFiniteSet(S) /\ SumUsed(job, p) \in Nat
    BY BookFields DEF Takers
  <2>1. \A x \in S : f[x] = g[x] /\ g[x] \in Nat
    BY <2>0, BookFields DEF Takers
  <2>2. g[k] = UsedBy(jobs[k]) /\ g[k] \in Nat
    OBVIOUS
  <2>3. CASE p \in Range(jobs[k].inputs)
    <3>1. Takers(jobs, p) = S \cup {k}
      BY <2>3 DEF Takers
    <3> HIDE DEF f, g, S
    <3>2. SumFunctionOnSet(g, S \cup {k}) = SumFunctionOnSet(f, S) + g[k]
      BY <2>0, <2>1, <2>2, SumOneMore
    <3>3. SumUsed(jobs, p) = SumFunctionOnSet(g, S \cup {k}) /\ SumUsed(job, p) = SumFunctionOnSet(f, S)
      BY <3>1, Zenon DEF SumUsed, f, g, S
    <3> QED  BY <2>2, <2>3, <3>2, <3>3
  <2>4. CASE p \notin Range(jobs[k].inputs)
    <3>1. Takers(jobs, p) = S
      BY <2>4 DEF Takers
    <3> HIDE DEF f, g, S
    <3>2. SumFunctionOnSet(g, S) = SumFunctionOnSet(f, S)
      BY <2>0, <2>1, SumSame
    <3>3. SumUsed(jobs, p) = SumFunctionOnSet(g, S) /\ SumUsed(job, p) = SumFunctionOnSet(f, S)
      BY <3>1, Zenon DEF SumUsed, f, g, S
    <3> QED  BY <2>0, <2>4, <3>2, <3>3
  <2> QED  BY <2>3, <2>4
<1> QED  BY <1>2, <1>3

\* A job that ends makes its units once.
LEMMA MadeMore ==
    ASSUME TypeOK, JobsOK, Books, NEW jobs, NEW k \in Keys,
           ~Ended(job[k]), Ended(jobs[k]), MadeBy(jobs[k]) \in Nat,
           \A i \in Keys \ {k} : jobs[i] = job[i]
    PROVE  SumMade(jobs) = SumMade(job) + MadeBy(jobs[k])
<1> DEFINE f == [i \in Keys |-> MadeBy(job[i])]
           g == [i \in Keys |-> MadeBy(jobs[i])]
           S == Makers(job)
<1>0. k \notin S /\ IsFiniteSet(S)
  BY BookFields DEF Makers
<1>1. \A x \in S : f[x] = g[x] /\ g[x] \in Nat
  BY <1>0, BookFields DEF Makers
<1>2. g[k] = MadeBy(jobs[k]) /\ g[k] \in Nat
  OBVIOUS
<1>3. Makers(jobs) = S \cup {k}
  BY DEF Makers
<1> HIDE DEF f, g, S
<1>4. SumFunctionOnSet(g, S \cup {k}) = SumFunctionOnSet(f, S) + g[k]
  BY <1>0, <1>1, <1>2, SumOneMore
<1>5. SumMade(jobs) = SumFunctionOnSet(g, S \cup {k}) /\ SumMade(job) = SumFunctionOnSet(f, S)
  BY <1>3, Zenon DEF SumMade, f, g, S
<1> QED  BY <1>2, <1>4, <1>5

-----------------------------------------------------------------------------
(* What a commit does to the tables.                                       *)

LEMMA PublishTables ==
    ASSUME IInv, NEW r, RequestOK(r), r.op = "publish", Going(r), Len(published) = r.expected,
           CommitPublish(r), call' \in [Calls -> CallType], UNCHANGED page
    PROVE  Tables'
<1> DEFINE row == [key |-> r.key, on |-> r.expected, inputs |-> r.inputs]
           n == Len(published)
<1>0. /\ published' = Append(published, row) /\ job' = job /\ stock' = stock
      /\ published \in Seq(VersionType) /\ n \in Nat /\ DOMAIN published = 1..n
  BY Typed DEF CommitPublish, IInv, Tables
<1>1. /\ r.key \in Keys /\ r.expected \in 1..MaxRevision /\ r.inputs \in Recipes
      /\ r.expected < MaxRevision
  BY RequestFields DEF RequestOK
<1>2. row \in VersionType /\ row.key = r.key /\ row.on = n
  BY <1>1, Numbers DEF VersionType
<1> HIDE DEF row
<1>3. /\ published' \in Seq(VersionType) /\ Len(published') = n + 1 /\ DOMAIN published' = 1..(n + 1)
      /\ published'[n + 1] = row
      /\ \A i \in 1..n : published'[i] = published[i]
  BY <1>0, <1>2
<1>4. \A i \in 1..n : published[i].key # r.key
  BY <1>0 DEF Going, Published
<1>5. Chain'
  <2>1. n + 1 \in 1..MaxRevision
    BY <1>0, <1>1, Numbers
  <2>2. \A i \in 1..(n + 1) : i \in 1..n \/ i = n + 1
    BY <1>0
  <2>3. \A i \in 1..(n + 1) : published'[i].on = i - 1
    BY <1>0, <1>2, <1>3, <2>2 DEF IInv, Tables, Chain
  <2>4. \A i, j \in 1..(n + 1) : published'[i].key = published'[j].key => i = j
    BY <1>0, <1>2, <1>3, <1>4, <2>2 DEF IInv, Tables, Chain
  <2> HIDE DEF n
  <2> QED  BY <1>3, <2>1, <2>3, <2>4 DEF Chain
<1>6. TypeOK'
  BY <1>0, <1>3 DEF IInv, Tables, TypeOK, CallType, VersionType
<1>7. JobsOK' /\ Books'
  BY <1>0 DEF IInv, Tables, JobsOK, Books
<1> QED  BY <1>5, <1>6, <1>7 DEF Tables

LEMMA PlanTables ==
    ASSUME IInv, NEW r, RequestOK(r), r.op = "plan", Going(r),
           CommitPlan(r), call' \in [Calls -> CallType], UNCHANGED page
    PROVE  Tables'
<1> DEFINE k == r.key
           new == [kind |-> r.kind, inputs |-> PlannedInputs(r), done |-> <<>>]
<1>0. /\ job' = [job EXCEPT ![k] = new] /\ published' = published /\ stock' = stock
      /\ job \in [Keys -> Jobs \union {None}] /\ job[k] = None /\ k \in Keys
      /\ TypeOK /\ JobsOK /\ Books
  BY Typed, RequestFields DEF CommitPlan, IInv, Tables, Going, RequestOK
<1>1. PlannedInputs(r) \in Recipes \union {<<Raw>>}
  <2>1. CASE r.kind = "run"
    <3>1. r.revision \in DOMAIN published
      <4>1. r.revision \in 1..MaxRevision /\ r.revision <= Len(published)
        BY <2>1, RequestFields DEF RequestOK
      <4>2. DOMAIN published = 1..Len(published) /\ Len(published) \in Nat
        BY <1>0, Typed
      <4> QED  BY <4>1, <4>2
    <3>2. published[r.revision] \in VersionType
      BY <1>0, <3>1, Typed
    <3> QED  BY <2>1, <3>2 DEF PlannedInputs, VersionType
  <2>2. CASE r.kind # "run"
    BY <2>2 DEF PlannedInputs
  <2> QED  BY <2>1, <2>2
<1>2. new \in Jobs /\ new.done = <<>>
  <2>1. r.kind \in {"batch", "run"}
    BY RequestFields DEF RequestOK
  <2>2. <<>> \in Seq([status : Statuses, data : Amounts])
    OBVIOUS
  <2> QED  BY <1>1, <2>1, <2>2 DEF Jobs
<1> HIDE DEF new, k
<1>3. /\ job' \in [Keys -> Jobs \union {None}] /\ job'[k] = new
      /\ \A i \in Keys \ {k} : job'[i] = job[i]
  BY <1>0, <1>2
<1>4. Len(new.done) = 0
  BY <1>2
<1>5. JobsOK'
  <2>1. JobOK(new)
    BY <1>4 DEF JobOK
  <2> QED  BY <1>0, <1>3, <2>1 DEF JobsOK
<1>6. TypeOK'
  BY <1>0, <1>3 DEF TypeOK, CallType
<1>7. SameUse(job') /\ SameMake(job')
  <2>1. ~Began(new) /\ ~Ended(new) /\ ~Began(job[k]) /\ ~Ended(job[k])
    BY <1>0, <1>4 DEF Began, Ended
  <2> QED  BY <1>3, <2>1 DEF SameUse, SameMake
<1>8. /\ {i \in Keys : Began(job'[i])} = {i \in Keys : Began(job[i])}
      /\ \A p : SumUsed(job', p) = SumUsed(job, p)
      /\ SumMade(job') = SumMade(job)
  BY <1>0, <1>7, UsedSame, MadeSame
<1>9. Books'
  BY <1>0, <1>8 DEF Books
<1>10. Chain'
  BY <1>0 DEF IInv, Tables, Chain
<1> QED  BY <1>5, <1>6, <1>9, <1>10 DEF Tables

\* The job that goes on.
LEMMA ActJob ==
    ASSUME IInv, NEW r, RequestOK(r), r.op = "act", Going(r), CommitAct(r)
    PROVE  LET k == r.key
               old == job[k]
               new == job'[k]
               e == [status |-> r.status, data |-> r.data]
           IN  /\ k \in Keys /\ old \in Jobs /\ JobOK(old) /\ e \in Entry
               /\ Follows(Status(old), e.status)
               /\ old.kind = "batch" /\ e.status = "PREPARING" => e.data = 1
               /\ new = [old EXCEPT !.done = Append(@, e)]
               /\ \A i \in Keys \ {k} : job'[i] = job[i]
               /\ job' = [job EXCEPT ![k] = new]
               /\ Len(old.done) = r.version
<1> DEFINE k == r.key
           e == [status |-> r.status, data |-> r.data]
<1>1. /\ k \in Keys /\ r.status \in Statuses /\ r.data \in Amounts
      /\ job \in [Keys -> Jobs \union {None}] /\ job[k] # None
      /\ job[k].kind = "batch" /\ r.status = "PREPARING" => r.data = 1
  BY RequestFields, Typed DEF RequestOK, IInv, Tables
<1>2. job[k] \in Jobs /\ JobOK(job[k])
  BY <1>1 DEF IInv, Tables, JobsOK
<1>3. Follows(Status(job[k]), r.status) /\ Len(job[k].done) = r.version
  BY DEF Going, Version
<1>4. e \in Entry /\ e.status = r.status /\ e.data = r.data
  BY <1>1 DEF Entry
<1>5. job' = [job EXCEPT ![k] = [job[k] EXCEPT !.done = Append(@, e)]]
  BY DEF CommitAct
<1> QED  BY <1>1, <1>2, <1>3, <1>4, <1>5

LEMMA ActTables ==
    ASSUME IInv, NEW r, RequestOK(r), r.op = "act", Going(r), CommitAct(r),
           r.status = "PREPARING" => \A p \in StockNeeded(r) : stock[p] >= Taken(r),
           call' \in [Calls -> CallType], UNCHANGED page
    PROVE  Tables'
<1> DEFINE k == r.key
           old == job[k]
           new == job'[k]
           e == [status |-> r.status, data |-> r.data]
<1>0. /\ k \in Keys /\ old \in Jobs /\ JobOK(old) /\ e \in Entry
      /\ Follows(Status(old), e.status)
      /\ old.kind = "batch" /\ e.status = "PREPARING" => e.data = 1
      /\ new = [old EXCEPT !.done = Append(@, e)]
      /\ \A i \in Keys \ {k} : job'[i] = job[i]
      /\ job' = [job EXCEPT ![k] = new]
  BY ActJob
<1>t. /\ TypeOK /\ JobsOK /\ Books /\ Chain /\ published' = published
      /\ job \in [Keys -> Jobs \union {None}] /\ stock \in [Products -> Nat]
  BY Typed DEF IInv, Tables, CommitAct
<1>e. e.status = r.status /\ e.data = r.data /\ r.status \in Statuses /\ r.data \in Nat
  BY RequestFields, Numbers DEF RequestOK
<1> HIDE DEF e, new
<1>1. /\ new \in Jobs /\ JobOK(new)
      /\ new.kind = old.kind /\ new.inputs = old.inputs
      /\ Began(new) <=> Began(old) \/ e.status = "PREPARING"
      /\ e.status = "PREPARING" => ~Began(old) /\ ~Ended(old)
                                   /\ UsedBy(new) = IF old.kind = "run" THEN e.data ELSE 1
      /\ e.status # "PREPARING" /\ Began(old) => UsedBy(new) = UsedBy(old)
      /\ Ended(new) <=> e.status = "READY"
      /\ ~Ended(old)
      /\ e.status = "READY" => MadeBy(new) = e.data
  BY <1>0, JobGoesOn
<1>2. /\ job' \in [Keys -> Jobs \union {None}] /\ job'[k] = new
  BY <1>0, <1>1, <1>t
<1>3. JobsOK'
  BY <1>0, <1>1, <1>2, <1>t DEF JobsOK
<1>4. Chain'
  BY <1>t DEF Chain
<1>5. Taken(r) = (IF old.kind = "run" THEN r.data ELSE 1) /\ Taken(r) \in Nat
  BY <1>e DEF Taken
<1>6. Prepared \in Products /\ Prepared \notin Range(old.inputs)
  BY <1>0, JobFields, WorkshopAssumption
<1>7. r.status \in {"PREPARING", "READY", "CANCELLED"}
  BY <1>e DEF Statuses
<1>8. stock' \in [Products -> Nat] /\ Books'
  <2>1. CASE r.status = "PREPARING"
    <3>1. stock' = [p \in Products |-> IF p \in Range(old.inputs) THEN stock[p] - Taken(r) ELSE stock[p]]
      BY <2>1 DEF CommitAct
    <3>2. \A p \in Range(old.inputs) : stock[p] >= Taken(r)
      BY <2>1 DEF StockNeeded
    <3>3. stock' \in [Products -> Nat]
      <4> HIDE DEF old
      <4>1. \A p \in Products : (IF p \in Range(old.inputs) THEN stock[p] - Taken(r) ELSE stock[p]) \in Nat
        BY <1>5, <1>t, <3>2
      <4> QED  BY <3>1, <4>1
    <3>4. ~Began(old) /\ Began(new) /\ UsedBy(new) = Taken(r) /\ UsedBy(new) \in Nat
      BY <1>1, <1>5, <1>e, <2>1
    <3>5. SameMake(job')
      BY <1>0, <1>1, <1>2, <1>e, <2>1 DEF SameMake
    <3>6. /\ IsFiniteSet({i \in Keys : Began(job'[i])})
          /\ \A p : SumUsed(job', p) = SumUsed(job, p) +
                        (IF p \in Range(new.inputs) THEN UsedBy(new) ELSE 0)
      <4>1. ~Began(job[k]) /\ Began(job'[k]) /\ UsedBy(job'[k]) \in Nat
        BY <1>2, <3>4
      <4>2. /\ IsFiniteSet({i \in Keys : Began(job'[i])})
            /\ \A p : SumUsed(job', p) = SumUsed(job, p) +
                        (IF p \in Range(job'[k].inputs) THEN UsedBy(job'[k]) ELSE 0)
        <5> HIDE DEF k
        <5> QED  BY <1>0, <1>t, <4>1, UsedMore
      <4> QED  BY <1>2, <4>2
    <3>7. SumMade(job') = SumMade(job)
      BY <1>t, <3>5, MadeSame
    <3>8. ASSUME NEW p \in Products
          PROVE  stock'[p] + SumUsed(job', p) = Stock0[p] + (IF p = Prepared THEN SumMade(job') ELSE 0)
      <4>1. stock[p] + SumUsed(job, p) = Stock0[p] + (IF p = Prepared THEN SumMade(job) ELSE 0)
        BY <1>t DEF Books
      <4>2. /\ stock[p] \in Nat /\ SumUsed(job, p) \in Nat /\ Taken(r) \in Nat
            /\ stock'[p] = IF p \in Range(old.inputs) THEN stock[p] - Taken(r) ELSE stock[p]
        BY <1>5, <1>t, <3>1, BookFields
      <4>3. SumUsed(job', p) = SumUsed(job, p) + (IF p \in Range(old.inputs) THEN Taken(r) ELSE 0)
        BY <1>1, <3>4, <3>6
      <4>4. stock'[p] + SumUsed(job', p) = stock[p] + SumUsed(job, p)
        <5> HIDE DEF old
        <5> QED  BY <4>2, <4>3
      <4> QED  BY <3>7, <4>1, <4>4
    <3> QED  BY <3>3, <3>6, <3>8 DEF Books
  <2>2. CASE r.status = "READY"
    <3>1. stock' = [stock EXCEPT ![Prepared] = @ + r.data]
      BY <2>2 DEF CommitAct
    <3>2. stock' \in [Products -> Nat]
      <4>1. stock[Prepared] + r.data \in Nat
        BY <1>6, <1>e, <1>t
      <4> QED  BY <1>t, <3>1, <4>1
    <3>3. Began(old)
      <4>1. Ended(new) /\ new \in Jobs /\ JobOK(new)
        BY <1>1, <1>e, <2>2
      <4>2. Began(new)
        BY <4>1, JobNumbers
      <4> QED  BY <1>1, <1>e, <2>2, <4>2
    <3>4. SameUse(job')
      BY <1>0, <1>1, <1>2, <1>e, <2>2 DEF SameUse
    <3>5. /\ {i \in Keys : Began(job'[i])} = {i \in Keys : Began(job[i])}
          /\ \A p : SumUsed(job', p) = SumUsed(job, p)
      BY <1>t, <3>4, UsedSame
    <3>6. SumMade(job') = SumMade(job) + r.data
      <4>1. ~Ended(job[k]) /\ Ended(job'[k]) /\ MadeBy(job'[k]) = r.data
        BY <1>1, <1>2, <1>e, <2>2
      <4>2. SumMade(job') = SumMade(job) + MadeBy(job'[k])
        <5> HIDE DEF k
        <5> QED  BY <1>0, <1>e, <1>t, <4>1, MadeMore
      <4> QED  BY <4>1, <4>2
    <3>7. ASSUME NEW p \in Products
          PROVE  stock'[p] + SumUsed(job', p) = Stock0[p] + (IF p = Prepared THEN SumMade(job') ELSE 0)
      <4>1. stock[p] + SumUsed(job, p) = Stock0[p] + (IF p = Prepared THEN SumMade(job) ELSE 0)
        BY <1>t DEF Books
      <4>2. /\ stock[p] \in Nat /\ SumUsed(job, p) \in Nat /\ SumMade(job) \in Nat /\ Stock0[p] \in Nat
            /\ stock'[p] = IF p = Prepared THEN stock[p] + r.data ELSE stock[p]
        BY <1>6, <1>t, <3>1, BookFields, Numbers
      <4>3. SumUsed(job', p) = SumUsed(job, p)
        BY <3>5
      <4> QED  BY <1>e, <3>6, <4>1, <4>2, <4>3
    <3> QED  BY <1>t, <3>2, <3>5, <3>7 DEF Books
  <2>3. CASE r.status = "CANCELLED"
    <3>1. stock' = stock
      BY <2>3 DEF CommitAct
    <3>2. SameUse(job') /\ SameMake(job')
      BY <1>0, <1>1, <1>2, <1>e, <2>3 DEF SameUse, SameMake
    <3>3. /\ {i \in Keys : Began(job'[i])} = {i \in Keys : Began(job[i])}
          /\ \A p : SumUsed(job', p) = SumUsed(job, p)
          /\ SumMade(job') = SumMade(job)
      BY <1>t, <3>2, UsedSame, MadeSame
    <3> QED  BY <1>t, <3>1, <3>3 DEF Books
  <2> QED  BY <1>7, <2>1, <2>2, <2>3
<1>9. TypeOK'
  BY <1>2, <1>8, <1>t DEF TypeOK, CallType
<1> QED  BY <1>3, <1>4, <1>8, <1>9 DEF Tables

-----------------------------------------------------------------------------
(* What a commit leaves true of the other requests.                        *)

\* Of two calls that work, the one that commits holds all its rows, and the other
\* none of them.
LEMMA OthersApart ==
    ASSUME IInv, NEW c \in Calls, NEW d \in Calls \ {c},
           call[c].step = "working", call[c].todo = {}, call[d].step = "working"
    PROVE  LET r == call[c].req
               q == call[d].req
           IN  /\ (q.op = "act" <=> r.op = "act") => q.key # r.key
               /\ OtherRows(r) \intersect call[d].held = {}
               /\ \A row \in call[d].held :
                     /\ row[1] = "recipe" => row = <<"recipe", None>>
                     /\ row[1] = "stock" => q.op = "act" /\ row = <<"stock", row[2]>>
<1> DEFINE r == call[c].req
           q == call[d].req
<1>1. /\ RequestOK(r) /\ Working(call[c]) /\ RequestOK(q) /\ Working(call[d])
      /\ job \in [Keys -> Jobs \union {None}]
  BY CallFields DEF CallOK
<1>2. call[c].held = {FirstRow(r)} \union OtherRows(r)
  BY <1>1 DEF Working
<1>3. /\ call[d].held \subseteq {FirstRow(q)} \union OtherRows(q)
      /\ FirstRow(q) \in call[d].held
  BY <1>1, RowsOf DEF Working
<1>4. call[c].held \intersect call[d].held = {}
  BY DEF IInv, Apart
<1>5. (q.op = "act" <=> r.op = "act") => q.key # r.key
  BY <1>2, <1>3, <1>4 DEF FirstRow
<1>6. ASSUME NEW row \in call[d].held
      PROVE  /\ row[1] = "recipe" => row = <<"recipe", None>>
             /\ row[1] = "stock" => q.op = "act" /\ row = <<"stock", row[2]>>
  <2>1. CASE row = FirstRow(q)
    <3>1. row[1] \in {"job", "key"}
      BY <1>1, <2>1, RowsOf
    <3> QED  BY <3>1
  <2>2. CASE row \in OtherRows(q)
    <3>1. row = <<"recipe", None>> \/ (q.op = "act" /\ row = <<"stock", row[2]>>)
      BY <1>1, <2>2, RowsOf
    <3> QED  BY <3>1
  <2> QED  BY <1>3, <2>1, <2>2
<1> QED  BY <1>2, <1>4, <1>5, <1>6

\* A call goes on working while what it found, under the rows it holds, is as it was.
LEMMA WorkingStays ==
    ASSUME NEW t, Working(t), Going(t.req)',
           t.req.op = "act" => job'[t.req.key] = job[t.req.key],
           \A row \in t.held :
              /\ row[1] = "recipe" => Len(published') = Len(published)
              /\ row[1] = "stock" => t.req.op = "act" /\ stock'[row[2]] = stock[row[2]]
    PROVE  Working(t)'
<1> DEFINE q == t.req
<1>1. OtherRows(q)' = OtherRows(q)
  BY DEF OtherRows, StockNeeded
<1>2. \A row \in t.held : Passes(q, row)'
  BY DEF Working, Passes, Taken
<1> QED  BY <1>1, <1>2 DEF Working

\* What a commit must leave true.
Unharmed(c) ==
    /\ \A q : RequestOK(q) /\ (q \in Abroad \/ Carried(q)) => RequestOK(q)'
    /\ \A q : RequestOK(q) /\ Carried(q) => Carried(q)'
    /\ \A d \in Calls \ {c} : \A t : t = call[d] /\ t.step = "working" => Working(t)'
    /\ \A w \in PageType : PageOK(w) => /\ w.revision <= Len(published')
                                         /\ \A k \in Keys : w.seen[k] >= 0 => job'[k] # None

LEMMA PublishUnharmed ==
    ASSUME IInv, NEW c \in Calls, call[c].step = "working", call[c].todo = {},
           NEW r, r = call[c].req, r.op = "publish", CommitPublish(r)
    PROVE  Unharmed(c) /\ Carried(r)'
<1> DEFINE row == [key |-> r.key, on |-> r.expected, inputs |-> r.inputs]
           n == Len(published)
<1>0. /\ published' = Append(published, row) /\ job' = job /\ stock' = stock
      /\ published \in Seq(VersionType) /\ n \in Nat /\ DOMAIN published = 1..n
  BY Typed DEF CommitPublish, IInv, Tables
<1>1. RequestOK(r) /\ Working(call[c]) /\ job \in [Keys -> Jobs \union {None}]
  BY CallFields DEF CallOK
<1>2. n = r.expected
  <2>1. <<"recipe", None>> \in call[c].held
    BY <1>1, RowsOf DEF Working
  <2>2. Passes(r, <<"recipe", None>>)
    BY <1>1, <2>1 DEF Working
  <2> QED  BY <2>2 DEF Passes
<1>3. /\ Len(published') = n + 1 /\ DOMAIN published' = 1..(n + 1)
      /\ published'[n + 1] = row
      /\ \A i \in 1..n : published'[i] = published[i]
  BY <1>0
<1>4. row.key = r.key /\ row.inputs = r.inputs
  OBVIOUS
<1> HIDE DEF row
<1>5. Carried(r)'
  <2>1. n < n + 1
    BY <1>0
  <2> HIDE DEF n
  <2> QED  BY <1>2, <1>3, <1>4, <2>1 DEF Carried
<1>6. ASSUME NEW q, RequestOK(q)
      PROVE  RequestOK(q)'
  <2>1. q.op = "plan" /\ q.kind = "run" => q.revision \in 1..n
    <3> SUFFICES ASSUME q.op = "plan", q.kind = "run"
                 PROVE  q.revision \in 1..n
      OBVIOUS
    <3>1. q.revision \in 1..MaxRevision /\ q.revision <= n
      BY <1>6, RequestFields DEF RequestOK
    <3> QED  BY <1>0, <3>1
  <2>2. q.op = "plan" => PlannedInputs(q)' = PlannedInputs(q)
    BY <1>3, <2>1 DEF PlannedInputs
  <2>3. q.op = "plan" /\ q.kind = "run" => q.revision <= Len(published')
    <3> HIDE DEF n
    <3> QED  BY <1>0, <1>3, <2>1
  <2> QED  BY <1>0, <1>6, <2>2, <2>3 DEF RequestOK
<1>7. ASSUME NEW q, RequestOK(q), Carried(q)
      PROVE  Carried(q)'
  <2>1. CASE q.op = "publish"
    <3>1. q.expected \in Nat /\ q.expected < n
      BY <1>7, <2>1, RequestFields DEF RequestOK, Carried
    <3>2. q.expected + 1 \in 1..n /\ q.expected < n + 1
      BY <1>0, <3>1
    <3> QED  BY <1>3, <1>7, <2>1, <3>2 DEF Carried
  <2>2. CASE q.op # "publish"
    BY <1>0, <1>7, <2>2 DEF Carried
  <2> QED  BY <2>1, <2>2
<1>8. ASSUME NEW d \in Calls \ {c}, NEW t, t = call[d], t.step = "working"
      PROVE  Working(t)'
  <2>1. Working(t) /\ RequestOK(t.req)
    BY <1>8, CallFields DEF CallOK
  <2>2. /\ (t.req.op = "act" <=> r.op = "act") => t.req.key # r.key
        /\ OtherRows(r) \intersect t.held = {}
        /\ \A one \in t.held :
              /\ one[1] = "recipe" => one = <<"recipe", None>>
              /\ one[1] = "stock" => t.req.op = "act"
    BY <1>8, OthersApart
  <2>3. \A one \in t.held : one[1] # "recipe"
    BY <1>1, <2>2, RowsOf
  <2>4. Going(t.req)'
    <3>1. t.req.op = "publish" => ~Published(t.req.key)'
      <4> SUFFICES ASSUME t.req.op = "publish", NEW i \in 1..(n + 1)
                   PROVE  published'[i].key # t.req.key
        BY <1>3 DEF Published
      <4>1. CASE i = n + 1
        BY <1>3, <1>4, <2>2, <4>1
      <4>2. CASE i # n + 1
        <5>1. i \in 1..n
          BY <1>0, <4>2
        <5> QED  BY <1>0, <1>3, <2>1, <5>1 DEF Working, Going, Published
      <4> QED  BY <4>1, <4>2
    <3> QED  BY <1>0, <2>1, <3>1 DEF Working, Going
  <2> QED  BY <1>0, <2>1, <2>2, <2>3, <2>4, WorkingStays
<1>9. ASSUME NEW w \in PageType, PageOK(w)
      PROVE  /\ w.revision <= Len(published')
             /\ \A k \in Keys : w.seen[k] >= 0 => job'[k] # None
  <2>1. w.revision \in Nat /\ w.revision <= n
    BY <1>9 DEF PageType, PageOK
  <2>2. w.revision <= n + 1
    BY <1>0, <2>1
  <2> QED  BY <1>0, <1>3, <1>9, <2>2 DEF PageOK
<1> QED  BY <1>5, <1>6, <1>7, <1>8, <1>9 DEF Unharmed

LEMMA PlanUnharmed ==
    ASSUME IInv, NEW c \in Calls, call[c].step = "working", call[c].todo = {},
           NEW r, r = call[c].req, r.op = "plan", CommitPlan(r)
    PROVE  Unharmed(c) /\ Carried(r)'
<1> DEFINE k == r.key
           new == [kind |-> r.kind, inputs |-> PlannedInputs(r), done |-> <<>>]
<1>1. RequestOK(r) /\ Working(call[c]) /\ job \in [Keys -> Jobs \union {None}] /\ r \in Requests
  BY CallFields DEF CallOK, RequestOK
<1>0. /\ job' = [job EXCEPT ![k] = new] /\ published' = published /\ stock' = stock
      /\ job[k] = None /\ k \in Keys
  BY <1>1, RequestFields DEF CommitPlan, Working, Going
<1>2. /\ job'[k] = new /\ \A i \in Keys \ {k} : job'[i] = job[i]
      /\ new.kind = r.kind /\ new.inputs = PlannedInputs(r)
  BY <1>0, <1>1
<1>3. new # None
  <2>1. job' [k] \in [kind : {r.kind}, inputs : {PlannedInputs(r)}, done : {<<>>}]
    BY <1>2
  <2>2. PlannedInputs(r) \in Recipes \union {<<Raw>>}
    <3>1. CASE r.kind = "run"
      <4>1. r.revision \in 1..MaxRevision /\ r.revision <= Len(published)
        BY <1>1, <3>1, RequestFields DEF RequestOK
      <4>2. DOMAIN published = 1..Len(published) /\ Len(published) \in Nat /\ published \in Seq(VersionType)
        BY Typed DEF IInv, Tables
      <4>3. r.revision \in DOMAIN published
        BY <4>1, <4>2
      <4>4. published[r.revision] \in VersionType
        BY <4>2, <4>3
      <4> QED  BY <3>1, <4>4 DEF PlannedInputs, VersionType
    <3>2. CASE r.kind # "run"
      BY <3>2 DEF PlannedInputs
    <3> QED  BY <3>1, <3>2
  <2>3. r.kind \in {"batch", "run"} /\ <<>> \in Seq([status : Statuses, data : Amounts])
    BY <1>1, RequestFields
  <2>4. new \in Jobs
    <3> HIDE DEF k
    <3> QED  BY <2>2, <2>3 DEF Jobs
  <2> QED  BY <2>4, JobFields
<1> HIDE DEF new
<1>4. Carried(r)'
  BY <1>2, <1>3 DEF Carried
<1>5. ASSUME NEW q, RequestOK(q), q \in Abroad \/ Carried(q)
      PROVE  RequestOK(q)'
  <2>0. q \in Requests /\ q.key \in Keys /\ q.op \in {"publish", "plan", "act"}
    BY <1>5, RequestFields DEF RequestOK
  <2>1. CASE q.op = "publish"
    BY <1>5, <2>1 DEF RequestOK
  <2>2. CASE q.op = "plan" /\ q.key = k
    <3>1. q \in Abroad
      BY <1>0, <1>5, <2>2 DEF Carried
    <3>2. r \in Abroad
      BY <1>1, RequestFields DEF Abroad
    <3>3. q = r
      BY <2>2, <3>1, <3>2 DEF IInv, Alike
    <3>4. PlannedInputs(q)' = PlannedInputs(r)
      BY <1>0, <3>3 DEF PlannedInputs
    <3> QED  BY <1>0, <1>2, <1>5, <2>2, <3>3, <3>4 DEF RequestOK
  <2>3. CASE q.op = "plan" /\ q.key # k
    <3>1. job'[q.key] = job[q.key] /\ PlannedInputs(q)' = PlannedInputs(q)
      BY <1>0, <1>2, <2>0, <2>3 DEF PlannedInputs
    <3> QED  BY <1>0, <1>5, <2>3, <3>1 DEF RequestOK
  <2>4. CASE q.op = "act"
    <3>1. job[q.key] # None
      BY <1>5, <2>4 DEF RequestOK
    <3>2. job'[q.key] = job[q.key]
      BY <1>0, <1>2, <2>0, <3>1
    <3> QED  BY <1>5, <2>4, <3>2 DEF RequestOK
  <2> QED  BY <2>0, <2>1, <2>2, <2>3, <2>4
<1>6. ASSUME NEW q, RequestOK(q), Carried(q)
      PROVE  Carried(q)'
  <2>0. q.key \in Keys /\ q.op \in {"publish", "plan", "act"}
    BY <1>6, RequestFields DEF RequestOK
  <2>1. CASE q.op = "publish"
    BY <1>0, <1>6, <2>1 DEF Carried
  <2>2. CASE q.op # "publish"
    <3>1. job[q.key] # None
      BY <1>6, <2>0, <2>2 DEF Carried, RequestOK
    <3>2. job'[q.key] = job[q.key]
      BY <1>0, <1>2, <2>0, <3>1
    <3> QED  BY <1>6, <2>2, <3>2 DEF Carried
  <2> QED  BY <2>1, <2>2
<1>7. ASSUME NEW d \in Calls \ {c}, NEW t, t = call[d], t.step = "working"
      PROVE  Working(t)'
  <2>1. Working(t) /\ RequestOK(t.req)
    BY <1>7, CallFields DEF CallOK
  <2>2. /\ (t.req.op = "act" <=> r.op = "act") => t.req.key # r.key
        /\ \A one \in t.held : one[1] = "stock" => t.req.op = "act"
    BY <1>7, OthersApart
  <2>3. t.req.key \in Keys /\ t.req.op \in {"publish", "plan", "act"}
    BY <2>1, RequestFields DEF RequestOK
  <2>4. t.req.op = "act" => job[t.req.key] # None
    BY <2>1 DEF RequestOK
  <2>5. t.req.op # "publish" => job'[t.req.key] = job[t.req.key]
    BY <1>0, <1>2, <2>2, <2>3, <2>4
  <2>6. Going(t.req)'
    BY <1>0, <2>1, <2>5 DEF Working, Going, Published
  <2> QED  BY <1>0, <2>1, <2>2, <2>5, <2>6, WorkingStays
<1>8. ASSUME NEW w \in PageType, PageOK(w)
      PROVE  /\ w.revision <= Len(published')
             /\ \A i \in Keys : w.seen[i] >= 0 => job'[i] # None
  BY <1>0, <1>2, <1>8 DEF PageOK
<1> QED  BY <1>4, <1>5, <1>6, <1>7, <1>8 DEF Unharmed

LEMMA ActUnharmed ==
    ASSUME IInv, NEW c \in Calls, call[c].step = "working", call[c].todo = {},
           NEW r, r = call[c].req, r.op = "act", CommitAct(r)
    PROVE  Unharmed(c) /\ Carried(r)'
<1> DEFINE k == r.key
           old == job[k]
           new == job'[k]
           e == [status |-> r.status, data |-> r.data]
<1>1. RequestOK(r) /\ Working(call[c]) /\ Going(r) /\ job \in [Keys -> Jobs \union {None}]
  BY CallFields DEF CallOK, Working
<1>0. /\ k \in Keys /\ old \in Jobs /\ JobOK(old) /\ e \in Entry
      /\ Follows(Status(old), e.status)
      /\ old.kind = "batch" /\ e.status = "PREPARING" => e.data = 1
      /\ new = [old EXCEPT !.done = Append(@, e)]
      /\ \A i \in Keys \ {k} : job'[i] = job[i]
      /\ job' = [job EXCEPT ![k] = new]
      /\ Len(old.done) = r.version
  BY <1>1, ActJob
<1>p. published' = published
  BY DEF CommitAct
<1> HIDE DEF e, new, old
<1>2. /\ new \in Jobs /\ new.kind = old.kind /\ new.inputs = old.inputs
      /\ Len(new.done) = Len(old.done) + 1 /\ new.done[Len(old.done) + 1] = e
      /\ \A i \in 1..Len(old.done) : new.done[i] = old.done[i]
      /\ Len(old.done) \in Nat
  BY <1>0, JobGoesOn, JobFields
<1>3. job'[k] = new /\ new # None /\ old = job[k]
  BY <1>2, JobFields DEF new, old
<1>4. Carried(r)'
  <2>1. r.version < Len(new.done) /\ new.done[r.version + 1] = e
    BY <1>0, <1>2
  <2> QED  BY <1>3, <2>1 DEF Carried, Version, e
<1>5. ASSUME NEW q, RequestOK(q)
      PROVE  RequestOK(q)'
  <2>0. q.key \in Keys
    BY <1>5, RequestFields DEF RequestOK
  <2>1. /\ job[q.key] = None <=> job'[q.key] = None
        /\ job[q.key] # None => job'[q.key].kind = job[q.key].kind
                                /\ job'[q.key].inputs = job[q.key].inputs
    <3>1. CASE q.key = k
      <4>1. old # None
        BY <1>0, JobFields
      <4> QED  BY <1>2, <1>3, <3>1, <4>1
    <3>2. CASE q.key # k
      BY <1>0, <2>0, <3>2
    <3> QED  BY <3>1, <3>2
  <2>2. PlannedInputs(q)' = PlannedInputs(q)
    BY <1>p DEF PlannedInputs
  <2> QED  BY <1>p, <1>5, <2>1, <2>2 DEF RequestOK
<1>6. ASSUME NEW q, RequestOK(q), Carried(q)
      PROVE  Carried(q)'
  <2>0. q.key \in Keys /\ q.op \in {"publish", "plan", "act"}
    BY <1>6, RequestFields DEF RequestOK
  <2>1. CASE q.op = "publish"
    BY <1>p, <1>6, <2>1 DEF Carried
  <2>2. CASE q.key # k
    BY <1>0, <1>p, <1>6, <2>0, <2>2 DEF Carried
  <2>3. CASE q.op = "plan" /\ q.key = k
    BY <1>3, <2>3 DEF Carried
  <2>4. CASE q.op = "act" /\ q.key = k
    <3>1. q.version \in Nat /\ q.version < Len(old.done)
          /\ old.done[q.version + 1] = [status |-> q.status, data |-> q.data]
      BY <1>3, <1>6, <2>4, RequestFields DEF Carried, RequestOK, Version
    <3>2. q.version + 1 \in 1..Len(old.done) /\ q.version < Len(new.done)
      <4> DEFINE n == Len(old.done)
      <4>1. n \in Nat /\ Len(new.done) = n + 1 /\ q.version < n
        BY <1>2, <3>1
      <4> HIDE DEF n
      <4>2. q.version + 1 \in 1..n /\ q.version < n + 1
        BY <3>1, <4>1
      <4> QED  BY <4>1, <4>2 DEF n
    <3>3. new.done[q.version + 1] = [status |-> q.status, data |-> q.data]
      BY <1>2, <3>1, <3>2
    <3> QED  BY <1>3, <2>4, <3>2, <3>3 DEF Carried, Version
  <2> QED  BY <2>0, <2>1, <2>2, <2>3, <2>4
<1>7. ASSUME NEW d \in Calls \ {c}, NEW t, t = call[d], t.step = "working"
      PROVE  Working(t)'
  <2>1. Working(t) /\ RequestOK(t.req)
    BY <1>7, CallFields DEF CallOK
  <2>2. /\ (t.req.op = "act" <=> r.op = "act") => t.req.key # r.key
        /\ OtherRows(r) \intersect t.held = {}
        /\ \A one \in t.held :
              one[1] = "stock" => t.req.op = "act" /\ one = <<"stock", one[2]>>
    BY <1>7, OthersApart
  <2>3. t.req.key \in Keys /\ t.req.op \in {"publish", "plan", "act"}
    BY <2>1, RequestFields DEF RequestOK
  <2>4. /\ t.req.op = "plan" => job[t.req.key] = None
        /\ job[k] # None
    BY <1>0, <1>3, <2>1, JobFields DEF Working, Going
  <2>5. t.req.op # "publish" => job'[t.req.key] = job[t.req.key]
    BY <1>0, <2>2, <2>3, <2>4
  <2>6. Going(t.req)'
    BY <1>p, <2>1, <2>5 DEF Working, Going, Published
  <2>7. ASSUME NEW one \in t.held, one[1] = "stock"
        PROVE  stock'[one[2]] = stock[one[2]]
    <3>1. one[2] \notin StockNeeded(r) /\ one[2] \in Products
      <4>1. one \notin OtherRows(r) /\ one = <<"stock", one[2]>>
        BY <2>2, <2>7
      <4>2. one[2] \notin StockNeeded(r)
        BY <1>1, <4>1, RowsOf
      <4>3. one \in Rows
        BY <1>7, <2>7, CallFields DEF CallType
      <4>4. one[2] \in Products
        BY <2>7, <4>3 DEF Rows
      <4> QED  BY <4>2, <4>4
    <3>2. stock \in [Products -> Nat] /\ r.status \in {"PREPARING", "READY", "CANCELLED"}
      BY <1>1, RequestFields, Typed DEF IInv, Tables, RequestOK, Statuses
    <3>3. CASE r.status = "PREPARING"
      BY <3>1, <3>2, <3>3 DEF CommitAct, StockNeeded
    <3>4. CASE r.status = "READY"
      BY <3>1, <3>2, <3>4 DEF CommitAct, StockNeeded
    <3>5. CASE r.status = "CANCELLED"
      BY <3>1, <3>2, <3>5 DEF CommitAct
    <3> QED  BY <3>2, <3>3, <3>4, <3>5
  <2> QED  BY <1>p, <2>1, <2>2, <2>5, <2>6, <2>7, WorkingStays
<1>8. ASSUME NEW w \in PageType, PageOK(w)
      PROVE  /\ w.revision <= Len(published')
             /\ \A i \in Keys : w.seen[i] >= 0 => job'[i] # None
  BY <1>0, <1>p, <1>3, <1>8 DEF PageOK
<1> QED  BY <1>4, <1>5, <1>6, <1>7, <1>8 DEF Unharmed

\* A commit that harms no other request keeps everything.
LEMMA CommitFrame ==
    ASSUME IInv, NEW c \in Calls, call[c].step = "working", Answer(c, "ok"), UNCHANGED page,
           Tables', Unharmed(c), NEW r, r = call[c].req, Carried(r)'
    PROVE  IInv'
<1> PICK new \in CallType :
              /\ call' = [call EXCEPT ![c] = new]
              /\ new.held = {} /\ new.todo = {} /\ new.step = "answered" /\ new.answer = "ok"
              /\ new.by = call[c].by /\ new.req = call[c].req
  BY AnswerFields
<1>1. /\ call'[c] = new /\ \A d \in Calls \ {c} : call'[d] = call[d]
  BY Typed DEF IInv, Tables
<1>2. ASSUME NEW d \in Calls
      PROVE  CallOK(call[d])'
  <2>1. CASE d = c
    <3>1. RequestOK(r) /\ r # None /\ new.by \in Users
      BY CallFields, RequestFields DEF RequestOK
    <3>2. r \in Abroad
      BY <3>1 DEF Abroad
    <3>3. RequestOK(r)'
      BY <3>1, <3>2 DEF Unharmed
    <3>4. CallOK(new)'
      BY <3>1, <3>3 DEF CallOK
    <3> QED  BY <1>1, <2>1, <3>4
  <2>2. CASE d # c
    <3>1. PICK t : t = call[d]
      OBVIOUS
    <3>2. CallOK(t) /\ call'[d] = t /\ (t.step # "free" => t.by \in Users /\ RequestOK(t.req))
      BY <1>1, <2>2, <3>1, CallFields
    <3>3. ASSUME t.step # "free"
          PROVE  RequestOK(t.req)'
      <4>1. t.req \in Abroad
        BY <3>1, <3>2, <3>3, RequestFields DEF Abroad, RequestOK
      <4> QED  BY <3>2, <3>3, <4>1 DEF Unharmed
    <3>4. t.step = "working" => Working(t)'
      BY <2>2, <3>1 DEF Unharmed
    <3>5. t.step = "answered" /\ t.answer = "ok" => Carried(t.req)'
      BY <3>2 DEF Unharmed, CallOK
    <3>6. CallOK(t)'
      BY <3>2, <3>3, <3>4, <3>5 DEF CallOK
    <3> QED  BY <3>2, <3>6
  <2> QED  BY <2>1, <2>2
<1>3. ASSUME NEW u \in Users
      PROVE  PageOK(page[u])'
  <2>1. PICK w : w = page[u]
    OBVIOUS
  <2>2. w \in PageType /\ PageOK(w) /\ page'[u] = w
    BY <2>1, PageFields
  <2>3. w.attempt # None => RequestOK(w.attempt)'
    <3>1. w.attempt # None => w.attempt \in Abroad
      BY <2>1 DEF Abroad
    <3> QED  BY <2>2, <3>1 DEF Unharmed, PageOK
  <2>4. w.notice # None => RequestOK(w.notice)' /\ Carried(w.notice)'
    BY <2>2 DEF Unharmed, PageOK
  <2>5. /\ w.revision <= Len(published')
        /\ \A k \in Keys : w.seen[k] >= 0 => job'[k] # None
    BY <2>2 DEF Unharmed
  <2>6. PageOK(w)'
    BY <2>3, <2>4, <2>5 DEF PageOK
  <2> QED  BY <2>2, <2>6
<1>4. Apart'
  BY <1>1 DEF IInv, Apart
<1>5. Abroad' \subseteq Abroad
  BY <1>1 DEF Abroad
<1>6. Alike'
  BY <1>5 DEF IInv, Alike
<1> QED  BY <1>2, <1>3, <1>4, <1>6 DEF IInv, CallsOK, PagesOK

LEMMA CommitKeeps ==
    ASSUME IInv, NEW c \in Calls, Commit(c)
    PROVE  IInv'
<1>r. PICK r : r = call[c].req
  OBVIOUS
<1>0. /\ call[c].step = "working" /\ call[c].todo = {} /\ Answer(c, "ok") /\ UNCHANGED page
      /\ \/ r.op = "publish" /\ CommitPublish(r)
         \/ r.op = "plan" /\ CommitPlan(r)
         \/ r.op = "act" /\ CommitAct(r)
  BY <1>r DEF Commit
<1>1. /\ RequestOK(r) /\ Working(call[c]) /\ Going(r)
      /\ job \in [Keys -> Jobs \union {None}]
  BY <1>0, <1>r, CallFields DEF CallOK, Working
<1>2. call' \in [Calls -> CallType]
  <2>1. PICK new \in CallType : call' = [call EXCEPT ![c] = new]
    BY <1>0, AnswerFields
  <2> QED  BY <2>1, Typed DEF IInv, Tables
<1>3. \A row \in OtherRows(r) : Passes(r, row)
  BY <1>0, <1>1, <1>r, RowsOf DEF Working
<1>4. CASE r.op = "publish" /\ CommitPublish(r)
  <2>1. Len(published) = r.expected
    <3>1. <<"recipe", None>> \in OtherRows(r)
      BY <1>1, <1>4, RowsOf
    <3> QED  BY <1>3, <3>1 DEF Passes
  <2>2. Tables'
    BY <1>0, <1>1, <1>2, <1>4, <2>1, PublishTables
  <2>3. Unharmed(c) /\ Carried(r)'
    BY <1>0, <1>r, <1>4, PublishUnharmed
  <2> QED  BY <1>0, <1>r, <2>2, <2>3, CommitFrame
<1>5. CASE r.op = "plan" /\ CommitPlan(r)
  <2>2. Tables'
    BY <1>0, <1>1, <1>2, <1>5, PlanTables
  <2>3. Unharmed(c) /\ Carried(r)'
    BY <1>0, <1>r, <1>5, PlanUnharmed
  <2> QED  BY <1>0, <1>r, <2>2, <2>3, CommitFrame
<1>6. CASE r.op = "act" /\ CommitAct(r)
  <2>1. r.status = "PREPARING" => \A p \in StockNeeded(r) : stock[p] >= Taken(r)
    <3> SUFFICES ASSUME r.status = "PREPARING", NEW p \in StockNeeded(r)
                 PROVE  stock[p] >= Taken(r)
      OBVIOUS
    <3>1. <<"stock", p>> \in OtherRows(r)
      BY <1>1, <1>6, RowsOf
    <3>2. Passes(r, <<"stock", p>>)
      BY <1>3, <3>1
    <3> QED  BY <3>2 DEF Passes
  <2>2. Tables'
    BY <1>0, <1>1, <1>2, <1>6, <2>1, ActTables
  <2>3. Unharmed(c) /\ Carried(r)'
    BY <1>0, <1>r, <1>6, ActUnharmed
  <2> QED  BY <1>0, <1>r, <2>2, <2>3, CommitFrame
<1> QED  BY <1>0, <1>4, <1>5, <1>6

-----------------------------------------------------------------------------
(* The theorems.                                                           *)

LEMMA InitHolds ==
    ASSUME Init
    PROVE  IInv
<1> PICK r \in Recipes : published = <<[key |-> None, on |-> 0, inputs |-> r]>>
  BY DEF Init
<1> DEFINE row == [key |-> None, on |-> 0, inputs |-> r]
           blank == [attempt |-> None, waits |-> FALSE, revision |-> 1,
                     seen |-> [k \in Keys |-> -1], notice |-> None]
<1>0. /\ job = [k \in Keys |-> None] /\ stock = Stock0 /\ call = [c \in Calls |-> NoCall]
      /\ page = [u \in Users |-> blank]
  BY DEF Init
<1>1. row \in VersionType /\ row.on = 0
  BY Numbers DEF VersionType
<1>2. published = <<row>>
  OBVIOUS
<1> HIDE DEF row
<1>3. /\ published \in Seq(VersionType) /\ Len(published) = 1 /\ DOMAIN published = 1..1
      /\ published[1] = row
  BY <1>1, <1>2
<1>4. /\ blank \in PageType /\ blank.attempt = None /\ blank.notice = None /\ blank.revision = 1
      /\ \A k \in Keys : ~(blank.seen[k] >= 0)
  BY Numbers DEF PageType
<1> HIDE DEF blank
<1>5. TypeOK
  <2>1. published \in Seq([key : Keys \union {None}, on : 0..MaxRevision, inputs : Recipes])
    BY <1>3 DEF VersionType
  <2>2. job \in [Keys -> Jobs \union {None}] /\ stock \in [Products -> Nat]
    BY <1>0, Numbers
  <2>3. call \in [Calls -> CallType] /\ page \in [Users -> PageType]
    BY <1>0, <1>4, NoCallFields
  <2> QED  BY <2>1, <2>2, <2>3 DEF TypeOK, CallType, PageType
<1>6. Chain
  BY <1>1, <1>3, Numbers DEF Chain
<1>7. JobsOK
  BY <1>0 DEF JobsOK
<1>8. Books
  <2>1. \A k \in Keys : ~Began(job[k]) /\ ~Ended(job[k])
    BY <1>0 DEF Began, Ended
  <2>2. {k \in Keys : Began(job[k])} = {} /\ Makers(job) = {} /\ \A p : Takers(job, p) = {}
    BY <2>1 DEF Makers, Takers
  <2>3. SumMade(job) = 0 /\ \A p : SumUsed(job, p) = 0
    BY <2>2, SumEmpty DEF SumMade, SumUsed
  <2>4. IsFiniteSet({k \in Keys : Began(job[k])})
    BY <2>2, FS_EmptySet
  <2>5. \A p \in Products : stock[p] = Stock0[p] /\ Stock0[p] \in Nat
    BY <1>0, Numbers
  <2> QED  BY <2>3, <2>4, <2>5 DEF Books
<1>9. CallsOK
  BY <1>0, NoCallFields DEF CallsOK
<1>10. PagesOK
  BY <1>0, <1>3, <1>4 DEF PagesOK, PageOK
<1>11. Alike
  BY <1>0, <1>4, NoCallFields DEF Alike, Abroad
<1>12. Apart
  BY <1>0, NoCallFields DEF Apart
<1> QED  BY <1>5, <1>6, <1>7, <1>8, <1>9, <1>10, <1>11, <1>12 DEF IInv, Tables

LEMMA NextHolds ==
    ASSUME IInv, [Next]_vars
    PROVE  IInv'
<1>1. CASE Next
  <2>1. ASSUME NEW c \in Calls, \/ Begin(c) \/ LockNext(c) \/ Commit(c) \/ TurnAway(c)
                                \/ Lost(c) \/ Receive(c) \/ GiveUp(c)
        PROVE  IInv'
    BY <2>1, BeginKeeps, LockNextKeeps, CommitKeeps, TurnAwayKeeps, LostKeeps, ReceiveKeeps,
       GiveUpKeeps
  <2>2. ASSUME NEW u \in Users, \/ PressPublish(u) \/ PressPlanRun(u) \/ PressRunAction(u)
                                \/ PressCreateBatch(u) \/ PressBatchAction(u)
                                \/ Retry(u) \/ Reload(u)
        PROVE  IInv'
    BY <2>2, PressPublishKeeps, PressPlanRunKeeps, PressRunActionKeeps, PressCreateBatchKeeps,
       PressBatchActionKeeps, RetryKeeps, ReloadKeeps
  <2> QED  BY <1>1, <2>1, <2>2 DEF Next
<1>2. CASE UNCHANGED vars
  <2>1. /\ published' = published /\ job' = job /\ stock' = stock /\ call' = call /\ page' = page
    BY <1>2 DEF vars
  <2>2. Tables'
    BY <2>1, TablesFrame, Typed DEF IInv, Tables, tables
  <2>3. ASSUME NEW d \in Calls
        PROVE  CallOK(call[d])'
    <3>1. PICK t : t = call[d]
      OBVIOUS
    <3>2. CallOK(t) /\ call'[d] = t /\ UNCHANGED tables
      BY <2>1, <3>1 DEF IInv, CallsOK, tables
    <3>3. CallOK(t)'
      BY <3>2, SameFacts
    <3> QED  BY <3>2, <3>3
  <2>4. ASSUME NEW u \in Users
        PROVE  PageOK(page[u])'
    <3>1. PICK w : w = page[u]
      OBVIOUS
    <3>2. PageOK(w) /\ page'[u] = w /\ UNCHANGED tables
      BY <2>1, <3>1 DEF IInv, PagesOK, tables
    <3>3. PageOK(w)'
      BY <3>2, SameFacts
    <3> QED  BY <3>2, <3>3
  <2>5. Alike' /\ Apart'
    BY <2>1 DEF IInv, Alike, Apart, Abroad
  <2> QED  BY <2>2, <2>3, <2>4, <2>5 DEF IInv, CallsOK, PagesOK
<1> QED  BY <1>1, <1>2

\* Everything above holds in every state: types, versions, jobs, books, and what
\* each call and page knows.
THEOREM Invariance == Spec => []IInv
<1>1. Init => IInv
  BY InitHolds
<1>2. IInv /\ [Next]_vars => IInv'
  BY NextHolds
<1> QED  BY <1>1, <1>2, PTL DEF Spec

\* Whatever was sent twice, abandoned, retried or sent by two users, each version
\* follows the one before it and no request made two (recipes.service.ts save).
THEOREM VersionsFollow == Spec => []EachVersionFollowsTheLast
<1>1. IInv => EachVersionFollowsTheLast
  BY DEF IInv, Tables, Chain, EachVersionFollowsTheLast
<1> QED  BY <1>1, Invariance, PTL

\* What a page says was registered was, as it was asked, and stays so (the notices of
\* both pages, recipes.service.ts and production.service.ts).
THEOREM NoticesTrue == Spec => []NoticesAreTrue
<1>1. IInv => NoticesAreTrue
  <2> SUFFICES ASSUME IInv, NEW u \in Users, page[u].notice # None
               PROVE  LET r == page[u].notice
                      IN  CASE r.op = "publish" ->
                                /\ r.expected < Len(published)
                                /\ published[r.expected + 1].key = r.key
                                /\ published[r.expected + 1].inputs = r.inputs
                          [] r.op = "plan" ->
                                /\ job[r.key] # None
                                /\ job[r.key].inputs = PlannedInputs(r)
                          [] r.op = "act" ->
                                /\ r.version < Version(job[r.key])
                                /\ job[r.key].done[r.version + 1]
                                       = [status |-> r.status, data |-> r.data]
    BY DEF NoticesAreTrue
  <2> DEFINE r == page[u].notice
  <2>1. RequestOK(r) /\ Carried(r)
    BY PageFields DEF PageOK
  <2>2. r.op \in {"publish", "plan", "act"}
    BY <2>1, RequestFields DEF RequestOK
  <2>3. r.op = "publish" => /\ r.expected < Len(published)
                            /\ published[r.expected + 1].key = r.key
                            /\ published[r.expected + 1].inputs = r.inputs
    BY <2>1 DEF Carried
  <2>4. r.op = "plan" => job[r.key] # None /\ job[r.key].inputs = PlannedInputs(r)
    BY <2>1 DEF Carried, RequestOK
  <2>5. r.op = "act" => /\ r.version < Version(job[r.key])
                        /\ job[r.key].done[r.version + 1] = [status |-> r.status, data |-> r.data]
    BY <2>1 DEF Carried
  <2> QED  BY <2>2, <2>3, <2>4, <2>5
<1> QED  BY <1>1, Invariance, PTL

\* What the history of a job says of it.
LEMMA HistoryOf ==
    ASSUME NEW k \in Keys, job[k] \in Jobs, JobOK(job[k])
    PROVE  /\ Began(job[k]) <=> Did(k, "PREPARING") # {}
           /\ Began(job[k]) => First(k, "PREPARING") = job[k].done[1].data
           /\ Ended(job[k]) <=> Did(k, "READY") # {}
           /\ Ended(job[k]) => First(k, "READY") = job[k].done[2].data
<1> DEFINE d == job[k].done
           n == Len(d)
<1>1. n \in Nat /\ n <= 2 /\ job[k] # None
  BY JobFields DEF JobOK
<1>2. \A s : Did(k, s) = {i \in 1..n : d[i].status = s}
  BY DEF Did, Version
<1>3. /\ n >= 1 => d[1].status \in {"PREPARING", "CANCELLED"}
      /\ n = 2 => d[1].status = "PREPARING" /\ d[2].status \in {"READY", "CANCELLED"}
  <2>1. n >= 1 => d[1].status \in {"PREPARING", "CANCELLED"}
    BY DEF JobOK, Follows
  <2>2. n = 2 => Follows(d[1].status, d[2].status) /\ n >= 1
    BY DEF JobOK
  <2> QED  BY <2>1, <2>2 DEF Follows
<1>4. /\ Began(job[k]) <=> n >= 1 /\ d[1].status = "PREPARING"
      /\ Ended(job[k]) <=> n = 2 /\ d[2].status = "READY"
  BY <1>1 DEF Began, Ended
<1> HIDE DEF d, n
<1>5. \A i \in 1..n : i = 1 \/ (n = 2 /\ i = 2)
  BY <1>1
<1>6. /\ Began(job[k]) => Did(k, "PREPARING") = {1}
      /\ ~Began(job[k]) => Did(k, "PREPARING") = {}
  <2>1. n >= 1 => 1 \in 1..n
    BY <1>1
  <2>2. n = 2 => d[2].status # "PREPARING"
    BY <1>3
  <2>3. \A i \in Did(k, "PREPARING") : i = 1 /\ d[1].status = "PREPARING" /\ n >= 1
    BY <1>1, <1>2, <1>5, <2>2
  <2>4. n >= 1 /\ d[1].status = "PREPARING" => 1 \in Did(k, "PREPARING")
    BY <1>2, <2>1
  <2> QED  BY <1>4, <2>3, <2>4
<1>7. /\ Ended(job[k]) => Did(k, "READY") = {2}
      /\ ~Ended(job[k]) => Did(k, "READY") = {}
  <2>1. n = 2 => 2 \in 1..n
    OBVIOUS
  <2>2. n >= 1 => d[1].status # "READY"
    BY <1>3
  <2>3. \A i \in Did(k, "READY") : i = 2 /\ n = 2 /\ d[2].status = "READY"
    BY <1>1, <1>2, <1>5, <2>2
  <2>4. n = 2 /\ d[2].status = "READY" => 2 \in Did(k, "READY")
    BY <1>2, <2>1
  <2> QED  BY <1>4, <2>3, <2>4
<1>8. Began(job[k]) => First(k, "PREPARING") = d[1].data
  BY <1>6 DEF First, d
<1>9. Ended(job[k]) => First(k, "READY") = d[2].data
  BY <1>7 DEF First, d
<1> QED  BY <1>6, <1>7, <1>8, <1>9 DEF d

\* Stock is what it was, less what each job that was started took, once, plus what
\* each finished job made, once (production.service.ts action, recipes.service.ts action).
THEOREM StockOfJobs == Spec => []StockIsItsJobs
<1>1. IInv => StockIsItsJobs
  <2> SUFFICES ASSUME IInv
               PROVE  StockIsItsJobs
    OBVIOUS
  <2>0. TypeOK /\ JobsOK /\ Books
    BY DEF IInv, Tables
  <2>1. ASSUME NEW k \in Keys, job[k] # None
        PROVE  /\ Began(job[k]) <=> Did(k, "PREPARING") # {}
               /\ Began(job[k]) => Used(k) = UsedBy(job[k])
               /\ Ended(job[k]) <=> Did(k, "READY") # {}
               /\ Ended(job[k]) => First(k, "READY") = MadeBy(job[k])
    <3>1. job[k] \in Jobs /\ JobOK(job[k])
      BY <2>0, <2>1, Typed DEF JobsOK
    <3> QED  BY <3>1, HistoryOf DEF Used, UsedBy, MadeBy
  <2>2. /\ Started = {k \in Keys : Began(job[k])}
        /\ Finished = Makers(job)
        /\ \A k \in Started : Used(k) = UsedBy(job[k])
        /\ \A k \in Finished : First(k, "READY") = MadeBy(job[k])
    BY <2>1 DEF Started, Finished, Makers, Began, Ended
  <2>3. ASSUME NEW p \in Products
        PROVE  SumFunction([k \in {j \in Started : p \in Range(job[j].inputs)} |-> Used(k)])
                   = SumUsed(job, p)
    <3> DEFINE S == {j \in Started : p \in Range(job[j].inputs)}
               f == [k \in S |-> Used(k)]
               g == [k \in Keys |-> UsedBy(job[k])]
    <3>1. S = Takers(job, p)
      BY <2>2 DEF Takers
    <3>2. \A x \in S : f[x] = g[x]
      BY <2>2
    <3>3. IsFiniteSet(S)
      BY <2>0, <3>1, BookFields
    <3>4. SumFunction(f) = SumFunctionOnSet(f, S)
      BY DEF SumFunction
    <3> HIDE DEF S, f, g
    <3>5. SumFunctionOnSet(f, S) = SumFunctionOnSet(g, S)
      BY <3>2, <3>3, SumSame
    <3>6. SumFunction(f) = SumUsed(job, p)
      BY <3>1, <3>4, <3>5 DEF SumUsed, g
    <3> QED  BY <3>6 DEF f, S
  <2>4. SumFunction([k \in Finished |-> First(k, "READY")]) = SumMade(job)
    <3> DEFINE f == [k \in Finished |-> First(k, "READY")]
               g == [k \in Keys |-> MadeBy(job[k])]
    <3>1. \A x \in Finished : f[x] = g[x]
      BY <2>2 DEF Makers
    <3>2. IsFiniteSet(Finished)
      BY <2>0, <2>2, BookFields
    <3>3. SumFunction(f) = SumFunctionOnSet(f, Finished)
      BY DEF SumFunction
    <3> HIDE DEF f, g
    <3>4. SumFunctionOnSet(f, Finished) = SumFunctionOnSet(g, Finished)
      BY <3>1, <3>2, SumSame
    <3>5. SumFunction(f) = SumMade(job)
      BY <2>2, <3>3, <3>4 DEF SumMade, g
    <3> QED  BY <3>5 DEF f
  <2>5. ASSUME NEW p \in Products
        PROVE  stock[p] + SumFunction([k \in {j \in Started : p \in Range(job[j].inputs)} |-> Used(k)])
                   = Stock0[p] + (IF p # Prepared THEN 0
                                  ELSE SumFunction([k \in Finished |-> First(k, "READY")]))
    <3>1. stock[p] + SumUsed(job, p) = Stock0[p] + (IF p = Prepared THEN SumMade(job) ELSE 0)
      BY <2>0 DEF Books
    <3> QED  BY <2>3, <2>4, <3>1
  <2> QED  BY <2>0, <2>5 DEF StockIsItsJobs
<1> QED  BY <1>1, Invariance, PTL

-----------------------------------------------------------------------------
(* Who waits for whom.                                                     *)

\* A call that holds a row works: it came past its first row.
Level == [c \in Calls |-> IF call[c].step = "working" THEN 1 ELSE 0]

\* The product whose stock a call needs next.
NeedsNext(c, n) == \E row \in NextRows(call[c].todo) : row[1] = "stock" /\ row[2] = n
Number == [c \in Calls |-> IF \E n \in Nat : NeedsNext(c, n)
                           THEN CHOOSE n \in Nat : NeedsNext(c, n) ELSE 0]

\* Transactions never wait for each other in a circle (the locks of
\* recipes.service.ts and production.service.ts).
THEOREM NeverInACircle == Spec => []NoDeadlock
<1>1. IInv => NoDeadlock
  <2> SUFFICES ASSUME IInv
               PROVE  NoDeadlock
    OBVIOUS
  <2> DEFINE waits == [c \in Calls |-> WaitsFor(c)]
  <2>1. \A c \in DOMAIN waits : Level[c] \in Int /\ Number[c] \in Int
    <3> SUFFICES ASSUME NEW c \in Calls
                 PROVE  Level[c] \in Int /\ Number[c] \in Int
      OBVIOUS
    <3>1. Number[c] \in Nat
      <4>1. CASE \E n \in Nat : NeedsNext(c, n)
        <5>1. (CHOOSE n \in Nat : NeedsNext(c, n)) \in Nat
          BY <4>1
        <5> QED  BY <4>1, <5>1 DEF Number
      <4>2. CASE ~\E n \in Nat : NeedsNext(c, n)
        BY <4>2 DEF Number
      <4> QED  BY <4>1, <4>2
    <3> QED  BY <3>1 DEF Level
  <2>2. ASSUME NEW c \in Calls, NEW d \in WaitsFor(c), WaitsFor(d) # {}
        PROVE  Level[c] < Level[d] \/ (Level[c] = Level[d] /\ Number[c] < Number[d])
    <3>1. d \in Calls /\ c # d
      BY DEF WaitsFor
    <3>2. PICK row : row \in Wanted(c) /\ row \in call[d].held
      BY DEF WaitsFor
    <3>3. call[d].step = "working" /\ RequestOK(call[d].req) /\ Working(call[d])
      BY <3>1, <3>2, CallFields, NoCallFields DEF CallOK
    <3>4. PICK next : next \in NextRows(call[d].todo)
      <4>1. Wanted(d) = NextRows(call[d].todo)
        BY <3>3 DEF Wanted
      <4>2. Wanted(d) # {}
        BY <2>2 DEF WaitsFor
      <4> QED  BY <4>1, <4>2
    <3>t. job \in [Keys -> Jobs \union {None}]
      BY CallFields
    <3>5. CASE call[c].step # "working"
      BY <3>1, <3>3, <3>5 DEF Level
    <3>6. CASE call[c].step = "working"
      <4> DEFINE q == call[c].req
                 r == call[d].req
      <4>1. RequestOK(q) /\ Working(call[c])
        BY <3>6, CallFields DEF CallOK
      <4>2. row \in NextRows(call[c].todo) /\ row \in call[c].todo /\ row \in OtherRows(q)
        BY <3>2, <3>6, <4>1 DEF Wanted, NextRows, Working
      <4>3. next \in call[d].todo /\ next \in OtherRows(r) /\ next \notin call[d].held
        BY <3>3, <3>4 DEF NextRows, Working
      <4>4. row \in {FirstRow(r)} \union OtherRows(r)
        BY <3>2, <3>3 DEF Working
      <4>5. row # FirstRow(r)
        <5>1. FirstRow(r)[1] \in {"job", "key"}
          BY <3>3, <3>t, RowsOf
        <5>2. row[1] \in {"recipe", "stock"}
          BY <3>t, <4>1, <4>2, RowsOf
        <5> QED  BY <5>1, <5>2
      <4>6. row # next
        BY <3>2, <4>3
      <4>7. /\ r.op = "act"
            /\ row = <<"stock", row[2]>> /\ row[2] \in StockNeeded(r)
            /\ next = <<"stock", next[2]>> /\ next[2] \in StockNeeded(r)
        <5>1. r.op # "publish"
          BY <3>3, <3>t, <4>3, <4>4, <4>5, <4>6, RowsOf
        <5> QED  BY <3>3, <3>t, <4>3, <4>4, <4>5, <5>1, RowsOf
      <4>8. row[1] = "stock" /\ next[1] = "stock"
        BY <4>7
      <4>9. row[2] \in Nat /\ next[2] \in Nat
        <5>1. StockNeeded(r) \subseteq Products
          BY <3>3, <3>t, <4>7, RowsOf
        <5> QED  BY <4>7, <5>1, Numbers
      <4>10. row[2] < next[2]
        BY <3>2, <3>3, <4>3, <4>8 DEF Working
      <4>11. Number[c] = row[2]
        <5>1. NeedsNext(c, row[2])
          BY <4>2, <4>8 DEF NeedsNext
        <5>2. ASSUME NEW n \in Nat, NeedsNext(c, n)
              PROVE  n = row[2]
          <6>1. PICK x \in NextRows(call[c].todo) : x[1] = "stock" /\ x[2] = n
            BY <5>2 DEF NeedsNext
          <6>2. n <= row[2] /\ row[2] <= n
            BY <4>2, <4>8, <6>1 DEF NextRows
          <6> QED  BY <4>9, <6>2
        <5>3. (CHOOSE n \in Nat : NeedsNext(c, n)) = row[2]
          BY <4>9, <5>1, <5>2
        <5> QED  BY <4>9, <5>1, <5>3 DEF Number
      <4>12. Number[d] = next[2]
        <5>1. NeedsNext(d, next[2])
          BY <3>4, <4>8 DEF NeedsNext
        <5>2. ASSUME NEW n \in Nat, NeedsNext(d, n)
              PROVE  n = next[2]
          <6>1. PICK x \in NextRows(call[d].todo) : x[1] = "stock" /\ x[2] = n
            BY <5>2 DEF NeedsNext
          <6>2. n <= next[2] /\ next[2] <= n
            BY <3>4, <4>8, <6>1 DEF NextRows
          <6> QED  BY <4>9, <6>2
        <5>3. (CHOOSE n \in Nat : NeedsNext(d, n)) = next[2]
          BY <4>9, <5>1, <5>2
        <5> QED  BY <3>1, <4>9, <5>1, <5>3 DEF Number
      <4>13. Level[c] = Level[d]
        BY <3>1, <3>3, <3>6 DEF Level
      <4> QED  BY <4>10, <4>11, <4>12, <4>13
    <3> QED  BY <3>5, <3>6
  <2>3. \A c \in DOMAIN waits : \A d \in waits[c] :
           /\ d \in DOMAIN waits
           /\ waits[d] # {} => \/ Level[c] < Level[d]
                               \/ Level[c] = Level[d] /\ Number[c] < Number[d]
    <3>1. \A c \in Calls : WaitsFor(c) \subseteq Calls
      BY DEF WaitsFor
    <3> QED  BY <2>2, <3>1
  <2>4. InACircle(waits) = {}
    <3> HIDE DEF waits
    <3> QED  BY <2>1, <2>3, NoCircle
  <2> QED  BY <2>4 DEF NoDeadlock
<1> QED  BY <1>1, Invariance, PTL

-----------------------------------------------------------------------------
(* A fold of a cart, or of what is left of the goods, from left to right.   *)

FoldStep(kind, it, base, s, d) ==
    IF d = {} THEN base
    ELSE IF kind = "cart" THEN AddToCart(it[d \ {Max(d)}], s[Max(d)])
    ELSE Take(it[d \ {Max(d)}], s[Max(d)])

IsFold(kind, it, base, s, D) == it = [d \in SUBSET D |-> FoldStep(kind, it, base, s, d)]

FoldOf(kind, base, s, D) == CHOOSE it : IsFold(kind, it, base, s, D)

\* The library's definition, unfolded.
LEMMA CartIsFold ==
    ASSUME NEW base, NEW s
    PROVE  FoldLeft(AddToCart, base, s) = FoldOf("cart", base, s, DOMAIN s)[DOMAIN s]
BY DEF FoldLeft, MapThenFoldSet, FoldOf, IsFold, FoldStep

\* The same of the movements of a sale.
LEMMA SaleIsFold ==
    ASSUME NEW base, NEW s
    PROVE  FoldLeft(Take, base, s) = FoldOf("sale", base, s, DOMAIN s)[DOMAIN s]
BY DEF FoldLeft, MapThenFoldSet, FoldOf, IsFold, FoldStep

\* Kept folded: the provers lose their way among numbers.
AllInt(D) == D \subseteq Int

\* The greatest of some numbers is one of them.
LEMMA MaxInside ==
    ASSUME NEW S, IsFiniteSet(S), S # {}, AllInt(S)
    PROVE  /\ Max(S) \in S
           /\ \A y \in S : y <= Max(S)
<1>1. PICK x \in S : \A y \in S : [z \in S |-> z][y] <= [z \in S |-> z][x]
  <2>1. \A y \in S : [z \in S |-> z][y] \in Int
    BY DEF AllInt
  <2>2. QED  BY <2>1, Greatest
<1>2. \E z \in S : \A y \in S : z >= y
  BY <1>1
<1>3. QED  BY <1>2 DEF Max

\* Two folds agree wherever both are defined.
LEMMA FoldUnique ==
    ASSUME NEW kind, NEW base, NEW s, NEW D, IsFiniteSet(D), AllInt(D), NEW E, D \subseteq E,
           NEW a, IsFold(kind, a, base, s, D), NEW b, IsFold(kind, b, base, s, E)
    PROVE  a[D] = b[D]
<1> DEFINE Bad == {d \in SUBSET D : a[d] # b[d]}
<1>1. SUFFICES ASSUME Bad # {} PROVE FALSE
  BY DEF Bad
<1>2. PICK d \in Bad : \A t \in Bad : t \subseteq d => t = d
  <2>1. Bad \subseteq SUBSET D
    OBVIOUS
  <2> HIDE DEF Bad
  <2>2. QED  BY <1>1, <2>1, MinimalSubset
<1>3. /\ d \subseteq D /\ d \subseteq E
      /\ a[d] = FoldStep(kind, a, base, s, d) /\ b[d] = FoldStep(kind, b, base, s, d)
  BY DEF IsFold
<1>4. d # {}
  BY <1>2, <1>3 DEF FoldStep
<1>5. Max(d) \in d
  <2>1. IsFiniteSet(d) /\ AllInt(d)
    BY <1>3, FS_Subset DEF AllInt
  <2>2. QED  BY <2>1, <1>4, MaxInside
<1>6. a[d \ {Max(d)}] = b[d \ {Max(d)}]
  BY <1>2, <1>5
<1>7. QED
  BY <1>2, <1>3, <1>4, <1>6 DEF FoldStep

\* What satisfies the recursion is the fold.
LEMMA FoldFound ==
    ASSUME NEW kind, NEW base, NEW s, NEW D, IsFiniteSet(D), AllInt(D),
           NEW a, IsFold(kind, a, base, s, D)
    PROVE  FoldOf(kind, base, s, D)[D] = a[D] /\ IsFold(kind, FoldOf(kind, base, s, D), base, s, D)
<1>1. IsFold(kind, FoldOf(kind, base, s, D), base, s, D)
  BY DEF FoldOf
<1> HIDE DEF FoldOf
<1>2. FoldOf(kind, base, s, D)[D] = a[D]
  BY <1>1, FoldUnique
<1>3. QED  BY <1>1, <1>2

\* The recursion has a solution on the subsets of every finite set of numbers.
LEMMA FoldExists ==
    ASSUME NEW kind, NEW base, NEW s, NEW D, IsFiniteSet(D), AllInt(D)
    PROVE  IsFold(kind, FoldOf(kind, base, s, D), base, s, D)
<1> DEFINE F(d) == FoldOf(kind, base, s, d)
           Bad == {d \in SUBSET D : ~IsFold(kind, F(d), base, s, d)}
<1>1. SUFFICES ASSUME Bad # {} PROVE FALSE
  <2>1. D \notin Bad
    BY <1>1
  <2>2. QED  BY <2>1
<1>2. PICK U \in Bad : \A t \in Bad : t \subseteq U => t = U
  <2>1. Bad \subseteq SUBSET D
    OBVIOUS
  <2> HIDE DEF Bad
  <2>2. QED  BY <1>1, <2>1, MinimalSubset
<1>3. ASSUME NEW d \in SUBSET U, d # U
      PROVE  IsFiniteSet(d) /\ AllInt(d) /\ IsFold(kind, F(d), base, s, d)
  BY <1>2, <1>3, FS_Subset DEF AllInt
<1> DEFINE part == [d \in SUBSET U |-> IF d = U THEN base ELSE F(d)[d]]
           whole == [d \in SUBSET U |-> FoldStep(kind, part, base, s, d)]
<1>4. ASSUME NEW d \in SUBSET U, d # {}
      PROVE  /\ Max(d) \in d /\ d \ {Max(d)} \in SUBSET U
             /\ d \ {Max(d)} # U /\ d \ {Max(d)} \subseteq d
  <2>1. IsFiniteSet(d) /\ AllInt(d)
    BY FS_Subset DEF AllInt
  <2>2. Max(d) \in d
    BY <1>4, <2>1, MaxInside
  <2>3. QED  BY <2>2
<1>5. ASSUME NEW d \in SUBSET U, d # U
      PROVE  whole[d] = part[d]
  <2>1. part[d] = FoldStep(kind, F(d), base, s, d)
    BY <1>3, <1>5 DEF IsFold
  <2>2. CASE d = {}
    BY <2>1, <2>2 DEF FoldStep
  <2>3. CASE d # {}
    <3> DEFINE r == d \ {Max(d)}
    <3>1. r \in SUBSET U /\ r # U /\ r \subseteq d
      BY <1>4, <2>3
    <3>2. F(r)[r] = F(d)[r]
      <4> HIDE DEF r, F
      <4>1. IsFiniteSet(r) /\ AllInt(r) /\ IsFold(kind, F(r), base, s, r)
        BY <1>3, <3>1
      <4>2. IsFold(kind, F(d), base, s, d)
        BY <1>3, <1>5
      <4>3. QED  BY <4>1, <4>2, <3>1, FoldUnique
    <3>3. part[r] = F(r)[r]
      BY <3>1
    <3>4. part[r] = F(d)[r]
      BY <3>2, <3>3
    <3> HIDE DEF part, F
    <3>5. FoldStep(kind, part, base, s, d) = FoldStep(kind, F(d), base, s, d)
      BY <2>3, <3>4 DEF FoldStep
    <3>6. whole[d] = FoldStep(kind, part, base, s, d)
      OBVIOUS
    <3>7. QED  BY <2>1, <3>5, <3>6
  <2>4. QED  BY <2>2, <2>3
<1>6. ASSUME NEW d \in SUBSET U
      PROVE  FoldStep(kind, whole, base, s, d) = FoldStep(kind, part, base, s, d)
  <2>1. CASE d = {}
    BY <2>1 DEF FoldStep
  <2>2. CASE d # {}
    <3>1. whole[d \ {Max(d)}] = part[d \ {Max(d)}]
      BY <1>4, <1>5, <2>2
    <3> HIDE DEF whole, part
    <3>2. QED  BY <2>2, <3>1 DEF FoldStep
  <2>3. QED  BY <2>1, <2>2
<1>7. IsFold(kind, whole, base, s, U)
  BY <1>6 DEF IsFold
<1>8. IsFold(kind, F(U), base, s, U)
  <2> HIDE DEF whole
  <2>1. QED  BY <1>7 DEF FoldOf
<1>9. QED  BY <1>2, <1>8

-----------------------------------------------------------------------------
(* Carts and lines have their types.                                         *)

CartLines == [entry : Entries, options : SUBSET STRING, quantity : Nat]

\* A sequence has finitely many places, and a member at each.
LEMMA SeqDomain ==
    ASSUME NEW T, NEW s \in Seq(T)
    PROVE  /\ IsFiniteSet(DOMAIN s) /\ AllInt(DOMAIN s) /\ DOMAIN s = 1..Len(s) /\ Len(s) \in Nat
           /\ \A i \in DOMAIN s : s[i] \in T
<1>1. DOMAIN s = 1..Len(s) /\ Len(s) \in Nat
  OBVIOUS
<1>2. IsFiniteSet(1..Len(s))
  BY <1>1, FS_Interval
<1>3. QED  BY <1>1, <1>2 DEF AllInt

\* A press adds a line to a cart or one to a line.
LEMMA AddKeepsCart ==
    ASSUME NEW cart \in Seq(CartLines), NEW press \in Presses
    PROVE  AddToCart(cart, press) \in Seq(CartLines)
<1> DEFINE same == {i \in DOMAIN cart : cart[i].entry = press.entry /\ cart[i].options = press.options}
           new == [entry |-> press.entry, options |-> press.options, quantity |-> 1]
           more == [i \in DOMAIN cart |->
                      IF i \in same THEN [cart[i] EXCEPT !.quantity = @ + 1] ELSE cart[i]]
<1>1. AddToCart(cart, press) = IF same = {} THEN Append(cart, new) ELSE more
  BY DEF AddToCart
<1>2. new \in CartLines
  BY DEF Presses, CartLines
<1>3. Append(cart, new) \in Seq(CartLines)
  BY <1>2
<1>4. more \in Seq(CartLines)
  <2>1. DOMAIN cart = 1..Len(cart) /\ Len(cart) \in Nat /\ \A i \in DOMAIN cart : cart[i] \in CartLines
    BY SeqDomain
  <2>2. \A c \in CartLines : [c EXCEPT !.quantity = @ + 1] \in CartLines
    BY DEF CartLines
  <2>3. \A i \in 1..Len(cart) : more[i] \in CartLines
    BY <2>1, <2>2
  <2>4. more = [i \in 1..Len(cart) |-> more[i]]
    BY <2>1
  <2> HIDE DEF more
  <2>5. more \in [1..Len(cart) -> CartLines]
    BY <2>3, <2>4
  <2>6. QED  BY <2>1, <2>5
<1>5. QED  BY <1>1, <1>3, <1>4

\* However often a cashier presses, the cart is a cart.
LEMMA CartType ==
    ASSUME NEW ticket \in Tickets
    PROVE  CartOf(ticket) \in Seq(CartLines)
<1> DEFINE s == ticket.presses
           D == DOMAIN s
           it == FoldOf("cart", << >>, s, D)
           Bad == {d \in SUBSET D : it[d] \notin Seq(CartLines)}
<1>1. s \in Seq(Presses)
  BY TicketsAssumption
<1>2. IsFiniteSet(D) /\ AllInt(D) /\ \A i \in D : s[i] \in Presses
  BY <1>1, SeqDomain
<1>3. IsFold("cart", it, << >>, s, D)
  <2> HIDE DEF D, s
  <2>1. QED  BY <1>2, FoldExists
<1>4. CartOf(ticket) = it[D]
  BY CartIsFold DEF CartOf
<1> HIDE DEF it, s
<1>5. SUFFICES ASSUME Bad # {} PROVE FALSE
  BY <1>4
<1>6. PICK d \in Bad : \A t \in Bad : t \subseteq d => t = d
  <2>1. Bad \subseteq SUBSET D
    OBVIOUS
  <2> HIDE DEF Bad, D
  <2>2. QED  BY <1>2, <1>5, <2>1, MinimalSubset
<1>7. it[d] = FoldStep("cart", it, << >>, s, d)
  BY <1>3 DEF IsFold
<1>8. d # {}
  <2>1. << >> \in Seq(CartLines)
    OBVIOUS
  <2>2. ASSUME d = {} PROVE it[d] = << >>
    BY <1>7, <2>2 DEF FoldStep
  <2>3. QED  BY <1>6, <2>1, <2>2
<1>9. Max(d) \in d /\ d \in SUBSET D
  <2>1. IsFiniteSet(d) /\ AllInt(d)
    BY <1>2, FS_Subset DEF AllInt
  <2>2. QED  BY <2>1, <1>8, MaxInside
<1>10. it[d \ {Max(d)}] \in Seq(CartLines)
  BY <1>6, <1>9
<1>11. s[Max(d)] \in Presses
  BY <1>2, <1>9
<1>12. it[d] = AddToCart(it[d \ {Max(d)}], s[Max(d)])
  BY <1>7, <1>8 DEF FoldStep
<1>13. it[d] \in Seq(CartLines)
  BY <1>10, <1>11, <1>12, AddKeepsCart
<1>14. QED  BY <1>6, <1>13

\* A sum of whole numbers that are not negative.
LEMMA TableNat ==
    ASSUME NEW S, IsFiniteSet(S), NEW g \in [S -> Nat]
    PROVE  SumFunction(g) \in Nat /\ SumFunction(g) = SumFunctionOnSet(g, S)
<1>1. SumFunction(g) = SumFunctionOnSet(g, S)
  BY DEF SumFunction
<1>2. \A x \in S : g[x] \in Nat
  OBVIOUS
<1>3. QED  BY <1>1, <1>2, SumNat

PartsOf(x, components) ==
    [i \in DOMAIN components |-> IF components[i].product = x THEN components[i].quantity ELSE 0]

\* How much of a product a composition has.
LEMMA QuantityType ==
    ASSUME NEW components \in Components, NEW x
    PROVE  /\ QuantityOf(x, components) \in Nat
           /\ QuantityOf(x, components) = SumFunctionOnSet(PartsOf(x, components), DOMAIN components)
<1>1. QuantityOf(x, components) = SumFunction(PartsOf(x, components))
  BY DEF QuantityOf, SumOver, SumOf, PartsOf
<1>2. components \in Seq([product : Articles, quantity : Nat \ {0}])
  BY DEF Components
<1>3. /\ IsFiniteSet(DOMAIN components)
      /\ \A i \in DOMAIN components : components[i] \in [product : Articles, quantity : Nat \ {0}]
  BY <1>2, SeqDomain
<1>4. PartsOf(x, components) \in [DOMAIN components -> Nat]
  BY <1>3 DEF PartsOf
<1>5. QED  BY <1>1, <1>3, <1>4, TableNat

\* The images of finitely many are finitely many, and as many only if none is shared.
LEMMA ImageCount ==
    ASSUME NEW S, IsFiniteSet(S), NEW f, NEW T, T = {f[x] : x \in S}
    PROVE  /\ IsFiniteSet(T)
           /\ Cardinality(T) = Cardinality(S) => \A x, y \in S : f[x] = f[y] => x = y
<1> DEFINE g == [x \in S |-> f[x]]
<1>1. g \in Surjection(S, T)
  BY DEF Surjection
<1>2. \A x \in S : g[x] = f[x]
  OBVIOUS
<1> HIDE DEF g
<1>3. IsFiniteSet(T) /\ (Cardinality(T) = Cardinality(S) => g \in Injection(S, T))
  BY <1>1, FS_Surjection
<1>4. g \in Injection(S, T) => \A x, y \in S : g[x] = g[y] => x = y
  BY DEF Injection, IsInjective
<1>5. QED  BY <1>2, <1>3, <1>4

\* Of an entry that is on the menu.
LEMMA OptionsType ==
    ASSUME MenuTypeOK, NEW line, line.entry \in Entries, menu[line.entry] # Nil
    PROVE  /\ menu[line.entry] \in Dishes
           /\ IsFiniteSet(OptionsOf(line))
           /\ \A o \in OptionsOf(line) : o \in Options
<1> DEFINE s == menu[line.entry].options
           at == [i \in DOMAIN s |-> s[i]]
<1>1. menu[line.entry] \in Dishes
  BY DEF MenuTypeOK
<1>2. s \in Seq(Options)
  BY <1>1 DEF Dishes
<1> HIDE DEF s
<1>3. IsFiniteSet(DOMAIN s) /\ \A i \in DOMAIN s : s[i] \in Options
  BY <1>2, SeqDomain
<1>4. IsFiniteSet({s[i] : i \in DOMAIN s})
  BY <1>3, ImageCount
<1>5. OptionsOf(line) = {o \in {s[i] : i \in DOMAIN s} : o.id \in line.options}
  BY DEF OptionsOf, ToSet, s
<1>6. IsFiniteSet(OptionsOf(line))
  BY <1>4, <1>5, FS_Subset
<1>7. QED  BY <1>1, <1>3, <1>5, <1>6

PricesOf(line) == [o \in OptionsOf(line) |-> o.price]
AddedBy(x, line) == [o \in OptionsOf(line) |-> QuantityOf(x, o.components)]

\* Dishes and options that are on the menu have a price and use goods.
LEMMA PriceType ==
    ASSUME MenuTypeOK, NEW line, line.entry \in Entries, menu[line.entry] # Nil
    PROVE  /\ UnitPrice(line) \in Nat
           /\ Uses(line) \in [Articles -> Nat]
<1>1. /\ menu[line.entry] \in Dishes
      /\ IsFiniteSet(OptionsOf(line))
      /\ \A o \in OptionsOf(line) : o \in Options
  BY OptionsType
<1>2. menu[line.entry].price \in Nat /\ menu[line.entry].components \in Components
  BY <1>1 DEF Dishes
<1>3. UnitPrice(line) \in Nat
  <2>1. PricesOf(line) \in [OptionsOf(line) -> Nat]
    BY <1>1 DEF PricesOf, Options
  <2>2. UnitPrice(line) = menu[line.entry].price + SumFunction(PricesOf(line))
    BY DEF UnitPrice, SumOf, PricesOf
  <2>3. SumFunction(PricesOf(line)) \in Nat
    BY <1>1, <2>1, TableNat
  <2>4. QED  BY <1>2, <2>2, <2>3
<1>4. ASSUME NEW x \in Articles
      PROVE  (IF x \in Replaced(line) THEN 0 ELSE QuantityOf(x, menu[line.entry].components))
             + SumFunction(AddedBy(x, line)) \in Nat
  <2>1. \A o \in OptionsOf(line) : QuantityOf(x, o.components) \in Nat
    BY <1>1, QuantityType DEF Options
  <2>2. AddedBy(x, line) \in [OptionsOf(line) -> Nat]
    BY <2>1 DEF AddedBy
  <2>3. SumFunction(AddedBy(x, line)) \in Nat
    BY <1>1, <2>2, TableNat
  <2>4. QuantityOf(x, menu[line.entry].components) \in Nat
    BY <1>2, QuantityType
  <2>5. QED  BY <2>3, <2>4
<1>5. Uses(line) = [x \in Articles |->
         (IF x \in Replaced(line) THEN 0 ELSE QuantityOf(x, menu[line.entry].components))
         + SumFunction(AddedBy(x, line))]
  BY DEF Uses, SumOf, AddedBy
<1>6. QED  BY <1>3, <1>4, <1>5

\* What is copied of the menu is a line of an order.
LEMMA SnapshotType ==
    ASSUME MenuTypeOK, NEW line, line.entry \in Entries, line.options \subseteq STRING,
           line.quantity \in Nat, menu[line.entry] # Nil
    PROVE  Snapshot(line) \in Lines
<1>1. UnitPrice(line) \in Nat /\ Uses(line) \in [Articles -> Nat]
  BY PriceType
<1>2. menu[line.entry].station \in Stations
  BY DEF MenuTypeOK, Dishes
<1>3. UnitPrice(line) * line.quantity \in Nat
  BY <1>1
<1>4. QED  BY <1>1, <1>2, <1>3 DEF Snapshot, Lines

\* resolveOrder makes lines of a cart whose dishes are for sale.
LEMMA ResolvedType ==
    ASSUME MenuTypeOK, NEW cart \in Seq(CartLines), \A line \in ToSet(cart) : Sellable(line)
    PROVE  Resolved(cart) \in Seq(Lines) /\ DOMAIN Resolved(cart) = DOMAIN cart
<1>1. DOMAIN cart = 1..Len(cart) /\ Len(cart) \in Nat /\ \A i \in DOMAIN cart : cart[i] \in CartLines
  BY SeqDomain
<1>2. ASSUME NEW i \in 1..Len(cart)
      PROVE  Snapshot(cart[i]) \in Lines
  <2>1. cart[i] \in CartLines
    BY <1>1
  <2>2. cart[i].entry \in Entries /\ cart[i].options \subseteq STRING /\ cart[i].quantity \in Nat
    BY <2>1 DEF CartLines
  <2>3. menu[cart[i].entry] # Nil
    BY <1>1 DEF ToSet, Sellable
  <2>4. QED  BY <2>2, <2>3, SnapshotType
<1>3. Resolved(cart) = [i \in 1..Len(cart) |-> Snapshot(cart[i])]
  BY <1>1 DEF Resolved
<1>4. Resolved(cart) \in [1..Len(cart) -> Lines]
  BY <1>2, <1>3
<1>5. QED  BY <1>1, <1>4

SubtotalsOf(lines) == [i \in DOMAIN lines |-> lines[i].subtotal]

\* Lines cost something or nothing, as a sum over their places.
LEMMA SubtotalType ==
    ASSUME NEW lines \in Seq(Lines)
    PROVE  Subtotal(lines) \in Nat /\ Subtotal(lines) = SumFunctionOnSet(SubtotalsOf(lines), DOMAIN lines)
<1>1. IsFiniteSet(DOMAIN lines) /\ \A i \in DOMAIN lines : lines[i] \in Lines
  BY SeqDomain
<1>2. SubtotalsOf(lines) \in [DOMAIN lines -> Nat]
  BY <1>1 DEF SubtotalsOf, Lines
<1>3. Subtotal(lines) = SumFunction(SubtotalsOf(lines))
  BY DEF Subtotal, SumOver, SumOf, SubtotalsOf
<1>4. QED  BY <1>1, <1>2, <1>3, TableNat

\* The table of what lines take of a product.
TakesOf(x, lines) == [i \in DOMAIN lines |-> lines[i].uses[x] * lines[i].quantity]

\* What the quote multiplies is what the movement of the sale multiplies.
LEMMA TakesType ==
    ASSUME NEW lines \in Seq(Lines), NEW x \in Articles
    PROVE  /\ IsFiniteSet(DOMAIN lines)
           /\ \A i \in DOMAIN lines : TakesOf(x, lines)[i] \in Nat
           /\ \A i \in DOMAIN lines : StockComponents(lines[i])[x] = TakesOf(x, lines)[i]
<1>1. IsFiniteSet(DOMAIN lines) /\ \A i \in DOMAIN lines : lines[i] \in Lines
  BY SeqDomain
<1>2. \A i \in DOMAIN lines : lines[i].uses[x] \in Nat /\ lines[i].quantity \in Nat
  BY <1>1 DEF Lines
<1>3. \A i \in DOMAIN lines : TakesOf(x, lines)[i] = lines[i].uses[x] * lines[i].quantity
  BY DEF TakesOf
<1>4. QED  BY <1>1, <1>2, <1>3 DEF StockComponents

\* What is required is a sum over the lines.
LEMMA RequiredIs ==
    ASSUME NEW lines \in Seq(Lines), NEW x \in Articles
    PROVE  Required(lines)[x] = SumFunctionOnSet(TakesOf(x, lines), DOMAIN lines)
<1>1. Required(lines)[x] = SumFunction(TakesOf(x, lines))
  BY DEF Required, SumOver, SumOf, TakesOf
<1>2. QED  BY <1>1 DEF SumFunction, TakesOf

\* What is taken for some lines is a sum over those lines.
LEMMA TakenIs ==
    ASSUME NEW lines \in Seq(Lines), NEW x \in Articles, NEW at \in SUBSET DOMAIN lines
    PROVE  /\ TakenBy(lines, at)[x] = SumFunctionOnSet(TakesOf(x, lines), at)
           /\ TakenBy(lines, at)[x] \in Nat
<1> DEFINE g == [i \in at |-> StockComponents(lines[i])[x]]
<1>1. TakenBy(lines, at)[x] = SumFunctionOnSet(g, at)
  BY DEF TakenBy, SumOf, SumFunction
<1>2. IsFiniteSet(at) /\ \A i \in at : g[i] = TakesOf(x, lines)[i] /\ g[i] \in Nat
  BY TakesType, FS_Subset
<1> HIDE DEF g
<1>3. SumFunctionOnSet(g, at) = SumFunctionOnSet(TakesOf(x, lines), at)
  BY <1>2, SumSame
<1>4. SumFunctionOnSet(g, at) \in Nat
  BY <1>2, SumNat
<1>5. QED  BY <1>1, <1>3, <1>4

-----------------------------------------------------------------------------
(* What is left of the goods after some lines of a sale.                     *)

TakeOf(x, lines, d) == SumFunctionOnSet(TakesOf(x, lines), d)
TooLittle(lines, d) == \E x \in Articles : TakeOf(x, lines, d) > goods[x]
LeftAfter(lines, d) ==
    IF TooLittle(lines, d) THEN Nil ELSE [x \in Articles |-> goods[x] - TakeOf(x, lines, d)]

\* What is left is a quantity of each product, or too little was there.
LEMMA LeftType ==
    ASSUME goods \in [Articles -> Nat], NEW lines \in Seq(Lines), NEW d \in SUBSET DOMAIN lines
    PROVE  /\ IsFiniteSet(d)
           /\ \A x \in Articles : TakeOf(x, lines, d) \in Nat /\ goods[x] \in Nat
           /\ ~TooLittle(lines, d) => LeftAfter(lines, d) \in [Articles -> Nat]
           /\ TooLittle(lines, d) <=> LeftAfter(lines, d) = Nil
<1>1. IsFiniteSet(DOMAIN lines)
  BY SeqDomain
<1>2. IsFiniteSet(d)
  BY <1>1, FS_Subset
<1>3. ASSUME NEW x \in Articles
      PROVE  TakeOf(x, lines, d) \in Nat
  <2>1. \A i \in d : TakesOf(x, lines)[i] \in Nat
    BY TakesType
  <2>2. QED  BY <1>2, <2>1, SumNat DEF TakeOf
<1>4. ASSUME ~TooLittle(lines, d)
      PROVE  LeftAfter(lines, d) \in [Articles -> Nat]
  <2>1. \A x \in Articles : goods[x] - TakeOf(x, lines, d) \in Nat
    BY <1>3, <1>4 DEF TooLittle
  <2>2. LeftAfter(lines, d) = [x \in Articles |-> goods[x] - TakeOf(x, lines, d)]
    BY <1>4 DEF LeftAfter
  <2>3. QED  BY <2>1, <2>2
<1>5. TooLittle(lines, d) => LeftAfter(lines, d) = Nil
  BY DEF LeftAfter
<1>6. QED  BY <1>2, <1>3, <1>4, <1>5, NilAssumption

\* One more movement: of what the others left, the line takes its goods.
LEMMA LeftStep ==
    ASSUME goods \in [Articles -> Nat], NEW lines \in Seq(Lines), NEW d \in SUBSET DOMAIN lines,
           NEW m \in d
    PROVE  LeftAfter(lines, d) = Take(LeftAfter(lines, d \ {m}), lines[m])
<1> DEFINE r == d \ {m}
           part(x) == StockComponents(lines[m])[x]
<1>1. r \in SUBSET DOMAIN lines
  OBVIOUS
<1>2. ASSUME NEW x \in Articles
      PROVE  /\ TakeOf(x, lines, d) = part(x) + TakeOf(x, lines, r)
             /\ TakeOf(x, lines, r) \in Nat /\ part(x) \in Nat /\ goods[x] \in Nat
             /\ TakeOf(x, lines, d) \in Nat
  <2>1. IsFiniteSet(d)
    BY LeftType
  <2>2. /\ \A i \in d : TakesOf(x, lines)[i] \in Int
        /\ part(x) = TakesOf(x, lines)[m] /\ part(x) \in Nat
    BY TakesType
  <2>3. TakeOf(x, lines, d) = part(x) + TakeOf(x, lines, r)
    BY <2>1, <2>2, SumRemove DEF TakeOf
  <2>4. TakeOf(x, lines, r) \in Nat /\ TakeOf(x, lines, d) \in Nat /\ goods[x] \in Nat
    BY <1>1, LeftType
  <2>5. QED  BY <2>2, <2>3, <2>4
<1> HIDE DEF r, part
<1>3. CASE TooLittle(lines, r)
  <2>1. TooLittle(lines, d)
    <3>1. PICK x \in Articles : TakeOf(x, lines, r) > goods[x]
      BY <1>3 DEF TooLittle
    <3>2. TakeOf(x, lines, d) > goods[x]
      BY <1>2, <3>1
    <3>3. QED  BY <3>2 DEF TooLittle
  <2>2. LeftAfter(lines, d) = Nil /\ LeftAfter(lines, r) = Nil
    BY <1>3, <2>1 DEF LeftAfter
  <2>3. QED  BY <2>2 DEF Take, r
<1>4. CASE ~TooLittle(lines, r)
  <2>1. LeftAfter(lines, r) # Nil
    BY <1>1, <1>4, LeftType
  <2>2. \A x \in Articles : LeftAfter(lines, r)[x] = goods[x] - TakeOf(x, lines, r)
    BY <1>4 DEF LeftAfter
  <2>3. \A x \in Articles : part(x) > LeftAfter(lines, r)[x] <=> TakeOf(x, lines, d) > goods[x]
    BY <1>2, <2>2
  <2>4. TooLittle(lines, d) <=> \E x \in Articles : part(x) > LeftAfter(lines, r)[x]
    BY <2>3 DEF TooLittle
  <2>5. Take(LeftAfter(lines, r), lines[m]) =
          IF TooLittle(lines, d) THEN Nil
          ELSE [x \in Articles |-> LeftAfter(lines, r)[x] - part(x)]
    BY <2>1, <2>4 DEF Take, part
  <2>6. \A x \in Articles : LeftAfter(lines, r)[x] - part(x) = goods[x] - TakeOf(x, lines, d)
    BY <1>2, <2>2
  <2>7. [x \in Articles |-> LeftAfter(lines, r)[x] - part(x)] =
        [x \in Articles |-> goods[x] - TakeOf(x, lines, d)]
    BY <2>6
  <2>8. QED  BY <2>5, <2>7 DEF LeftAfter, r
<1>5. QED  BY <1>3, <1>4

\* Line by line or all at once: the movements of a sale take what is required, or
\* all are undone.
LEMMA SaleIs ==
    ASSUME goods \in [Articles -> Nat], NEW lines \in Seq(Lines)
    PROVE  AfterSale(lines) = LeftAfter(lines, DOMAIN lines)
<1> DEFINE D == DOMAIN lines
           it == [d \in SUBSET D |-> LeftAfter(lines, d)]
<1>1. IsFiniteSet(D) /\ AllInt(D)
  BY SeqDomain
<1>2. ASSUME NEW d \in SUBSET D
      PROVE  LeftAfter(lines, d) = FoldStep("sale", it, goods, lines, d)
  <2>1. CASE d = {}
    <3>1. \A x \in Articles : TakeOf(x, lines, d) = 0 /\ goods[x] \in Nat
      BY <2>1, SumEmpty DEF TakeOf
    <3>2. ~TooLittle(lines, d)
      BY <3>1 DEF TooLittle
    <3>3. \A x \in Articles : goods[x] - TakeOf(x, lines, d) = goods[x]
      BY <3>1
    <3>4. [x \in Articles |-> goods[x] - TakeOf(x, lines, d)] = [x \in Articles |-> goods[x]]
      BY <3>3
    <3>5. [x \in Articles |-> goods[x]] = goods
      OBVIOUS
    <3>6. LeftAfter(lines, d) = goods
      BY <3>2, <3>4, <3>5 DEF LeftAfter
    <3>7. QED  BY <2>1, <3>6 DEF FoldStep
  <2>2. CASE d # {}
    <3>1. IsFiniteSet(d) /\ AllInt(d)
      BY <1>1, FS_Subset DEF AllInt
    <3>2. Max(d) \in d
      BY <2>2, <3>1, MaxInside
    <3>3. LeftAfter(lines, d) = Take(LeftAfter(lines, d \ {Max(d)}), lines[Max(d)])
      BY <3>2, LeftStep
    <3>4. it[d \ {Max(d)}] = LeftAfter(lines, d \ {Max(d)})
      OBVIOUS
    <3> HIDE DEF it
    <3>5. FoldStep("sale", it, goods, lines, d) = Take(it[d \ {Max(d)}], lines[Max(d)])
      BY <2>2 DEF FoldStep
    <3>6. QED  BY <3>3, <3>4, <3>5
  <2>3. QED  BY <2>1, <2>2
<1>3. IsFold("sale", it, goods, lines, D)
  BY <1>2 DEF IsFold
<1>4. it[D] = LeftAfter(lines, D)
  OBVIOUS
<1>5. AfterSale(lines) = FoldOf("sale", goods, lines, D)[D]
  BY SaleIsFold DEF AfterSale
<1>6. FoldOf("sale", goods, lines, D)[D] = it[D]
  <2> HIDE DEF it, D
  <2>1. QED  BY <1>1, <1>3, FoldFound
<1>7. QED  BY <1>4, <1>5, <1>6

\* The quote requires what all the movements take.
LEMMA RequiredIsTaken ==
    ASSUME NEW lines \in Seq(Lines), NEW x \in Articles
    PROVE  Required(lines)[x] = TakeOf(x, lines, DOMAIN lines)
BY RequiredIs DEF TakeOf

-----------------------------------------------------------------------------
(* The invariant.                                                            *)

\* Only what was charged is cooked, and until it is cooked no station has begun.
Ordered(entry) ==
    /\ entry.board \in {"QUEUED", "PREPARING"} => entry.sale = "PAID"
    /\ entry.sale # "REFUNDED" /\ entry.board # "PREPARING" => entry.started = {}

\* The lines of an order whose goods are out of the warehouse.
GoneOf(entry) ==
    {i \in DOMAIN entry.lines :
        \/ entry.sale = "PAID"
        \/ entry.sale = "REFUNDED" /\ entry.lines[i].station \in entry.started}

HeldOf(x, entry) == IF entry = Nil THEN 0 ELSE TakeOf(x, entry.lines, GoneOf(entry))
HeldTable(x, all) == [o \in Orders |-> HeldOf(x, all[o])]
HeldSum(x, all) == SumFunctionOnSet(HeldTable(x, all), Orders)

ComposedOnce == \A id \in Entries : menu[id] # Nil => OnePerProduct(menu[id].components)
AllOrdered == \A o \in Orders : placed[o] # Nil => Ordered(placed[o])
GoodsKept == \A x \in Articles : goods[x] + HeldSum(x, placed) = Goods0[x]

MenuInv == MenuTypeOK /\ ComposedOnce /\ AllOrdered /\ GoodsKept

\* An order has nothing negative out of the warehouse.
LEMMA HeldType ==
    ASSUME NEW all \in [Orders -> Placed \union {Nil}], NEW x \in Articles
    PROVE  /\ \A o \in Orders : HeldTable(x, all)[o] = HeldOf(x, all[o])
           /\ \A entry \in Placed \union {Nil} : HeldOf(x, entry) \in Nat
           /\ HeldSum(x, all) \in Nat
<1>1. ASSUME NEW entry \in Placed \union {Nil}
      PROVE  HeldOf(x, entry) \in Nat
  <2>1. CASE entry = Nil
    BY <2>1 DEF HeldOf
  <2>2. CASE entry # Nil
    <3> DEFINE lines == entry.lines
               at == GoneOf(entry)
    <3>1. lines \in Seq(Lines) /\ at \in SUBSET DOMAIN lines
      BY <2>2 DEF Placed, GoneOf
    <3> HIDE DEF lines, at
    <3>2. IsFiniteSet(at) /\ \A i \in at : TakesOf(x, lines)[i] \in Nat
      BY <3>1, TakesType, FS_Subset
    <3>3. TakeOf(x, lines, at) \in Nat
      BY <3>2, SumNat DEF TakeOf
    <3>4. QED  BY <2>2, <3>3 DEF HeldOf, lines, at
  <2>3. QED  BY <2>1, <2>2
<1>2. \A o \in Orders : HeldTable(x, all)[o] = HeldOf(x, all[o])
  BY DEF HeldTable
<1>3. \A o \in Orders : HeldTable(x, all)[o] \in Nat
  BY <1>1, <1>2
<1>4. HeldSum(x, all) \in Nat
  BY <1>3, OrdersAssumption, SumNat DEF HeldSum
<1>5. QED  BY <1>1, <1>2, <1>4

\* When one order changes, what is out changes by what that order has.
LEMMA HeldChange ==
    ASSUME NEW all \in [Orders -> Placed \union {Nil}], NEW x \in Articles,
           NEW o \in Orders, NEW new \in Placed, NEW then, then = [all EXCEPT ![o] = new]
    PROVE  HeldSum(x, then) = HeldSum(x, all) + (HeldOf(x, new) - HeldOf(x, all[o]))
<1>1. then \in [Orders -> Placed \union {Nil}]
  OBVIOUS
<1>2. \A p \in Orders : /\ HeldTable(x, all)[p] = HeldOf(x, all[p])
                        /\ HeldTable(x, then)[p] = HeldOf(x, then[p])
                        /\ HeldOf(x, all[p]) \in Int /\ HeldOf(x, then[p]) \in Int
  <2>1. \A entry \in Placed \union {Nil} : HeldOf(x, entry) \in Int
    BY HeldType
  <2>2. \A p \in Orders : all[p] \in Placed \union {Nil} /\ then[p] \in Placed \union {Nil}
    BY <1>1
  <2>3. QED  BY <2>1, <2>2 DEF HeldTable
<1>3. then[o] = new /\ \A p \in Orders \ {o} : then[p] = all[p]
  OBVIOUS
<1>4. /\ \A p \in Orders : HeldTable(x, all)[p] \in Int /\ HeldTable(x, then)[p] \in Int
      /\ \A p \in Orders \ {o} : HeldTable(x, all)[p] = HeldTable(x, then)[p]
  BY <1>2, <1>3
<1> DEFINE f == HeldTable(x, all)
           g == HeldTable(x, then)
<1>5. f[o] = HeldOf(x, all[o]) /\ g[o] = HeldOf(x, new)
  BY <1>2, <1>3
<1>6. HeldSum(x, then) = SumFunctionOnSet(g, Orders) /\ HeldSum(x, all) = SumFunctionOnSet(f, Orders)
  BY DEF HeldSum
<1> HIDE DEF f, g
<1>7. SumFunctionOnSet(g, Orders) = SumFunctionOnSet(f, Orders) + (g[o] - f[o])
  <2>1. IsFiniteSet(Orders)
    BY OrdersAssumption
  <2>2. /\ \A p \in Orders : f[p] \in Int /\ g[p] \in Int
        /\ \A p \in Orders \ {o} : f[p] = g[p]
    BY <1>4 DEF f, g
  <2>3. QED  BY <2>1, <2>2, SumChange
<1>8. QED  BY <1>5, <1>6, <1>7

\* What one order may become, with the goods that go out or come back for it.
LEMMA OrderStep ==
    ASSUME MenuInv, NEW o \in Orders, NEW new \in Placed, Ordered(new),
           placed' = [placed EXCEPT ![o] = new], goods' \in [Articles -> Nat],
           \A x \in Articles : goods'[x] = goods[x] - (HeldOf(x, new) - HeldOf(x, placed[o])),
           UNCHANGED <<menu, active>>
    PROVE  MenuInv'
<1>1. placed \in [Orders -> Placed \union {Nil}] /\ goods \in [Articles -> Nat]
  BY DEF MenuInv, MenuTypeOK
<1>2. MenuTypeOK'
  BY <1>1 DEF MenuInv, MenuTypeOK
<1>3. ComposedOnce'
  BY DEF MenuInv, ComposedOnce, OnePerProduct, NoneTwice
<1>4. AllOrdered'
  BY <1>1 DEF MenuInv, AllOrdered
<1>5. GoodsKept'
  <2>1. ASSUME NEW x \in Articles
        PROVE  goods'[x] + HeldSum(x, placed') = Goods0[x]
    <3>1. HeldSum(x, placed') = HeldSum(x, placed) + (HeldOf(x, new) - HeldOf(x, placed[o]))
      BY <1>1, HeldChange
    <3>2. /\ HeldSum(x, placed) \in Nat /\ HeldOf(x, new) \in Nat
          /\ HeldOf(x, placed[o]) \in Nat /\ goods[x] \in Nat
      BY <1>1, HeldType
    <3>3. goods[x] + HeldSum(x, placed) = Goods0[x]
      BY DEF MenuInv, GoodsKept
    <3>4. goods'[x] = goods[x] - (HeldOf(x, new) - HeldOf(x, placed[o]))
      OBVIOUS
    <3>5. QED  BY <3>1, <3>2, <3>3, <3>4
  <2>2. QED  BY <2>1 DEF GoodsKept
<1>6. QED  BY <1>2, <1>3, <1>4, <1>5 DEF MenuInv

\* Of a sale that is charged all is out.
LEMMA HeldAll ==
    ASSUME NEW entry \in Placed, entry.sale = "PAID", NEW x
    PROVE  HeldOf(x, entry) = TakeOf(x, entry.lines, DOMAIN entry.lines)
<1>1. GoneOf(entry) = DOMAIN entry.lines
  BY DEF GoneOf
<1>2. QED  BY <1>1, NilAssumption DEF HeldOf

\* Nothing is ordered at the start.
LEMMA MenuInitial == MenuInit => MenuInv
<1>1. SUFFICES ASSUME MenuInit PROVE MenuInv
  OBVIOUS
<1>2. /\ menu = [id \in Entries |-> Nil] /\ active = Articles
      /\ placed = [o \in Orders |-> Nil] /\ goods = Goods0
  BY <1>1 DEF MenuInit
<1>3. MenuTypeOK
  BY <1>2, GoodsAssumption DEF MenuTypeOK
<1>4. ComposedOnce /\ AllOrdered
  BY <1>2 DEF ComposedOnce, AllOrdered
<1>5. GoodsKept
  <2>1. ASSUME NEW x \in Articles
        PROVE  HeldSum(x, placed) = 0
    <3>1. \A o \in Orders : HeldTable(x, placed)[o] = 0
      BY <1>2 DEF HeldTable, HeldOf
    <3>2. QED  BY <3>1, OrdersAssumption, SumOfZeroes DEF HeldSum
  <2>2. \A x \in Articles : Goods0[x] \in Nat
    BY GoodsAssumption
  <2>3. QED  BY <1>2, <2>1, <2>2 DEF GoodsKept
<1>6. QED  BY <1>3, <1>4, <1>5 DEF MenuInv

\* Saving a dish asks that no product is named twice; orders are not looked at.
LEMMA SubmitKeeps == MenuInv /\ Submit => MenuInv'
<1>1. SUFFICES ASSUME MenuInv, Submit PROVE MenuInv'
  OBVIOUS
<1>2. PICK form \in Forms : SaveMenu(form[1], form[2])
  BY <1>1 DEF Submit
<1>3. form[1] \in Entries /\ form[2] \in Dishes
  BY FormsAssumption
<1>4. /\ OnePerProduct(form[2].components)
      /\ menu' = [menu EXCEPT ![form[1]] = form[2]] /\ UNCHANGED <<active, placed, goods>>
  BY <1>2 DEF SaveMenu, MaySave
<1>5. MenuTypeOK'
  BY <1>1, <1>3, <1>4 DEF MenuInv, MenuTypeOK
<1>6. ComposedOnce'
  <2>1. menu \in [Entries -> Dishes \union {Nil}]
    BY <1>1 DEF MenuInv, MenuTypeOK
  <2>2. ASSUME NEW id \in Entries, menu'[id] # Nil
        PROVE  OnePerProduct(menu'[id].components)
    <3>1. CASE id = form[1]
      BY <1>3, <1>4, <2>1, <3>1
    <3>2. CASE id # form[1]
      <4>1. menu'[id] = menu[id]
        BY <1>3, <1>4, <2>1, <3>2
      <4>2. QED  BY <1>1, <2>2, <4>1 DEF MenuInv, ComposedOnce
    <3>3. QED  BY <3>1, <3>2
  <2>3. QED  BY <2>2 DEF ComposedOnce, OnePerProduct, NoneTwice
<1>7. AllOrdered' /\ GoodsKept'
  BY <1>1, <1>4 DEF MenuInv, AllOrdered, GoodsKept
<1>8. QED  BY <1>5, <1>6, <1>7 DEF MenuInv

\* Pausing a product changes no composition and no order.
LEMMA SetActiveKeeps ==
    ASSUME MenuInv, NEW x \in Pausable, SetActive(x)
    PROVE  MenuInv'
<1>1. UNCHANGED <<menu, placed, goods>> /\ active' \subseteq Articles
  BY FormsAssumption DEF SetActive, MenuInv, MenuTypeOK
<1>2. MenuTypeOK'
  BY <1>1 DEF MenuInv, MenuTypeOK
<1>3. ComposedOnce'
  BY <1>1 DEF MenuInv, ComposedOnce, OnePerProduct, NoneTwice
<1>4. AllOrdered' /\ GoodsKept'
  BY <1>1 DEF MenuInv, AllOrdered, GoodsKept
<1>5. QED  BY <1>2, <1>3, <1>4 DEF MenuInv

\* What the steps below read of the invariant.
LEMMA MenuFacts ==
    ASSUME MenuInv
    PROVE  /\ MenuTypeOK
           /\ menu \in [Entries -> Dishes \union {Nil}]
           /\ placed \in [Orders -> Placed \union {Nil}] /\ goods \in [Articles -> Nat]
           /\ \A o \in Orders : placed[o] # Nil => placed[o] \in Placed /\ Ordered(placed[o])
BY DEF MenuInv, MenuTypeOK, AllOrdered

\* Of a sale that is neither charged nor returned nothing is out.
LEMMA NothingOut ==
    ASSUME NEW entry, entry.sale \notin {"PAID", "REFUNDED"}, NEW x
    PROVE  HeldOf(x, entry) = 0
<1>1. GoneOf(entry) = {}
  BY DEF GoneOf
<1>2. QED  BY <1>1, SumEmpty DEF HeldOf, TakeOf

\* An order that is saved is a draft: nothing goes out.
LEMMA CreateOrderKeeps ==
    ASSUME MenuInv, NEW o \in Orders, CreateOrder(o)
    PROVE  MenuInv'
<1>1. /\ MenuTypeOK /\ placed \in [Orders -> Placed \union {Nil}]
      /\ goods \in [Articles -> Nat]
  BY MenuFacts
<1>2. PICK ticket \in Tickets :
        /\ Accepted(CartOf(ticket), ticket)
        /\ placed' = [placed EXCEPT ![o] =
              [sale |-> "DRAFT", board |-> "DRAFT", lines |-> Resolved(CartOf(ticket)), started |-> {},
               total |-> Subtotal(Resolved(CartOf(ticket))) - ticket.discount]]
  BY DEF CreateOrder
<1> DEFINE lines == Resolved(CartOf(ticket))
           new == [sale |-> "DRAFT", board |-> "DRAFT", lines |-> lines, started |-> {},
                   total |-> Subtotal(lines) - ticket.discount]
<1>3. placed[o] = Nil /\ UNCHANGED <<menu, active, goods>>
  BY DEF CreateOrder
<1>4. CartOf(ticket) \in Seq(CartLines)
  BY CartType
<1>5. \A line \in ToSet(CartOf(ticket)) : Sellable(line)
  BY <1>2 DEF Accepted
<1>6. lines \in Seq(Lines)
  BY <1>1, <1>4, <1>5, ResolvedType
<1>7. ticket.discount \in Nat /\ ticket.discount <= Subtotal(lines)
  BY <1>2, TicketsAssumption DEF Accepted
<1> HIDE DEF lines
<1>8. Subtotal(lines) \in Nat
  BY <1>6, SubtotalType
<1>9. new \in Placed
  BY <1>6, <1>7, <1>8 DEF Placed
<1>10. Ordered(new) /\ new.sale = "DRAFT"
  BY DEF Ordered
<1>11. placed' = [placed EXCEPT ![o] = new]
  BY <1>2 DEF lines
<1> HIDE DEF new
<1>12. \A x \in Articles : HeldOf(x, new) = 0 /\ HeldOf(x, placed[o]) = 0
  BY <1>3, <1>10, NothingOut DEF HeldOf
<1>13. \A x \in Articles : goods'[x] = goods[x] - (HeldOf(x, new) - HeldOf(x, placed[o]))
  BY <1>1, <1>3, <1>12
<1>14. QED  BY <1>1, <1>3, <1>9, <1>10, <1>11, <1>13, OrderStep

\* An order keeps all but what a step says.
Moved(entry, charge, board) == [entry EXCEPT !.sale = charge, !.board = board]

LEMMA SetIs ==
    ASSUME MenuInv, NEW o \in Orders, placed[o] # Nil, NEW charge, NEW board, Set(o, charge, board)
    PROVE  placed' = [placed EXCEPT ![o] = Moved(placed[o], charge, board)]
<1>1. placed[o] \in Placed
  BY MenuFacts
<1>2. QED  BY <1>1, MenuFacts DEF Set, Moved, Placed

\* When a sale is confirmed all its lines go out at once.
LEMMA ConfirmKeeps ==
    ASSUME MenuInv, NEW o \in Orders, Confirm(o)
    PROVE  MenuInv'
<1> DEFINE old == placed[o]
           new == Moved(old, "PAID", old.board)
           D == DOMAIN old.lines
<1>1. /\ old # Nil /\ old.sale = "DRAFT" /\ AfterSale(old.lines) # Nil
      /\ goods' = AfterSale(old.lines) /\ Set(o, "PAID", old.board) /\ UNCHANGED <<menu, active>>
  BY DEF Confirm
<1>2. old \in Placed /\ Ordered(old) /\ goods \in [Articles -> Nat]
  BY <1>1, MenuFacts
<1>3. placed' = [placed EXCEPT ![o] = new]
  BY <1>1, SetIs
<1>4. old.lines \in Seq(Lines)
  BY <1>2 DEF Placed
<1>5. AfterSale(old.lines) = LeftAfter(old.lines, D)
  BY <1>2, <1>4, SaleIs
<1>6. ~TooLittle(old.lines, D) /\ LeftAfter(old.lines, D) \in [Articles -> Nat]
  <2>1. D \in SUBSET DOMAIN old.lines
    OBVIOUS
  <2>2. QED  BY <1>1, <1>2, <1>4, <1>5, <2>1, LeftType
<1>7. \A x \in Articles : goods'[x] = goods[x] - TakeOf(x, old.lines, D)
  BY <1>1, <1>5, <1>6 DEF LeftAfter
<1>8. new \in Placed /\ new.sale = "PAID" /\ new.lines = old.lines
  BY <1>2 DEF Placed, Moved
<1>9. Ordered(new)
  BY <1>1, <1>2 DEF Ordered, Placed, Moved
<1>10. ASSUME NEW x \in Articles
       PROVE  goods'[x] = goods[x] - (HeldOf(x, new) - HeldOf(x, old))
  <2>1. HeldOf(x, old) = 0
    BY <1>1, NothingOut
  <2>2. HeldOf(x, new) = TakeOf(x, old.lines, D)
    <3> HIDE DEF new
    <3>1. QED  BY <1>8, HeldAll
  <2>3. TakeOf(x, old.lines, D) \in Nat
    BY <1>2, <1>4, LeftType
  <2>4. QED  BY <1>7, <2>1, <2>2, <2>3
<1>11. goods' \in [Articles -> Nat]
  BY <1>1, <1>5, <1>6
<1> HIDE DEF new
<1>12. QED  BY <1>1, <1>3, <1>8, <1>9, <1>10, <1>11, OrderStep

\* Sent to the kitchen, an order has out what it had.
LEMMA QueueKeeps ==
    ASSUME MenuInv, NEW o \in Orders, Queue(o)
    PROVE  MenuInv'
<1> DEFINE old == placed[o]
           new == Moved(old, "PAID", "QUEUED")
<1>1. /\ old # Nil /\ old.sale = "PAID" /\ old.board = "DRAFT" /\ Set(o, "PAID", "QUEUED")
      /\ UNCHANGED <<menu, active, goods>>
  BY DEF Queue
<1>2. old \in Placed /\ Ordered(old) /\ goods \in [Articles -> Nat]
  BY <1>1, MenuFacts
<1>3. placed' = [placed EXCEPT ![o] = new]
  BY <1>1, SetIs
<1>4. new \in Placed /\ new.sale = "PAID" /\ new.lines = old.lines
  BY <1>2 DEF Placed, Moved
<1>5. Ordered(new)
  BY <1>1, <1>2 DEF Ordered, Placed, Moved
<1> HIDE DEF new
<1>6. ASSUME NEW x \in Articles
      PROVE  goods'[x] = goods[x] - (HeldOf(x, new) - HeldOf(x, old))
  <2>1. HeldOf(x, new) = HeldOf(x, old)
    BY <1>1, <1>2, <1>4, HeldAll
  <2>2. HeldOf(x, old) \in Nat /\ goods[x] \in Nat
    BY <1>2, HeldType, MenuFacts
  <2>3. QED  BY <1>1, <2>1, <2>2
<1>7. QED  BY <1>1, <1>2, <1>3, <1>4, <1>5, <1>6, OrderStep

\* A station that begins takes nothing more.
LEMMA StartKeeps ==
    ASSUME MenuInv, NEW o \in Orders, NEW station \in Stations, Start(o, station)
    PROVE  MenuInv'
<1> DEFINE old == placed[o]
           new == [old EXCEPT !.board = "PREPARING", !.started = @ \union {station}]
<1>1. /\ old # Nil /\ old.board \in {"QUEUED", "PREPARING"}
      /\ UNCHANGED <<menu, active, goods>>
  BY DEF Start
<1>2. old \in Placed /\ Ordered(old) /\ goods \in [Articles -> Nat]
  BY <1>1, MenuFacts
<1>3. old.sale = "PAID"
  BY <1>1, <1>2 DEF Ordered
<1>4. placed' = [placed EXCEPT ![o] = new]
  BY <1>2, MenuFacts DEF Start, Placed
<1>5. new \in Placed /\ new.sale = "PAID" /\ new.lines = old.lines
  BY <1>2, <1>3 DEF Placed
<1>6. Ordered(new)
  BY <1>2, <1>3 DEF Ordered, Placed
<1> HIDE DEF new
<1>7. ASSUME NEW x \in Articles
      PROVE  goods'[x] = goods[x] - (HeldOf(x, new) - HeldOf(x, old))
  <2>1. HeldOf(x, new) = HeldOf(x, old)
    BY <1>2, <1>3, <1>5, HeldAll
  <2>2. HeldOf(x, old) \in Nat /\ goods[x] \in Nat
    BY <1>2, HeldType, MenuFacts
  <2>3. QED  BY <1>1, <2>1, <2>2
<1>8. QED  BY <1>1, <1>2, <1>4, <1>5, <1>6, <1>7, OrderStep

\* A draft that is cancelled had nothing out.
LEMMA CancelKeeps ==
    ASSUME MenuInv, NEW o \in Orders, Cancel(o)
    PROVE  MenuInv'
<1> DEFINE old == placed[o]
           new == Moved(old, "CANCELLED", "CANCELLED")
<1>1. /\ old # Nil /\ old.sale = "DRAFT" /\ Set(o, "CANCELLED", "CANCELLED")
      /\ UNCHANGED <<menu, active, goods>>
  BY DEF Cancel
<1>2. old \in Placed /\ Ordered(old) /\ goods \in [Articles -> Nat]
  BY <1>1, MenuFacts
<1>3. placed' = [placed EXCEPT ![o] = new]
  BY <1>1, SetIs
<1>4. new \in Placed /\ new.sale = "CANCELLED"
  BY <1>2 DEF Placed, Moved
<1>5. Ordered(new)
  BY <1>1, <1>2 DEF Ordered, Placed, Moved
<1> HIDE DEF new
<1>6. \A x \in Articles : HeldOf(x, new) = 0 /\ HeldOf(x, old) = 0
  BY <1>1, <1>4, NothingOut
<1>7. \A x \in Articles : goods'[x] = goods[x] - (HeldOf(x, new) - HeldOf(x, old))
  BY <1>1, <1>2, <1>6
<1>8. QED  BY <1>1, <1>2, <1>3, <1>4, <1>5, <1>7, OrderStep

\* What comes back for a returned order is all it had out but the lines begun.
LEMMA RestoredIs ==
    ASSUME MenuInv, NEW o \in Orders, placed[o] # Nil, placed[o].sale = "PAID",
           NEW new \in Placed, new.sale = "REFUNDED", new.lines = placed[o].lines,
           new.started = placed[o].started, NEW x \in Articles
    PROVE  HeldOf(x, placed[o]) = HeldOf(x, new) + Restored(o)[x]
<1> DEFINE old == placed[o]
           lines == old.lines
           D == DOMAIN lines
           back == Unbegun(o)
           g == TakesOf(x, lines)
<1>1. old \in Placed /\ Ordered(old)
  BY MenuFacts
<1>2. lines \in Seq(Lines) /\ back \in SUBSET D
  BY <1>1 DEF Placed, Unbegun
<1>3. HeldOf(x, old) = SumFunctionOnSet(g, D)
  BY <1>1, HeldAll DEF TakeOf
<1>4. Restored(o)[x] = SumFunctionOnSet(g, back)
  BY <1>2, TakenIs DEF Restored
<1>5. GoneOf(new) = D \ back
  <2>1. GoneOf(new) = {i \in D : lines[i].station \in old.started}
    BY DEF GoneOf
  <2>2. old.board # "PREPARING" => old.started = {}
    BY <1>1 DEF Ordered
  <2>3. back = {i \in D : old.board # "PREPARING" \/ lines[i].station \notin old.started}
    BY DEF Unbegun
  <2>4. QED  BY <2>1, <2>2, <2>3
<1>6. HeldOf(x, new) = SumFunctionOnSet(g, D \ back)
  BY <1>5, NilAssumption DEF HeldOf, TakeOf
<1>7. IsFiniteSet(D) /\ \A i \in D : g[i] \in Nat
  BY <1>2, TakesType
<1> HIDE DEF back, g, D
<1>8. /\ SumFunctionOnSet(g, back) \in Nat /\ SumFunctionOnSet(g, D \ back) \in Nat
      /\ SumFunctionOnSet(g, D) = SumFunctionOnSet(g, back) + SumFunctionOnSet(g, D \ back)
  <2>1. IsFiniteSet(back) /\ IsFiniteSet(D \ back)
    BY <1>2, <1>7, FS_Subset
  <2>2. (\A i \in D : g[i] \in Int) /\ back \subseteq D
    BY <1>2, <1>7
  <2>3. SumFunctionOnSet(g, D) = SumFunctionOnSet(g, back) + SumFunctionOnSet(g, D \ back)
    BY <1>7, <2>2, SumSplit
  <2>4. SumFunctionOnSet(g, back) \in Nat
    BY <1>7, <2>1, <2>2, SumNat
  <2>5. SumFunctionOnSet(g, D \ back) \in Nat
    BY <1>7, <2>1, SumNat
  <2>6. QED  BY <2>3, <2>4, <2>5
<1>9. QED  BY <1>3, <1>4, <1>6, <1>8

\* A return leaves the lines begun out and nothing else.
LEMMA ReturnKeeps ==
    ASSUME MenuInv, NEW o \in Orders, Return(o)
    PROVE  MenuInv'
<1> DEFINE old == placed[o]
           new == Moved(old, "REFUNDED", "CANCELLED")
<1>1. /\ old # Nil /\ old.sale = "PAID" /\ Set(o, "REFUNDED", "CANCELLED")
      /\ goods' = [x \in Articles |-> goods[x] + Restored(o)[x]] /\ UNCHANGED <<menu, active>>
  BY DEF Return
<1>2. old \in Placed /\ Ordered(old) /\ goods \in [Articles -> Nat]
  BY <1>1, MenuFacts
<1>3. placed' = [placed EXCEPT ![o] = new]
  BY <1>1, SetIs
<1>4. new \in Placed /\ new.sale = "REFUNDED" /\ new.lines = old.lines /\ new.started = old.started
  BY <1>2 DEF Placed, Moved
<1>5. Ordered(new)
  BY <1>1, <1>2 DEF Ordered, Placed, Moved
<1> HIDE DEF new
<1>6. ASSUME NEW x \in Articles
      PROVE  goods'[x] = goods[x] - (HeldOf(x, new) - HeldOf(x, old)) /\ goods'[x] \in Nat
  <2>1. HeldOf(x, old) = HeldOf(x, new) + Restored(o)[x]
    BY <1>1, <1>4, RestoredIs
  <2>2. HeldOf(x, old) \in Nat /\ HeldOf(x, new) \in Nat /\ goods[x] \in Nat
    BY <1>2, <1>4, HeldType, MenuFacts
  <2>3. Restored(o)[x] \in Nat
    <3>1. old.lines \in Seq(Lines) /\ Unbegun(o) \in SUBSET DOMAIN old.lines
      BY <1>2 DEF Placed, Unbegun
    <3>2. QED  BY <3>1, TakenIs DEF Restored
  <2>4. goods'[x] = goods[x] + Restored(o)[x]
    BY <1>1
  <2>5. QED  BY <2>1, <2>2, <2>3, <2>4
<1>7. goods' \in [Articles -> Nat]
  BY <1>1, <1>6
<1>8. QED  BY <1>1, <1>3, <1>4, <1>5, <1>6, <1>7, OrderStep

\* The invariant holds in every behaviour of the menu: whatever managers save and pause,
\* no dish names a product twice, only what was charged is cooked, and the goods are
\* those of the start less what the orders have out (saveMenu, transition, returnSale).
THEOREM MenuInvariance == MenuSpec => []MenuInv
<1>1. MenuInv /\ [MenuNext]_menuVars => MenuInv'
  <2>1. SUFFICES ASSUME MenuInv, [MenuNext]_menuVars PROVE MenuInv'
    OBVIOUS
  <2>2. CASE UNCHANGED menuVars
    BY <2>1, <2>2 DEF menuVars, MenuInv, MenuTypeOK, ComposedOnce, OnePerProduct, NoneTwice,
                      AllOrdered, GoodsKept
  <2>3. CASE Submit
    BY <2>1, <2>3, SubmitKeeps
  <2>4. CASE \E x \in Pausable : SetActive(x)
    BY <2>1, <2>4, SetActiveKeeps
  <2>5. ASSUME NEW o \in Orders, CreateOrder(o) \/ Confirm(o) \/ Queue(o) \/ Return(o) \/ Cancel(o)
        PROVE  MenuInv'
    BY <2>1, <2>5, CreateOrderKeeps, ConfirmKeeps, QueueKeeps, ReturnKeeps, CancelKeeps
  <2>6. ASSUME NEW o \in Orders, NEW station \in Stations, Start(o, station)
        PROVE  MenuInv'
    BY <2>1, <2>6, StartKeeps
  <2>7. QED  BY <2>1, <2>2, <2>3, <2>4, <2>5, <2>6 DEF MenuNext
<1>2. QED  BY <1>1, MenuInitial, PTL DEF MenuSpec

\* However the menu is edited, a dish moved or a product paused, between the save of an
\* order, its charge, the start of a station and its return: the goods are those of the
\* start less, for each order, what it said when it was saved (create, confirm, returnSale).
THEOREM AnOrderKeepsItsMenu == MenuSpec => []OrdersKeepTheirMenu
<1>1. MenuInv => OrdersKeepTheirMenu
  <2>1. SUFFICES ASSUME MenuInv PROVE OrdersKeepTheirMenu
    OBVIOUS
  <2>2. ASSUME NEW x \in Articles
        PROVE  SumOf(Orders, LAMBDA o : IF placed[o] = Nil THEN 0 ELSE Out(o)[x])
               = HeldSum(x, placed)
    <3> DEFINE g == [o \in Orders |-> IF placed[o] = Nil THEN 0 ELSE Out(o)[x]]
    <3>1. SumOf(Orders, LAMBDA o : IF placed[o] = Nil THEN 0 ELSE Out(o)[x])
          = SumFunctionOnSet(g, Orders)
      BY DEF SumOf, SumFunction
    <3>2. ASSUME NEW o \in Orders
          PROVE  g[o] = HeldTable(x, placed)[o] /\ g[o] \in Int
      <4>1. HeldTable(x, placed)[o] = HeldOf(x, placed[o])
        BY DEF HeldTable
      <4>2. HeldOf(x, placed[o]) \in Int
        BY <2>1, MenuFacts, HeldType
      <4>3. CASE placed[o] = Nil
        BY <4>1, <4>3 DEF HeldOf
      <4>4. CASE placed[o] # Nil
        <5> DEFINE at == GoneOf(placed[o])
        <5>1. placed[o].lines \in Seq(Lines) /\ at \in SUBSET DOMAIN placed[o].lines
          BY <2>1, <4>4, MenuFacts DEF Placed, GoneOf
        <5>2. Out(o) = TakenBy(placed[o].lines, at)
          BY DEF Out, GoneOf
        <5>3. Out(o)[x] = TakeOf(x, placed[o].lines, at)
          BY <5>1, <5>2, TakenIs DEF TakeOf
        <5>4. QED  BY <4>1, <4>2, <4>4, <5>3 DEF HeldOf
      <4>5. QED  BY <4>3, <4>4
    <3> HIDE DEF g
    <3>3. SumFunctionOnSet(g, Orders) = SumFunctionOnSet(HeldTable(x, placed), Orders)
      BY <3>2, OrdersAssumption, SumSame
    <3>4. QED  BY <3>1, <3>3 DEF HeldSum
  <2>3. \A x \in Articles : goods[x] + HeldSum(x, placed) = Goods0[x]
    BY <2>1 DEF MenuInv, GoodsKept
  <2>4. QED  BY <2>1, <2>2, <2>3 DEF OrdersKeepTheirMenu, MenuInv
<1>2. QED  BY <1>1, MenuInvariance, PTL

-----------------------------------------------------------------------------
(* What the pages foresee.                                                   *)

\* The least of some numbers is one of them.
LEMMA MinInside ==
    ASSUME NEW S, IsFiniteSet(S), S # {}, AllInt(S)
    PROVE  /\ Min(S) \in S
           /\ \A y \in S : Min(S) <= y
<1> DEFINE e == [z \in S |-> 0 - z]
<1>1. \A y \in S : e[y] \in Int /\ e[y] = 0 - y /\ y \in Int
  BY DEF AllInt
<1> HIDE DEF e
<1>2. PICK x \in S : \A y \in S : e[y] <= e[x]
  BY <1>1, Greatest
<1>3. \E z \in S : \A y \in S : z <= y
  BY <1>1, <1>2
<1>4. QED  BY <1>3 DEF Min

\* A total that is not negative is shown as it is.
LEMMA MaxOfZero ==
    ASSUME NEW n \in Nat
    PROVE  Max({0, n}) = n
<1>1. \E z \in {0, n} : \A y \in {0, n} : z >= y
  OBVIOUS
<1>2. Max({0, n}) \in {0, n} /\ \A y \in {0, n} : Max({0, n}) >= y
  BY <1>1 DEF Max
<1>3. QED  BY <1>2

\* So many dishes as the goods hold of a part.
LEMMA Portions ==
    ASSUME NEW n \in Nat, NEW a \in Nat, NEW q \in Nat \ {0}
    PROVE  n <= a \div q <=> n * q <= a
<1> DEFINE d == a \div q
<1>1. d \in Int /\ a = q * d + (a % q) /\ 0 <= a % q /\ a % q < q
  OBVIOUS
<1>2. PICK r \in Int : a = q * d + r /\ 0 <= r /\ r < q
  <2>1. a % q \in Int
    OBVIOUS
  <2>2. QED  BY <1>1, <2>1
<1> HIDE DEF d
<1>3. ASSUME n <= d PROVE n * q <= a
  <2>1. PICK k \in Nat : d = n + k
    <3>1. d - n \in Nat /\ d = n + (d - n)
      BY <1>1, <1>3
    <3>2. QED  BY <3>1
  <2>2. q * d = n * q + q * k /\ q * k \in Nat /\ n * q \in Nat
    BY <2>1
  <2>3. QED  BY <1>2, <2>2
<1>4. ASSUME ~(n <= d) PROVE ~(n * q <= a)
  <2>1. PICK k \in Nat : n = d + 1 + k
    <3>1. n - (d + 1) \in Nat /\ n = d + 1 + (n - (d + 1))
      BY <1>1, <1>4
    <3>2. QED  BY <3>1
  <2>2. n * q = q * d + q + q * k /\ q * k \in Nat /\ q * d \in Int
    BY <1>1, <2>1
  <2>3. QED  BY <1>2, <2>2
<1>5. QED  BY <1>3, <1>4 DEF d

\* The page multiplies and adds what the service multiplies and adds.
LEMMA TotalsAgree ==
    ASSUME MenuTypeOK, NEW ticket \in Tickets, Accepted(CartOf(ticket), ticket)
    PROVE  /\ Resolved(CartOf(ticket)) \in Seq(Lines)
           /\ PageTotal(CartOf(ticket), ticket.discount)
              = Subtotal(Resolved(CartOf(ticket))) - ticket.discount
<1> DEFINE cart == CartOf(ticket)
           lines == Resolved(cart)
           shown == [i \in DOMAIN cart |-> UnitPrice(cart[i]) * cart[i].quantity]
<1>1. cart \in Seq(CartLines)
  BY CartType
<1>2. \A line \in ToSet(cart) : Sellable(line)
  BY DEF Accepted
<1>3. lines \in Seq(Lines)
  BY <1>1, <1>2, ResolvedType
<1>4. SumOver(cart, LAMBDA line : UnitPrice(line) * line.quantity) = SumFunction(shown)
  BY DEF SumOver, SumOf
<1>5. SubtotalsOf(lines) = shown
  BY DEF SubtotalsOf, Resolved, Snapshot
<1>6. Subtotal(lines) = SumFunction(SubtotalsOf(lines))
  BY DEF Subtotal, SumOver, SumOf, SubtotalsOf
<1>7. Subtotal(lines) \in Nat
  BY <1>3, SubtotalType
<1>8. ticket.discount \in Nat /\ ticket.discount <= Subtotal(lines)
  BY TicketsAssumption DEF Accepted
<1>9. Subtotal(lines) - ticket.discount \in Nat
  BY <1>7, <1>8
<1>10. PageTotal(cart, ticket.discount) = Max({0, Subtotal(lines) - ticket.discount})
  BY <1>4, <1>5, <1>6 DEF PageTotal
<1>11. QED  BY <1>3, <1>9, <1>10, MaxOfZero

\* The review adds up what the movements of the sale take one by one.
LEMMA ReviewForesees ==
    ASSUME goods \in [Articles -> Nat], NEW lines \in Seq(Lines)
    PROVE  CanFulfill(lines) <=> AfterSale(lines) # Nil
<1> DEFINE D == DOMAIN lines
<1>1. /\ \A x \in Articles : TakeOf(x, lines, D) \in Nat /\ goods[x] \in Nat
      /\ TooLittle(lines, D) <=> LeftAfter(lines, D) = Nil
  <2>1. D \in SUBSET DOMAIN lines
    OBVIOUS
  <2>2. QED  BY <2>1, LeftType
<1>2. \A x \in Articles : Required(lines)[x] = TakeOf(x, lines, D)
  BY RequiredIsTaken
<1>3. AfterSale(lines) = LeftAfter(lines, D)
  BY SaleIs
<1> HIDE DEF D
<1>4. CanFulfill(lines) <=> ~TooLittle(lines, D)
  BY <1>1, <1>2 DEF CanFulfill, TooLittle
<1>5. QED  BY <1>1, <1>3, <1>4

\* In a composition that names each product once, each part is all of its product.
LEMMA PartIsAll ==
    ASSUME NEW components \in Components, OnePerProduct(components)
    PROVE  /\ IsFiniteSet(DOMAIN components) /\ DOMAIN components # {}
           /\ \A i \in DOMAIN components :
                 /\ components[i].product \in Articles /\ components[i].quantity \in Nat \ {0}
                 /\ QuantityOf(components[i].product, components) = components[i].quantity
           /\ \A x \in Articles : x \notin ProductsOf(components) => QuantityOf(x, components) = 0
<1> DEFINE D == DOMAIN components
           f == [i \in D |-> components[i].product]
<1>1. components \in Seq([product : Articles, quantity : Nat \ {0}]) /\ components # << >>
  BY DEF Components
<1>2. /\ IsFiniteSet(D) /\ D = 1..Len(components) /\ Len(components) \in Nat
      /\ \A i \in D : components[i] \in [product : Articles, quantity : Nat \ {0}]
  BY <1>1, SeqDomain
<1>3. D # {}
  BY <1>1, <1>2
<1>4. Cardinality(D) = Len(components)
  <2> DEFINE n == Len(components)
  <2>1. n \in Nat /\ D = 1..n
    BY <1>2
  <2> HIDE DEF n, D
  <2>2. 1 \in Int /\ n \in Int
    BY <2>1
  <2>3. Cardinality(1..n) = IF 1 > n THEN 0 ELSE n - 1 + 1
    BY <2>2, FS_Interval
  <2>4. Cardinality(D) = n
    BY <2>1, <2>3
  <2>5. QED  BY <2>4 DEF n
<1>5. {c.product : c \in ToSet(components)} = {f[i] : i \in D}
  BY DEF ToSet
<1>6. Cardinality({f[i] : i \in D}) = Cardinality(D)
  BY <1>4, <1>5 DEF OnePerProduct, NoneTwice
<1>7. \A i, j \in D : f[i] = f[j] => i = j
  <2> HIDE DEF D, f
  <2>1. QED  BY <1>2, <1>6, ImageCount
<1>8. ASSUME NEW i \in D
      PROVE  QuantityOf(components[i].product, components) = components[i].quantity
  <2> DEFINE x == components[i].product
             g == PartsOf(x, components)
  <2>1. /\ g[i] = components[i].quantity /\ \A j \in D : g[j] \in Int
        /\ \A j \in D \ {i} : g[j] = 0
    BY <1>2, <1>7 DEF PartsOf
  <2>2. QuantityOf(x, components) = SumFunctionOnSet(g, D)
    BY QuantityType
  <2> HIDE DEF g
  <2>3. SumFunctionOnSet(g, D) = SumFunctionOnSet(g, {i})
    <3>1. {i} \subseteq D /\ \A j \in D \ {i} : g[j] = 0
      BY <2>1
    <3>2. QED  BY <1>2, <2>1, <3>1, SumZeroes
  <2>4. SumFunctionOnSet(g, {i}) = g[i]
    BY <2>1, SumSingle
  <2>5. QED  BY <2>1, <2>2, <2>3, <2>4
<1>9. ASSUME NEW x \in Articles, x \notin ProductsOf(components)
      PROVE  QuantityOf(x, components) = 0
  <2>1. \A i \in D : PartsOf(x, components)[i] = 0
    BY <1>9 DEF PartsOf, ProductsOf, ToSet
  <2>2. QED  BY <1>2, <2>1, QuantityType, SumOfZeroes
<1>10. QED  BY <1>2, <1>3, <1>8, <1>9

\* A dish without options.
LEMMA PlainLine ==
    ASSUME MenuTypeOK, NEW id \in Entries, menu[id] # Nil, menu[id].active, NEW n \in Nat,
           NEW line, line = [entry |-> id, options |-> {}, quantity |-> n]
    PROVE  /\ Sellable(line) <=> {menu[id].product} \union ProductsOf(menu[id].components) \subseteq active
           /\ CanFulfill(<<Snapshot(line)>>) <=>
                \A x \in Articles : QuantityOf(x, menu[id].components) * n <= goods[x]
<1>1. line.entry = id /\ line.options = {} /\ line.quantity = n
  OBVIOUS
<1>2. OptionsOf(line) = {}
  BY <1>1 DEF OptionsOf
<1>3. Replaced(line) = {}
  BY <1>2 DEF Replaced
<1>4. Sellable(line) <=> {menu[id].product} \union ProductsOf(menu[id].components) \subseteq active
  BY <1>1, <1>2, <1>3 DEF Sellable
<1>5. ASSUME NEW x \in Articles
      PROVE  Uses(line)[x] = QuantityOf(x, menu[id].components)
  <2>1. SumOf(OptionsOf(line), LAMBDA o : QuantityOf(x, o.components)) = SumFunction(AddedBy(x, line))
    BY DEF SumOf, AddedBy
  <2>2. SumFunction(AddedBy(x, line)) = 0
    BY <1>2, SumEmpty DEF SumFunction, AddedBy
  <2>3. QuantityOf(x, menu[id].components) \in Nat
    BY QuantityType DEF MenuTypeOK, Dishes
  <2>4. Uses(line)[x] = QuantityOf(x, menu[line.entry].components)
                        + SumOf(OptionsOf(line), LAMBDA o : QuantityOf(x, o.components))
    BY <1>3 DEF Uses
  <2>5. QED  BY <1>1, <2>1, <2>2, <2>3, <2>4
<1> DEFINE s == Snapshot(line)
           lines == <<s>>
<1>6. s \in Lines
  BY <1>1, SnapshotType
<1>7. lines \in Seq(Lines) /\ DOMAIN lines = {1} /\ lines[1] = s
  BY <1>6
<1>8. s.uses = Uses(line) /\ s.quantity = n
  BY <1>1 DEF Snapshot
<1> HIDE DEF lines, s
<1>9. ASSUME NEW x \in Articles
      PROVE  Required(lines)[x] = QuantityOf(x, menu[id].components) * n
  <2>1. Required(lines)[x] = SumFunctionOnSet(TakesOf(x, lines), {1})
    BY <1>7, RequiredIs
  <2>2. TakesOf(x, lines)[1] \in Nat /\ TakesOf(x, lines)[1] = s.uses[x] * s.quantity
    <3>1. 1 \in DOMAIN lines
      BY <1>7
    <3>2. TakesOf(x, lines)[1] \in Nat
      BY <1>7, <3>1, TakesType
    <3>3. QED  BY <1>7, <3>1, <3>2 DEF TakesOf
  <2>3. SumFunctionOnSet(TakesOf(x, lines), {1}) = TakesOf(x, lines)[1]
    <3> DEFINE g == TakesOf(x, lines)
    <3>1. g[1] \in Int
      BY <2>2
    <3> HIDE DEF g
    <3>2. SumFunctionOnSet(g, {1}) = g[1]
      BY <3>1, SumSingle
    <3>3. QED  BY <3>2 DEF g
  <2>4. QED  BY <1>5, <1>8, <2>1, <2>2, <2>3
<1>10. CanFulfill(lines) <=> \A x \in Articles : QuantityOf(x, menu[id].components) * n <= goods[x]
  BY <1>9 DEF CanFulfill
<1>11. QED  BY <1>4, <1>10 DEF lines, s

\* As many of a dish as are shown can be ordered, and not one more.
LEMMA AvailableIs ==
    ASSUME MenuInv, NEW id \in Entries, menu[id] # Nil, menu[id].active, NEW n \in Nat \ {0},
           NEW line, line = [entry |-> id, options |-> {}, quantity |-> n]
    PROVE  n <= Available(id) <=> Sellable(line) /\ CanFulfill(<<Snapshot(line)>>)
<1> DEFINE dish == menu[id]
           s == dish.components
           D == DOMAIN s
           h == [i \in D |-> goods[s[i].product] \div s[i].quantity]
           shown == {h[i] : i \in D}
           onSale == {dish.product} \union ProductsOf(s) \subseteq active
<1>1. MenuTypeOK /\ dish \in Dishes /\ OnePerProduct(s) /\ goods \in [Articles -> Nat]
  BY MenuFacts DEF MenuInv, ComposedOnce
<1>2. s \in Components
  BY <1>1 DEF Dishes
<1>3. /\ Sellable(line) <=> onSale
      /\ CanFulfill(<<Snapshot(line)>>) <=> \A x \in Articles : QuantityOf(x, s) * n <= goods[x]
  BY <1>1, PlainLine
<1>4. /\ IsFiniteSet(D) /\ D # {}
      /\ \A i \in D : /\ s[i].product \in Articles /\ s[i].quantity \in Nat \ {0}
                      /\ QuantityOf(s[i].product, s) = s[i].quantity
      /\ \A x \in Articles : x \notin ProductsOf(s) => QuantityOf(x, s) = 0
  BY <1>1, <1>2, PartIsAll
<1>5. CASE ~onSale
  <2>1. Available(id) = 0
    BY <1>5 DEF Available
  <2>2. QED  BY <1>3, <1>5, <2>1
<1>6. CASE onSale
  <2>1. Available(id) = Min(shown)
    <3>1. {goods[c.product] \div c.quantity : c \in ToSet(s)} = shown
      BY DEF ToSet
    <3>2. QED  BY <1>6, <3>1 DEF Available
  <2>2. ASSUME NEW i \in D
        PROVE  /\ h[i] \in Int
               /\ n <= h[i] <=> n * s[i].quantity <= goods[s[i].product]
    <3>1. goods[s[i].product] \in Nat /\ s[i].quantity \in Nat \ {0}
      BY <1>1, <1>4
    <3>2. h[i] = goods[s[i].product] \div s[i].quantity
      OBVIOUS
    <3> HIDE DEF h
    <3>3. QED  BY <3>1, <3>2, Portions
  <2> HIDE DEF h, D, s
  <2>3. /\ Min(shown) \in shown
        /\ \A y \in shown : Min(shown) <= y
    <3>1. IsFiniteSet(shown)
      BY <1>4, ImageCount
    <3>2. shown # {} /\ AllInt(shown)
      BY <1>4, <2>2 DEF AllInt
    <3> HIDE DEF shown
    <3>3. QED  BY <3>1, <3>2, MinInside
  <2>4. n <= Min(shown) <=> \A i \in D : n <= h[i]
    <3>1. Min(shown) \in Int
      BY <2>2, <2>3
    <3>2. \A i \in D : Min(shown) <= h[i]
      BY <2>3
    <3>3. PICK i \in D : Min(shown) = h[i]
      BY <2>3
    <3> HIDE DEF shown
    <3>4. QED  BY <2>2, <3>1, <3>2, <3>3
  <2>5. (\A i \in D : n * s[i].quantity <= goods[s[i].product])
        <=> \A x \in Articles : QuantityOf(x, s) * n <= goods[x]
    <3>1. ASSUME \A i \in D : n * s[i].quantity <= goods[s[i].product], NEW x \in Articles
          PROVE  QuantityOf(x, s) * n <= goods[x]
      <4>1. CASE x \in ProductsOf(s)
        <5>1. PICK i \in D : s[i].product = x
          BY <4>1 DEF ProductsOf, ToSet, D
        <5>2. s[i].quantity * n = n * s[i].quantity
          BY <1>4
        <5>3. QED  BY <1>4, <3>1, <5>1, <5>2
      <4>2. CASE x \notin ProductsOf(s)
        <5>1. QuantityOf(x, s) = 0 /\ goods[x] \in Nat
          BY <1>1, <1>4, <4>2
        <5>2. QED  BY <5>1
      <4>3. QED  BY <4>1, <4>2
    <3>2. ASSUME \A x \in Articles : QuantityOf(x, s) * n <= goods[x], NEW i \in D
          PROVE  n * s[i].quantity <= goods[s[i].product]
      <4>1. s[i].quantity * n = n * s[i].quantity
        BY <1>4
      <4>2. QED  BY <1>4, <3>2, <4>1
    <3>3. QED  BY <3>1, <3>2
  <2>6. (\A i \in D : n <= h[i]) <=> \A i \in D : n * s[i].quantity <= goods[s[i].product]
    BY <2>2
  <2>7. QED  BY <1>3, <1>6, <2>1, <2>4, <2>5, <2>6
<1>7. QED  BY <1>5, <1>6

\* For any menu, tickets and goods: the total of the page is that of the service, the
\* review finds enough exactly when the sale would be confirmed, and as many of a dish
\* are shown as can be ordered (menu, quote, create, confirm, add of the page).
THEOREM ThePagesForesee == MenuSpec => []PagesForesee
<1>1. MenuInv => PagesForesee
  <2>1. SUFFICES ASSUME MenuInv PROVE PagesForesee
    OBVIOUS
  <2>2. MenuTypeOK /\ goods \in [Articles -> Nat] /\ menu \in [Entries -> Dishes \union {Nil}]
    BY <2>1, MenuFacts
  <2>3. ASSUME NEW ticket \in Tickets, Accepted(CartOf(ticket), ticket)
        PROVE  /\ PageTotal(CartOf(ticket), ticket.discount)
                  = Subtotal(Resolved(CartOf(ticket))) - ticket.discount
               /\ CanFulfill(Resolved(CartOf(ticket))) <=> AfterSale(Resolved(CartOf(ticket))) # Nil
    <3>1. /\ Resolved(CartOf(ticket)) \in Seq(Lines)
          /\ PageTotal(CartOf(ticket), ticket.discount)
             = Subtotal(Resolved(CartOf(ticket))) - ticket.discount
      BY <2>2, <2>3, TotalsAgree
    <3>2. QED  BY <2>2, <3>1, ReviewForesees
  <2>4. ASSUME NEW id \in Entries, menu[id] # Nil, menu[id].active,
               NEW n \in 1..(Max({goods[x] : x \in Articles}) + 1)
        PROVE  n <= Available(id) <=>
                 /\ Sellable([entry |-> id, options |-> {}, quantity |-> n])
                 /\ CanFulfill(<<Snapshot([entry |-> id, options |-> {}, quantity |-> n])>>)
    <3> DEFINE all == {goods[x] : x \in Articles}
    <3>1. menu[id].product \in Articles
      BY <2>2, <2>4 DEF Dishes
    <3>2. IsFiniteSet(all)
      BY GoodsAssumption, ImageCount
    <3>3. all # {} /\ AllInt(all)
      BY <2>2, <3>1 DEF AllInt
    <3>4. Max(all) \in all
      <4> HIDE DEF all
      <4>1. QED  BY <3>2, <3>3, MaxInside
    <3>5. Max(all) \in Int
      BY <3>3, <3>4 DEF AllInt
    <3>6. n \in 1..(Max(all) + 1)
      BY <2>4
    <3> HIDE DEF all
    <3>7. n \in Nat \ {0}
      BY <3>5, <3>6
    <3>8. QED  BY <2>1, <2>4, <3>7, AvailableIs
  <2>5. QED  BY <2>3, <2>4 DEF PagesForesee
<1>2. QED  BY <1>1, MenuInvariance, PTL
=============================================================================
