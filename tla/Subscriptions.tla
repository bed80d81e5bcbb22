----------------------------- MODULE Subscriptions -----------------------------
(***************************************************************************)
(* subscriptions.service.ts and those who count on it: the plan of one     *)
(* organization, its renewal, cancellation and lazy expiry, the members of *)
(* members.service.ts and the branches and products whose number the plan  *)
(* limits.                                                                 *)
(*                                                                         *)
(* Only assertWithinLimit, changePlan, cancel and renew lock the row of    *)
(* the subscription; the rest reads what is committed and writes later.    *)
(* Time is counted in days.  Audit rows, notifications, events and the     *)
(* mail of an invitation are only ever added, and are left out.            *)
(***************************************************************************)
EXTENDS Integers, FiniteSets

CONSTANTS Users, Founder,      \* the founder owns the organization from its start
          Branches, Products,
          MainBranch,          \* made with the organization
          Plans, FreePlan,
          Limit,               \* of each plan: users, branches, products; Null: no limit
          Sessions, Requests, Null,
          Period,              \* the days a payment is worth
          LastDay, LastEnd     \* bounds of the calendar

Things == Branches \cup Products
Resources == {"users", "branches", "products"}
Roles == {"OWNER", "STAFF"}

Request ==
    [op : {"invite", "activate", "suspend", "own", "demote"}, what : Users]
    \cup [op : {"create"}, what : {"branches", "products"}]
    \cup [op : {"reopen", "remove"}, what : Things]
    \cup [op : {"changePlan"}, what : Plans]
    \cup [op : {"cancel", "renew", "read"}, what : {Null}]

ASSUME NullAssumption == Null \notin Nat
ASSUME PeopleAssumption == Founder \in Users /\ IsFiniteSet(Users)
ASSUME ThingsAssumption ==
    /\ IsFiniteSet(Branches) /\ IsFiniteSet(Products) /\ Branches \cap Products = {}
    /\ MainBranch \in Branches
ASSUME PlansAssumption ==
    /\ FreePlan \in Plans
    /\ Limit \in [Plans -> [Resources -> Nat \cup {Null}]]
    /\ \A kind \in {"users", "branches"} :
          Limit[FreePlan][kind] = Null \/ Limit[FreePlan][kind] >= 1
ASSUME RequestsAssumption == Requests \subseteq Request
ASSUME CalendarAssumption == Period \in Nat \ {0} /\ LastDay \in Nat /\ LastEnd \in Nat

VARIABLES subscription,   \* its plan, its status, the end of the paid period
          member, role,   \* organization_users
          account,        \* users: has one of its own, or the one an invitation made
          thing,          \* branches and products
          today,
          returned,       \* whether anything was made active again with no look at the
                          \* limit: no row keeps this
          change          \* the transaction each process runs

people == <<member, role, account>>
tables == <<subscription, people, thing, today, returned>>
plansVars == <<tables, change>>

IdleTx == [pc |-> "idle", req |-> Null, locked |-> FALSE, ans |-> "none"]

PlansInit ==
    /\ subscription = [plan |-> FreePlan, status |-> "TRIALING", end |-> Null]
    /\ member = [u \in Users |-> IF u = Founder THEN "ACTIVE" ELSE "NONE"]
    /\ role = [u \in Users |-> IF u = Founder THEN "OWNER" ELSE "STAFF"]
    /\ account \in {a \in [Users -> {"none", "own"}] : a[Founder] = "own"}
    /\ thing = [x \in Things |-> IF x = MainBranch THEN "ACTIVE" ELSE "NONE"]
    /\ today = 0
    /\ returned = FALSE
    /\ change = [p \in Sessions |-> IdleTx]

-----------------------------------------------------------------------------
(* Reads.                                                                  *)

KindOf(q) == IF q.op = "create" THEN q.what ELSE "users"

PoolOf(kind) == IF kind = "branches" THEN Branches ELSE Products

ActiveUsers == {u \in Users : member[u] = "ACTIVE"}
ActiveThings(set) == {x \in set : thing[x] = "ACTIVE"}

Usage(kind) == CASE kind = "users" -> Cardinality(ActiveUsers)
                 [] kind = "branches" -> Cardinality(ActiveThings(Branches))
                 [] kind = "products" -> Cardinality(ActiveThings(Products))

Owners == {u \in Users : member[u] # "NONE" /\ role[u] = "OWNER"}

\* FAULT: the last place is given twice
HasRoomOrIsFull(plan, kind) == Limit[plan][kind] = Null \/ Usage(kind) <= Limit[plan][kind]

\* Room for one more.
HasRoom(plan, kind) == Limit[plan][kind] = Null \/ Usage(kind) < Limit[plan][kind]

FitsPlan(plan) ==
    \A kind \in Resources : Limit[plan][kind] = Null \/ Usage(kind) <= Limit[plan][kind]

Expired == /\ subscription.status = "ACTIVE" /\ subscription.end # Null
           /\ subscription.end < today

-----------------------------------------------------------------------------
(* How a transaction goes on or ends.                                      *)

\* FAULT: the row is read without FOR UPDATE
LockedByNobody(p) == p # p

LockedByOther(p) == \E q \in Sessions \ {p} : change[q].locked

GoToStep(p, step) == change' = [change EXCEPT ![p].pc = step]

Hold(p) == change' = [change EXCEPT ![p].pc = "write", ![p].locked = TRUE]

\* Commit or rollback: the lock goes, the answer is known.
Done(p, answer) == change' = [change EXCEPT ![p] =
    [IdleTx EXCEPT !.pc = "done", !.req = change[p].req, !.ans = answer]]

AtStep(p, step, ops) == change[p].pc = step /\ change[p].req.op \in ops

Needs(op) == IF op \in {"create", "changePlan", "cancel", "renew"} THEN "lock"
             ELSE IF op = "remove" \/ op = "reopen" THEN "write" ELSE "read"

BeginChange(p, q) ==
    /\ change[p].pc = "idle"
    /\ change' = [change EXCEPT ![p] = [IdleTx EXCEPT !.pc = Needs(q.op), !.req = q]]
    /\ UNCHANGED tables

FinishChange(p) == /\ change[p].pc = "done"
                   /\ change' = [change EXCEPT ![p] = IdleTx]
                   /\ UNCHANGED tables

\* The process dies, or its transaction times out: all of it is undone.
AbortChange(p) == /\ change[p].pc \notin {"idle", "done"}
                  /\ change' = [change EXCEPT ![p] = IdleTx]
                  /\ UNCHANGED tables

-----------------------------------------------------------------------------
(* What is read before any lock.                                           *)

ReadMember(p) ==
    LET u == change[p].req.what
        op == change[p].req.op
    IN  /\ AtStep(p, "read", {"activate", "suspend", "own", "demote"})
        /\ \/ member[u] = "NONE" /\ Done(p, "missing")
           \/ /\ member[u] # "NONE"
              /\ GoToStep(p, CASE op = "activate" /\ member[u] # "ACTIVE" -> "lock"
                           [] op \in {"own", "demote"} /\ role[u] = "OWNER" -> "count"
                           [] OTHER -> "write")
        /\ UNCHANGED tables

\* invite: who has no account yet gets one, who is a member is refused.
ReadInvited(p) ==
    LET u == change[p].req.what
    IN  /\ AtStep(p, "read", {"invite"})
        /\ \/ account[u] = "none" /\ GoToStep(p, "account")
           \/ account[u] # "none" /\ member[u] = "NONE" /\ GoToStep(p, "lock")
           \/ account[u] # "none" /\ member[u] # "NONE" /\ Done(p, "conflict")
        /\ UNCHANGED tables

\* The account is made outside of the transaction and stays, whatever follows.
MakeAccount(p) ==
    LET u == change[p].req.what
    IN  /\ change[p].pc = "account"
        /\ \/ /\ account[u] = "none"
              /\ account' = [account EXCEPT ![u] = "invited"]
              /\ GoToStep(p, "lock")
           \/ /\ account[u] # "none"
              /\ Done(p, "error")
              /\ UNCHANGED account
        /\ UNCHANGED <<subscription, member, role, thing, today, returned>>

\* changeRole of an owner: there must be another one.
CountOwners(p) ==
    /\ change[p].pc = "count"
    /\ IF Cardinality(Owners) <= 1 THEN Done(p, "refused") ELSE GoToStep(p, "write")
    /\ UNCHANGED tables

\* getEffective
ReadSubscription(p) ==
    /\ AtStep(p, "read", {"read"})
    /\ IF Expired THEN GoToStep(p, "write") ELSE Done(p, "ok")
    /\ UNCHANGED tables

-----------------------------------------------------------------------------
(* What is decided under the lock of the subscription.                     *)

\* FAULT: a cancelled plan limits like any other
StandsWhenCancelled == subscription.plan \in Plans

Stands == subscription.status # "CANCELLED"

AssertWithinLimit(p) ==
    /\ AtStep(p, "lock", {"invite", "activate", "create"})
    /\ ~LockedByOther(p)
    /\ CASE ~Stands -> Done(p, "forbidden")
         [] Stands /\ ~HasRoom(subscription.plan, KindOf(change[p].req)) -> Done(p, "limit")
         [] OTHER -> Hold(p)
    /\ UNCHANGED tables

ChangePlanBegin(p) ==
    LET plan == change[p].req.what
    IN  /\ AtStep(p, "lock", {"changePlan"})
        /\ ~LockedByOther(p)
        /\ CASE subscription.status = "CANCELLED" -> Done(p, "conflict")
             [] subscription.status # "CANCELLED" /\ subscription.plan = plan -> Done(p, "ok")
             [] OTHER -> IF FitsPlan(plan) THEN Hold(p) ELSE Done(p, "conflict")
        /\ UNCHANGED tables

CancelBegin(p) ==
    /\ AtStep(p, "lock", {"cancel"})
    /\ ~LockedByOther(p)
    /\ IF subscription.status = "CANCELLED" THEN Done(p, "ok") ELSE Hold(p)
    /\ UNCHANGED tables

RenewBegin(p) ==
    /\ AtStep(p, "lock", {"renew"})
    /\ ~LockedByOther(p)
    /\ IF subscription.plan = FreePlan THEN Done(p, "refused") ELSE Hold(p)
    /\ UNCHANGED tables

-----------------------------------------------------------------------------
(* Writes, with the commit.                                                *)

WriteMember(p) ==
    LET q == change[p].req
        u == q.what
        unseen == q.op = "activate" /\ member[u] # "ACTIVE" /\ ~change[p].locked
    IN  /\ AtStep(p, "write", {"activate", "suspend", "own", "demote"})
        /\ member' = [member EXCEPT ![u] = CASE q.op = "activate" -> "ACTIVE"
                                            [] q.op = "suspend" -> "SUSPENDED"
                                            [] OTHER -> @]
        /\ role' = [role EXCEPT ![u] = CASE q.op = "own" -> "OWNER"
                                        [] q.op = "demote" -> "STAFF"
                                        [] OTHER -> @]
        /\ returned' = (returned \/ unseen)
        /\ Done(p, "ok")
        /\ UNCHANGED <<subscription, account, thing, today>>

\* A second membership of the same user breaks the unique index.
WriteInvited(p) ==
    LET u == change[p].req.what
    IN  /\ AtStep(p, "write", {"invite"})
        /\ \/ /\ member[u] = "NONE"
              /\ member' = [member EXCEPT ![u] = "ACTIVE"]
              /\ \E r \in Roles : role' = [role EXCEPT ![u] = r]
              /\ Done(p, "ok")
           \/ /\ member[u] # "NONE"
              /\ Done(p, "error")
              /\ UNCHANGED <<member, role>>
        /\ UNCHANGED <<subscription, account, thing, today, returned>>

\* create and duplicate
WriteNew(p) ==
    /\ AtStep(p, "write", {"create"})
    /\ \E x \in PoolOf(change[p].req.what) : /\ thing[x] = "NONE"
                                        /\ thing' = [thing EXCEPT ![x] = "ACTIVE"]
    /\ Done(p, "ok")
    /\ UNCHANGED <<subscription, people, today, returned>>

\* update with active set, and remove: no lock.
WriteThing(p) ==
    LET x == change[p].req.what
        unseen == change[p].req.op = "reopen" /\ thing[x] # "ACTIVE"
    IN  /\ AtStep(p, "write", {"reopen", "remove"})
        /\ \/ /\ thing[x] # "NONE"
              /\ thing' = [thing EXCEPT ![x] = IF change[p].req.op = "remove" THEN "INACTIVE"
                                               ELSE "ACTIVE"]
              /\ returned' = (returned \/ unseen)
              /\ Done(p, "ok")
           \/ thing[x] = "NONE" /\ Done(p, "missing") /\ UNCHANGED <<thing, returned>>
        /\ UNCHANGED <<subscription, people, today>>

SetSubscription(p, row) ==
    /\ subscription' = row
    /\ Done(p, "ok")
    /\ UNCHANGED <<people, thing, today, returned>>

\* The UPDATE waits for the row, and writes what was decided before.
Expire(p) ==
    /\ AtStep(p, "write", {"read"}) /\ ~LockedByOther(p)
    /\ SetSubscription(p, [subscription EXCEPT !.status = "PAST_DUE"])

WritePlan(p) ==
    LET plan == change[p].req.what
        paid == plan # FreePlan
    IN  /\ AtStep(p, "write", {"changePlan"})
        /\ SetSubscription(p, [plan |-> plan,
                               status |-> IF paid THEN "ACTIVE" ELSE "TRIALING",
                               end |-> IF paid THEN today + Period ELSE Null])

WriteCancel(p) ==
    /\ AtStep(p, "write", {"cancel"})
    /\ SetSubscription(p, [subscription EXCEPT !.status = "CANCELLED"])

\* From the end of the paid period, or from today if that is over.
RenewedEnd(end) == (IF end # Null /\ end > today THEN end ELSE today) + Period

WriteRenew(p) ==
    /\ AtStep(p, "write", {"renew"})
    /\ RenewedEnd(subscription.end) <= LastEnd
    /\ SetSubscription(p, [subscription EXCEPT !.status = "ACTIVE",
                                               !.end = RenewedEnd(@)])

NextDay == /\ today < LastDay
           /\ today' = today + 1
           /\ UNCHANGED <<subscription, people, thing, returned, change>>

-----------------------------------------------------------------------------
Invite(p) == ReadInvited(p) \/ MakeAccount(p) \/ WriteInvited(p)
ChangeMember(p) == ReadMember(p) \/ CountOwners(p) \/ WriteMember(p)
ChangePlan(p) == ChangePlanBegin(p) \/ WritePlan(p)
Cancel(p) == CancelBegin(p) \/ WriteCancel(p)
Renew(p) == RenewBegin(p) \/ WriteRenew(p)
GetEffective(p) == ReadSubscription(p) \/ Expire(p)

Step(p) == \/ Invite(p) \/ ChangeMember(p) \/ AssertWithinLimit(p)
           \/ WriteNew(p) \/ WriteThing(p)
           \/ ChangePlan(p) \/ Cancel(p) \/ Renew(p) \/ GetEffective(p)

PlansNext == \/ \E p \in Sessions : \/ \E q \in Requests : BeginChange(p, q)
                                    \/ Step(p) \/ FinishChange(p) \/ AbortChange(p)
             \/ NextDay

PlansSpec == PlansInit /\ [][PlansNext]_plansVars

-----------------------------------------------------------------------------
(* Properties.                                                             *)

ChangeSteps == {"idle", "read", "account", "count", "lock", "write", "done"}
Answers == {"none", "ok", "conflict", "missing", "refused", "forbidden", "limit", "error"}

\* Every variable has its type, and one transaction at most holds the row of
\* the subscription.
PlansTypeOK ==
    /\ subscription \in [plan : Plans, status : {"TRIALING", "ACTIVE", "PAST_DUE", "CANCELLED"},
                         end : Nat \cup {Null}]
    /\ member \in [Users -> {"NONE", "ACTIVE", "SUSPENDED"}]
    /\ role \in [Users -> Roles]
    /\ account \in [Users -> {"none", "own", "invited"}]
    /\ thing \in [Things -> {"NONE", "ACTIVE", "INACTIVE"}]
    /\ today \in Nat /\ returned \in BOOLEAN
    /\ change \in [Sessions -> [pc : ChangeSteps, req : Requests \cup {Null}, locked : BOOLEAN,
                         ans : Answers]]
    /\ \A p, q \in Sessions : change[p].locked /\ change[q].locked => p = q

\* Active users, branches and products never exceed what the plan allows,
\* whatever is created and whatever plan is chosen at the same time.
LimitsHold == FitsPlan(subscription.plan)

\* As long as nothing was made active again with no look at the limit (a reactivation
\* that takes its member for active, a product reopened), no more is active than
\* the plan allows.
GrowthKeepsLimits == PlansTypeOK /\ (returned \/ LimitsHold)

Joined == {u \in Users : member[u] # "NONE"}
Made == {x \in Things : thing[x] # "NONE"}

\* Nobody joins and nothing is created while the subscription is cancelled.
CancelledBlocks ==
    [][subscription.status = "CANCELLED" => Joined' \subseteq Joined /\ Made' \subseteq Made]_plansVars

\* A subscription is ACTIVE on a paid plan with an end, and TRIALING on the
\* free one without; no order of changes, renewals and expiries mixes them.
ActiveMeansPaid ==
    /\ subscription.status = "ACTIVE" => subscription.plan # FreePlan
    /\ subscription.status = "TRIALING" => subscription.plan = FreePlan
    /\ subscription.plan = FreePlan <=> subscription.end = Null
=============================================================================
