---------------------------- MODULE MCSubscriptions ----------------------------
(* Small instances of Subscriptions: a free plan and a paid one. *)
EXTENDS Subscriptions, TLC

CONSTANTS u1, u2, u3, b1, b2, b3, free, basic

Perms == Permutations(Sessions)

MCLimit == [plan \in {free, basic} |->
               [kind \in Resources |-> IF plan = basic THEN 2 ELSE 1]]

Ask(op, what) == [op |-> op, what |-> what]
Plan == {Ask("changePlan", free), Ask("changePlan", basic)}
Life == {Ask("cancel", Null), Ask("renew", Null), Ask("read", Null)}

\* What creates, and what makes room; nobody comes back once suspended.
Growing ==
    Plan \cup {Ask("cancel", Null), Ask("renew", Null)}
    \cup {Ask("invite", u) : u \in {u2, u3}} \cup {Ask("suspend", u2)}
    \cup {Ask("create", "branches"), Ask("remove", b2)}

\* The subscription itself, and members that come and go.
Changing ==
    Plan \cup Life
    \cup {Ask("invite", u2), Ask("suspend", u2), Ask("activate", u2),
          Ask("own", u2), Ask("demote", u1), Ask("reopen", b2)}

\* Each behaviour of MCSpec grows and shrinks on one day, or lives through several.
VARIABLE scene

MCRequests == Growing \cup Changing

InScene ==
    \/ /\ scene = "grow" /\ today = 0
       /\ subscription.end # Null => subscription.end <= 4
       /\ \A p \in Sessions : change[p].req \in Growing \cup {Null}
    \/ /\ scene = "change"
       /\ \A p \in Sessions : change[p].req \in Changing \cup {Null}

MCInit == PlansInit /\ scene \in {"grow", "change"}
MCSpec == MCInit /\ [][PlansNext /\ scene' = scene /\ InScene']_<<plansVars, scene>>

\* Somebody suspended is brought back while others come.
Returning == {Ask("changePlan", basic), Ask("invite", u2), Ask("invite", u3),
              Ask("suspend", u2), Ask("activate", u2)}
ReturningInit == PlansInit /\ scene = "return"
ReturningSpec == ReturningInit /\ [][PlansNext /\ scene' = scene]_<<plansVars, scene>>
=============================================================================
