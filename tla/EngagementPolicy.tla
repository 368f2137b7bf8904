-------------------------- MODULE EngagementPolicy --------------------------
(***************************************************************************)
(* The execution policy of an engagement and the two pure decisions taken  *)
(* on it, from packages/shared-core/.../engagement_policy.py:              *)
(*                                                                         *)
(*   evaluate_action           before a budget unit is consumed;           *)
(*   evaluate_reserved_action  after it was, for an action already charged.*)
(*                                                                         *)
(* A decision is its reason code; it allows iff the code is "authorized"   *)
(* or "authorized_reserved_action".                                        *)
(* Scope matching is abstracted to membership of the target in the set of  *)
(* targets the scope covers (what CIDR and domain rules cover is not part  *)
(* of this module),                                                        *)
(* times are natural numbers, capabilities and targets are model values.   *)
(***************************************************************************)
EXTENDS Naturals

CONSTANTS
    Capabilities,   \* capability names
    Targets         \* hosts and networks an action may name

\* Lifecycle states of an engagement, and the impact levels with their rank.
Statuses == {"planned", "active", "paused", "completed", "archived"}
ImpactRank == [low |-> 0, standard |-> 1, high |-> 2]
Impacts == {"low", "standard", "high"}

PolicyRecords ==
    [valid_from: Nat, valid_until: Nat, max_actions: Nat, actions_used: Nat,
     permitted: SUBSET Capabilities, approval_required: SUBSET Capabilities,
     max_impact: Impacts, scope: SUBSET Targets, revoked: BOOLEAN]

\* The action somebody asks for.
RequestRecords ==
    [capability: Capabilities, target: Targets, impact: Impacts, approved: BOOLEAN]

\* What __post_init__ accepts: a non-empty scope and window, at least one
\* action, usage within the budget, at least one permitted capability, and
\* approval only ever required of permitted ones.
ValidPolicy(p) ==
    /\ p \in PolicyRecords
    /\ p.scope # {}
    /\ p.valid_from < p.valid_until
    /\ p.max_actions >= 1
    /\ p.actions_used <= p.max_actions
    /\ p.permitted # {}
    /\ p.approval_required \subseteq p.permitted

NeedsApproval(p, r) == r.impact = "high" \/ r.capability \in p.approval_required

\* Mutants of evaluate_action: an off-by-one budget gate, a missing ceiling, no
\* look at the revocation.
evaluate_action_revoked_allowed(p, status, r, now) ==
    IF status # "active" \/ now < p.valid_from \/ now > p.valid_until
    THEN "authorization_expired"
    ELSE IF ~(r.capability \in p.permitted /\ r.target \in p.scope) THEN "target_out_of_scope"
    ELSE IF ImpactRank[r.impact] > ImpactRank[p.max_impact] THEN "impact_exceeds_policy"
    ELSE IF p.actions_used >= p.max_actions THEN "action_budget_exhausted"
    ELSE IF NeedsApproval(p, r) /\ ~r.approved THEN "approval_required"
    ELSE "authorized"

evaluate_action_budget_off_by_one(p, status, r, now) ==
    IF status # "active" \/ p.revoked \/ now < p.valid_from \/ now > p.valid_until
    THEN "authorization_expired"
    ELSE IF ~(r.capability \in p.permitted /\ r.target \in p.scope) THEN "target_out_of_scope"
    ELSE IF ImpactRank[r.impact] > ImpactRank[p.max_impact] THEN "impact_exceeds_policy"
    ELSE IF p.actions_used > p.max_actions THEN "action_budget_exhausted"
    ELSE IF NeedsApproval(p, r) /\ ~r.approved THEN "approval_required"
    ELSE "authorized"

evaluate_action_no_ceiling(p, status, r, now) ==
    IF status # "active" \/ p.revoked \/ now < p.valid_from \/ now > p.valid_until
    THEN "authorization_expired"
    ELSE IF ~(r.capability \in p.permitted /\ r.target \in p.scope) THEN "target_out_of_scope"
    ELSE IF p.actions_used >= p.max_actions THEN "action_budget_exhausted"
    ELSE IF NeedsApproval(p, r) /\ ~r.approved THEN "approval_required"
    ELSE "authorized"

\* The decision before a unit of the budget is taken.
evaluate_action(p, status, r, now) ==
    IF status # "active"                                  THEN "engagement_not_active"
    ELSE IF p.revoked                                     THEN "authorization_revoked"
    ELSE IF now < p.valid_from                            THEN "authorization_not_started"
    ELSE IF now > p.valid_until                           THEN "authorization_expired"
    ELSE IF r.capability \notin p.permitted               THEN "capability_not_permitted"
    ELSE IF ImpactRank[r.impact] > ImpactRank[p.max_impact] THEN "impact_exceeds_policy"
    ELSE IF r.target \notin p.scope                       THEN "target_out_of_scope"
    ELSE IF p.actions_used >= p.max_actions               THEN "action_budget_exhausted"
    ELSE IF NeedsApproval(p, r) /\ ~r.approved            THEN "approval_required"
    ELSE "authorized"

\* The decision for an action whose unit is already taken: no budget gate, and
\* no impact ceiling either.
evaluate_reserved_action(p, status, r, now) ==
    IF status # "active"                                  THEN "engagement_not_active"
    ELSE IF p.revoked                                     THEN "authorization_revoked"
    ELSE IF now < p.valid_from                            THEN "authorization_not_started"
    ELSE IF now > p.valid_until                           THEN "authorization_expired"
    ELSE IF r.capability \notin p.permitted               THEN "capability_not_permitted"
    ELSE IF r.target \notin p.scope                       THEN "target_out_of_scope"
    ELSE IF NeedsApproval(p, r) /\ ~r.approved            THEN "approval_required"
    ELSE "authorized_reserved_action"

Allows(decision) == decision \in {"authorized", "authorized_reserved_action"}

\* What a policy says of a request whatever the time, the status and the budget.
StaticallyPermitted(p, r) ==
    /\ r.capability \in p.permitted
    /\ ImpactRank[r.impact] <= ImpactRank[p.max_impact]
    /\ r.target \in p.scope
    /\ NeedsApproval(p, r) => r.approved

=============================================================================
