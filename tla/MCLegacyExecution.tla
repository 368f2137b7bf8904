-------------------------- MODULE MCLegacyExecution --------------------------
(***************************************************************************)
(* Instance of LegacyExecution: a policy of two actions, a ledger that may *)
(* be provisioned below, at or above it, two calls with two action ids.    *)
(***************************************************************************)
EXTENDS LegacyExecution, TLC

CONSTANTS scan, host

MCPolicies ==
    {[valid_from |-> 0, valid_until |-> 1, max_actions |-> 2, actions_used |-> 0,
      permitted |-> {scan}, approval_required |-> {}, max_impact |-> "standard",
      scope |-> {host}, revoked |-> FALSE]}

MCRequests ==
    {[capability |-> scan, target |-> host, impact |-> "low", approved |-> FALSE]}

Symmetry == Permutations(Workers) \cup Permutations(Actions)

=============================================================================
