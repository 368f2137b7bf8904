-------------------------- MODULE MCPolicyAuthority --------------------------
(***************************************************************************)
(* Instance of PolicyAuthority for TLC.  One policy leaves one action of a *)
(* budget of two, so that two calls compete for the last unit; its window  *)
(* ends before MaxTime.  One request is within the                         *)
(* policy and one exceeds its impact ceiling.                              *)
(***************************************************************************)
EXTENDS PolicyAuthority, TLC

CONSTANTS scan, host

MCPolicies ==
    {[valid_from |-> 0, valid_until |-> 1, max_actions |-> m, actions_used |-> u,
      permitted |-> {scan}, approval_required |-> {}, max_impact |-> "standard",
      scope |-> {host}, revoked |-> FALSE] : <<m, u>> \in {<<2, 0>>, <<2, 1>>}}

MCRequests ==
    {[capability |-> scan, target |-> host, impact |-> i, approved |-> TRUE] :
        i \in {"low", "high"}}

Symmetry == Permutations(Workers) \cup Permutations(Actions)

=============================================================================
