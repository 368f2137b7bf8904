-------------------------- MODULE MCValidationWorker --------------------------
(***************************************************************************)
(* Instance of ValidationWorker: one runner and one operator on an         *)
(* engagement with two actions.                                            *)
(***************************************************************************)
EXTENDS ValidationWorker, TLC

CONSTANTS run, host

MCPolicies ==
    {[valid_from |-> 0, valid_until |-> 1, max_actions |-> 2, actions_used |-> 0,
      permitted |-> {run}, approval_required |-> {}, max_impact |-> "standard",
      scope |-> {host}, revoked |-> FALSE]}

MCRequests ==
    {[capability |-> run, target |-> host, impact |-> "low", approved |-> FALSE]}

MCEnvelopes == [status: {"active"}, records: [Evidence -> Contents]]

=============================================================================
