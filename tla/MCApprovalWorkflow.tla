-------------------------- MODULE MCApprovalWorkflow --------------------------
(***************************************************************************)
(* Instance of ApprovalWorkflow: dual control; a lead, an owner who is     *)
(* also a lead, a member of staff without an eligible role, and a          *)
(* requester who is a lead as well.                                        *)
(***************************************************************************)
EXTENDS ApprovalWorkflow

CONSTANTS ann, bob, cleo, rita, lead, owner, staff

MCRolesOf ==
    [p \in Principals |->
        CASE p = ann  -> {lead, owner}
          [] p = bob  -> {lead}
          [] p = cleo -> {staff}
          [] p = rita -> {lead}]

=============================================================================
