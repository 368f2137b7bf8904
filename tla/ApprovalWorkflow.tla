--------------------------- MODULE ApprovalWorkflow ---------------------------
(***************************************************************************)
(* The approval workflow of an action (approval_engine.py): a request and  *)
(* the chain of events that approve, reject, delegate, escalate or revoke  *)
(* it.                                                                     *)
(*                                                                         *)
(* The same rules are written twice in the code.  Each operation decides   *)
(* whether it applies by projecting the chain at the time it is given; the *)
(* constructor then replays the whole chain (_validate_history) and        *)
(* refuses one it would not have accepted.  Here an operation has its own  *)
(* guard and is an action only if the replay agrees.                       *)
(*                                                                         *)
(* Workflows are immutable values: the variable is the chain of one of     *)
(* them, and copies that were advanced differently are other behaviours.   *)
(* The times of events and of questions are arguments chosen by the        *)
(* operator.  Hashes are abstracted to the values they are taken of;       *)
(* identifiers of events are fresh.                                        *)
(***************************************************************************)
EXTENDS Naturals, Sequences, FiniteSets, SequencesExt

CONSTANTS
    Principals, Roles,
    RolesOf,            \* RolesOf[p]: the roles of the principal p
    Requester,          \* requested_by
    EligibleRoles, Required, RequesterMayApprove, AllowDelegation,
    EscalationAfter,    \* escalation_after_seconds, or None
    ExpiresAt,          \* expires_at; the request is made at 0
    MaxDelegations,     \* bound on the delegations of a chain
    None

Times == 0 .. ExpiresAt
Eligible(p) == RolesOf[p] \cap EligibleRoles # {}
MayDecide(p) == RequesterMayApprove \/ p # Requester

\* What ApprovalPolicy and ApprovalRequest accept.
ASSUME RequestAssumption ==
    /\ RolesOf \in [Principals -> SUBSET Roles \ {{}}]
    /\ IsFiniteSet(Principals)
    /\ Requester \in Principals
    /\ None \notin Principals \cup Roles \cup Times
    /\ EligibleRoles \in SUBSET Roles \ {{}}
    /\ Required \in Nat \ {0}
    /\ {RequesterMayApprove, AllowDelegation} \subseteq BOOLEAN
    /\ EscalationAfter \in (Nat \ {0}) \cup {None}
    /\ ExpiresAt \in Nat \ {0}
    /\ Cardinality({p \in Principals : Eligible(p) /\ MayDecide(p)}) >= Required

VARIABLE events

\* source is the authority_source of a decision; to and until are the details of
\* a delegation.
Event(type, at, actor, role) ==
    [type |-> type, at |-> at, actor |-> actor, role |-> role,
     source |-> None, to |-> None, until |-> None]

EventTypes == {"requested", "approved", "rejected", "delegated", "escalated", "revoked"}

\* create
Init == events = <<Event("requested", 0, Requester, None)>>

-----------------------------------------------------------------------------
\* Projections of a chain at a time.

Upto(chain, type, at) ==
    {i \in DOMAIN chain : chain[i].type = type /\ chain[i].at <= at}

\* Mutant: off by one.
status_one_short(chain, at) ==
    IF Upto(chain, "revoked", at) # {} THEN "revoked"
    ELSE IF Upto(chain, "rejected", at) # {} THEN "rejected"
    ELSE IF at >= ExpiresAt THEN "expired"
    ELSE IF Cardinality(Upto(chain, "approved", at)) + 1 >= Required THEN "approved"
    ELSE "pending"

status(chain, at) ==
    IF Upto(chain, "revoked", at) # {} THEN "revoked"
    ELSE IF Upto(chain, "rejected", at) # {} THEN "rejected"
    ELSE IF at >= ExpiresAt THEN "expired"
    ELSE IF Cardinality(Upto(chain, "approved", at)) >= Required THEN "approved"
    ELSE "pending"

\* The delegations to p that are in force at a time; the newest one counts.
Delegations(chain, p, at) ==
    {i \in Upto(chain, "delegated", at) : chain[i].to = p /\ at < chain[i].until}

Newest(indices) == CHOOSE i \in indices : \A j \in indices : j <= i

NoAuthority == [role |-> None, source |-> None]

DirectAuthority(p) ==
    [role |-> CHOOSE r \in RolesOf[p] \cap EligibleRoles : TRUE, source |-> p]

DelegatedAuthority(chain, found) ==
    IF found = {} THEN NoAuthority
    ELSE [role |-> chain[Newest(found)].role, source |-> chain[Newest(found)].actor]

\* Mutant: the validity of a delegation is not looked at.
EligibleAuthorityForEver(p, at) ==
    IF Eligible(p) THEN DirectAuthority(p)
    ELSE LET given == {i \in Upto(events, "delegated", at) : events[i].to = p} IN
         DelegatedAuthority(events, given)

\* _eligible_authority: the principal's own role, else the newest delegation.
EligibleAuthority(p, at) ==
    IF Eligible(p) THEN DirectAuthority(p)
    ELSE DelegatedAuthority(events, Delegations(events, p, at))

-----------------------------------------------------------------------------
\* The replay of a chain.

\* What the events before position i amount to.
StateBefore(chain, i) ==
    LET Before(type) == {j \in 1 .. (i - 1) : chain[j].type = type} IN
    IF Before("revoked") # {} THEN "revoked"
    ELSE IF Before("rejected") # {} THEN "rejected"
    ELSE IF Cardinality({chain[j].source : j \in Before("approved")}) >= Required
         THEN "approved"
    ELSE "pending"

DirectRole(e) == e.role \in RolesOf[e.actor] \cap EligibleRoles

\* The source the replay expects behind the decision at position i.
ExpectedSource(chain, i) ==
    LET e == chain[i]
        found == {j \in Delegations(chain, e.actor, e.at) : j < i /\ chain[j].role = e.role}
    IN  IF DirectRole(e) THEN e.actor ELSE DelegatedAuthority(chain, found).source

DecisionVerifies(chain, i) ==
    LET e == chain[i]
        others == {j \in 1 .. (i - 1) : chain[j].type = "approved"}
    IN  /\ MayDecide(e.actor)
        /\ e.source = ExpectedSource(chain, i)
        /\ e.source # None
        /\ e.type = "approved" =>
              \A j \in others : chain[j].actor # e.actor /\ chain[j].source # e.source

DelegationVerifies(e) ==
    /\ AllowDelegation
    /\ e.to \in Principals \ {e.actor}
    /\ MayDecide(e.actor) /\ MayDecide(e.to)
    /\ DirectRole(e)
    /\ e.at < e.until
    /\ e.until <= ExpiresAt

EscalationVerifies(chain, i) ==
    /\ EscalationAfter # None
    /\ chain[i].at >= EscalationAfter
    /\ \A j \in 1 .. (i - 1) : chain[j].type # "escalated"

EventVerifies(chain, i) ==
    LET e == chain[i] IN
    /\ e.actor \in Principals
    /\ e.at < ExpiresAt
    /\ StateBefore(chain, i) = IF e.type = "revoked" THEN "approved" ELSE "pending"
    /\ \/ e.type \in {"approved", "rejected"} /\ DecisionVerifies(chain, i)
       \/ e.type = "delegated" /\ DelegationVerifies(e)
       \/ e.type = "escalated" /\ EscalationVerifies(chain, i)
       \/ e.type = "revoked" /\ DirectRole(e)

\* __post_init__ and _validate_history.
Verifies(chain) ==
    \A i \in 2 .. Len(chain) : chain[i - 1].at <= chain[i].at /\ EventVerifies(chain, i)

-----------------------------------------------------------------------------
\* The operations: what each one checks by itself, and the event it makes.

StillPending(at) == status(events, at) = "pending"
Decision(type, p, at) ==
    [Event(type, at, p, EligibleAuthority(p, at).role)
        EXCEPT !.source = EligibleAuthority(p, at).source]

MayApprove(p, at) ==
    /\ MayDecide(p)
    /\ StillPending(at)
    /\ \A i \in Upto(events, "approved", ExpiresAt) : events[i].actor # p
    /\ EligibleAuthority(p, at) # NoAuthority
    /\ \A i \in Upto(events, "approved", at) :
          events[i].source # EligibleAuthority(p, at).source

MayReject(p, at) == StillPending(at) /\ MayDecide(p) /\ EligibleAuthority(p, at) # NoAuthority

MayDelegate(p, q, role, at, until) ==
    /\ AllowDelegation
    /\ p # q
    /\ at < until
    /\ until <= ExpiresAt
    /\ role \in EligibleRoles \cap RolesOf[p]
    /\ MayDecide(p) /\ MayDecide(q)
    /\ StillPending(at)

Delegation(p, q, role, at, until) ==
    [Event("delegated", at, p, role) EXCEPT !.to = q, !.until = until]

EscalationDue(at) ==
    /\ EscalationAfter # None
    /\ at >= EscalationAfter
    /\ StillPending(at)
    /\ Upto(events, "escalated", at) = {}

MayRevoke(p, at) == Eligible(p) /\ status(events, at) = "approved"
Revocation(p, at) == Event("revoked", at, p, DirectAuthority(p).role)

\* _append: the new workflow is constructed, and so replayed.
AppendEvent(e) ==
    /\ Verifies(Append(events, e))
    /\ events' = Append(events, e)

Approve(p, at) == MayApprove(p, at) /\ AppendEvent(Decision("approved", p, at))
Reject(p, at) == MayReject(p, at) /\ AppendEvent(Decision("rejected", p, at))
Delegate(p, q, role, at, until) ==
    /\ MayDelegate(p, q, role, at, until)
    /\ AppendEvent(Delegation(p, q, role, at, until))
Escalate(p, at) == EscalationDue(at) /\ AppendEvent(Event("escalated", at, p, None))
Revoke(p, at) == MayRevoke(p, at) /\ AppendEvent(Revocation(p, at))

\* The bound on the length of a chain.
MayDelegateAgain == Cardinality(Upto(events, "delegated", ExpiresAt)) < MaxDelegations

Next ==
    \/ \E p \in Principals, at \in Times :
          Approve(p, at) \/ Reject(p, at) \/ Escalate(p, at) \/ Revoke(p, at)
    \/ /\ MayDelegateAgain
       /\ \E p, q \in Principals, role \in Roles, at, until \in Times :
             Delegate(p, q, role, at, until)

Spec == Init /\ [][Next]_events

-----------------------------------------------------------------------------
\* Grants.  The request's own fields are the same in every grant of it; the
\* chain stands for the fingerprint of the workflow.

\* Positions in the order of the chain.
InOrder(indices) == SetToSortSeq(indices, <)

grant(chain, at) ==
    LET approvals == InOrder(Upto(chain, "approved", at)) IN
    [approved_at |-> chain[approvals[Required]].at,
     approvers   |-> {chain[approvals[n]].actor : n \in 1 .. Required},
     workflow    |-> chain]

\* Mutant: the fingerprint of the workflow is not compared.
grant_matches_any_version(g, at) ==
    /\ status(events, at) = "approved"
    /\ g.approvers = grant(events, at).approvers

grant_matches(g, at) ==
    /\ status(events, at) = "approved"
    /\ g = grant(events, at)

-----------------------------------------------------------------------------
\* Types; the chain starts with the request and its times never go back.
TypeOK ==
    /\ Head(events) = Event("requested", 0, Requester, None)
    /\ \A i \in DOMAIN events :
          /\ events[i].type \in EventTypes
          /\ events[i].at \in Times
          /\ events[i].actor \in Principals
          /\ events[i].role \in Roles \cup {None}
          /\ events[i].source \in Principals \cup {None}
          /\ i > 1 => events[i - 1].at <= events[i].at

LastAt == Last(events).at
Later == {at \in Times : at >= LastAt}

\* The two statements of the rules agree: what an operation allows at a time that
\* is not before the last event, the replay accepts, so no operator is refused
\* with a workflow error after the operation's own checks have passed.
OperationsAgreeWithReplay ==
    \A p \in Principals, at \in Later :
        /\ MayApprove(p, at) => Verifies(Append(events, Decision("approved", p, at)))
        /\ MayReject(p, at) => Verifies(Append(events, Decision("rejected", p, at)))
        /\ EscalationDue(at) => Verifies(Append(events, Event("escalated", at, p, None)))
        /\ MayRevoke(p, at) => Verifies(Append(events, Revocation(p, at)))
        /\ \A q \in Principals, role \in Roles, until \in Times :
              MayDelegate(p, q, role, at, until) =>
                  Verifies(Append(events, Delegation(p, q, role, at, until)))

\* Whenever the request counts as approved, as many different principals who
\* hold an eligible role as the policy requires stand behind it, each once, by
\* their own decision or through somebody they had delegated their role to; the
\* requester is neither of them unless the policy says so.  (The chain is well
\* formed and in the order of its times.)
ApprovedByAQuorum ==
  /\ TypeOK
  /\ \A at \in Times : status(events, at) = "approved" =>
        LET made == Upto(events, "approved", at) IN
        /\ Cardinality({events[i].source : i \in made}) >= Required
        /\ Cardinality({events[i].actor : i \in made}) >= Required
        /\ \A i \in made :
              /\ Eligible(events[i].source)
              /\ MayDecide(events[i].source) /\ MayDecide(events[i].actor)
              /\ events[i].source # events[i].actor =>
                    \E j \in 1 .. (i - 1) :
                        /\ events[j].type = "delegated"
                        /\ events[j].actor = events[i].source
                        /\ events[j].to = events[i].actor
                        /\ events[i].at < events[j].until

\* Delegating, approving for somebody else and escalating never use up the
\* authority that is still needed: a pending request can be approved by somebody
\* until it expires.
QuorumStaysReachable ==
    \A at \in Later : StillPending(at) =>
        \E p \in Principals :
            MayApprove(p, at) /\ Verifies(Append(events, Decision("approved", p, at)))

\* Seen from later times a workflow does not return from a decision: neither to
\* pending, nor from revoked or rejected to approved or merely expired.
DecisionsAreFinal ==
    \A early, late \in Times : early <= late =>
        \/ status(events, early) \in {"pending", status(events, late)}
        \/ status(events, early) = "approved" /\ status(events, late) \in {"revoked", "expired"}

\* A grant issued before a revocation holds from its time until the request
\* expires or the approval is revoked, and no longer: once revoked it does not
\* match even for a question about the time before the revocation.  (A grant
\* asked for afterwards, about that earlier time, is a new one.)
GrantsLastUntilRevoked ==
    \A n \in DOMAIN events : \A at \in Times :
        LET issued == SubSeq(events, 1, n) IN
        status(issued, at) = "approved" /\ Last(issued).type # "revoked" =>
            \A later \in at .. ExpiresAt :
                grant_matches(grant(issued, at), later)
                    <=> (Last(events).type # "revoked" /\ later < ExpiresAt)

\* An approval rests on a quorum, as long as it is open a quorum can still be
\* reached, and once decided it stays decided.
DecisionsAreSound == ApprovedByAQuorum /\ QuorumStaysReachable /\ DecisionsAreFinal

=============================================================================
