SPECIFICATION Spec
CHECK_DEADLOCK FALSE
CONSTANTS
    ann = ann
    bob = bob
    cleo = cleo
    rita = rita
    lead = lead
    owner = owner
    staff = staff
    None = None
    Principals = {ann, bob, cleo, rita}
    Roles = {lead, owner, staff}
    RolesOf <- MCRolesOf
    Requester = rita
    EligibleRoles = {lead, owner}
    Required = 2
    RequesterMayApprove = FALSE
    AllowDelegation = TRUE
    EscalationAfter = 1
    ExpiresAt = 2
    MaxDelegations = 2
INVARIANTS
    OperationsAgreeWithReplay
    DecisionsAreSound
    GrantsLastUntilRevoked
