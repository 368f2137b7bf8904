SPECIFICATION WorkerSpec
CONSTANTS
    Sessions = {w1, o1}
    Runners = {w1}
    Evidence = {i1}
    Contents = {c1}
    NewStatuses = {"active"}
    Times = {0, 2}
    Closed = Closed
    None = None
    NoLease = NoLease
    run = run
    host = host
    Capabilities = {run}
    Targets = {host}
    Policies <- MCPolicies
    Requests <- MCRequests
    Envelopes <- MCEnvelopes
INVARIANTS
    LaunchesAreGoverned
PROPERTIES
    RevokedEngagementIsDenied
    WorkersStop
