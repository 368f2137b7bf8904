SPECIFICATION Spec
CONSTANTS
    Workers = {w1, w2}
    Engagements = {e1}
    Actions = {a1, a2}
    NoCall = NoCall
    NoRow = NoRow
    scan = scan
    host = host
    MaxTime = 2
    StatusChoices = {"active", "paused"}
    Capabilities = {scan}
    Targets = {host}
    Policies <- MCPolicies
    Requests <- MCRequests
SYMMETRY Symmetry
INVARIANTS
    BudgetRespected
    LogTellsTheRun
    RunningIsSupervised
    OnlyPermittedRequestsRun
PROPERTIES
    RevocationIsFinal
    ChargesAreExact
    ImplementsGovernedActions
