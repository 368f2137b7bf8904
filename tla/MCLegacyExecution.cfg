SPECIFICATION Spec
CONSTANTS
    Workers = {w1, w2}
    Engagements = {e1}
    Actions = {a1, a2}
    NoCall = NoCall
    Absent = Absent
    scan = scan
    host = host
    Capabilities = {scan}
    Targets = {host}
    Limits = {1, 3}
    StartTime = 1
    MaxTime = 2
    Policies <- MCPolicies
    Requests <- MCRequests
SYMMETRY Symmetry
INVARIANTS
    LedgerIsExact
PROPERTIES
    LedgerGovernsGrants
