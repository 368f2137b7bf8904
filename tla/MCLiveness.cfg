SPECIFICATION LiveSpec
CONSTANTS
    Workers = {w1, w2}
    LegacyWorkers = {w1}
    Engagements = {e1}
    Actions = {a1}
    NoCall = NoCall
    NoRow = NoRow
    Absent = Absent
    MaxTime = 2
    StartTime = 1
    StatusChoices = {"active"}
    Limits = {1, 3}
    scan = scan
    host = host
    eng = eng
    h1 = h1
    h2 = h2
    Hosts = {h1, h2}
    MaxWorkers = 2
    None = None
    Batch <- MCBatch
INVARIANTS
    BatchKeepsOrder
PROPERTIES
    SupervisedCallsEnd
    BatchSettles
