SPECIFICATION RecordsSpec
CONSTANTS
    scan = scan
    host = host
    p = p
    q = q
    v1 = v1
    v2 = v2
    x = x
    y = y
    c1 = c1
    a1 = a1
    a2 = a2
    p1 = p1
    p2 = p2
    f1 = f1
    e1 = e1
    e2 = e2
    b1 = b1
    b2 = b2
    b3 = b3
    Sessions = {s1}
    Evidence = {i1, i2}
    Contents = {t1, t2}
    NewStatuses = {"planned"}
    Times = {0, 2}
    Closed = Closed
    None = None
    Capabilities = {scan}
    Targets = {host}
    Policies <- MCPolicies
    Requests <- MCRequests
    Envelopes <- MCEnvelopes
    BackupFiles = {d1, d2}
    FileVersions = 2
    Makers = {m1, m2}
    Restorers = {r1}
    Passphrases = {w}
    Plain = Plain
    NoFile = NoFile
    Commands = {c1, c2}
    Packs = {p}
    Versions = {v1, v2}
    PackContents = {x, y}
    MaxHistory = 2
    NoPack = NoPack
    Feeds <- OnePackFeeds
    Addresses = {a1, a2}
    Ports = {p1, p2}
    ServiceNames = {"ssh", "http"}
    Updates = {u1, u2}
    ScanReports <- MCScanReports
    DiscoveryReports <- MCDiscoveryReports
    UpdatesAtOnce = 2
    NoAsset = NoAsset
    Damaged = Damaged
    FindingIds = {f1}
    FindingEngagement <- MCFindingEngagement
    WorkerResults <- MCWorkerResults
    Reviewed = {b1, b2}
    ReviewedEvidence = {b1, b2}
    NoFinding = NoFinding
    CaseEvidence = {g1, g2}
    Custodians = {k1, k2}
    CaseTimes = {0, 1}
    Levels = {0, 1}
    PolicyLevel = 1
    RetentionTime = 1
    ExportAllowed = TRUE
    MaxCustodyEvents = 2
    Clients = {l1, l2}
    NoCase = NoCase
    Trails = {j1, j2}
    EventIds = {n1, n2}
    AuditTimes = {0, 1}
    AuditWriters = {o1, o2}
    Partitions <- MCPartitions
INVARIANTS
    InventoryIsReadable
CHECK_DEADLOCK FALSE
