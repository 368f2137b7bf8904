SPECIFICATION OperationsSpec
CONSTANTS
    MaxActions = 2
    MaxSelected = 3
    a1 = a1
    a2 = a2
    Addresses = {a1, a2}
    ScanServices <- MCScanServices
    ActionBudget = 1
    ScanSetsTiming = FALSE
    Unknown = Unknown
    SiteLinks <- MCSiteLinks
    SiteRedirect <- MCSiteRedirect
    MaxPages = 4
    MaxProbes = 2
    CorsTargets = 2
    MaxDast = 4
    MaxBrowserRequests = 2
    MaxBrowserPages = 1
    MaxWorkflow = 2
    WorkflowUrls <- MCWorkflowUrls
    MaxRefused = 1
    Described <- MCDescribed
    Selectors <- MCSelectors
    ApiOrigin = "o"
    MaxRequests = 2
    ObjectIds <- MCObjectIds
    AdUsers <- MCAdUsers
    AdGroups <- MCAdGroups
    EntraTenants <- MCEntraTenants
    EntraMembers <- MCEntraMembers
    EntraOwners <- MCEntraOwners
    EntraRoles <- MCEntraRoles
    EntraAssignments <- MCEntraAssignments
    MaxDirectoryPages = 9
    PageSize = 2
    MaxCollectionPages = 1
    MaxEntries = 4
    MaxMemberships = 4
    MaxRelationships = 4
    MaxMemberReads = 1
    MaxOwnerReads = 2
    MaxRoleDefinitions = 2
    MaxTrusts = 1
    OwnDomain = "t2"
    Controllers = {c1, c2}
    MaxBatches = 2
    MaxRepairs = 1
    MaxAttempts = 4
    MaxPolls = 1
    LeaseTime = 1
    Deadline = 2
    MaxTime = 2
    ReleaseAuthorized = TRUE
    Paths = {"a", "A", "b"}
    Folded <- MCFolded
    BaseFiles = {"a", "b"}
    PolicyPaths = {"a", "A"}
    TaskPaths = {"a", "A", "b"}
    ProtectedPaths = {"b"}
    Operations = {"add", "modify", "delete"}
    MaxChangedFiles = 2
    MaxRepairAttempts = 1
    RequiredChecks = {"suite", "syntax"}
    CountedChecks = {"suite"}
    NoCandidate = NoCandidate
    ScanItems <- MCScanItems
    MaxProbeRetries = 1
    PoolSize = 2
    HostPorts = 2
    ServiceProbes <- MCServiceProbes
    Clients = {k1, k2}
    HostSpellings = {"a", "A", "b", "x"}
    CanonicalHost <- MCCanonicalHost
    ProxyScope = {"a", "b"}
    MaxHostCerts = 1
    MaxExchanges = 2
    NoHost = NoHost
    AddressBits = 3
    Definitions <- MCDefinitions
    Techniques = {"dns", "T1046"}
    CapabilityNames = {"dns"}
    WhiteRuns = {w1, w2, w3}
INVARIANTS
    ScansDoNotAbort
CHECK_DEADLOCK FALSE
