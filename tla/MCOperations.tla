---------------------------- MODULE MCOperations ----------------------------
(***************************************************************************)
(* What a command does while it runs, part by part: the infrastructure     *)
(* checks, the pentest command, the web and API assessments, the identity  *)
(* collection, the probe engines, the intercepting proxy, the nightrecon   *)
(* commands, the objective and the task controller, and on the White Night *)
(* side the policy compiler and the command line.                          *)
(* The parts share no state, so a behaviour has one of them (focus) take   *)
(* all the steps.                                                          *)
(***************************************************************************)
EXTENDS InfrastructureAssessment, PentestRun, WebAssessment, ApiAssessment,
        IdentityCollection, ObjectiveQueue, TaskRun, NightReconCommands, NetworkScan,
        InterceptProxy, PolicyCompiler, WhiteCommands

CONSTANTS a1, a2

\* Web services of every kind and SMB, on two addresses.
MCScanServices ==
    {[addr |-> a1, port |-> 80, kind |-> "http"], [addr |-> a2, port |-> 443, kind |-> "tls"],
     [addr |-> a1, port |-> 445, kind |-> "smb"], [addr |-> a2, port |-> 445, kind |-> "smb"]}

\* A site with links that lead back, a redirect within the origin and one out of it.
MCSiteLinks == <<{0, 2, 3}, {1, 4}, {3, 4, 5}, {5}, {2}>>
MCSiteRedirect == <<1, 2, 4, 0, 5>>
MCWorkflowUrls == <<2, 3, 2>>

\* Operations of an API description: safe ones, two of them one request, and one
\* for each reason to refuse; g names two operations and z none.
ApiOperation(selector, method, values, origin, url) ==
    [selector |-> selector, method |-> method, needsValues |-> values,
     origin |-> origin, url |-> url]

MCDescribed ==
    {ApiOperation("a", "GET", FALSE, "o", "u1"), ApiOperation("b", "HEAD", FALSE, "o", "u2"),
     ApiOperation("c", "GET", FALSE, "o", "u1"), ApiOperation("d", "POST", FALSE, "o", "u3"),
     ApiOperation("e", "GET", TRUE, "o", "u4"), ApiOperation("f", "GET", FALSE, "p", "u5"),
     ApiOperation("g", "GET", FALSE, "o", "u6"), ApiOperation("g", "GET", FALSE, "o", "u7"),
     ApiOperation("h", "GET", FALSE, "o", "u8")}

MCSelectors == SeqOf({"a", "b", "c", "d", "e", "f", "g", "h", "z"}, 3)

\* A domain with references between its entries, a tenant, and a tenant
\* without groups.
DirectoryItem(id, kind, members, refs) ==
    [id |-> id, kind |-> kind, members |-> members, refs |-> refs]
ReferenceTo(rel, to) == [rel |-> rel, to |-> to]

MCObjectIds == {"u1", "u2", "g1", "g2", "t1", "t2", "a1", "s1", "r1"}
MCAdUsers ==
    <<DirectoryItem("u1", "user", <<>>, {ReferenceTo("primary", "g1")}),
      DirectoryItem("u2", "user", <<>>, {ReferenceTo("delegates", "u1")})>>
MCAdGroups ==
    <<DirectoryItem("g1", "group", <<"u2">>, {ReferenceTo("role", "r1"), ReferenceTo("manages", "u1")}),
      DirectoryItem("t1", "trust", <<>>, {}),
      DirectoryItem("g2", "group", <<"u1", "g1">>, {})>>

MCEntraTenants ==
    {<<<<DirectoryItem("u1", "user", <<>>, {})>>, <<DirectoryItem("g1", "group", <<>>, {})>>,
       <<DirectoryItem("a1", "application", <<>>, {})>>,
       <<DirectoryItem("s1", "service", <<>>, {})>>>>,
     <<<<DirectoryItem("u1", "user", <<>>, {})>>, <<>>,
       <<DirectoryItem("a1", "application", <<>>, {})>>, <<>>>>}
MCEntraMembers == [g1 |-> <<"u1", "s1">>]
MCEntraOwners == [a1 |-> <<"u1">>, s1 |-> <<"a1", "u1">>]
MCEntraRoles == <<"r1", "r2">>
MCEntraAssignments ==
    <<[principal |-> "u1", role |-> "r1"], [principal |-> "a1", role |-> "r2"]>>

\* A path of the base, the same in capitals, and another one.
MCFolded == [path \in Paths |-> IF path = "A" THEN "a" ELSE path]

\* A web port of each kind and a raw print port.
MCScanItems ==
    <<[service |-> "http", print |-> FALSE], [service |-> "https", print |-> FALSE],
      [service |-> "other", print |-> TRUE]>>
MCServiceProbes == <<"http-head", "smtp-ehlo">>

\* Two spellings of one host, another one in scope, one out of it.
MCCanonicalHost == ("a" :> "a") @@ ("A" :> "a") @@ ("b" :> "b") @@ ("x" :> "x")

\* Rules of every type and of two address families, networks inside one another,
\* one with host bits set; all choices of two allowed and two excluded rules.
ScopeRule(type, version, base, bits) ==
    [type |-> type, version |-> version, base |-> base, bits |-> bits]
MCScopeRules ==
    {ScopeRule("host", 0, 0, 0), ScopeRule("host", 0, 1, 0),
     ScopeRule("address", 4, 2, 0), ScopeRule("address", 4, 5, 0),
     ScopeRule("address", 6, 2, 0), ScopeRule("network", 6, 0, 2),
     ScopeRule("network", 4, 0, 3), ScopeRule("network", 4, 4, 2),
     ScopeRule("network", 4, 2, 1), ScopeRule("network", 4, 5, 1),
     ScopeRule("network", 4, 5, 0)}
RuleSets == UNION {kSubset(k, MCScopeRules) : k \in 0..2}

Definition(allowed, excluded, techniques, prohibited, level, until, consistent) ==
    [allowed |-> allowed, excluded |-> excluded, techniques |-> techniques,
     prohibited |-> prohibited, max_intrusiveness |-> level, valid_from |-> 0,
     valid_until |-> until, max_actions |-> 1, consistent |-> consistent]

MCDefinitions ==
    {Definition(allowed, excluded, {"dns"}, {}, "safe-active", 1, TRUE) :
        allowed \in RuleSets, excluded \in RuleSets} \cup
    {Definition({ScopeRule("network", 4, 0, 3)}, {}, techniques, prohibited, level, until, c) :
        techniques \in SUBSET Techniques, prohibited \in SUBSET Techniques, until \in {0, 1},
        level \in {"passive", "safe-active", "intrusive", "destructive"}, c \in BOOLEAN}

SomeDefinition == CHOOSE roe \in MCDefinitions : TRUE

-----------------------------------------------------------------------------
VARIABLE focus

OperationsInit ==
    /\ focus \in {"infrastructure", "pentest", "web", "api", "identity", "objective", "task",
                  "command", "scan", "proxy", "compiler", "white"}
    /\ InfraInit
    /\ focus # "infrastructure" => transport = "ssh" /\ selected = 1 /\ inScope
    /\ PentestInit
    /\ focus # "pentest" =>
        switches = {} /\ smbCredentials /\ ~privileged /\ engagementActive /\ dns = {}
    /\ WebInit
    /\ ApiInit
    /\ IdentityInit
    /\ focus # "identity" => collection.provider = "ad"
    /\ ObjectiveInit
    /\ TaskInit
    /\ CommandsInit
    /\ focus # "command" =>
        command.edition = "nightrecon" /\ command.name = "assets" /\ command.admitted
    /\ ScanInit
    /\ focus # "scan" => job.engine = "hosts"
    /\ ProxyInit
    /\ focus # "proxy" => proxy.https /\ proxy.temporary
    /\ IF focus = "compiler" THEN CompilerInit
       ELSE compilation = [roe |-> SomeDefinition, bundle |-> <<>>, status |-> "written"]
    /\ WhiteInit

OperationsNext ==
    /\ UNCHANGED focus
    /\ \/ focus = "infrastructure" /\ InfraNext /\
          UNCHANGED <<pentestVars, webVars, apiVars, identityVars, objectiveVars, taskRun,
                       command, job, proxyVars, compilation, whiteVars>>
       \/ focus = "pentest" /\ PentestNext /\
          UNCHANGED <<infraVars, webVars, apiVars, identityVars, objectiveVars, taskRun,
                       command, job, proxyVars, compilation, whiteVars>>
       \/ focus = "web" /\ WebNext /\
          UNCHANGED <<infraVars, pentestVars, apiVars, identityVars, objectiveVars, taskRun,
                       command, job, proxyVars, compilation, whiteVars>>
       \/ focus = "api" /\ ApiNext /\
          UNCHANGED <<infraVars, pentestVars, webVars, identityVars, objectiveVars, taskRun,
                       command, job, proxyVars, compilation, whiteVars>>
       \/ focus = "identity" /\ IdentityNext /\
          UNCHANGED <<infraVars, pentestVars, webVars, apiVars, objectiveVars, taskRun,
                       command, job, proxyVars, compilation, whiteVars>>
       \/ focus = "objective" /\ ObjectiveNext /\
          UNCHANGED <<infraVars, pentestVars, webVars, apiVars, identityVars, taskRun,
                       command, job, proxyVars, compilation, whiteVars>>
       \/ focus = "task" /\ TaskNext /\
          UNCHANGED <<infraVars, pentestVars, webVars, apiVars, identityVars, objectiveVars,
                       command, job, proxyVars, compilation, whiteVars>>
       \/ focus = "command" /\ CommandsNext /\
          UNCHANGED <<infraVars, pentestVars, webVars, apiVars, identityVars, objectiveVars,
                       taskRun, job, proxyVars, compilation, whiteVars>>
       \/ focus = "scan" /\ ScanNext /\
          UNCHANGED <<infraVars, pentestVars, webVars, apiVars, identityVars, objectiveVars,
                       taskRun, command, proxyVars, compilation, whiteVars>>
       \/ focus = "proxy" /\ ProxyNext /\
          UNCHANGED <<infraVars, pentestVars, webVars, apiVars, identityVars, objectiveVars,
                       taskRun, command, job, compilation, whiteVars>>
       \/ focus = "compiler" /\ CompilerNext /\
          UNCHANGED <<infraVars, pentestVars, webVars, apiVars, identityVars, objectiveVars,
                       taskRun, command, job, proxyVars, whiteVars>>
       \/ focus = "white" /\ WhiteNext /\
          UNCHANGED <<infraVars, pentestVars, webVars, apiVars, identityVars, objectiveVars,
                       taskRun, command, job, proxyVars, compilation>>

OperationsSpec ==
    OperationsInit /\ [][OperationsNext]_<<focus, infraVars, pentestVars, webVars, apiVars,
        identityVars, objectiveVars, taskRun, command, job, proxyVars, compilation,
        whiteVars>>

=============================================================================
