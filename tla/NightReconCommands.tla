------------------------- MODULE NightReconCommands -------------------------
(***************************************************************************)
(* The nightrecon command (nightrecon/cli.py main) and the copy of it that *)
(* red-night runs (red_cli.py _command_main), which has diverged: every    *)
(* subcommand is a fixed order of steps that check options, ask the        *)
(* --scope rules, send requests, save reports, write the audit log and     *)
(* print.  A step that fails ends the command where it stands, with        *)
(* parser.error or with an exception nobody catches, and what was done     *)
(* before stays done.                                                      *)
(***************************************************************************)
EXTENDS Naturals, Sequences, SequencesExt, FiniteSets

VARIABLE command    \* the one command that runs

-----------------------------------------------------------------------------
\* How a step may fail: an error message, one with a log record, an exception.
Error  == [log |-> "none", status |-> "error"]
Logged == [log |-> "failed", status |-> "error"]
Raised == [log |-> "none", status |-> "raised"]

\* A step: what it does, to what, for which options, and how it may fail.
Step(does, what, options, fails) ==
    [does |-> does, what |-> what, options |-> options, fails |-> fails,
     needs |-> {}, excludes |-> {}]

\* A check of the options: pairs of which the first needs, or excludes, the second.
Check(what, needs, excludes) ==
    [Step("check", what, {}, {Error}) EXCEPT !.needs = needs, !.excludes = excludes]

Scope(what)                 == Step("scope", what, {}, {Raised})
Send(what, options, fails)  == Step("send", what, options, fails)
Read(what, options, fails)  == Step("read", what, options, fails)
Save(what, options)         == Step("save", what, options, {Raised})
SaveInPlace(what, options)  == Step("save in place", what, options, {Raised})
Log                         == Step("log", "completed", {}, {Raised})
Show(what, options)         == Step("show", what, options, {Raised})
Return(options)             == Step("return", "command", options, {})

\* A name that is read and set nowhere.
Unbound(what)               == Step("unbound", what, {}, {Raised})

-----------------------------------------------------------------------------
\* infra: target, scope rules, credential name and profile; the scope; the
\* actions, each authorised and given a fresh credential; the report.
SmbPlan == <<Check("target, actions, credential and profile", {}, {}), Scope("target")>>
SmbRun == <<Send("actions", {}, {Logged, Raised}), SaveInPlace("infrastructure", {}), Log,
            Show("actions and facts", {})>>

WinRmPlan == <<Check("target, actions, credential and profile", {}, {}), Scope("target")>>
WinRmRun == <<Send("actions", {}, {Logged, Raised}), SaveInPlace("infrastructure", {}), Log,
              Show("actions and facts", {})>>

DatabasePlan == <<Check("target, actions, credential, engine and profile", {}, {}),
                  Scope("target")>>
DatabaseRun == <<Send("actions", {}, {Logged, Raised}), SaveInPlace("infrastructure", {}),
                 Log, Show("actions and facts", {})>>

SshPlan == <<Check("target, actions, credential and profile", {}, {}), Scope("target")>>
SshRun == <<Send("actions", {}, {Logged, Raised}), SaveInPlace("infrastructure", {}), Log,
            Show("actions and facts", {})>>

\* api graphql-inspect and graphql-introspect: the schema is read from a file
\* before the scope is asked, or from the endpoint after it.
GraphQLPlan == <<Check("endpoint, limits and credentials", {}, {}),
                 Read("introspection file", {"inspect"}, {Error}),
                 Scope("endpoint"),
                 Send("introspection query", {"introspect"}, {Logged, Raised})>>
GraphQLRun == <<SaveInPlace("schema", {}), Log, Show("types and fields", {})>>

\* api probe: a request the policy rejects, or whose answer is malformed, is an
\* exception after those before it were sent; two reports.
ProbePlan == <<Check("limits and base URL", {}, {}), Read("description", {}, {Error}),
               Check("selected operations and credentials", {}, {}), Scope("base URL")>>
ProbeRun == <<Send("selected operations", {}, {Raised}), SaveInPlace("inventory", {}),
              SaveInPlace("validation", {}), Log, Show("responses", {})>>

\* api inspect sends nothing, and asks the scope all the same.
InspectPlan == <<Check("limits and base URL", {}, {}), Read("description", {}, {Error}),
                 Scope("base URL")>>
InspectRun == <<SaveInPlace("inventory", {}), Log, Show("servers and operations", {})>>

\* assets history, assets list: what the inventory store holds.
AssetsHistory == <<Read("journal", {}, {Error, Raised}), Show("changes", {})>>
AssetsList == <<Read("inventory", {}, {Error, Raised}), Show("assets", {})>>

\* checks feed: at most one of the five actions; two of them need no feed.
FeedActions == {"install", "sync", "plan", "list-installed", "rollback"}
FeedLocal == <<Check("one action", {}, {p \in FeedActions \X FeedActions : p[1] # p[2]}),
               Read("installed versions", {"list-installed"}, {Raised}),
               Return({"list-installed"}),
               Check("rollback keys", {<<"rollback", "pack-keys">>}, {}),
               Step("store", "rollback", {"rollback"}, {Error, Raised}),
               Return({"rollback"})>>
FeedFetch == <<Check("URL, feed keys and pack keys",
                     {<<"install", "pack-keys">>, <<"sync", "pack-keys">>}, {}),
               Read("feed", {}, {Error, Raised}),
               Show("advertised packs", {})>>
FeedApply == <<Read("plan", {"plan"}, {Error, Raised}),
               Step("store", "accept", {"install"}, {Error, Raised}),
               Step("store", "install", {"install"}, {Error, Raised}),
               Step("store", "accept", {"sync"}, {Error, Raised}),
               Step("store", "sync", {"sync"}, {Error, Raised}),
               Show("plan, installation or synchronisation", {})>>

\* checks list: packs named on the command line or installed, then the catalogue.
ChecksList == <<Read("check packs", {}, {Error, Raised}), Show("checks", {})>>

\* discover: a network in scope; the report before the inventory, the inventory
\* before the log.
DiscoverPlan == <<Check("target, scope and ports", {}, {}), Scope("network"),
                  Send("host probes", {}, {Logged, Raised}),
                  Send("reverse names", {"reverse-dns"}, {Logged, Raised})>>
DiscoverRun == <<Save("discovery", {}),
                 Step("inventory", "discovery", {"update-inventory"}, {Error, Raised}),
                 Log, Show("hosts and changes", {})>>

\* crawl: option rules, then the crawl and up to four further assessments, then
\* their reports one after the other.
CrawlOptions == <<Check("URL, cookies, workflow and browser", {<<"workflow-get", "workflow">>},
                        {<<"session-cookies", "cookie-env">>, <<"workflow-get", "cookie-env">>,
                         <<"browser", "cookie-env">>, <<"browser", "session-cookies">>})>>
CrawlChoices == <<Check("credentials, assessment and DAST",
                        {<<"dast", "assessment">>, <<"dast", "safe-active">>},
                        {<<"dast", "cookie-env">>})>>
Crawl == <<Scope("host"), Send("crawl", {}, {Logged, Raised})>>
CrawlProbes == <<Send("safe-active probes", {"assessment", "safe-active"}, {Logged, Raised})>>
CrawlDast == <<Send("credentialed CORS", {"dast"}, {Logged, Raised})>>
CrawlBrowser == <<Send("browser", {"browser"}, {Logged, Raised})>>
CrawlWorkflow == <<Send("navigations", {"workflow", "workflow-get"}, {Raised})>>
CrawlSave == <<Save("crawl", {}), SaveInPlace("workflow", {"workflow"}),
               SaveInPlace("dast", {"dast"}), SaveInPlace("browser", {"browser"})>>
CrawlLog == <<Log>>
CrawlPrint == <<Show("pages", {}), Show("findings", {"assessment"})>>
CrawlPrintMore == <<Show("DAST evidence", {"dast"}), Show("workflow", {"workflow"}),
                    Show("browser page", {"browser"})>>

\* Mutant: the name is resolved before the scope is asked.
ScanScopeLate == <<Send("resolve", {}, {Logged, Raised}), Scope("host")>>

\* scan: the check packs are read after the target was scanned.
ScanOptions == <<Check("assessment and context",
                       {<<"installed-packs", "assessment">>, <<"pack-keys", "assessment">>,
                        <<"installed-packs", "pack-keys">>,
                        <<"threat-context", "vuln-lookup">>}, {}),
                 Check("target, scope and ports", {}, {})>>
ScanScope == <<Scope("host"), Send("resolve", {}, {Logged, Raised})>>
ScanPorts == <<Send("ports", {}, {Raised})>>
ScanDetect == <<Send("services", {}, {Raised})>>
ScanAssess == <<Read("check packs", {"assessment"}, {Error, Raised}),
                Send("checks", {"assessment"}, {Raised})>>
ScanContext == <<Read("vulnerabilities", {"vuln-lookup"}, {}),
                 Read("threat context", {"threat-context"}, {})>>
ScanSave == <<Save("scan", {})>>
ScanInventory == <<Step("inventory", "scan", {"update-inventory"}, {Error, Raised})>>
ScanLog == <<Log>>
ScanPrint == <<Show("ports and services", {})>>
ScanPrintChecks == <<Show("assessments", {"assessment"})>>
ScanPrintContext == <<Show("context and changes", {})>>

-----------------------------------------------------------------------------
Commands ==
    [smb |-> SmbPlan \o SmbRun, winrm |-> WinRmPlan \o WinRmRun,
     database |-> DatabasePlan \o DatabaseRun, ssh |-> SshPlan \o SshRun,
     graphql |-> GraphQLPlan \o GraphQLRun, probe |-> ProbePlan \o ProbeRun,
     inspect |-> InspectPlan \o InspectRun,
     history |-> AssetsHistory, assets |-> AssetsList,
     feed |-> FeedLocal \o FeedFetch \o FeedApply, checks |-> ChecksList,
     discover |-> DiscoverPlan \o DiscoverRun,
     crawl |-> CrawlOptions \o CrawlChoices \o Crawl \o CrawlProbes \o CrawlDast \o
               CrawlBrowser \o CrawlWorkflow \o CrawlSave \o CrawlLog \o CrawlPrint \o
               CrawlPrintMore,
     scan |-> ScanOptions \o ScanScope \o ScanPorts \o ScanDetect \o ScanAssess \o
              ScanContext \o ScanSave \o ScanInventory \o ScanLog \o ScanPrint \o
              ScanPrintChecks \o ScanPrintContext]

-----------------------------------------------------------------------------
\* red_cli.py: these go step by step as above.
RedSmbRun == SmbRun
RedWinRmRun == WinRmRun
RedDatabaseRun == DatabaseRun
RedSshRun == SshRun
RedGraphQLPlan == GraphQLPlan
RedGraphQLRun == GraphQLRun
RedInspectPlan == InspectPlan
RedInspectRun == InspectRun
RedAssetsHistory == AssetsHistory
RedAssetsList == AssetsList
RedFeedLocal == FeedLocal
RedFeedFetch == FeedFetch
RedFeedApply == FeedApply
RedChecksList == ChecksList

\* discover reads the timing options, which only the parser of scan has; scan reads
\* the rate that only discover sets.  Nothing behind these lines is ever reached.
RedDiscover == <<Check("target, scope and ports", {}, {}), Unbound("timing_profile")>>
RedScan == ScanOptions \o ScanScope \o <<Unbound("tcp_rate")>>

\* crawl may pin the address, which must be one the admitted host resolves to.
RedCrawl == <<Scope("host"),
              [Check("connect address", {}, {}) EXCEPT !.options = {"connect-address"}],
              Send("resolve", {"connect-address"}, {Error, Raised}),
              Send("crawl", {}, {Logged, Raised})>>
RedCrawlOptions == CrawlOptions
RedCrawlChoices == CrawlChoices
RedCrawlProbes == CrawlProbes
RedCrawlDast == CrawlDast
RedCrawlBrowser == CrawlBrowser
RedCrawlWorkflow == CrawlWorkflow
RedCrawlSave == CrawlSave
RedCrawlLog == CrawlLog
RedCrawlPrint == CrawlPrint
RedCrawlPrintMore == CrawlPrintMore

RedCommands ==
    [smb |-> SmbPlan \o RedSmbRun, winrm |-> WinRmPlan \o RedWinRmRun,
     database |-> DatabasePlan \o RedDatabaseRun, ssh |-> SshPlan \o RedSshRun,
     graphql |-> RedGraphQLPlan \o RedGraphQLRun, probe |-> Commands.probe,
     inspect |-> RedInspectPlan \o RedInspectRun,
     history |-> RedAssetsHistory, assets |-> RedAssetsList,
     feed |-> RedFeedLocal \o RedFeedFetch \o RedFeedApply, checks |-> RedChecksList,
     discover |-> RedDiscover,
     crawl |-> RedCrawlOptions \o RedCrawlChoices \o RedCrawl \o RedCrawlProbes \o
               RedCrawlDast \o RedCrawlBrowser \o RedCrawlWorkflow \o RedCrawlSave \o
               RedCrawlLog \o RedCrawlPrint \o RedCrawlPrintMore,
     scan |-> RedScan]

Editions == {"nightrecon", "red-night"}

\* The switches of build_parser that decide which steps are taken.
OptionsOf(edition, name) ==
    CASE name = "graphql" -> {{"inspect"}, {"introspect"}}
      [] name = "feed" -> SUBSET (FeedActions \cup {"pack-keys"})
      [] name = "discover" -> SUBSET {"reverse-dns", "update-inventory"}
      [] name = "crawl" -> SUBSET ({"assessment", "safe-active", "dast", "browser",
                                    "workflow", "workflow-get", "cookie-env",
                                    "session-cookies"} \cup
                                   (IF edition = "red-night" THEN {"connect-address"} ELSE {}))
      [] name = "scan" -> SUBSET {"assessment", "installed-packs", "pack-keys", "vuln-lookup",
                                  "threat-context", "update-inventory"}
      [] OTHER -> {{}}

\* A fresh command; admitted: the target is in scope and of a kind the command takes.
CommandsInit ==
    \E edition \in Editions, name \in DOMAIN Commands, admitted \in BOOLEAN :
        \E options \in OptionsOf(edition, name) :
            command = [edition |-> edition, name |-> name, options |-> options,
                       admitted |-> admitted, at |-> 1, done |-> {}, sent |-> FALSE,
                       torn |-> {}, log |-> {}, status |-> "running"]

Steps == IF command.edition = "nightrecon" THEN Commands[command.name]
         ELSE RedCommands[command.name]
Due(step) ==
    /\ command.status = "running"
    /\ command.at <= Len(Steps)
    /\ step = Steps[command.at]
Taken(step) == step.options \subseteq command.options

\* What a check or the scope rules refuse.
Refused(step) ==
    \/ step.does = "scope" /\ ~command.admitted
    \/ \E p \in step.needs : p[1] \in command.options /\ p[2] \notin command.options
    \/ \E p \in step.excludes : {p[1], p[2]} \subseteq command.options

Skip(step) ==
    /\ Due(step)
    /\ ~Taken(step)
    /\ command' = [command EXCEPT !.at = @ + 1]

\* The step succeeds.
Proceed(step) ==
    /\ Due(step) /\ Taken(step)
    /\ ~Refused(step)
    /\ step.does # "unbound"
    /\ command' = [command EXCEPT
            !.at = @ + 1,
            !.done = @ \cup {<<step.does, step.what>>},
            !.sent = @ \/ step.does = "send",
            !.log = IF step.does = "log" THEN @ \cup {step.what} ELSE @,
            !.status = IF step.does = "return" THEN "returned" ELSE @]

\* parser.error; outside the scope, after a log record.
Refuse(step) ==
    /\ Due(step) /\ Taken(step)
    /\ Refused(step)
    /\ command' = [command EXCEPT
            !.log = IF step.does = "scope" THEN @ \cup {"rejected"} ELSE @,
            !.status = "error"]

\* The step fails on the way: requests may have left, and a file that is written in
\* place, or an inventory without its journal, stays half done.
Fail(step) ==
    /\ Due(step) /\ Taken(step)
    /\ \E f \in step.fails, begun \in BOOLEAN :
        command' = [command EXCEPT
            !.sent = @ \/ (step.does = "send" /\ begun),
            !.torn = IF step.does \in {"save in place", "inventory"} /\ begun
                     THEN @ \cup {step.what} ELSE @,
            !.log = IF f.log = "none" THEN @ ELSE @ \cup {f.log},
            !.status = f.status]

Finish ==
    /\ command.status = "running"
    /\ command.at > Len(Steps)
    /\ command' = [command EXCEPT !.status = "returned"]

CommandsNext ==
    \/ \E step \in ToSet(Steps) : Skip(step) \/ Proceed(step) \/ Refuse(step) \/ Fail(step)
    \/ Finish

CommandsSpec == CommandsInit /\ [][CommandsNext]_command

-----------------------------------------------------------------------------
Did(does) == {d \in command.done : d[1] = does}
Wanted(does) ==
    {<<s.does, s.what>> : s \in {s \in ToSet(Steps) : s.does = does /\ Taken(s)}}

\* The audit log, the result files and the traffic of a command tell one story,
\* wherever it ends: nothing is sent to a target that is not admitted or with
\* options that contradict each other; a rejection is logged of a command that did
\* nothing, a failure of one that saved nothing; "completed" of one that saved
\* all its reports and the inventory, and every command that returns and logs at
\* all has logged it; only a command that ended in an error leaves a torn file;
\* and no pack is installed from a feed whose generation was not accepted
\* (nightrecon/cli.py main, red_cli.py
\* _command_main, storage.py, logging.py).
CommandsLeaveATrail ==
    /\ command.sent =>
        command.admitted /\ \A s \in ToSet(Steps) : s.does = "check" => ~Refused(s)
    /\ "rejected" \in command.log =>
        ~command.sent /\ Did("save") \cup Did("save in place") = {}
    /\ "failed" \in command.log =>
        Did("save") \cup Did("save in place") \cup Did("log") = {}
    /\ "completed" \in command.log =>
        /\ \A does \in {"save", "save in place", "inventory"} :
            Wanted(does) \subseteq Did(does)
        /\ command.torn = {}
    /\ command.status = "returned" => Wanted("log") \subseteq Did("log")
    /\ command.torn # {} => command.status \in {"error", "raised"}
    /\ \A what \in {"install", "sync"} :
        <<"store", what>> \in command.done => <<"store", "accept">> \in command.done

=============================================================================
