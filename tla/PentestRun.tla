----------------------------- MODULE PentestRun -----------------------------
(***************************************************************************)
(* The pentest command (red_cli.py main, pentest_orchestrator.py,          *)
(* pentest_evidence.py): one guarded scan, then a crawl for every web      *)
(* service and an SMB assessment for every SMB port the scan reports, then *)
(* a manifest of the phases.                                               *)
(*                                                                         *)
(* The guard asks the engagement once, for the scan; the follow-ups are    *)
(* called as commands that check only the --scope rules.  While the run    *)
(* goes on another process may revoke the engagement and the name server   *)
(* may change its answer.                                                  *)
(***************************************************************************)
EXTENDS Naturals, Sequences, FiniteSets

CONSTANTS
    Addresses,          \* addresses the target's name may resolve to
    ScanServices,       \* services the scan may report: [addr, port, kind]
    ActionBudget,       \* the engagement's action budget
    ScanSetsTiming,     \* whether the scan command assigns tcp_rate and tcp_retries:
                        \* FALSE in red_cli.py, TRUE in its twin nightrecon/cli.py
    Unknown             \* nothing resolved, nothing saved

ASSUME PentestAssumption ==
    /\ \A s \in ScanServices : s.addr \in Addresses /\ s.kind \in {"http", "https", "tls", "smb"}
    /\ ActionBudget \in Nat
    /\ ScanSetsTiming \in BOOLEAN

Switches == {"no-assessment", "no-vuln-lookup", "no-threat-context",
             "no-inventory-update", "no-web-follow-up", "no-smb-follow-up"}

VARIABLES
    pentestStage,       \* where main is
    switches,           \* the --no-* options given
    smbCredentials,     \* whether the three SMB credential options are given
    privileged,         \* REDNIGHT_PRIVILEGED_OPERATOR_MODE is 1
    engagementActive, engagementUsed,
    dns,                \* what the target's name resolves to now
    report,             \* services of the scan report
    scanned,            \* resolved_addresses of the scan report
    followUps,          \* follow-ups not yet run
    ran,                \* history: follow-ups run, with what came of them
    resultFiles,        \* follow-ups and scans with a result file
    phases,             \* phase evidence so far
    manifest            \* the phases of the saved manifest

pentestVars == <<pentestStage, switches, smbCredentials, privileged, engagementActive,
                 engagementUsed, dns, report, scanned, followUps, ran, resultFiles,
                 phases, manifest>>

inputVars == <<switches, smbCredentials, privileged>>
worldVars == <<engagementActive, engagementUsed, dns>>

PentestInit ==
    /\ pentestStage = "guard"
    /\ switches \in {{}} \cup {{s} : s \in Switches}
    /\ smbCredentials \in BOOLEAN
    /\ privileged \in BOOLEAN
    /\ engagementActive \in BOOLEAN
    /\ engagementUsed = 0
    /\ dns \in SUBSET Addresses
    /\ report = {} /\ scanned = {}
    /\ followUps = {} /\ ran = {}
    /\ resultFiles = {}
    /\ phases = {}
    /\ manifest = Unknown

\* One command of the run.
TheCommand(what, addr, port, scheme) ==
    [what |-> what, addr |-> addr, port |-> port, scheme |-> scheme]

TheScan == TheCommand("scan", Unknown, 0, "tcp")

-----------------------------------------------------------------------------
\* The world: another process revokes the engagement; the name server changes
\* its answer.
RevokeEngagement ==
    /\ engagementActive
    /\ engagementActive' = FALSE
    /\ UNCHANGED <<pentestStage, inputVars, engagementUsed, dns, report, scanned, followUps,
                   ran, resultFiles, phases, manifest>>

DnsChanges ==
    /\ pentestStage = "follow-up"
    /\ dns' \in SUBSET Addresses \ {dns}
    /\ UNCHANGED <<pentestStage, inputVars, engagementActive, engagementUsed, report, scanned,
                   followUps, ran, resultFiles, phases, manifest>>

-----------------------------------------------------------------------------
\* _authorize_guarded_execution on the scan's arguments: privileged mode asks
\* nobody, otherwise the workspace decides, and charges what it allows.
AuthorizeScan ==
    /\ pentestStage = "guard"
    /\ \/ /\ privileged
          /\ pentestStage' = "scan"
          /\ UNCHANGED engagementUsed
       \/ /\ ~privileged
          /\ engagementActive /\ engagementUsed < ActionBudget
          /\ engagementUsed' = engagementUsed + 1
          /\ pentestStage' = "scan"
       \/ /\ ~privileged
          /\ ~(engagementActive /\ engagementUsed < ActionBudget)
          /\ pentestStage' = "exit"
          /\ UNCHANGED engagementUsed
    /\ UNCHANGED <<inputVars, engagementActive, dns, report, scanned, followUps, ran,
                   resultFiles, phases, manifest>>

\* The scan command: the name is resolved once, its addresses are probed, the
\* report is saved.  An unresolved name or a failed write ends the run, and so
\* does the first look at tcp_rate where nothing has assigned it.
RunScan ==
    /\ pentestStage = "scan"
    /\ \/ /\ dns # {}
          /\ IF ScanSetsTiming
             THEN /\ scanned' = dns
                  /\ report' \in SUBSET {s \in ScanServices : s.addr \in dns}
                  /\ resultFiles' = {TheScan}
                  /\ pentestStage' = "inventory"
             ELSE /\ pentestStage' = "UnboundLocalError"
                  /\ UNCHANGED <<scanned, report, resultFiles>>
       \/ /\ pentestStage' = "exit"
          /\ UNCHANGED <<scanned, report, resultFiles>>
    /\ UNCHANGED <<inputVars, worldVars, followUps, ran, phases, manifest>>

-----------------------------------------------------------------------------
\* build_web_follow_up_argv: TLS of any kind is crawled as https; one crawl per
\* address, scheme and port.
WebFollowUps ==
    {TheCommand("web", s.addr, s.port, IF s.kind = "http" THEN "http" ELSE "https") :
        s \in {s \in report : s.kind # "smb"}}

\* build_smb_follow_up_argv: one assessment per port, by name.
SmbFollowUps ==
    {TheCommand("smb", Unknown, s.port, "smb") :
        s \in {s \in report : s.kind = "smb"}}

Phase(name, status, of) == [phase |-> name, status |-> status, of |-> of]

\* The scan's own phases: one that a switch turns off, or that has nothing to look
\* at, is recorded as skipped.
OwnPhases(versioned, matched) ==
    {Phase(p[1], IF p[2] \cap switches = {} /\ p[3] THEN "completed" ELSE "skipped", TheScan) :
        p \in {<<"scan", {}, TRUE>>,
              <<"assessment", {"no-assessment"}, TRUE>>,
              <<"vulnerability-intelligence", {"no-vuln-lookup"}, versioned>>,
              <<"threat-context", {"no-vuln-lookup", "no-threat-context"}, matched>>,
              <<"inventory", {"no-inventory-update"}, TRUE>>}}

\* The scan's inventory update, which may end the run, and the phases of the scan.
ScanPhases ==
    /\ pentestStage = "inventory"
    /\ \/ /\ "no-inventory-update" \notin switches
          /\ pentestStage' = "exit"
          /\ UNCHANGED <<phases, followUps>>
       \/ /\ pentestStage' = "follow-up"
          /\ followUps' =
                (IF "no-web-follow-up" \in switches THEN {} ELSE WebFollowUps) \cup
                (IF "no-smb-follow-up" \in switches \/ ~smbCredentials
                 THEN {} ELSE SmbFollowUps)
          /\ \E versioned, matched \in BOOLEAN :
                /\ matched => versioned
                /\ phases' = OwnPhases(versioned, matched) \cup
                    {Phase(what, "skipped", TheScan) :
                        what \in {w \in {"web", "smb"} : ~\E f \in followUps' : f.what = w}}
    /\ UNCHANGED <<inputVars, worldVars, report, scanned, ran, resultFiles, manifest>>

\* All web follow-ups come before the first SMB one.
NextUp(f) ==
    /\ pentestStage = "follow-up"
    /\ f \in followUps
    /\ f.what = "smb" => \A g \in followUps : g.what = "smb"

\* Mutant: a follow-up that exits is passed over.
FollowUpQuiet(f, addr, outcome) ==
    /\ NextUp(f)
    /\ followUps' = followUps \ {f}
    /\ ran' = ran \cup {[of |-> f, addr |-> addr, outcome |-> outcome]}
    /\ resultFiles' = IF outcome = "exit" THEN resultFiles ELSE resultFiles \cup {f}
    /\ phases' = IF outcome = "exit" THEN phases
                 ELSE phases \cup {Phase(f.what, outcome, f)}
    /\ UNCHANGED <<pentestStage, inputVars, worldVars, report, scanned, manifest>>

\* One follow-up: a command that exits is a failed phase and the run goes on; one
\* that returns its report has saved it.
FollowUp(f, addr, outcome) ==
    /\ NextUp(f)
    /\ followUps' = followUps \ {f}
    /\ ran' = ran \cup {[of |-> f, addr |-> addr, outcome |-> outcome]}
    /\ resultFiles' = IF outcome = "exit" THEN resultFiles ELSE resultFiles \cup {f}
    /\ phases' = phases \cup {Phase(f.what, IF outcome = "exit" THEN "failed" ELSE outcome, f)}
    /\ UNCHANGED <<pentestStage, inputVars, worldVars, report, scanned, manifest>>

\* crawl: the name must resolve again and still to the pinned address.
WebFollowUp(f) ==
    /\ f.what = "web"
    /\ \/ f.addr \in dns /\ FollowUp(f, f.addr, "completed")
       \/ FollowUp(f, Unknown, "exit")

\* infra smb: connects to whatever the name resolves to; some of its actions may fail.
SmbFollowUp(f) ==
    /\ f.what = "smb"
    /\ \/ \E addr \in dns, outcome \in {"completed", "failed"} : FollowUp(f, addr, outcome)
       \/ dns = {} /\ FollowUp(f, Unknown, "failed")
       \/ FollowUp(f, Unknown, "exit")

\* PentestEvidenceManifest, saved beside the reports.
SaveManifest ==
    /\ pentestStage = "follow-up"
    /\ followUps = {}
    /\ manifest' = phases
    /\ pentestStage' = "done"
    /\ UNCHANGED <<inputVars, worldVars, report, scanned, followUps, ran, resultFiles, phases>>

\* Any OSError of a log or a result file ends the run where it is.
WriteFails ==
    /\ pentestStage \in {"follow-up", "inventory"}
    /\ pentestStage' = "exit"
    /\ UNCHANGED <<inputVars, worldVars, report, scanned, followUps, ran, resultFiles, phases,
                   manifest>>

PentestNext ==
    \/ RevokeEngagement \/ DnsChanges
    \/ AuthorizeScan \/ RunScan \/ ScanPhases
    \/ \E f \in followUps : WebFollowUp(f) \/ SmbFollowUp(f)
    \/ SaveManifest \/ WriteFails

PentestSpec == PentestInit /\ [][PentestNext]_pentestVars

-----------------------------------------------------------------------------
\* What a saved manifest tells is what happened: every service the scan reported
\* was followed up, or its branch is marked skipped; every follow-up that ran has
\* the one phase its outcome calls for, also when it exited; every completed phase
\* has its result file; and a pinned crawl reached an address the scan had
\* (main, build_web_follow_up_argv, crawl --connect-address).
ManifestTellsTheRun ==
    /\ \A r \in ran : r.of.what = "web" /\ r.outcome # "exit" => r.addr \in scanned
    /\ manifest # Unknown =>
        /\ \A p \in manifest : p.status = "completed" => p.of \in resultFiles
        /\ \A r \in ran : {p.status : p \in {p \in manifest : p.of = r.of}} =
                            {IF r.outcome = "exit" THEN "failed" ELSE r.outcome}
        /\ \A s \in report :
            LET what == IF s.kind = "smb" THEN "smb" ELSE "web"
            IN  \/ \E r \in ran : r.of.what = what /\ r.of.port = s.port
                \/ Phase(what, "skipped", TheScan) \in manifest

\* Probe failures are handled without aborting the scan: an authorised run whose
\* target resolves is never ended by an error of the program itself (the scan
\* branch of red_cli.py's _command_main).
ScansDoNotAbort == pentestStage # "UnboundLocalError"

=============================================================================
