---------------------- MODULE InfrastructureAssessment ----------------------
(***************************************************************************)
(* The infra commands (red_cli.py, "infra ssh", "smb", "winrm",            *)
(* "database"): the selected read-only actions are executed one after      *)
(* another, each authorized against the action budget                      *)
(* (infrastructure_policy.py), each with a credential of its own that      *)
(* lives for one action (credential_resolution.py), through a transport    *)
(* adapter (infrastructure_*_adapter.py, infrastructure_ssh.py).           *)
(*                                                                         *)
(* A secret expires by the clock, at any moment between its resolution     *)
(* and its clearing.  What the far end answers is an outcome, good or bad. *)
(***************************************************************************)
EXTENDS Naturals, Sequences, FiniteSets

CONSTANTS
    MaxActions,         \* --max-actions
    MaxSelected         \* bound: actions selected on the command line

ASSUME InfraAssumption == MaxActions \in Nat \ {0} /\ MaxSelected \in Nat

Transports == {"ssh", "smb", "winrm", "database"}

VARIABLES
    infraStage,         \* where the command is
    transport,
    selected,           \* how many actions the command line selects
    inScope,            \* whether the target is in the --scope rules
    actionsUsed,        \* InfrastructureActionState.actions_used
    secret,             \* the credential of the current action
    session,            \* its connection: "closed", "prepared" or "open"
    records,            \* InfrastructureActionRecords
    adapterCalls,       \* history: actions handed to the adapter
    infraReport         \* the saved report

infraVars == <<infraStage, transport, selected, inScope, actionsUsed, secret, session,
               records, adapterCalls, infraReport>>

NoReport == [status |-> "none"]
InAction == {"execute", "connect", "login", "read-only", "collect", "facts"}

InfraInit ==
    /\ infraStage = "start"
    /\ transport \in Transports
    /\ selected \in 1 .. MaxSelected
    /\ inScope \in BOOLEAN
    /\ actionsUsed = 0
    /\ secret = "none"
    /\ session = "closed"
    /\ records = <<>>
    /\ adapterCalls = 0
    /\ infraReport = NoReport

Goes(stage) ==
    /\ infraStage' = stage
    /\ UNCHANGED <<transport, selected, inScope>>

-----------------------------------------------------------------------------
\* Validation of the arguments, then of the scope.  An exit saves nothing.
BeginInfra ==
    /\ infraStage = "start"
    /\ Goes(IF selected > MaxActions \/ ~inScope THEN "exit" ELSE "authorize")
    /\ UNCHANGED <<actionsUsed, secret, session, records, adapterCalls, infraReport>>

\* authorize_infrastructure_action, for actions the parser offers: fixed,
\* read-only, of the command's transport.
Authorized == actionsUsed < MaxActions /\ inScope

AuthorizeAction ==
    /\ infraStage = "authorize"
    /\ Len(records) < selected
    /\ Goes(IF Authorized THEN "resolve" ELSE "exit")
    /\ UNCHANGED <<actionsUsed, secret, session, records, adapterCalls, infraReport>>

\* resolve_credential; on failure the command exits, and with it what it has recorded.
ResolveCredential ==
    /\ infraStage = "resolve"
    /\ \/ secret' = "active" /\ Goes("execute")
       \/ secret' = secret /\ Goes("exit")
    /\ UNCHANGED <<actionsUsed, session, records, adapterCalls, infraReport>>

\* EphemeralSecret.expired: the monotonic clock passes the lease.
SecretExpires ==
    /\ secret = "active"
    /\ secret' = "expired"
    /\ Goes(infraStage)
    /\ UNCHANGED <<actionsUsed, session, records, adapterCalls, infraReport>>

\* Mutant: an action that failed is not charged.
RecordResultUncharged(success, used) ==
    /\ records' = Append(records, [success |-> success,
                                   used |-> IF success THEN used ELSE actionsUsed])
    /\ actionsUsed' = IF success THEN used ELSE actionsUsed
    /\ secret' = "cleared"
    /\ session' = "closed"
    /\ Goes("authorize")

\* InfrastructureActionRecord.from_result, after the finally clause has cleared
\* the secret and the adapter has closed its session.
RecordResult(success, used) ==
    /\ records' = Append(records, [success |-> success, used |-> used])
    /\ actionsUsed' = used
    /\ secret' = "cleared"
    /\ session' = "closed"
    /\ Goes("authorize")

\* execute_infrastructure_action up to the adapter: an expired credential ends the
\* action uncharged; otherwise reserve_infrastructure_action takes the slot, which
\* the result carries whatever the adapter does.
ExecuteAction ==
    /\ infraStage = "execute"
    /\ UNCHANGED infraReport
    /\ \/ /\ secret = "active"
          /\ actionsUsed < MaxActions
          /\ adapterCalls' = adapterCalls + 1
          /\ Goes("connect")
          /\ UNCHANGED <<actionsUsed, secret, session, records>>
       \/ /\ secret = "expired"
          /\ RecordResult(FALSE, actionsUsed)
          /\ UNCHANGED adapterCalls

-----------------------------------------------------------------------------
\* The transport adapters.  Each turns every failure into a result and closes
\* what it opened; they differ in when the password is used.
InfraAt(t, stage) == transport = t /\ infraStage = stage
Proceeds(state, stage) ==
    /\ session' = state
    /\ Goes(stage)
    /\ UNCHANGED <<actionsUsed, secret, records, adapterCalls, infraReport>>
AdapterFails == /\ RecordResult(FALSE, actionsUsed + 1)
                /\ UNCHANGED <<adapterCalls, infraReport>>

\* SSH: the password is revealed from the connection to the end of the command.
SshConnect == /\ InfraAt("ssh", "connect")
              /\ \/ secret = "active" /\ Proceeds("open", "collect")
                 \/ AdapterFails
SshCollect == InfraAt("ssh", "collect") /\ (Proceeds("open", "facts") \/ AdapterFails)

\* SMB: the connection comes first, and is closed again if the login fails.
SmbDial == InfraAt("smb", "connect") /\ (Proceeds("open", "login") \/ AdapterFails)
SmbLogin == /\ InfraAt("smb", "login")
            /\ \/ secret = "active" /\ Proceeds("open", "collect")
               \/ AdapterFails
SmbCollect == InfraAt("smb", "collect") /\ (Proceeds("open", "facts") \/ AdapterFails)

\* WinRM: the session keeps the password and logs in with the first request, which
\* may be after the lease has expired.
WinrmPrepare == /\ InfraAt("winrm", "connect")
                /\ \/ secret = "active" /\ Proceeds("prepared", "collect")
                   \/ AdapterFails
WinrmCollect == InfraAt("winrm", "collect") /\ (Proceeds("open", "facts") \/ AdapterFails)

\* Databases: PostgreSQL is told to be read-only as it connects, MySQL by a first
\* statement; if that fails the connection is closed.
PostgresConnect == /\ InfraAt("database", "connect")
                   /\ \/ secret = "active" /\ Proceeds("open", "collect")
                      \/ AdapterFails
MySqlConnect == /\ InfraAt("database", "connect")
                /\ \/ secret = "active" /\ Proceeds("open", "read-only")
                   \/ AdapterFails
MySqlReadOnly == InfraAt("database", "read-only") /\ (Proceeds("open", "collect") \/ AdapterFails)
DatabaseCollect == InfraAt("database", "collect") /\ (Proceeds("open", "facts") \/ AdapterFails)

\* What was read is bounded and normalised to facts, or the evidence is invalid.
Normalise(t) ==
    /\ InfraAt(t, "facts")
    /\ \E success \in BOOLEAN : RecordResult(success, actionsUsed + 1)
    /\ UNCHANGED <<adapterCalls, infraReport>>
SshFacts == Normalise("ssh")
SmbFacts == Normalise("smb")
WinrmFacts == Normalise("winrm")
DatabaseFacts == Normalise("database")

SshAdapter == SshConnect \/ SshCollect \/ SshFacts
SmbAdapter == SmbDial \/ SmbLogin \/ SmbCollect \/ SmbFacts
WinrmAdapter == WinrmPrepare \/ WinrmCollect \/ WinrmFacts
DatabaseAdapter == PostgresConnect \/ MySqlConnect \/ MySqlReadOnly \/ DatabaseCollect
                    \/ DatabaseFacts

-----------------------------------------------------------------------------
Successes == Cardinality({i \in DOMAIN records : records[i].success})

\* Only the SMB report looks at its records; the others always say completed.
ReportStatus ==
    IF transport # "smb" \/ Successes = selected THEN "completed"
    ELSE IF Successes = 0 THEN "failed" ELSE "completed-with-errors"

\* attempted_actions is the highest actions_used_after of a record.
Attempted == CHOOSE n \in 0 .. MaxActions :
                /\ n = 0 \/ \E i \in DOMAIN records : records[i].used = n
                /\ \A i \in DOMAIN records : records[i].used <= n

\* The report is saved, written in place, and the command returns it; a write
\* that fails ends the command with the OSError.
SaveInfraReport ==
    /\ infraStage = "authorize"
    /\ Len(records) = selected
    /\ \/ /\ infraReport' = [status |-> ReportStatus, attempted |-> Attempted,
                             successful |-> Successes]
          /\ Goes("done")
       \/ infraReport' = NoReport /\ Goes("exit")
    /\ UNCHANGED <<actionsUsed, secret, session, records, adapterCalls>>

\* The four subcommands take the same steps around their adapters.
InfraCommand(t) ==
    /\ transport = t
    /\ \/ BeginInfra \/ AuthorizeAction \/ ResolveCredential \/ SecretExpires
       \/ ExecuteAction \/ SaveInfraReport

SshCommand == InfraCommand("ssh") \/ SshAdapter
SmbCommand == InfraCommand("smb") \/ SmbAdapter
WinrmCommand == InfraCommand("winrm") \/ WinrmAdapter
DatabaseCommand == InfraCommand("database") \/ DatabaseAdapter

InfraNext == SshCommand \/ SmbCommand \/ WinrmCommand \/ DatabaseCommand

InfraSpec == InfraInit /\ [][InfraNext]_infraVars

-----------------------------------------------------------------------------
\* A credential serves one action: it is never usable outside the action it was
\* resolved for, no session outlives it and none is open before a login was tried
\* with it, every action handed to the adapter is charged within --max-actions,
\* also those that fail and those whose secret expires on the way, and the
\* report's attempted_actions is that number (execute_infrastructure_action,
\* reserve_infrastructure_action, the adapters' finally clauses, to_dict).
LeasesAreOneShot ==
    /\ secret \in {"active", "expired"} => infraStage \in InAction
    /\ session # "closed" => infraStage \in InAction \ {"execute", "connect"}
    /\ adapterCalls <= MaxActions
    /\ infraStage \notin InAction \ {"execute"} /\ infraStage # "exit" =>
            actionsUsed = adapterCalls
    /\ infraReport # NoReport => infraReport.attempted = adapterCalls

=============================================================================
