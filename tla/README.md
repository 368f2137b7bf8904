# NightRecon verification project

NightRecon is a Python tool for authorised security assessments. An operator
records an engagement (scope, validity window, action budget, permitted
capabilities); every active operation is supposed to pass one policy gate before
it runs, to be charged against the budget, to be stopped when the authorisation
is withdrawn, and to leave an audit record behind. This directory models that
governance core, the durable stores around it, and the commands that do the
work, in TLA+, checks the models with TLC and proves the central invariants with
TLAPS. Paths below are relative to the repository; `red/` stands for
`packages/red-engine/nightrecon_red_engine/`, `shared/` for
`packages/shared-core/nightrecon_shared_core/`, `white/` for
`packages/white-engine/nightrecon_white_engine/`, `app/` for
`packages/red-night/red_night_app/` and `auto/` for `tools/task_automation/`.

Contents: [inventory](#inventory), [modules](#modules-and-the-code),
[runs](#runs), [fairness](#fairness), [proofs](#proofs),
[disagreements](#disagreements-found), [limits](#what-is-not-modelled),
[plan](#plan).

## Inventory

Governance:

| Part | State it keeps | Operations | Hard behaviour | What makes it correct |
|---|---|---|---|---|
| Policy decisions, `shared/engagement_policy.py` | none | `evaluate_action`, `evaluate_reserved_action` | the second has fewer gates than the first | what runs under the second is permitted by the first |
| Transactional authority, `red/transactional_policy_authority.py` | SQLite rows: policy, status, used units; reservations | `register`, `set_status`, `revoke`, `reserve`, `validate_reserved`, `import_legacy` | processes racing for the last unit, retries with a used identifier, a clock read before a wait | budget, exclusive reservations, final revocation |
| Governed executor, `red/atomic_command_executor.py` | a child process, a result log | reserve, validate, record, launch, poll, kill, record | revocation, cancellation, deadline, exit and death of the coordinator in any order | one run per action, supervised process, termination |
| Action ledger, `red/atomic_action_ledger.py` | SQLite rows: limit, used, revoked; reservations | `provision`, `revoke`, `reserve` | decision in a JSON file, charge in a database | no grant beyond either budget, the ledger only tightens |
| Revocable validation worker, `red/validation_worker.py` | a child process, a pipe, a lease | charge, audit, lease, spawn, poll, recheck, collect | operators changing the same files, late answers, a vanished child | a lease does not regress, no process left behind, revocation stops it |
| Assessment batch, `red/governed_assessment_batch.py` | a thread pool, locks, an event, an event list | submit, execute, collect, interrupt | threads against locks, cancellation in between, Ctrl-C | one tool per host, truthful events, termination |
| Approval engine, `white/approval_engine.py` | an immutable, hash-linked chain of events | approve, reject, delegate, escalate, revoke, grant | the rules are written twice (operation and replay); delegation | a quorum of distinct authorities, agreement of both, grants die with a revocation |
| Policy compiler, `white/policy_compiler.py`, `engagement_domain.py` | a bundle file | compile, verify | subtracting networks from networks, edited bundles | exactly the scope that was meant |

What is kept on disk:

| Part | State it keeps | Operations | Hard behaviour | What makes it correct |
|---|---|---|---|---|
| Local workspace, `shared/workspace.py`, `file_store.py`, `store.py` | two JSON files, one in-memory copy per object | create, status, merge, policy, revoke, authorize | a failing replacement after the copy changed; a death between charge and audit | charged and audited before returned; durable revocation; immutable evidence |
| Backup, `red/workspace_recovery.py` | archives, a restored tree | backup, verify, restore | files changing while they are archived, archives replaced while they are restored | a restored tree is one archive |
| Check packs, `red/check_feed_state.py`, `check_pack_store.py`, `check_pack_manager.py` | accepted feed generation, version files, state files | sync, install, rollback | crash between two files, overlapping commands, partly failing synchronisation | no replay, immutable versions, named versions exist |
| Asset inventory, `red/asset_inventory*.py` | `assets.json`, its temporary file, `changes.jsonl` | discovery and scan updates | one temporary path for everybody, a death between two files | the journal explains the inventory |
| Validation evidence and remediation, `red/validation_evidence_lifecycle.py`, `remediation_retest.py` | engagement file, remediation file, a copy of each | persist, register, transition, retest | copies that keep what they failed to write | a retest rests on stored evidence |
| Evidence custody, `white/evidence_custody.py` | a case, its event chain, a store with a copy | add, transfer, manifest, export | clients with older copies, failed writes | who held an item is settled |
| Audit trail, `white/audit_log.py` | hash chains in one file, a copy | append, create, advance | the same, over several trails in one file | a trail only gets longer |
| Secure workspace, `app/persistence*.py`, `appliance.py` | a LUKS partition, its mapping and mount | provision, unlock, mount, run, lock | every step may fail, sessions die, power goes | nothing is overwritten, commands run only inside |
| White Night commands, `white/white_cli.py` | artifacts in JSON files | create, advance, export, inspect | overlapping read-modify-write, torn writes | a command that ran alone keeps its event |

What a command does while it runs:

| Part | State it keeps | Operations | Hard behaviour | What makes it correct |
|---|---|---|---|---|
| Infrastructure checks, `red/infrastructure_*.py`, `credential_resolution.py` | budget, credential lease, session, records | ssh, smb, winrm, database | a lease that runs out anywhere, failing logins and closes | one secret per action, exact charges |
| Pentest, `red/pentest_orchestrator.py`, `red_cli.py` | phases, result files, manifest | guard, scan, follow-ups, manifest | follow-ups that exit, names that move, revocation in between | the manifest tells the run |
| Web assessment, `red/web_*.py`, `dast_*.py`, `browser_*.py` | queue of URLs, budgets | crawl, probes, CORS, browser, workflow | redirects, duplicates, browser callbacks in parallel, answers that raise | exhaustive within the budgets |
| API assessment, `red/api_*.py` | planned requests, reports | inspect, probe, GraphQL | the policy asked twice, answers that raise | no planned probe is refused; a report counts what was sent |
| Identity collection, `red/active_directory_provider.py`, `entra_provider.py`, `red_identity_live_cli.py` | entries, memberships, relationships, ceilings | page loops, derivation | ceilings in the middle of a page | not truncated means complete |
| Probe engines, `red/tcp_scanner.py`, `udp_scanner.py`, `syn_scanner.py`, `host_discovery.py`, `service_detection.py` | attempts and results per item | attempt, retry, classify, gather | a pool of threads, answers of all kinds | every item reported, as its answers bear out |
| Intercepting proxy, `red/web_proxy_repeater.py`, `https_intercept.py` | records, certificates, connections | forward, tunnel, issue, report, close | threads that serve while the proxy closes | only hosts in scope, delivered is recorded |
| Command lines, `nightrecon/cli.py`, `red/red_cli.py` | log, result files, inventory | about thirty subcommands | a failure at any step | log, files and traffic tell one story |
| Objective controller, `auto/queue.py`, `service.py`, `github_gateway.py` | a record with a lease and an intent, a remote repository | claim, work, commit, merge, release | lost answers, lost leases, deaths, deadlines | the remote's effects are accounted for |
| Task controller, `auto/controller.py` | a run | inspect, transition, validate | rules written twice | what a run writes validates |

The remaining parts are listed with their reason in `PROJECT.json`.

How they interact. Command lines open a `LocalWorkspace`, which reads both JSON
files once. A governed operation goes one of three ways: through
`LocalWorkspace.authorize_action` (charge in `authorization.json`, then a line in
the audit log); through `execute_atomically_governed` with the ledger (decision
on the JSON file, charge in SQLite); or through the same function with the
transactional authority (decision and charge in one SQLite transaction). The
executor asks its authority again on every round of its poll loop, the validation
worker reopens the workspace for the same purpose. A batch runs several executor
calls on threads and hands each the same cancellation event. The worker's result
goes through the evidence lifecycle into the workspace, and from there decides
remediation findings. Approvals are produced by the White Night engine, and reach
the Red Night side as the `approval_present` flag of a request; policies come
from the compiler. Scan and discovery commands check the `--scope` rules
themselves and feed the inventory; the pentest command runs them as functions.

The hazards this leads to are in `PROJECT.json`, the most important ones each at
its line. The recurring ones are races between processes that share a database or a file,
decisions on stale copies, crashes between two durable writes, retries with an
identifier that was already used, and stores that change their copy before the
file.

## Modules and the code

`PROJECT.json` maps the definitions to their lines. What is abstracted everywhere:
capabilities, targets, identifiers and contents are model values; scope matching
is membership in a set; times are small numbers; formats, messages, logging and
argument validation that has no effect on state are left out. A fingerprint
stands for what it is taken of.

### Governance

**EngagementPolicy** - the policy record with what its constructor accepts, and
the two pure decisions with their gates in the code's order. Extended by
`CommandExecutor` and `Workspace`, instantiated by `PolicyCompiler`.

**CommandExecutor** - the part of `execute_atomically_governed` after
authorisation: `RecordStarted`, `Launch`, `PollCancel`, `PollRevalidate`,
`PollWait`, `KillChild`, `RecordResult`. One worker is one call, `pc[w]` its
position. `child[k]` is the operating-system process of the reservation `k`; it
survives a coordinator that dies (`Crash`), whose reservation then joins
`orphans`. A write of the result log may fail at either record.

**PolicyAuthority** - extends it with the transactional authority. Each method is
one `BEGIN IMMEDIATE` transaction and so one action (`Register`, `SetStatus`,
`Revoke`, `Reserve`, `ImportLegacy`; `validate_reserved` is the predicate
`LeaseValid`). The clock value a call works with is the one it read on entry
(`EnterCall`); the wall clock moves independently (`Tick`, at most to
`MaxTime`). `ReserveFails` and `ValidateFails` are the early returns of the
executor.

**GovernedActions** - the abstract specification: units are given, each grant
takes one, once per action and not after a withdrawal; only granted actions
are launched, once, and end once. `PolicyAuthority` implements it under the
mapping at the end of that module (`free` is `max_actions - actions_used`,
`granted` the reservations, `launched` and `ended` are read off `child`).

**LegacyExecution** - the same executor with the JSON policy file and the SQLite
ledger. The decision (`Decide`) and the charge (`Reserve`) are two actions with
anything in between; `Tightened` is the row after `reserve` lowered its limit and
raised its usage to what the policy says; rechecks reread the policy file only.

**ValidationWorker** - extends `Workspace` with `run_revocable_validation_worker`
for the sessions in `Runners`: the charge and audit of `authorize_action`, the
lease, the child and its pipe, and the loop of poll, deadline, recheck, liveness
look and collection, each with all ways out. The other sessions are operators. In
`WorkerNext` every write is made from a current copy (the package's documented
assumption of serialized writers); `ReuseNext` drops that for the start of a run.

**AssessmentBatch** - main thread, pool threads, one lock per engagement and
host, the stop event, the event list. A tool run is reduced to launch, looks at
the event and outcomes.

**ApprovalWorkflow** - the one variable is the chain of events. Each operation
has a guard of its own (`MayApprove`, ...) and then constructs a new workflow,
whose constructor replays the chain (`Verifies`); an action needs both.
`status`, `grant` and `grant_matches` are the projections. `MaxDelegations`
bounds the chain.

**PolicyCompiler** - a definition is compiled, the bundle written, perhaps edited
by hand, and verified. Addresses have `AddressBits` bits of a family; prefixes,
containment, merging of neighbours and the pieces of `address_exclude` are those
of `ipaddress`. The property states the scope independently, address by address.

### What is kept on disk

**Workspace** - `LocalWorkspace` over its stores. A session is one object;
`mem[s]` is its copy of both files, read by `OpenWorkspace` and never again.
Every operation works on the copy and replaces a whole file by it. A failing
replacement is a branch of each operation: the policy store takes its change
back, the engagement store keeps it. `authorize_action` is two actions, up to the
charge (`Authorize`) and the audit record (`AuditDecision`).

**WorkspaceBackup** - makers hash the files of a live directory one by one and
read them again into the archive; a plain restorer opens the archive three times
(verify, manifest, extract), an encrypted one decrypts once. The live directory
changes at any time, archives are replaced by rename.

**CheckPacks** - feed state, version files and state files at the granularity of
file accesses. A command is a sequence of such accesses with an early exit at
each; `Crash` ends it anywhere. `MaxHistory` bounds the history of a pack.

**AssetInventory** - paths and the file objects behind them, since the hazard is
that two updates hold one object: load, merge (`apply_scan_report`,
`apply_discovery_report` with their change events), open the temporary path,
write, rename, append to the journal, with a death at each.

**RemediationLifecycle** - the engagement store and the remediation store, each a
copy and a file; results with every reason to be refused; restarts.

**EvidenceCustody**, **AuditTrail** - immutable chains offered by clients that may
work on older ones, and stores that take an extension into memory first and then
write. A restart reads the file again.

**SecureWorkspace** - the planner's classification of a partition, plans of
privileged steps each of which may fail (`luksFormat` also after its header), the
session with its guards and its `finally`, deaths and power loss.

**WhiteCommands** - every command that touches an artifact as read, make,
truncate, write, print; an event is the command that added it.

### What a command does

**InfrastructureAssessment** - one action after another: ask the policy, resolve a
credential, hand both to the adapter, record. `secret` and `session` follow the
lease and the connection through each adapter's clean-up; the lease may run out
at any moment.

**PentestRun** - the guard, the scan, one follow-up per web service and SMB port,
and the manifest; `ScanSetsTiming` says whether the scan branch has the variables
it uses (see disagreements). Another process may revoke the engagement and the
name server change its answer.

**WebAssessment** - the engines of the crawl command in turn on one origin: the
queue of the crawler with links, redirects and page budget; the OPTIONS probes;
the CORS check, a baseline and a probe for each target; the browser with several
requests in flight; the workflow. Any OPTIONS or CORS request may meet a malformed
answer, whose `http.client.HTTPException` nothing catches: the command ends there
(`webStage = "raised"`), perhaps between a baseline and its probe, and saves nothing.

**ApiAssessment** - `select_api_operations` over a description that contains one
operation for every reason to refuse, the request policy asked again, execution,
and the reports one after the other. A request succeeds, fails and is recorded, or
raises (`Outcomes`): a malformed answer ends the command with the request in no record
and no report of those before it.

**IdentityCollection** - the page loops of both providers with each ceiling where
the code looks at it, the derived relationships (roles of privileged groups and managers
in one pass, then primary groups, delegations and trusts), and the command around them.
The collector's own domain is `OwnDomain`: a trust with it is left out and reported as
truncated. Members an attribute holds back in ranges are reported like a page with
referrals, by the mark of the page (`AdPage`).

**NightReconCommands** - each subcommand is a sequence of steps (check, scope,
send, save, save in place, log, inventory, ...) with the options that switch a
step on and the ways it may end the command. `edition` selects `nightrecon` or
the diverged copy in `red_cli.py`.

**NetworkScan** - five engines over one pool: submit, one attempt, its answer,
retry, classify, gather; an exception in a thread is raised where the results
are gathered.

**InterceptProxy** - connections with a thread each, the records, certificates
under their lock, the report, and closing while threads still run.

**ObjectiveQueue** - queue transactions, the service's run between them, and the
remote repository. Remote calls take time, may fail, and may lose their answer
after doing their work. `MaxPolls`, `MaxTime`, `MaxAttempts` bound it.

**TaskRun** - `inspect_candidate` over snapshots, `transition`, and
`validate_result` as a predicate of its own.

### Composition

`CommandExecutor` is a part of `PolicyAuthority` and of `LegacyExecution`,
`Workspace` of `ValidationWorker`, and `EngagementPolicy` of all of them. Parts
that share no state at all are checked in one run for economy: `MCRecords`,
`MCOperations` and `MCLiveness` extend several modules, and a variable `focus`,
constant along a behaviour, says whose steps are taken. The reachable states of
such a run are the disjoint union of those of its parts (each with the others in
an initial state), so an invariant of one part is checked exactly as it would be
alone, and an action or liveness property holds of the other parts' behaviours
only because its variables do not move there.

Modules whose names start with `MC` fix the small instances. Definitions marked
"Mutant" are deliberately wrong variants of the definition that follows them;
they are used only to confirm that the properties detect such a change.

## Runs

Run one with `tlc -workers 2 -config <cfg> <module>`. State counts are distinct
states of the complete search.

| Run | Instance | States | Properties |
|---|---|---|---|
| `authority` | 2 calls, 2 action ids, 1 engagement, budget 2 with 0 or 1 used, a request inside and one above the impact ceiling, clock 0..2 with the window ending at 1; symmetric calls and ids | 648 k | `BudgetRespected`, `LogTellsTheRun`, `RunningIsSupervised`, `OnlyPermittedRequestsRun`, `RevocationIsFinal`, `ChargesAreExact`, refinement of `GovernedActions` |
| `liveness` | the authority and the legacy path with 2 calls, 1 id, no deaths; a batch of 3 tasks (two name one host in different ways) on 2 threads | 74 k | `SupervisedCallsEnd`, `BatchSettles`, `BatchKeepsOrder` |
| `legacy` | 2 calls, 2 ids, policy of 2 actions, ledger limit 1 or 3 | 1.14 M | `LedgerIsExact`, `LedgerGovernsGrants` |
| `worker` | 1 worker, 1 operator, policy of 2 actions | 389 k | `LaunchesAreGoverned`, `RevokedEngagementIsDenied`, `WorkersStop` |
| `approval` | 4 principals (one with two eligible roles, one with none, one the requester), 2 approvals required, expiry at 2, escalation after 1, at most 2 delegations | 211 k | `OperationsAgreeWithReplay`, `DecisionsAreSound`, `GrantsLastUntilRevoked` |
| `records` | workspace: 1 session at a time, 2 records in 2 contents; backup: 2 files in 2 versions, 2 makers, 1 restorer; packs: 2 overlapping commands on 1 pack, and 1 command at a time on 2 packs with 4 manifests; inventory: 3 updates, one at a time, 2 addresses with 2 ports; remediation: 1 finding, 3 bindings; custody: 2 items, 2 custodians, 2 clients; audit: 2 trails, 2 writers; partition: every content | 782 k | `AnswersAreOnFile`, `StoresNeverGoBack`, `RestoredTreeIsOneArchive`, `PackStateIsConsistent`, `SerialPacksAreRight`, `JournalExplainsInventory`, `RetestsAreBacked`, `SecureWorkspaceIsGuarded`, `PastCustodyIsSettled`, `StoredTrailsOnlyExtend` |
| `operations` | infrastructure: 3 actions against a budget of 2; pentest: 4 services on 2 addresses; web: 6 URLs with links back, redirects in and out, budgets below what the site has; api: 9 operations, up to 3 selectors; identity: a domain and two tenants with ceilings below and above their size; scan: 3 items, 1 retry, 2 threads; proxy: 2 clients, 4 spellings of 3 hosts, 1 certificate; objective: 2 controllers, 2 batches, 4 attempts, lease 1, deadline 2; task: 3 paths, 1 repair; commands: every subcommand and option; compiler: 3-bit addresses, all pairs of at most two allowed and two excluded of 11 rules; White Night: 3 commands | 1.16 M | `LeasesAreOneShot`, `ManifestTellsTheRun`, `WebAssessmentIsBounded`, `ProbesAreCarriedOut`, `CompleteMeansComplete`, `EveryProbeIsReported`, `InterceptionStaysInScope`, `EffectsAreAccounted`, `ResultsValidate`, `CommandsLeaveATrail`, `CompiledPolicyIsExact`, `LoneCommandsKeepTheirEvents` |
| `worker_reuse` | `worker` with a workspace object used again | - | `RevokedEngagementIsDenied` is violated |
| `packs_replay` | the overlapping commands of `records` | - | `FeedNeverGoesBack` is violated |
| `inventory_overlap` | `records` with two updates at once | - | `InventoryIsReadable` is violated |
| `pentest_scan` | `operations` with the scan branch as it stands | - | `ScansDoNotAbort` is violated |
| `service_reset` | service detection of `operations` | - | `DetectionSurvives` is violated |

What the properties of the three combined runs say is stated above each of them
in its module; those that join two statements are named for what they have in
common.

Why these bounds. Two concurrent calls are the fewest that race, and the
transactions make a third one wait without a new kind of interleaving; two ids
give a retry of the same action and a competitor for the budget; a budget of two
with one used makes the last unit contested, with none used it allows both.
Engagements do not share rows, so one suffices for TLC; the theorems have no
bound. The clock only needs a time inside and one outside the window. A ledger
limit below and one above the policy's are the two ways the budgets can disagree.
The workspace reaches every pair of statuses, and two records in two contents
make conflicting and agreeing bundles. Three tasks on two threads have a task
waiting for a lock, one holding it and one elsewhere or queued. Four manifests
include two with the same timestamp and one that advertises an old version with
new contents. Two delegations are enough for a delegate of two people and a chain
of the same delegate twice; dual control is the smallest real quorum. Two makers
and one restorer let an archive be replaced between any two openings. Three
inventory updates give a port a history of open, filtered and closed, and an
update after one that died. Ceilings and budgets are set one below what is there
in at least one place, and large enough to be never met in another. Two
controllers are a holder and its successor; a lease shorter than the deadline
lets both run out separately. Three White Night commands are two that overlap and
one after both. Three-bit addresses have networks of every size nested in one
another.

Deadlock is checked in `authority`, `liveness`, `legacy` and `worker`. In
`approval` a rejected, revoked or expired chain takes no further event; in
`records` and `operations` commands end and nothing follows. Where a module
states a type invariant, it is the first conjunct of an invariant of the run, or
proved (the three modules with a theorem about `TypeOK`).

Symmetry is used only in `authority` and `legacy`, whose properties treat calls
and ids alike.

## Fairness

- `SchedulerFairness` (`liveness`, for both ways of authorising): a thread inside
  a call takes its next step. A transaction is bounded by SQLite's timeout, the
  wait for the process by the poll interval, and the end of a killed process by
  the kernel.
- `ClockFairness`: the monotonic clock reaches a call's deadline. It is assumed
  only by `CallsEnd`, as its premise, so `RevokedProcessStops` is shown without
  it.
- Deaths of the coordinator are possible in all safety runs and absent from the
  liveness specifications: nothing in the code looks after the process of a dead
  coordinator, and no statement of the repository says so.
- `RunnerFairness` (`worker`): each step of the parent is bounded by the poll
  interval or by a join time-out; `RuntimeFairness`, the premise of `RunsEnd`
  only, is the monotonic clock again. The parent may die; its process then is
  counted as an orphan.
- `BatchFairness` (`liveness`): weak fairness of the main thread and of each pool
  thread, and strong fairness of `Expire`, the end of a tool run by its deadline,
  which is disabled in between while the poll loop looks at the event. Nothing is
  assumed about cancellation, Ctrl-C or the tool's own exit.

No fairness is assumed of operators, of callers or of a process that could exit
by itself. `records` and `operations` assume none.

## Proofs

Eight modules hold the theorems, for any values of the constants that the
assumptions allow; TLC evaluates each assumption on the instance of a run.

| Module | Theorem | States |
|---|---|---|
| `PolicyAuthority_proofs` | `TypeCorrect` | `Spec => []TypeOK` |
| | `BudgetSafe` | `Spec => []BudgetRespected` |
| | `RevocationSafe` | `Spec => RevocationIsFinal` |
| | `ChargesSafe` | `Spec => ChargesAreExact` |
| | `LogSafe`, `SupervisionSafe` | `Spec => [](ExclusiveReservation /\ LogTellsTheRun /\ RunningIsSupervised)` |
| | `PermittedSafe` | `Spec => []OnlyPermittedRequestsRun` |
| | `InvariantHolds` | `Spec => []IndInv` |
| | `Refinement` | `Spec => ImplementsGovernedActions` |
| `LegacyExecution_proofs` | `LegacyTypeCorrect` | `Spec => []TypeOK` |
| | `LedgerGoverns` | `Spec => LedgerGovernsGrants` |
| | `LedgerSafe` | `Spec => []LedgerIsExact` |
| `Workspace_proofs` | `AnswersSafe` | `SerialSpec => []AnswersAreOnFile` |
| | `StoresSafe` | `SerialSpec => StoresNeverGoBack` |
| | `WorkerSafe` | `WorkerSpec => []LaunchesAreGoverned` |
| | `RevokedIsDenied` | `WorkerSpec => RevokedEngagementIsDenied` |
| `ApprovalWorkflow_proofs` | `ApprovalTypeCorrect` | `Spec => []TypeOK` |
| | `OperationsReplay` | `Spec => []OperationsAgreeWithReplay` |
| | `DecisionsSound` | `Spec => []DecisionsAreSound` |
| | `GrantsLast` | `Spec => []GrantsLastUntilRevoked` |
| `AssessmentBatch_proofs` | `BatchOrdered` | `Spec => []BatchKeepsOrder` |
| | `CancelledIsFinal` | `Spec => CancelledTaskNeverSucceeds` |
| `Records_proofs` | `RestoreSafe` | `BackupSpec => []RestoredTreeIsOneArchive` |
| | `TrailsSafe` | `AuditSpec => StoredTrailsOnlyExtend` |
| | `SecureSafe` | `SecureSpec => []SecureWorkspaceIsGuarded` |
| | `RetestsSafe` | `RemediationSpec => []RetestsAreBacked` |
| | `CustodySettled` | `CustodySpec => PastCustodyIsSettled` |
| | `PacksSafe` | `ConcurrentPacksSpec => []PackStateIsConsistent` |
| | `PacksNeverGoBack` | `SerialPacksSpec => PackRecordsNeverGoBack` |
| | `SyncsMatch` | `SerialPacksSpec => []SyncedPacksMatchTheFeed` |
| | `LoneEventsSafe` | `WhiteSpec => []LoneCommandsKeepTheirEvents` |
| | `JournalSafe` | `InventorySpec => []JournalExplainsInventory` |
| `Operations_proofs` | `LeasesSafe` | `InfraSpec => []LeasesAreOneShot` |
| | `ManifestSafe` | `PentestSpec => []ManifestTellsTheRun` |
| | `ProbesSafe` | `ScanSpec => []EveryProbeIsReported` |
| | `EffectsSafe` | `ObjectiveSpec => []EffectsAreAccounted` |
| | `ResultsSafe` | `TaskSpec => []ResultsValidate` |
| | `InterceptionSafe` | `ProxySpec => []InterceptionStaysInScope` |
| | `ProbesCarriedOut` | `ApiSpec => []ProbesAreCarriedOut` |
| | `WebAssessmentSafe` | `WebSpec => []WebAssessmentIsBounded` |
| | `CompiledPolicySafe` | `CompilerSpec => []CompiledPolicyIsExact` |
| `IdentityCollection_proofs` | `CollectionComplete` | `IdentitySpec => []CompleteMeansComplete` |

### Assumptions

The named assumptions at the head of the modules, and nothing else: records are
ones the constructors accept, times and limits are natural numbers, the values
that stand for "none" are not among the others, a batch has between one and eight
tasks and a pool thread, as the code's own limits say. Times, rules, links and
reports are what the parsers in front of the modelled code let through: a scope rule
is a name, an address or a network of one family, within its address space
(`CompilerAssumption`), a
page has finitely many links (`WebAssumption`), a directory has one object of a name with finitely
many references (`IdentityAssumption`), a report names addresses of the
inventory (`InventoryAssumption`), a candidate differs from its base
(`CandidateAssumption`; the model's value for "no candidate" is none of them).
Three carry an argument and not just a type: `RemediationAssumption` says that "controlled", the name under which the model
lets `record_retest` refer to a validation of its own, is no worker result's binding,
`FeedAssumption` that the absence of a file is neither a version nor a content,
and `RequestAssumption` that the approval policy asks for a quorum that the
directory can supply, as the engine's constructor demands.

### Transactional authority

Three layers, each an inductive invariant of its own.

1. `Charged`: types, finiteness of the reservations, `BudgetRespected` and
   `ReservationsRegistered`. The budget alone is not inductive: the number of
   reservations of an engagement is compared with its used units by cardinality,
   which needs the set to be finite, and a newly registered engagement must have
   no reservations yet. `ReserveEffect` and `OperatorEffect` say once what the two
   kinds of table-changing steps do; all other steps leave the tables alone
   (`TablesUnchanged`).
2. `Logged`: `HoldersReserved`, `ExclusiveReservation`, `UnreservedUntouched`,
   `StepMatchesLog`, `LogTellsTheRun` and `RunningIsSupervised`. That the log tells
   one run needs to know what each call has already written (`StepMatchesLog`),
   that nobody else writes for its action (`ExclusiveReservation`), and that an
   action reserved for the first time has no log and no process yet
   (`UnreservedUntouched`). `ExecuteMoves` and `ExecuteShape` summarise the
   executor's steps so that the conjuncts are argued once and not per step.
3. `Permitted`: `OnlyPermittedRequestsRun`. `validate_reserved` has no impact
   ceiling; that this is sound rests on `PermissionsKept` (nothing replaces a
   registered policy's permissions) and `RequestKept` (a call keeps its request).

The refinement maps `Reserve` to `Grant`, `Register` and `ImportLegacy` to
`Authorise`, `Revoke` to `Withdraw`, a launch to `Launch`, the end of a process
to `End`, and everything else to stuttering; layers 1 and 2 supply the guards.

### Legacy path

`Counted` is `LedgerCountsGrants` with the types of the calls and of what they
have seen of the policy file (`WellTyped`): the row is compared with a policy
read earlier, so the argument is about the row at the moment of the charge
(`Tightened`) and never about the file. `Logged` repeats the second layer above
for this path, with a step described by what it does to the position, the log and
the process of one call (`Shape`), since the same executor serves both.

### Workspace and validation worker

`Serialized`: at most one session is open for writing, and its copy is `Ahead` of
the files - its policy is the one on disk, and its store holds all the file
holds and perhaps what a failed replacement left in it. Without the last part
neither theorem is inductive: a later success writes the earlier failure with it.
`Booked` gives each audit record, and each charge still to be recorded, a unit of
its own in the policy file.

`Supervised` extends it to the worker: `Covered` counts the runs between charge
and launch together with the launches, `RunOK` says that a run relies on its
charge from the moment it is made (`Relies`) and that a running child has a parent
in its loop, and `Durable` that a reported revocation is in the file. The first of
them is what makes `LeaseReadable` survive other sessions' writes.

### Approvals

`ChainOK`: the chain replays (`Verifies`), its times are in order, and a
principal with an eligible role decided in his own name. That what an operation
allows the replay accepts is proved operation by operation; the delegations need
the newest position with a property (`NewestExists`), and that a
quorum stays reachable needs counting (a principal who decided for another used
up that one's voice and not his own).

### Batches

`BatchOK`: a lock belongs to the task inside its locked block (`Locked`), the main
thread's position agrees with what was submitted (`Pooled`), and each task has the
events and the result of its step (`Story`). Positions of a task's events in the
shared list are sets of indices (`Told`), so that appending one task's event
leaves the others' stories alone. `CancelledTaskNeverSucceeds` is a statement about
all later states: `PTL` carries an inductive condition of one task forward.

### Stores

- Backups (`BackupsOK`): everything a restorer holds in any of its three openings
  carries the manifest of some backup that was put in place, and an encrypted
  restore sees one private copy.
- Audit (`AuditOK`): the copy extends the file, and drafts are valid trails;
  extension of a trail is a transitive relation (`IsPrefix`).
- Partition (`SecureOK`): the steps left in a plan (`PlanOK`) say what the partition,
  the mapping and the mount are now; each step of the executor is argued under the
  plan that starts with it.
- Remediation (`RemediationOK`): the property is kept by both stores, copy and
  file, because a restart turns one into the other.
- Custody (`CustodyOK`): stored and offered cases are in the order of their times
  (`InOrderOfTime`), and the copy extends the file. An event that is appended
  lies at or after every other, so the custodian at a time strictly before the
  last one does not change, also when times coincide.
- Check packs (`PacksOK`): each position of a command knows which version file
  exists already (`JobOK`); version files are never removed (`Grown`), so what it
  knows outlives the other commands' steps. `SerialOK` adds, for one command at a
  time, that what was looked up is still so when the file is replaced. With
  overlapping commands this is false, which is the run `packs_replay`.
  `SyncedSoFar` says of a synchronisation that the entries behind it match the
  feed and that the others are a suffix of it. `PacksNeverGoBack` and `SyncsMatch`
  together are the property `SerialPacksAreRight` of the run.
- White Night commands (`WhiteOK`): the events of a chain belong to the commands
  that made them, in an order that no `before` contradicts; what a command has
  read kept the events of the commands that ended before it began (`ReadOK`); and
  a file that is not empty while it is being written was written by a command that
  the writer overlaps (`WritingOK`).

### Operations

- `InfraOK`: charges are one ahead of the calls exactly while an adapter works
  (`ChargesOK`), the last record carries the highest charge (`UsedOK`), the secret
  and the session belong to a stage (`LeaseOK`).
- `PentestOK`: a follow-up is waiting and untold (`WaitingOK`), or has been run and
  has one phase (`RanOK`), and each service of the report is one of the two or
  skipped (`CoveredOK`).
- `JobOK`: `ItemOK` for each item and no more than `PoolSize` at work. What settles
  an item is the last thing seen of it (`AttemptsOK`), a print port is sent
  nothing (`PrintOK`), and a result is what the answers bear out (`ResultOK`).
- `ObjectiveOK`: the remote repository is `Accounted` for by the queue's record,
  and a controller that holds an intent holds the queue's record in all but state
  and version (`SameWork`, `IntentsAt`): whoever lost his lease between intent and
  effect can neither take the next intent nor record a result, and the queue
  gives nobody else a record with an intent.

- `TaskOK`: what the record of a run says in each state of `transition` (a frozen
  candidate, a verdict, a reason for a failure), and that its candidate is one
  `inspect_candidate` made; `ValidCandidate` gives the bounds the validator asks for
  again.
- `ProxyOK`: a thread that issues a certificate holds the lock and has found room
  below the limit, and what a connection has contacted, received and recorded follows
  from its position; the records of one connection are a subsequence of all records
  (`Mine`).
- `ApiOK`: while a plan runs, the requests charged, sent and recorded are equally
  many, and what is left of the plan is its rest; after an answer that raised, one
  request more is sent than recorded, and no file is saved.
- `WebOK`: the set of queued URLs is the visited pages and the queue, each URL once, so
  its cardinality counts both (`CrawlOK`); below the limit every link of a visited page
  is queued. The CORS check has charged two requests for each target but perhaps the
  last, and none of its targets is past the candidates (`DastOK`), so that, with
  `2 * CorsTargets <= MaxDast`, no refusal ends it early. The other stages count what
  they send.
- `InventoryOK`: while no update overlaps another or died between its two files, the
  journal tells the services of `assets.json` (`Undisturbed`), and an update that
  has merged its report holds the inventory that its changes make of what the journal
  tells (`UpdateOK`). That the change events of a report tell exactly its merge is
  `RetoldReport`.
- `CompilerOK`: a bundle keeps the fingerprint of what was compiled, so one that
  verifies has the compiled policy. What the compiled scope covers is arithmetic:
  networks are aligned blocks (`Block`), two blocks halve one of the next size
  (`BlockHalves`), hence two networks are nested or disjoint (`SubnetsNest`), and what
  `address_exclude` leaves of a network are the blocks that complete, size by size, the
  excluded one (`SubtractNetwork`). `RemainingPieces` extends this to any list of
  exclusions by induction, and `ScopeMeant` compares the result with the addresses of
  each rule, for addresses of any width.

Where a module computes over a sequence (the pieces of a network, the records of a
connection, the operations a selector picks, the services a journal tells), the model
states it as a recursive function and not as a fold. The induction such a function
needs is made in the proof modules themselves: the natural numbers are well-founded,
every nonempty set of them has a least element, and that gives both `Induction` over a
set of numbers and `Recursion`, the existence of the function.

### Identity collection

What a directory holds is a set of facts: its objects, trusts and roles, the memberships
and the relationships (`Told`, `WantedFacts`). Each step of a page loop, and each step of
the derivation after it, either learns the facts of its item or says that the collection
is truncated (`Learned`), and a chain of such steps learns what each of them does
(`Gathers`), whatever their number. `IdentityOK` is the invariant: what was gathered is
from the directory and within the limits (`Gathering`), and a collection that is not
truncated knows every fact that is not waiting in a page or a read to come (`SearchOK`,
`PlaceOK`). For Entra it has two parts, since the reads of members and owners are made
from what the base collections gave (`FollowingStarts`). When a collection is stored
nothing waits, so one that does not say truncated knows all (`IdentityShows`). The page
loops, and the passes of the derivation, are recursive functions of the number of items
read (`After`).

### Only model-checked

- Liveness (`SupervisedCallsEnd`, `BatchEnds`, `WorkersStop`): the prover has no
  rules for fairness or `ENABLED` here.
- `CommandsLeaveATrail` is about some thirty concrete command sequences and has no
  constant to generalise over: its run is exhaustive, and a proof would repeat
  the enumeration.

## Disagreements found

With a run:

- `worker_reuse`. `run_revocable_validation_worker` decides on the copy of the
  policy that the caller's `LocalWorkspace` read when it was made. If that object
  is used again after another process revoked the engagement, the run is granted,
  charging it replaces `authorization.json` by the stale copy, and the later
  rechecks, which do reread the file, find no revocation.
  `V043_CONTROLLED_VALIDATION_INTELLIGENCE.md` describes revoked authorisations as
  failing closed. With an object opened after the revocation (`worker`) they do.
- `packs_replay`. `FileCheckFeedStateStore.accept` compares, reads again and
  replaces without a lock, so of two overlapping commands the one with the older
  manifest can be the last to write. The class is documented as an atomic replay
  guard. One command at a time it is one (`SerialPacksAreRight`).
- `inventory_overlap`. All inventory updates write `assets.json.tmp`; one that
  opens it while another is about to rename it leaves a torn `assets.json`,
  although the store is documented to persist atomically.
- `pentest_scan`. `red_cli.py` is a copy of `nightrecon/cli.py` in which the
  handling of timing profiles stands in the `discover` branch instead of the
  `scan` branch: an authorised `red-night scan`, and the `pentest` that calls it,
  ends in an `UnboundLocalError`, and `red-night discover` reads an option its
  parser does not have. The tests replace `_command_main`. What follows the scan
  is checked as if the assignment were there (`ScanSetsTiming`).
- `service_reset`. A peer that resets the connection while its banner is read
  ends the detection of all services with the exception.

Without a run of their own:

- A connection attempt that times out under `settimeout` makes `connect_ex` return
  `EAGAIN`, which `tcp_scanner.py:23` does not list: a silent port is reported as
  an error and not retried, against the help text of the retry option. The model
  has it so (`EveryProbeIsReported` asks nothing of the state "error" but that
  there was no answer).
- `inspect_candidate` takes a rename as a deletion and an addition
  (`auto/controller.py:326`), and `validate_result` refuses two changes whose paths
  differ only by case (line 559): the record of a run that renames a file by case
  only does not validate, although the controller itself accepted the candidate.
  `ResultsValidate` states the exact extent of it, and is proved: a record validates
  unless its candidate is such a rename (`RenamesCase`).
- A malformed answer makes `urllib` raise an `http.client.HTTPException`
  (`BadStatusLine` from the status line, `IncompleteRead` from a chunked body), which
  is none of the exceptions caught for an API probe (`api_execution.py:228-244`), an
  OPTIONS probe (`web_active_assessment.py:189`) or a CORS request
  (`dast_http.py:384-421`; `dast_cors.py:168-220` catches `PermissionError` only), nor
  by the commands around them (`red_cli.py:3220-3257`). One such answer ends the
  command with requests sent and no report of any of them. `ProbesAreCarriedOut` and
  `WebAssessmentIsBounded` state the exact extent of it and are proved: the API
  request that raised is the only one without a record, and of the CORS targets only
  the one under way may have had its baseline alone.
- A pentest asks its engagement once; follow-ups run on after a revocation,
  whereas `packages/red-night/README.md:36` speaks of all active operations.
- The ledger's revocation does not reach a running process, descendants of a
  process that exited by itself are not killed, `update_status` and
  `persist_validation_evidence_lifecycle` report success when repeated after a
  failed write, exchanges the proxy forwards after its report are in no report,
  and overlapping White Night commands lose events.

## What is not modelled

Network input and output, tool output and document parsing, import formats,
cryptography (signatures are checked before the modelled code runs), string
matching of scopes, and rendering. The graph, correlation and reporting modules
are pure transformations of one document into another, large in number and
without state; what could be stated about most of them repeats their code. The
`revision` column of the authority is written and never read. On Windows there
are no process groups; the POSIX branch is modelled. One engagement is modelled
in `Workspace` and `ValidationWorker`, since each operation names one and the
files are replaced as a whole either way. The fixed command runner and the offline
worker are not used by the command lines. The compatibility package re-exports the
red engine except for `nightrecon/cli.py`, which is modelled.

## Plan

Done: the modules and the theorems above. Next:

1. Abstract specifications: one append-only record, implemented by `AuditTrail`
   and `EvidenceCustody`; one at-most-once effect, implemented by `ObjectiveQueue`.
2. Composition: `ValidationWorker` with `RemediationLifecycle`, so that a retest
   rests on a governed run.
3. The finding review store, the update recovery's slot switch, TCP stream
   reassembly and the attack graph's path search as pure functions.
