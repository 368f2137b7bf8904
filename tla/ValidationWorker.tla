--------------------------- MODULE ValidationWorker ---------------------------
(***************************************************************************)
(* run_revocable_validation_worker (validation_worker.py): one charged     *)
(* action, one spawned process, and a parent that re-reads the workspace   *)
(* from disk while the process runs.                                       *)
(*                                                                         *)
(* The parent charges through the LocalWorkspace object it was given       *)
(* (module Workspace) and rechecks through fresh ones.  Operators change   *)
(* the same files through sessions of their own.  They are assumed to      *)
(* write only from an up-to-date copy, the serialized writers the          *)
(* documentation of the package asks for.                                  *)
(***************************************************************************)
EXTENDS Workspace, FiniteSets

CONSTANTS
    Runners,        \* the sessions that run workers; the others are operators
    NoLease         \* lease[s] outside a run

\* What a run holds on to: its request and the numbers of its decision.
Leases == [req: RequestRecords, used: Nat, max: Nat]

ASSUME RunnersAssumption == Runners \subseteq Sessions /\ NoLease \notin Leases

VARIABLES
    step,           \* step[s]: where the run stands
    lease,          \* lease[s]: the request and the numbers of its decision
    child,          \* child[s]: the spawned process
    pipe,           \* pipe[s]: what the parent can receive from it
    late,           \* late[s]: max_runtime_seconds have passed
    outcome,        \* outcome[s]: state of the last result returned
    launched        \* number of processes started

runVars == <<step, lease, child, pipe, late, outcome, launched>>
wvars == <<vars, runVars>>

Outcomes == {"none", "denied", "error", "revoked", "timed_out", "contract_rejected",
             "confirmed", "not_confirmed"}
RunSteps == {"idle", "audit", "lease", "spawn", "poll", "deadline", "recheck", "alive",
             "collect"}
Watching == {"poll", "deadline", "recheck", "alive", "collect"}

WorkerInit ==
    /\ Init
    /\ step = [s \in Runners |-> "idle"]
    /\ lease = [s \in Runners |-> NoLease]
    /\ child = [s \in Runners |-> "none"]
    /\ pipe = [s \in Runners |-> "empty"]
    /\ late = [s \in Runners |-> FALSE]
    /\ outcome = [s \in Runners |-> "none"]
    /\ launched = 0

GoTo(s, where) == step' = [step EXCEPT ![s] = where]

\* The run returns a result of this state, or raises ("none").
Finish(s, state) ==
    /\ GoTo(s, "idle")
    /\ lease' = [lease EXCEPT ![s] = NoLease]
    /\ outcome' = [outcome EXCEPT ![s] = state]
    /\ late' = [late EXCEPT ![s] = FALSE]

\* The same after _terminate: by the finally block the process is gone.
FinishTerminated(s, state) ==
    /\ Finish(s, state)
    /\ child' = [child EXCEPT ![s] = "exited"]
    /\ UNCHANGED <<pipe, launched>>

-----------------------------------------------------------------------------
\* authorize_action(consume=True) on the runner's own copy; a failing write of
\* the policy file raises.
RunAuthorize(s, r, now) ==
    /\ step[s] = "idle"
    /\ Authorize(s, r, now, TRUE)
    /\ IF pending'[s] = None
       THEN Finish(s, "none")
       ELSE /\ GoTo(s, "audit")
            /\ lease' = [lease EXCEPT ![s] = [req |-> r, used |-> mem'[s].policy.actions_used,
                                              max |-> mem'[s].policy.max_actions]]
            /\ UNCHANGED <<late, outcome>>
    /\ UNCHANGED <<child, pipe, launched>>

\* The decision is audited and returned: a denial ends the run.
RunAudit(s) ==
    /\ step[s] = "audit"
    /\ AuditDecision(s)
    /\ \/ pending[s] = "charged" /\ granted' = granted /\ Finish(s, "none")
       \/ pending[s] = "charged" /\ granted' > granted
          /\ GoTo(s, "lease") /\ UNCHANGED <<lease, late, outcome>>
       \/ pending[s] = "noted" /\ \E state \in {"denied", "none"} : Finish(s, state)
    /\ UNCHANGED <<child, pipe, launched>>

\* _reserved_authorization on fresh copies of the files: the numbers that must
\* not have moved, and the decision.
LeaseReadable(s) ==
    /\ Exists(storeFile)
    /\ policyFile # None
    /\ policyFile.max_actions = lease[s].max
    /\ policyFile.actions_used >= lease[s].used

LeaseDecision(s, now) ==
    evaluate_reserved_action(policyFile, storeFile.status, lease[s].req, now)

\* What a recheck may find; reading the files may always fail.
LeaseOutcomes(s, now) ==
    IF ~LeaseReadable(s) THEN {"error"}
    ELSE IF Allows(LeaseDecision(s, now)) THEN {"ok", "error"}
    ELSE {"revoked", "error"}

\* The recheck before the process is spawned.
RunLease(s, now) ==
    /\ step[s] = "lease"
    /\ \E found \in LeaseOutcomes(s, now) :
          IF found = "ok"
          THEN GoTo(s, "spawn") /\ UNCHANGED <<lease, late, outcome>>
          ELSE Finish(s, found)
    /\ UNCHANGED <<vars, child, pipe, launched>>

Spawn(s) ==
    /\ step[s] = "spawn"
    /\ \/ /\ GoTo(s, "poll")
          /\ child' = [child EXCEPT ![s] = "running"]
          /\ pipe' = [pipe EXCEPT ![s] = "empty"]
          /\ launched' = launched + 1
          /\ UNCHANGED <<lease, late, outcome>>
       \/ Finish(s, "error") /\ UNCHANGED <<child, pipe, launched>>
    /\ UNCHANGED vars

\* The poll loop: a message ends it before anything else is looked at ...
Poll(s) ==
    /\ step[s] = "poll"
    /\ GoTo(s, IF pipe[s] # "empty" THEN "collect" ELSE "deadline")
    /\ UNCHANGED <<vars, lease, child, pipe, late, outcome, launched>>

\* Mutant: no runtime limit.
DeadlineIgnored(s) ==
    /\ step[s] = "deadline"
    /\ GoTo(s, "recheck")
    /\ UNCHANGED <<vars, lease, child, pipe, late, outcome, launched>>

\* ... then the runtime limit ...
Deadline(s) ==
    /\ step[s] = "deadline"
    /\ IF late[s]
       THEN FinishTerminated(s, "timed_out")
       ELSE GoTo(s, "recheck") /\ UNCHANGED <<lease, child, pipe, late, outcome, launched>>
    /\ UNCHANGED vars

\* ... then the lease ...
Recheck(s, now) ==
    /\ step[s] = "recheck"
    /\ \E found \in LeaseOutcomes(s, now) :
          IF found = "ok"
          THEN GoTo(s, "alive") /\ UNCHANGED <<lease, child, pipe, late, outcome, launched>>
          ELSE FinishTerminated(s, found)
    /\ UNCHANGED vars

\* ... and last whether the process is still there.  One that went away since the
\* head of the loop without a word has closed the pipe: reading from it raises
\* here, where nothing catches it, and only the finally block is left.
Alive(s) ==
    /\ step[s] = "alive"
    /\ IF child[s] # "running" /\ pipe[s] = "closed"
       THEN FinishTerminated(s, "none")
       ELSE /\ GoTo(s, IF child[s] = "running" THEN "poll" ELSE "collect")
            /\ UNCHANGED <<lease, child, pipe, late, outcome, launched>>
    /\ UNCHANGED vars

\* The message is judged once the process has been joined or stopped.  Only an
\* observation can be too large, break its contract, or count.
Collect(s) ==
    /\ step[s] = "collect"
    /\ \E state \in IF pipe[s] = "observation"
                    THEN {"error", "contract_rejected", "confirmed", "not_confirmed"}
                    ELSE {"error"} : FinishTerminated(s, state)
    /\ UNCHANGED vars

-----------------------------------------------------------------------------
\* The spawned process answers, or exits and so closes its end of the pipe.
ChildSends(s, message) ==
    /\ child[s] = "running"
    /\ pipe[s] = "empty"
    /\ pipe' = [pipe EXCEPT ![s] = message]
    /\ UNCHANGED <<vars, step, lease, child, late, outcome, launched>>

ChildExits(s) ==
    /\ child[s] = "running"
    /\ child' = [child EXCEPT ![s] = "exited"]
    /\ pipe' = [pipe EXCEPT ![s] = IF @ = "empty" THEN "closed" ELSE @]
    /\ UNCHANGED <<vars, step, lease, late, outcome, launched>>

RuntimePasses(s) ==
    /\ step[s] \in Watching
    /\ ~late[s]
    /\ late' = [late EXCEPT ![s] = TRUE]
    /\ UNCHANGED <<vars, step, lease, child, pipe, outcome, launched>>

\* A runner's session is opened and closed between runs.
RunnerSession(s) ==
    /\ step[s] = "idle"
    /\ OpenWorkspace(s) \/ CloseWorkspace(s)
    /\ UNCHANGED runVars

\* The parent dies during a run.  A process it had started goes on unwatched
\* until its own I/O time-outs end it.
RunnerDies(s) ==
    /\ step[s] # "idle"
    /\ CloseWorkspace(s)
    /\ Finish(s, "none")
    /\ child' = [child EXCEPT ![s] = IF @ = "running" THEN "orphan" ELSE @]
    /\ UNCHANGED <<pipe, launched>>

\* Operators write from an up-to-date copy.
UpToDate(s) == mem[s] = [store |-> storeFile, policy |-> policyFile]

OperatorStep(s) ==
    /\ \/ OpenWorkspace(s)
       \/ CloseWorkspace(s)
       \/ UpToDate(s) /\ Operation(s)
       \/ AuditDecision(s)
    /\ UNCHANGED runVars

RunStep(s) ==
    \/ RunAudit(s)
    \/ \E now \in Times : RunLease(s, now) \/ Recheck(s, now)
    \/ Spawn(s) \/ Poll(s) \/ Deadline(s) \/ Alive(s) \/ Collect(s)

StartRun(s) == \E r \in Requests, now \in Times : RunAuthorize(s, r, now)

WorkerNextNoCrash ==
    \/ \E s \in Sessions \ Runners : OperatorStep(s)
    \/ \E s \in Runners :
          \/ RunnerSession(s)
          \/ UpToDate(s) /\ StartRun(s)
          \/ RunStep(s)
          \/ \E message \in {"observation", "error"} : ChildSends(s, message)
          \/ ChildExits(s)
          \/ RuntimePasses(s)

\* What the code lets a caller do: run again with the workspace object it has,
\* although an operator changed the files in the meantime.
ReuseNext == WorkerNextNoCrash \/ \E s \in Runners : StartRun(s)

WorkerNext == WorkerNextNoCrash \/ \E s \in Runners : RunnerDies(s)

\* The parent's thread keeps running: each of its steps is bounded by the poll
\* interval or a join time-out.
RunnerFairness == \A s \in Runners : WF_wvars(RunStep(s))
RuntimeFairness == \A s \in Runners : WF_wvars(RuntimePasses(s))

WorkerSpec == WorkerInit /\ [][WorkerNext]_wvars /\ RunnerFairness
ReuseSpec == WorkerInit /\ [][ReuseNext]_wvars

-----------------------------------------------------------------------------
\* Types; a run that is past its charge has a lease.
WorkerTypeOK ==
    /\ TypeOK
    /\ step \in [Runners -> RunSteps]
    /\ child \in [Runners -> {"none", "running", "exited", "orphan"}]
    /\ pipe \in [Runners -> {"empty", "observation", "error", "closed"}]
    /\ late \in [Runners -> BOOLEAN]
    /\ outcome \in [Runners -> Outcomes]
    /\ \A s \in Runners : (step[s] = "idle") = (lease[s] = NoLease)
    /\ launched \in Nat

\* Every process that was ever started stands for a decision that was charged,
\* audited and returned (and the run's own variables are well formed).
LaunchesAreCharged ==
    /\ WorkerTypeOK
    /\ launched <= granted
    /\ granted <= audited
    /\ audited > 0 => policyFile # None /\ audited <= policyFile.actions_used

\* Under serialized writers a lease never regresses: what the parent reserved
\* stays in the file for as long as its run lasts, so the recheck only ever
\* refuses because the authorisation changed.
LeaseNeverRegresses ==
    \A s \in Runners : step[s] \in {"lease", "spawn"} \cup Watching => LeaseReadable(s)

\* Every way out of the run leaves no process behind, unless the parent dies.
NoProcessLeftBehind ==
    \A s \in Runners : child[s] = "running" => step[s] \in Watching

\* Once an operator has been told that the engagement is revoked, no run is
\* granted an action any more.
RevokedEngagementIsDenied ==
    [][revokeReported =>
         \A s \in Runners : step[s] = "idle" /\ step'[s] = "audit" => pending'[s] = "noted"]_wvars

\* A revocation in the file stops the process, by the rechecks alone (the
\* process of a parent that died is not the run's any more).
RevokedWorkerStops ==
    \A s \in Runners :
        (child[s] = "running" /\ policyFile # None /\ policyFile.revoked)
            ~> child[s] # "running"

\* Every run ends, whatever the process does, thanks to the runtime limit.
RunsEnd == RuntimeFairness => \A s \in Runners : step[s] # "idle" ~> step[s] = "idle"

\* A launched worker has its unit, a lease that cannot regress, and a runner that
\* reaps it.
LaunchesAreGoverned == LaunchesAreCharged /\ LeaseNeverRegresses /\ NoProcessLeftBehind

\* No worker outlives its authorization or its deadline.
WorkersStop == RevokedWorkerStops /\ RunsEnd

=============================================================================
