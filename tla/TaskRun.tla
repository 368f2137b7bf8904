------------------------------ MODULE TaskRun ------------------------------
(***************************************************************************)
(* The offline task controller of tools/task_automation/controller.py: one *)
(* admitted Run, moved by transition(), whose candidates come from         *)
(* inspect_candidate() and whose serialized record validate_result() is    *)
(* asked to accept.                                                        *)
(*                                                                         *)
(* A snapshot maps paths to entries of a mode and a content.  Digests are  *)
(* injective: a candidate's digest is the candidate.  Identities, branch   *)
(* names and policy digests bind one run and are left out, and so are the  *)
(* byte limit and the wording of violations.                               *)
(***************************************************************************)
EXTENDS Naturals, FiniteSets

CONSTANTS
    Paths,
    Folded,             \* Folded[p]: the path without its case
    BaseFiles,          \* the paths of the base snapshot
    PolicyPaths, TaskPaths, ProtectedPaths,
    Operations,         \* permitted_operations of the task
    MaxChangedFiles,    \* max_changed_files of the policy
    MaxRepairAttempts,  \* max_repair_attempts of the policy
    RequiredChecks,     \* required_checks of the policy
    CountedChecks,      \* the checks that must report test counts
    NoCandidate

ASSUME TaskAssumption ==
    /\ BaseFiles \cup PolicyPaths \cup TaskPaths \cup ProtectedPaths \subseteq Paths
    /\ Paths \subseteq DOMAIN Folded
    /\ CountedChecks \subseteq RequiredChecks
    /\ MaxChangedFiles \in Nat /\ MaxRepairAttempts \in Nat

VARIABLE taskRun

Modes == {"100644", "100755"}
Base == [p \in BaseFiles |-> [mode |-> "100644", content |-> 0]]

\* The inventories _snapshot accepts: no two paths differ only by case.
Snapshots ==
    {s \in UNION {[files -> [mode : Modes, content : {0, 1}]] : files \in SUBSET Paths} :
        \A p, q \in DOMAIN s : Folded[p] = Folded[q] => p = q}

Operation(s, p) ==
    CASE p \notin DOMAIN Base -> "add"
      [] p \notin DOMAIN s    -> "delete"
      [] OTHER                -> "modify"

ModesOf(s, p) == {f[p].mode : f \in {g \in {Base, s} : p \in DOMAIN g}}

\* The changes of a snapshot: what inspect_candidate compares.
Changes(s) ==
    {p \in DOMAIN Base \cup DOMAIN s :
        ~(p \in DOMAIN Base \cap DOMAIN s /\ Base[p] = s[p])}

InBounds(s, p) ==
    /\ Operation(s, p) \in Operations
    /\ p \in PolicyPaths
    /\ p \in TaskPaths
    /\ p \notin ProtectedPaths
    /\ ModesOf(s, p) = {"100644"}

\* inspect_candidate: the frozen candidate.
Inspected(s) ==
    [changes |-> Changes(s),
     modes |-> [p \in Changes(s) |-> ModesOf(s, p)],
     valid |-> /\ Changes(s) # {}
               /\ Cardinality(Changes(s)) <= MaxChangedFiles
               /\ \A p \in Changes(s) : InBounds(s, p)]

ASSUME CandidateAssumption == \A s \in Snapshots : Inspected(s) # NoCandidate

\* A check observation of the frozen candidate, as Check.validate accepts it.
Observation ==
    {o \in [status : {"passed", "failed", "blocked", "not_run"}, counts : BOOLEAN] :
        o.counts => o.status \in {"passed", "failed"}}

NoChecks == [name \in {} |-> ""]

Pending ==
    [state |-> "pending", repairs |-> 0, candidate |-> NoCandidate,
     checks |-> NoChecks, reason |-> FALSE]

TaskInit == taskRun = Pending

\* admit, for an identity, a base and a branch it accepts.
Admit ==
    /\ taskRun.state = "pending"
    /\ taskRun' = [taskRun EXCEPT !.state = "admitted"]

TaskEdges(state) ==
    CASE state = "pending"    -> {"admitted", "blocked", "failed"}
      [] state = "admitted"   -> {"running", "blocked", "failed"}
      [] state = "running"    -> {"validating", "blocked", "failed"}
      [] state = "validating" -> {"repairing", "completed", "blocked", "failed"}
      [] state = "repairing"  -> {"validating", "blocked", "failed"}
      [] OTHER                -> {}

Stop(state) ==
    /\ state \in TaskEdges(taskRun.state) \cap {"blocked", "failed"}
    /\ taskRun' = [taskRun EXCEPT !.state = state, !.reason = TRUE]

Run ==
    /\ "running" \in TaskEdges(taskRun.state)
    /\ taskRun' = [taskRun EXCEPT !.state = "running"]

FreezeForValidation(s) ==
    /\ "validating" \in TaskEdges(taskRun.state)
    /\ taskRun' = [taskRun EXCEPT !.state = "validating", !.candidate = Inspected(s),
                                  !.checks = NoChecks]

\* The checks a transition out of validation is given.
Reported == UNION {[names -> Observation] : names \in SUBSET RequiredChecks}

RepairUnbounded(checks) ==
    /\ "repairing" \in TaskEdges(taskRun.state)
    /\ ~taskRun.candidate.valid \/ \E n \in DOMAIN checks : checks[n].status = "failed"
    /\ taskRun' = [taskRun EXCEPT !.state = "repairing", !.checks = checks,
                                  !.repairs = @ + 1]

Repair(checks) ==
    /\ taskRun.repairs < MaxRepairAttempts
    /\ RepairUnbounded(checks)

CompleteRun(checks) ==
    /\ "completed" \in TaskEdges(taskRun.state)
    /\ taskRun.candidate.valid
    /\ RequiredChecks \subseteq DOMAIN checks
    /\ \A n \in DOMAIN checks :
        /\ checks[n].status = "passed"
        /\ n \in CountedChecks => checks[n].counts
    /\ taskRun' = [taskRun EXCEPT !.state = "completed", !.checks = checks]

TaskNext ==
    \/ Admit
    \/ Run
    \/ \E state \in {"blocked", "failed"} : Stop(state)
    \/ \E s \in Snapshots : FreezeForValidation(s)
    \/ \E checks \in Reported : Repair(checks) \/ CompleteRun(checks)

TaskSpec == TaskInit /\ [][TaskNext]_taskRun

-----------------------------------------------------------------------------
\* validate_result, on the record Run.to_dict writes.
ValidResult(r) ==
    LET frozen == r.candidate # NoCandidate
        changed == IF frozen THEN r.candidate.changes ELSE {}
        violations == frozen /\ ~r.candidate.valid
    IN  /\ r.repairs <= MaxRepairAttempts
        /\ \A p, q \in changed : Folded[p] = Folded[q] => p = q
        /\ ~frozen => r.checks = NoChecks
        /\ r.reason = (r.state \in {"blocked", "failed"})
        /\ r.state \in {"pending", "admitted", "running"} => ~frozen
        /\ r.state \in {"validating", "repairing", "completed"} => frozen
        /\ r.state = "validating" => r.checks = NoChecks
        /\ r.state = "repairing" =>
            /\ r.repairs > 0
            /\ violations \/ \E n \in DOMAIN r.checks : r.checks[n].status = "failed"
        /\ r.state = "completed" =>
            /\ changed # {} /\ ~violations
            /\ Cardinality(changed) <= MaxChangedFiles
            /\ RequiredChecks \subseteq DOMAIN r.checks
            /\ \A n \in DOMAIN r.checks :
                /\ r.checks[n].status = "passed"
                /\ n \in CountedChecks => r.checks[n].counts
            /\ \A p \in changed :
                /\ r.candidate.modes[p] = {"100644"}
                /\ p \in PolicyPaths \ ProtectedPaths

\* The candidate renames a file to a name that differs in case only: for the
\* transitions a deletion and an addition like any other.
RenamesCase(r) ==
    /\ r.candidate # NoCandidate
    /\ \E p, q \in r.candidate.changes : p # q /\ Folded[p] = Folded[q]

(* Every record a run can write is one validate_result accepts ("Validate  *)
(* a serialized Batch 1 record"), unless its candidate renames a file by   *)
(* case, and then it is not, be the run completed or not: but for that the *)
(* two state the same rules twice, over the transitions and over their     *)
(* outcome (transition, inspect_candidate, validate_result).               *)
ResultsValidate == ValidResult(taskRun) <=> ~RenamesCase(taskRun)
=============================================================================
