------------------------- MODULE RemediationLifecycle -------------------------
(***************************************************************************)
(* Validation results kept as evidence (validation_evidence_lifecycle.py)  *)
(* and the remediation findings they decide (remediation_retest.py).       *)
(*                                                                         *)
(* One process works on two files: the engagement store, which receives a  *)
(* result record and its cleanup record together, and the remediation      *)
(* store.  Both stores change their copy first and then replace the file;  *)
(* when that fails the copy stays ahead, and a repeated call that finds    *)
(* nothing to change writes nothing.  A restart reads both files again.    *)
(*                                                                         *)
(* A validation is its binding, its state and when it was observed; the    *)
(* cleanup record is determined by it.  Results offered include the ones   *)
(* the code refuses.                                                       *)
(***************************************************************************)
EXTENDS Naturals

CONSTANTS
    FindingIds,
    FindingEngagement,  \* FindingEngagement[f]: the engagement f is created in
    WorkerResults,      \* results of the validation worker that may be offered
    Reviewed,           \* bindings that still match the reviewed registries
    ReviewedEvidence,   \* bindings whose result carries the keys of the contract
    NoFinding           \* an unknown finding, or no retest yet

VARIABLES
    evidenceCopy,       \* results in this process's copy of the engagement store
    evidenceFile,       \* results in engagements.json
    findingCopy,        \* this process's copy of the remediation store
    findingFile,        \* the remediation store's file
    held,               \* lifecycles returned to the caller and still held
    evidenceWriteFailed \* history: some write of the engagement store failed

remediationVars == <<evidenceCopy, evidenceFile, findingCopy, findingFile, held,
                     evidenceWriteFailed>>

SuccessStates == {"confirmed", "not-confirmed"}
NonSuccessStates == {"denied", "revoked", "timed-out", "contract-rejected", "error"}

ASSUME RemediationAssumption ==
    \A r \in WorkerResults :
        /\ r.state \in SuccessStates \cup NonSuccessStates
        /\ r.binding # "controlled"     \* what record_retest names as the validation

RemediationInit ==
    /\ evidenceCopy = {}
    /\ evidenceFile = {}
    /\ findingCopy = [f \in FindingIds |-> NoFinding]
    /\ findingFile = [f \in FindingIds |-> NoFinding]
    /\ held = {}
    /\ evidenceWriteFailed = FALSE

-----------------------------------------------------------------------------
\* _assert_result_matches_binding: a reviewed binding, and evidence exactly when
\* the validation came to a conclusion.
ResultMatches(r) ==
    /\ r.binding \in Reviewed
    /\ r.state \in SuccessStates => r.evidence /\ r.binding \in ReviewedEvidence
    /\ r.state \in NonSuccessStates => ~r.evidence

\* persist_validation_evidence_lifecycle: both records in one merge, one write.
\* A write that fails raises, so the caller is given nothing.
PersistLifecycle(r) ==
    /\ ResultMatches(r)
    /\ r \notin evidenceCopy
    /\ evidenceCopy' = evidenceCopy \cup {r}
    /\ \/ /\ evidenceFile' = evidenceCopy'
          /\ held' = held \cup {r}
          /\ UNCHANGED evidenceWriteFailed
       \/ /\ evidenceWriteFailed' = TRUE
          /\ UNCHANGED <<evidenceFile, held>>
    /\ UNCHANGED <<findingCopy, findingFile>>

\* The same call again: the merge finds identical records and writes nothing.
PersistAgain(r) ==
    /\ ResultMatches(r)
    /\ r \in evidenceCopy
    /\ held' = held \cup {r}
    /\ UNCHANGED <<evidenceCopy, evidenceFile, findingCopy, findingFile, evidenceWriteFailed>>

-----------------------------------------------------------------------------
\* The remediation store: the copy changes, then the file unless writing fails.
StoreFinding(f, record) ==
    /\ findingCopy' = [findingCopy EXCEPT ![f] = record]
    /\ findingFile' \in {findingCopy', findingFile}
    /\ UNCHANGED <<evidenceCopy, evidenceFile, held, evidenceWriteFailed>>

RemediationTransitions(status) ==
    CASE status \in {"open", "in-progress", "ready-for-retest", "regressed"} ->
            ({"accepted"} \cup
             (IF status = "in-progress" THEN {"ready-for-retest"} ELSE {"in-progress"}))
      [] OTHER -> {}

CreateFinding(f) ==
    /\ findingCopy[f] = NoFinding
    /\ StoreFinding(f, [status |-> "open", validation |-> NoFinding,
                        state |-> NoFinding, evidence |-> NoFinding])

TransitionFinding(f, status) ==
    /\ findingCopy[f] # NoFinding
    /\ status \in RemediationTransitions(findingCopy[f].status)
    /\ StoreFinding(f, [findingCopy[f] EXCEPT !.status = status])

\* _resolve_retest_state: an inconclusive retest leaves the status.
RetestStatus(state) ==
    CASE state = "not-confirmed" -> "verified"
      [] state = "confirmed"     -> "regressed"
      [] OTHER                   -> "ready-for-retest"

\* record_retest: the result of run_controlled_validation, which is not evidence.
RecordRetest(f, state) ==
    /\ findingCopy[f] # NoFinding
    /\ findingCopy[f].status = "ready-for-retest"
    /\ StoreFinding(f, [findingCopy[f] EXCEPT !.status = RetestStatus(state),
                                              !.validation = "controlled", !.state = state])

\* record_evidence_retest: the finding is ready and of the same engagement.
EvidenceRetest(f, r) ==
    /\ findingCopy[f] # NoFinding
    /\ findingCopy[f].status = "ready-for-retest"
    /\ r.engagement = FindingEngagement[f]
    /\ StoreFinding(f, [status |-> RetestStatus(r.state), validation |-> r.binding,
                        state |-> r.state, evidence |-> r])

\* Both records of the lifecycle are in the workspace exactly as held, and still
\* pass validate_validation_lifecycle_records, which builds them again from the
\* reviewed registries.
PersistedExactly(r) == r \in evidenceCopy
StillValid(r) == ResultMatches(r)

\* Mutant: the lifecycle's records are not looked up in the workspace.
RecordEvidenceRetestUnchecked(f, r) == StillValid(r) /\ EvidenceRetest(f, r)

\* record_persisted_validation_retest, with a lifecycle this process was given.
RecordEvidenceRetest(f, r) ==
    /\ r \in held
    /\ PersistedExactly(r)
    /\ StillValid(r)
    /\ EvidenceRetest(f, r)

\* The process ends, or dies, and the next one reads both files.
RestartProcess ==
    /\ evidenceCopy' = evidenceFile
    /\ findingCopy' = findingFile
    /\ held' = {}
    /\ UNCHANGED <<evidenceFile, findingFile, evidenceWriteFailed>>

RemediationNext ==
    \/ \E r \in WorkerResults : PersistLifecycle(r) \/ PersistAgain(r)
    \/ \E f \in FindingIds :
        \/ CreateFinding(f)
        \/ \E status \in {"in-progress", "ready-for-retest", "accepted"} :
                TransitionFinding(f, status)
        \/ \E state \in {"confirmed", "not-confirmed", "denied", "error"} : RecordRetest(f, state)
        \/ \E r \in WorkerResults : RecordEvidenceRetest(f, r)
    \/ RestartProcess

RemediationSpec == RemediationInit /\ [][RemediationNext]_remediationVars

-----------------------------------------------------------------------------
\* "Drive remediation state only from exact persisted lifecycle evidence": the
\* evidence a stored finding names is in the engagement file, belongs to the
\* finding's engagement and, when it was the last retest, says what the finding's
\* status says, through failed writes of the remediation store and restarts.  It
\* is lost only after a failed write of the engagement store, whose copy keeps the
\* record it could not write.
RetestsAreBacked ==
    \A f \in FindingIds :
        findingFile[f] # NoFinding /\ findingFile[f].evidence # NoFinding =>
            LET finding == findingFile[f]
                r == finding.evidence
            IN  /\ evidenceWriteFailed \/ r \in evidenceFile
                /\ r.engagement = FindingEngagement[f]
                /\ finding.validation = r.binding => finding.state = r.state
                /\ finding.status \in {"verified", "regressed"} =>
                        finding.status = RetestStatus(finding.state)

=============================================================================
