------------------------------ MODULE Workspace ------------------------------
(***************************************************************************)
(* LocalWorkspace (workspace.py) over its two JSON files: the engagement   *)
(* store (file_store.py, store.py) and the policy store                    *)
(* (FileEngagementPolicyStore in engagement_policy.py).                    *)
(*                                                                         *)
(* A session is one LocalWorkspace object.  It reads both files when it is *)
(* made and never again; every operation decides on its own copy and then  *)
(* replaces a whole file by that copy, so one session sees another only    *)
(* through the replacements, and each operation is one step here.  The     *)
(* exception is authorize_action, which charges in one file and then       *)
(* appends to the audit log.  Replacing a file may fail: the policy store  *)
(* takes its change back, the engagement store keeps it.                   *)
(*                                                                         *)
(* One engagement is modelled.  Its metadata is its status, the field two  *)
(* copies can disagree on.                                                 *)
(***************************************************************************)
EXTENDS EngagementPolicy

CONSTANTS
    Sessions,       \* LocalWorkspace objects, of any process
    Evidence,       \* evidence identifiers
    Contents,       \* what a record may say
    Envelopes,      \* bundles that may be merged
    NewStatuses,    \* the statuses an engagement may be created with
    Policies,       \* the policies an operator may set
    Requests,       \* the actions that may be asked for
    Times,          \* readings of the wall clock
    Closed,         \* mem[s] when there is no such session
    None            \* absent metadata, record or policy

VARIABLES
    mem,            \* mem[s]: the session's copy of both stores
    storeFile,      \* engagements.json
    policyFile,     \* authorization.json
    pending,        \* pending[s]: a decision not yet in the audit log
    audited,        \* number of charged decisions in the audit log
    granted,        \* number of charged decisions returned to a caller
    revokeReported  \* some call of revoke_execution returned

files == <<storeFile, policyFile>>
counters == <<audited, granted, revokeReported>>
vars == <<mem, storeFile, policyFile, pending, audited, granted, revokeReported>>

Stores == [status: Statuses \cup {None}, records: [Evidence -> Contents \cup {None}]]
Copies == [store: Stores, policy: PolicyRecords \cup {None}]
EmptyStore == [status |-> None, records |-> [i \in Evidence |-> None]]

ASSUME WorkspaceAssumption ==
    /\ \A p \in Policies : ValidPolicy(p) /\ p.actions_used = 0
    /\ Envelopes \subseteq Stores
    /\ NewStatuses \subseteq Statuses
    /\ Requests \subseteq RequestRecords
    /\ None \notin Statuses \cup Contents \cup PolicyRecords \cup {"charged", "noted"}
    /\ Closed \notin Copies

Exists(store) == store.status # None \/ \E i \in Evidence : store.records[i] # None

Open(s) == mem[s] # Closed /\ pending[s] = None
Store(s) == mem[s].store
Policy(s) == mem[s].policy

Init ==
    /\ mem = [s \in Sessions |-> Closed]
    /\ storeFile = EmptyStore
    /\ policyFile = None
    /\ pending = [s \in Sessions |-> None]
    /\ audited = 0
    /\ granted = 0
    /\ revokeReported = FALSE

-----------------------------------------------------------------------------
\* Making a workspace object, and its end: the command returns or dies.
OpenWorkspace(s) ==
    /\ mem[s] = Closed
    /\ mem' = [mem EXCEPT ![s] = [store |-> storeFile, policy |-> policyFile]]
    /\ UNCHANGED <<files, pending, counters>>

CloseWorkspace(s) ==
    /\ mem[s] # Closed
    /\ mem' = [mem EXCEPT ![s] = Closed]
    /\ pending' = [pending EXCEPT ![s] = None]
    /\ UNCHANGED <<files, counters>>

-----------------------------------------------------------------------------
\* The engagement store.  The copy changes first; when replacing the file fails
\* it stays changed, and a repeated call finds nothing left to persist.
PersistStore(s, store) ==
    /\ mem' = [mem EXCEPT ![s].store = store]
    /\ storeFile' \in {store, storeFile}
    /\ UNCHANGED policyFile

\* create_engagement
CreateEngagement(s, status) ==
    /\ Open(s)
    /\ ~Exists(Store(s))
    /\ PersistStore(s, [Store(s) EXCEPT !.status = status])
    /\ UNCHANGED <<pending, counters>>

StatusTransitions ==
    [planned |-> {"active", "archived"}, active |-> {"paused", "completed"},
     paused |-> {"active", "completed"}, completed |-> {"archived"}, archived |-> {}]

\* Mutant: any status is accepted.
UpdateStatusUnchecked(s, status) ==
    /\ Open(s)
    /\ Store(s).status # None
    /\ PersistStore(s, [Store(s) EXCEPT !.status = status])
    /\ UNCHANGED <<pending, counters>>

\* update_status; asking for the status the copy already has changes nothing.
UpdateStatus(s, status) ==
    /\ Open(s)
    /\ Store(s).status # None
    /\ status \in StatusTransitions[Store(s).status]
    /\ PersistStore(s, [Store(s) EXCEPT !.status = status])
    /\ UNCHANGED <<pending, counters>>

\* A record of the bundle, or its metadata, contradicts the copy.
Conflict(store, env) ==
    \/ None \notin {store.status, env.status} /\ store.status # env.status
    \/ \E i \in Evidence :
          None \notin {store.records[i], env.records[i]} /\ store.records[i] # env.records[i]

Merged(store, env) ==
    [status  |-> IF env.status = None THEN store.status ELSE env.status,
     records |-> [i \in Evidence |->
                    IF env.records[i] = None THEN store.records[i] ELSE env.records[i]]]

\* merge_envelope, import_file: all of the bundle or none of it; nothing is
\* written when the copy already holds it.
MergeEnvelope(s, env) ==
    /\ Open(s)
    /\ ~Conflict(Store(s), env)
    /\ Merged(Store(s), env) # Store(s)
    /\ PersistStore(s, Merged(Store(s), env))
    /\ UNCHANGED <<pending, counters>>

-----------------------------------------------------------------------------
\* The policy store.

\* Mutant: the copy keeps a change that did not reach the file.
PersistPolicyKept(s, policy, done) ==
    /\ mem' = [mem EXCEPT ![s].policy = policy]
    /\ policyFile' = IF done THEN policy ELSE policyFile
    /\ UNCHANGED storeFile

\* _persist with the roll-back of its callers; `done` says whether the file was
\* replaced.
PersistPolicy(s, policy, done) ==
    /\ mem' = IF done THEN [mem EXCEPT ![s].policy = policy] ELSE mem
    /\ policyFile' = IF done THEN policy ELSE policyFile
    /\ UNCHANGED storeFile

\* set_execution_policy: a policy is set once.
SetPolicy(s, policy) ==
    /\ Open(s)
    /\ Exists(Store(s))
    /\ Policy(s) = None
    /\ \E done \in BOOLEAN : PersistPolicy(s, policy, done)
    /\ UNCHANGED <<pending, counters>>

\* revoke_execution: it returns at once when the copy is already revoked, and
\* after a replacement that succeeded.
Revoke(s) ==
    /\ Open(s)
    /\ Exists(Store(s))
    /\ Policy(s) # None
    /\ IF Policy(s).revoked
       THEN revokeReported' = TRUE /\ UNCHANGED <<mem, files>>
       ELSE \E done \in BOOLEAN :
               /\ PersistPolicy(s, [Policy(s) EXCEPT !.revoked = TRUE], done)
               /\ revokeReported' = (revokeReported \/ done)
    /\ UNCHANGED <<pending, audited, granted>>

Charged(policy) == [policy EXCEPT !.actions_used = @ + 1]

Decision(s, r, now) ==
    evaluate_action(Policy(s), Store(s).status, r, now)

\* Mutant: an exhausted disk does not stop the decision.
ChargeIgnoringFailure(s) ==
    \E done \in BOOLEAN :
        /\ PersistPolicy(s, Charged(Policy(s)), done)
        /\ pending' = [pending EXCEPT ![s] = "charged"]

\* consume_action, and what authorize_action does with its outcome: a failing
\* replacement raises before the decision is recorded.
Charge(s) ==
    \E done \in BOOLEAN :
        /\ PersistPolicy(s, Charged(Policy(s)), done)
        /\ pending' = IF done THEN [pending EXCEPT ![s] = "charged"] ELSE pending

\* authorize_action up to the audit log.
Authorize(s, r, now, consume) ==
    /\ Open(s)
    /\ Exists(Store(s))
    /\ Policy(s) # None
    /\ IF consume /\ Allows(Decision(s, r, now))
       THEN Charge(s)
       ELSE /\ pending' = [pending EXCEPT ![s] = "noted"]
            /\ UNCHANGED <<mem, files>>
    /\ UNCHANGED counters

\* The audit record, then the decision is returned.  Writing the record may
\* fail before or after the record reached the log; the charge remains.
AuditDecision(s) ==
    /\ pending[s] # None
    /\ pending' = [pending EXCEPT ![s] = None]
    /\ IF pending[s] = "charged"
       THEN /\ audited' \in {audited, audited + 1}
            /\ granted' \in {granted, granted + (audited' - audited)}
       ELSE UNCHANGED <<audited, granted>>
    /\ UNCHANGED <<mem, files, revokeReported>>

-----------------------------------------------------------------------------
Operation(s) ==
    \/ CloseWorkspace(s)
    \/ \E status \in NewStatuses : CreateEngagement(s, status)
    \/ \E status \in Statuses : UpdateStatus(s, status)
    \/ \E env \in Envelopes : MergeEnvelope(s, env)
    \/ \E policy \in Policies : SetPolicy(s, policy)
    \/ Revoke(s)
    \/ \E r \in Requests, now \in Times, consume \in BOOLEAN : Authorize(s, r, now, consume)
    \/ AuditDecision(s)

\* What the documentation of the package assumes: serialized writers.  (Module
\* ValidationWorker is about sessions that live at the same time.)
SerialNext ==
    \E s \in Sessions :
        \/ (\A t \in Sessions : mem[t] = Closed) /\ OpenWorkspace(s)
        \/ Operation(s)

SerialSpec == Init /\ [][SerialNext]_vars

-----------------------------------------------------------------------------
\* Types; the policy in a file or a copy is one that EngagementExecutionPolicy
\* accepts, so that the next session can load it.
TypeOK ==
    /\ storeFile \in Stores
    /\ policyFile # None => ValidPolicy(policyFile)
    /\ \A s \in Sessions : mem[s] # Closed =>
          /\ Store(s) \in Stores
          /\ Policy(s) # None => ValidPolicy(Policy(s))
    /\ \A s \in Sessions : pending[s] # None =>
          mem[s] # Closed /\ pending[s] \in {"charged", "noted"}
    /\ audited \in Nat
    /\ granted \in Nat
    /\ revokeReported \in BOOLEAN

\* Every decision that reached a caller is in the audit log, every one in the
\* log has its unit in the policy file, and the units stay within the budget,
\* whatever fails or dies between charging, logging and returning; the files
\* stay such that the next session can load them.
GrantsAreChargedAndAudited ==
    /\ TypeOK
    /\ granted <= audited
    /\ audited > 0 => policyFile # None
    /\ policyFile # None =>
          audited <= policyFile.actions_used /\ policyFile.actions_used <= policyFile.max_actions

\* A revocation reported to the operator is in the file, also when an earlier
\* attempt of the same session could not replace it.
ReportedRevocationIsDurable ==
    revokeReported => policyFile # None /\ policyFile.revoked

\* What a session told its caller, a grant or a revocation, the files bear out.
AnswersAreOnFile == GrantsAreChargedAndAudited /\ ReportedRevocationIsDurable

\* No operation takes a persisted revocation back or gives units back.
RevocationPersists ==
    [][policyFile # None =>
         /\ policyFile' # None
         /\ policyFile.revoked => policyFile'.revoked
         /\ policyFile'.actions_used >= policyFile.actions_used]_vars

StatusRank ==
    [planned |-> 0, active |-> 1, paused |-> 1, completed |-> 2, archived |-> 3]

\* The persisted status only moves forward through the lifecycle, also when a
\* failed replacement lets the next one persist two transitions at once or a
\* bundle brings a status of its own.
StatusOnlyAdvances ==
    [][storeFile.status # None =>
         /\ storeFile'.status # None
         /\ StatusRank[storeFile'.status] >= StatusRank[storeFile.status]]_vars

\* A persisted evidence record is never changed or lost.
EvidenceIsImmutable ==
    [][\A i \in Evidence : storeFile.records[i] # None =>
         storeFile'.records[i] = storeFile.records[i]]_vars

\* What the two files say is never taken back: a revocation, a spent unit, a
\* step of the lifecycle, an evidence record.
StoresNeverGoBack == RevocationPersists /\ StatusOnlyAdvances /\ EvidenceIsImmutable

=============================================================================
