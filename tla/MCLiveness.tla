----------------------------- MODULE MCLiveness -----------------------------
(***************************************************************************)
(* What must eventually happen, for three parts at once: calls under the   *)
(* transactional authority, calls under the policy file and the ledger,    *)
(* and a governed batch.  The parts share no state, so a behaviour has one *)
(* of them (focus) take all the steps.                                     *)
(*                                                                         *)
(* The batch has two tools on one host, named by address and by origin, a  *)
(* third elsewhere, and two threads.                                       *)
(***************************************************************************)
EXTENDS AssessmentBatch

CONSTANTS
    Workers, LegacyWorkers, Engagements, Actions, NoCall, NoRow, Absent,
    MaxTime, StartTime, StatusChoices, Limits,
    scan, host, eng, h1, h2

MCBatch ==
    <<[kind |-> "nmap",   engagement |-> eng, target |-> h1],
      [kind |-> "nuclei", engagement |-> eng, target |-> <<"http", h1>>],
      [kind |-> "tshark", engagement |-> eng, target |-> h2]>>

PolicyOf(max, used) ==
    [valid_from |-> 0, valid_until |-> 1, max_actions |-> max, actions_used |-> used,
     permitted |-> {scan}, approval_required |-> {}, max_impact |-> "standard",
     scope |-> {host}, revoked |-> FALSE]

RequestOf(impact) ==
    [capability |-> scan, target |-> host, impact |-> impact, approved |-> TRUE]

VARIABLES
    focus,
    pc, call, child, orphans, results, cancel, expired, authority, reservations, now,
    legacyPc, legacyCall, legacyChild, legacyOrphans, legacyResults, legacyCancel,
    legacyExpired, policyFile, ledger, legacyReservations, seen, legacyNow

authorityVars ==
    <<pc, call, child, orphans, results, cancel, expired, authority, reservations, now>>
legacyVars ==
    <<legacyPc, legacyCall, legacyChild, legacyOrphans, legacyResults, legacyCancel,
      legacyExpired, policyFile, ledger, legacyReservations, seen, legacyNow>>

Authority == INSTANCE PolicyAuthority WITH
    Capabilities <- {scan}, Targets <- {host},
    Policies <- {PolicyOf(2, 0), PolicyOf(2, 1)},
    Requests <- {RequestOf("low"), RequestOf("high")}

Legacy == INSTANCE LegacyExecution WITH
    Workers <- LegacyWorkers,
    Capabilities <- {scan}, Targets <- {host},
    Policies <- {PolicyOf(2, 0)},
    Requests <- {RequestOf("low")},
    pc <- legacyPc, call <- legacyCall, child <- legacyChild, orphans <- legacyOrphans,
    results <- legacyResults, cancel <- legacyCancel, expired <- legacyExpired,
    reservations <- legacyReservations, now <- legacyNow

LiveInit ==
    /\ focus \in {"authority", "legacy", "batch"}
    /\ Authority!Init
    /\ Legacy!Init
    /\ Init

LiveNext ==
    /\ UNCHANGED focus
    /\ \/ focus = "authority" /\ Authority!NextNoCrash /\ UNCHANGED <<legacyVars, vars>>
       \/ focus = "legacy" /\ Legacy!NextNoCrash /\ UNCHANGED <<authorityVars, vars>>
       \/ focus = "batch" /\ Next /\ UNCHANGED <<authorityVars, legacyVars>>

LiveSpec ==
    /\ LiveInit /\ [][LiveNext]_<<focus, authorityVars, legacyVars, vars>>
    /\ Authority!SchedulerFairness
    /\ Legacy!SchedulerFairness
    /\ WF_vars(focus = "batch" /\ QueueAll)
    /\ BatchFairness

\* Under the authority, and with the policy file, a revoked engagement's process
\* is stopped by the poll loop alone, and every call ends by its deadline.
SupervisedCallsEnd ==
    Authority!RevokedProcessStops /\ Authority!CallsEnd /\ Legacy!RevokedFileStops

=============================================================================
