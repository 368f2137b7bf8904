--------------------------- MODULE LegacyExecution ---------------------------
(***************************************************************************)
(* The other way into execute_atomically_governed: the JSON policy file    *)
(* decides and AtomicActionLedger (atomic_action_ledger.py), an SQLite     *)
(* store of its own, counts.  The two stores are not written in one        *)
(* transaction: the policy may change between the decision, the ledger's   *)
(* reservation, the second look at the policy and the launch.              *)
(*                                                                         *)
(* The policy file is written here by commands that load, change and       *)
(* replace it in one go; module Workspace is about writers that do not.    *)
(***************************************************************************)
EXTENDS CommandExecutor, FiniteSetsExt

CONSTANTS
    Policies,       \* the policies an operator may set
    Limits,         \* the limits the ledger may be provisioned with
    StartTime,      \* the wall clock at the start of a behaviour
    MaxTime,        \* bound on the wall clock
    Absent          \* no policy, no ledger row, nothing seen

LedgerRows == [limit: Nat \ {0}, used: Nat, revoked: BOOLEAN]

ASSUME LegacyAssumption ==
    /\ \A p \in Policies : ValidPolicy(p) /\ ~p.revoked
    /\ Limits \subseteq Nat \ {0}
    /\ MaxTime \in Nat
    /\ StartTime \in 0 .. MaxTime
    /\ Absent \notin PolicyRecords \cup LedgerRows

VARIABLES
    policyFile,     \* policyFile[e]: the persisted policy of e
    ledger,         \* ledger[e]: the row of action_limits
    reservations,   \* the rows of the ledger's reservations table
    seen,           \* seen[w]: the policy the call decided on
    now             \* the wall clock

storeVars == <<policyFile, ledger, reservations>>
vars == <<execVars, storeVars, seen, now>>

Reserved(e) == {k \in reservations : k[1] = e}

Init ==
    /\ ExecutorInit
    /\ policyFile = [e \in Engagements |-> Absent]
    /\ ledger = [e \in Engagements |-> Absent]
    /\ reservations = {}
    /\ seen = [w \in Workers |-> Absent]
    /\ now = StartTime

-----------------------------------------------------------------------------
\* Commands on the policy file: set a policy, revoke it, charge an action.
SetPolicy(e, p) ==
    /\ policyFile[e] = Absent
    /\ policyFile' = [policyFile EXCEPT ![e] = p]
    /\ UNCHANGED <<execVars, ledger, reservations, seen, now>>

RevokePolicy(e) ==
    /\ policyFile[e] # Absent
    /\ policyFile' = [policyFile EXCEPT ![e].revoked = TRUE]
    /\ UNCHANGED <<execVars, ledger, reservations, seen, now>>

ConsumeAction(e) ==
    /\ policyFile[e] # Absent
    /\ policyFile[e].actions_used < policyFile[e].max_actions
    /\ policyFile' = [policyFile EXCEPT ![e].actions_used = @ + 1]
    /\ UNCHANGED <<execVars, ledger, reservations, seen, now>>

\* provision: an upsert that keeps the smaller limit and the revocation.
Provision(e, limit, revoked) ==
    /\ ledger' = [ledger EXCEPT ![e] =
          IF ledger[e] = Absent
          THEN [limit |-> limit, used |-> 0, revoked |-> revoked]
          ELSE [ledger[e] EXCEPT !.limit = Min({@, limit}), !.revoked = @ \/ revoked]]
    /\ UNCHANGED <<execVars, policyFile, reservations, seen, now>>

RevokeLedger(e) ==
    /\ ledger[e] # Absent
    /\ ledger' = [ledger EXCEPT ![e].revoked = TRUE]
    /\ UNCHANGED <<execVars, policyFile, reservations, seen, now>>

Tick ==
    /\ now < MaxTime
    /\ now' = now + 1
    /\ UNCHANGED <<execVars, storeVars, seen>>

-----------------------------------------------------------------------------
\* The steps before the launch.  The caller passes the engagement's status; all
\* callers pass "active".

EnterCall(w) ==
    /\ \E k \in Keys, r \in Requests : Enter(w, k, r, now)
    /\ UNCHANGED <<storeVars, seen, now>>

\* The policy is read from the file and evaluated.
Decide(w) ==
    LET e == Key(w)[1] IN
    /\ pc[w] = "reserve"
    /\ policyFile[e] # Absent
    /\ Allows(evaluate_action(policyFile[e], "active", call[w].req, now))
    /\ GoTo(w, "ledger")
    /\ seen' = [seen EXCEPT ![w] = policyFile[e]]
    /\ UNCHANGED <<call, child, orphans, results, cancel, expired, storeVars, now>>

\* Mutant: the count is taken from the policy.
TightenedToPolicy(w) ==
    LET row == ledger[Key(w)[1]] IN
    [row EXCEPT !.limit = Min({@, seen[w].max_actions}), !.used = seen[w].actions_used]

\* The row reserve's transaction works with: tightened to the policy it was given.
Tightened(w) ==
    LET row == ledger[Key(w)[1]] IN
    [row EXCEPT !.limit = Min({@, seen[w].max_actions}),
                !.used = Max({@, seen[w].actions_used})]

\* Mutant: only the ledger's own limit counts.
ReserveOwnLimit(w) ==
    LET e == Key(w)[1] IN
    /\ pc[w] = "ledger"
    /\ ledger[e] # Absent
    /\ ~ledger[e].revoked
    /\ Key(w) \notin reservations
    /\ ledger[e].used < ledger[e].limit
    /\ ledger' = [ledger EXCEPT ![e].used = @ + 1]
    /\ reservations' = reservations \cup {Key(w)}
    /\ GoTo(w, "validate")
    /\ seen' = [seen EXCEPT ![w] = Absent]
    /\ UNCHANGED <<call, child, orphans, results, cancel, expired, policyFile, now>>

\* AtomicActionLedger.reserve: all of it, or a rollback.
Reserve(w) ==
    LET e == Key(w)[1] IN
    /\ pc[w] = "ledger"
    /\ ledger[e] # Absent
    /\ ~ledger[e].revoked
    /\ Key(w) \notin reservations
    /\ Tightened(w).used < Tightened(w).limit
    /\ ledger' = [ledger EXCEPT ![e] = [Tightened(w) EXCEPT !.used = @ + 1]]
    /\ reservations' = reservations \cup {Key(w)}
    /\ GoTo(w, "validate")
    /\ seen' = [seen EXCEPT ![w] = Absent]
    /\ UNCHANGED <<call, child, orphans, results, cancel, expired, policyFile, now>>

\* A refusal by the policy or by the ledger, an unreadable file, a locked database.
Refused(w) ==
    /\ pc[w] \in {"reserve", "ledger"}
    /\ Return(w)
    /\ seen' = [seen EXCEPT ![w] = Absent]
    /\ UNCHANGED <<child, orphans, results, storeVars, now>>

\* The file as it is now still allows the reserved action.
LeaseValid(w) ==
    LET e == Key(w)[1] IN
    /\ policyFile[e] # Absent
    /\ Allows(evaluate_reserved_action(policyFile[e], "active", call[w].req, now))

\* The second look.  A refusal is recorded, a file that cannot be read is not.
Recheck(w) ==
    /\ pc[w] = "validate"
    /\ \/ /\ LeaseValid(w)
          /\ GoTo(w, "start")
          /\ UNCHANGED <<call, results, cancel, expired>>
       \/ /\ ~LeaseValid(w)
          /\ AppendRecord(Key(w), "denied-after-reservation")
          /\ Return(w)
       \/ Return(w) /\ UNCHANGED results
    /\ UNCHANGED <<child, orphans, storeVars, seen, now>>

Execute(w) ==
    /\ \/ RecordStarted(w)
       \/ Launch(w)
       \/ PollCancel(w)
       \/ PollRevalidate(w, LeaseValid(w))
       \/ PollWait(w)
       \/ KillChild(w)
       \/ RecordResult(w)
    /\ UNCHANGED <<storeVars, seen, now>>

Environment(w) ==
    /\ SetCancel(w) \/ DeadlinePasses(w)
    /\ UNCHANGED <<storeVars, seen, now>>

Exit(k) == ChildExits(k) /\ UNCHANGED <<storeVars, seen, now>>

CrashCall(w) ==
    /\ Crash(w)
    /\ seen' = [seen EXCEPT ![w] = Absent]
    /\ UNCHANGED <<storeVars, now>>

CallStep(w) == Decide(w) \/ Reserve(w) \/ Refused(w) \/ Recheck(w) \/ Execute(w)

Operator ==
    \E e \in Engagements :
        \/ \E p \in Policies : SetPolicy(e, p)
        \/ RevokePolicy(e)
        \/ ConsumeAction(e)
        \/ \E n \in Limits, b \in BOOLEAN : Provision(e, n, b)
        \/ RevokeLedger(e)

NextNoCrash ==
    \/ Operator
    \/ Tick
    \/ \E w \in Workers : EnterCall(w) \/ CallStep(w) \/ Environment(w)
    \/ \E k \in Keys : Exit(k)

Next == NextNoCrash \/ \E w \in Workers : CrashCall(w)

Spec == Init /\ [][Next]_vars
SchedulerFairness == \A w \in Workers : WF_vars(CallStep(w))
FairSpec == Init /\ [][NextNoCrash]_vars /\ SchedulerFairness

-----------------------------------------------------------------------------
\* Types; a ledger row exists for every engagement with a reservation.
TypeOK ==
    /\ pc \in [Workers -> Steps]
    /\ call \in [Workers -> Calls \cup {NoCall}]
    /\ child \in [Keys -> {"none", "running", "exited"}]
    /\ results \in [Keys -> Seq(RecordStatuses)]
    /\ \A e \in Engagements : policyFile[e] \in PolicyRecords \cup {Absent}
    /\ \A e \in Engagements : ledger[e] \in LedgerRows \cup {Absent}
    /\ \A k \in reservations : ledger[k[1]] # Absent
    /\ \A w \in Workers : (pc[w] = "ledger") = (seen[w] # Absent)
    /\ now \in StartTime .. MaxTime

\* The ledger never counts less than it granted, so no tightening of a row, no
\* race and no retry gives room for an action that was already granted (and the
\* tables, the calls and the log are well formed).
LedgerCountsGrants ==
    /\ TypeOK
    /\ \A e \in Engagements :
          ledger[e] # Absent => Cardinality(Reserved(e)) <= ledger[e].used

\* A grant never exceeds the limit of the policy the call decided on nor the
\* ledger's own, and counts what the policy file had already charged.
GrantsWithinBothBudgets ==
    [][\A w \in Workers : pc[w] = "ledger" /\ pc'[w] = "validate" =>
         LET row == ledger'[Key(w)[1]] IN
         /\ row.used <= row.limit
         /\ row.limit <= seen[w].max_actions
         /\ row.used > seen[w].actions_used]_vars

\* A ledger row only tightens: no provisioning or reservation raises a limit,
\* lowers a count or lifts a revocation, and nothing is granted once it is
\* revoked.
LedgerOnlyTightens ==
    [][\A e \in Engagements : ledger[e] # Absent =>
         /\ ledger'[e] # Absent
         /\ ledger'[e].limit <= ledger[e].limit
         /\ ledger'[e].used >= ledger[e].used
         /\ ledger[e].revoked => ledger'[e].revoked /\ Reserved(e)' = Reserved(e)]_vars

\* One run, or one refusal after the reservation, per action id; a process only
\* while the log says "started".
LegacyLogTellsTheRun ==
    \A k \in Keys :
        /\ \/ results[k] \in {<<>>, <<"started">>, <<"denied-after-reservation">>}
           \/ \E t \in TerminalStatuses : results[k] = Append(<<"started">>, t)
        /\ results[k] # <<>> => k \in reservations
        /\ child[k] = "running" => results[k] = <<"started">>

\* Once the file says revoked, the poll loop ends the process.
RevokedFileStops ==
    \A k \in Keys :
        (child[k] = "running" /\ policyFile[k[1]] # Absent /\ policyFile[k[1]].revoked)
            ~> child[k] # "running"

\* The ledger, its reservations and the log agree on what was granted and run.
LedgerIsExact == LedgerCountsGrants /\ LegacyLogTellsTheRun

\* Whatever the operator does to either file, a grant fits both budgets and the
\* ledger's own limit only gets tighter.
LedgerGovernsGrants == GrantsWithinBothBudgets /\ LedgerOnlyTightens

=============================================================================
