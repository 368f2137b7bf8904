--------------------------- MODULE PolicyAuthority ---------------------------
(***************************************************************************)
(* TransactionalPolicyAuthority (transactional_policy_authority.py) and    *)
(* the executions it governs.                                              *)
(*                                                                         *)
(* The authority is an SQLite database shared by every process.  Each of   *)
(* its operations is one BEGIN IMMEDIATE transaction and so one action     *)
(* here; what several operations read and do in between is not atomic: the *)
(* clock is read before the reservation's transaction, the policy may be   *)
(* revoked between the validation and the launch, and a coordinator may    *)
(* die between any two steps and its caller retry with the same action id. *)
(***************************************************************************)
EXTENDS CommandExecutor, Integers

CONSTANTS
    Policies,       \* the policies an operator may register or import
    StatusChoices,  \* the statuses operators give an engagement
    MaxTime,        \* bound on the wall clock
    NoRow           \* authority[e] when e is not registered

Rows == [policy: PolicyRecords, status: Statuses]

ASSUME PolicyAssumption ==
    /\ \A p \in Policies : ValidPolicy(p)
    /\ Requests \subseteq RequestRecords
    /\ StatusChoices \subseteq Statuses
    /\ MaxTime \in Nat
    /\ NoRow \notin Rows

VARIABLES
    authority,      \* authority[e]: the row of engagement_authority, or NoRow
    reservations,   \* the rows of authority_reservations
    now             \* the wall clock

dbVars == <<authority, reservations>>
vars == <<execVars, authority, reservations, now>>

\* The JSON column's own actions_used is overwritten by the actions_used column
\* whenever a row is read, so one field stands for both.
Registered(e) == authority[e] # NoRow
Policy(e) == authority[e].policy
Reserved(e) == {k \in reservations : k[1] = e}

Init ==
    /\ ExecutorInit
    /\ authority = [e \in Engagements |-> NoRow]
    /\ reservations = {}
    /\ now = 0

-----------------------------------------------------------------------------
\* Operator commands.

\* Mutant: INSERT OR REPLACE.
RegisterReplace(e, p, status) ==
    /\ authority' = [authority EXCEPT ![e] = [policy |-> p, status |-> status]]
    /\ UNCHANGED <<execVars, reservations, now>>

\* register: INSERT, refused by the primary key when the row exists.
Register(e, p, status) ==
    /\ ~Registered(e)
    /\ authority' = [authority EXCEPT ![e] = [policy |-> p, status |-> status]]
    /\ UNCHANGED <<execVars, reservations, now>>

\* import_legacy: every policy of the document, or none when one of the
\* identifiers is taken.
ImportLegacy(document, statuses) ==
    /\ \A e \in DOMAIN document : ~Registered(e)
    /\ authority' = [e \in Engagements |->
                       IF e \in DOMAIN document
                       THEN [policy |-> document[e], status |-> statuses[e]]
                       ELSE authority[e]]
    /\ UNCHANGED <<execVars, reservations, now>>

\* set_status: any status may follow any other.
SetStatus(e, status) ==
    /\ Registered(e)
    /\ authority' = [authority EXCEPT ![e].status = status]
    /\ UNCHANGED <<execVars, reservations, now>>

Revoke(e) ==
    /\ Registered(e)
    /\ authority' = [authority EXCEPT ![e].policy.revoked = TRUE]
    /\ UNCHANGED <<execVars, reservations, now>>

Tick ==
    /\ now < MaxTime
    /\ now' = now + 1
    /\ UNCHANGED <<execVars, dbVars>>

-----------------------------------------------------------------------------
\* The executor's transactions.

\* Entering the call and, in reserve, reading the clock before BEGIN IMMEDIATE.
EnterCall(w) ==
    /\ \E k \in Keys, r \in Requests : Enter(w, k, r, now)
    /\ UNCHANGED <<dbVars, now>>

\* Mutant: no look-up of the action id.
ReservableTwice(w) ==
    LET k == Key(w) IN
    /\ Registered(k[1])
    /\ Allows(evaluate_action(Policy(k[1]), authority[k[1]].status,
                              call[w].req, call[w].current))

\* What reserve's transaction requires of the database.
Reservable(w) ==
    LET k == Key(w) IN
    /\ Registered(k[1])
    /\ Allows(evaluate_action(Policy(k[1]), authority[k[1]].status,
                              call[w].req, call[w].current))
    /\ k \notin reservations

\* reserve: the row is inserted and the budget charged, or the transaction is
\* rolled back and the call ends.
Reserve(w) ==
    /\ pc[w] = "reserve"
    /\ Reservable(w)
    /\ reservations' = reservations \cup {Key(w)}
    /\ authority' = [authority EXCEPT ![Key(w)[1]].policy.actions_used = @ + 1]
    /\ GoTo(w, "validate")
    /\ UNCHANGED <<call, child, orphans, results, cancel, expired, now>>

\* A refusal, or a database that stays locked for ten seconds.
ReserveFails(w) ==
    /\ pc[w] = "reserve"
    /\ Return(w)
    /\ UNCHANGED <<child, orphans, results, dbVars, now>>

\* What validate_reserved requires, with a clock read inside the transaction.
LeaseValid(w) ==
    LET k == Key(w) IN
    /\ Registered(k[1])
    /\ k \in reservations
    /\ Allows(evaluate_reserved_action(Policy(k[1]), authority[k[1]].status,
                                       call[w].req, now))

\* The validation between the reservation and the "started" record.  When it
\* fails the reservation stays charged and no record is written.
Validate(w) ==
    /\ pc[w] = "validate"
    /\ LeaseValid(w)
    /\ GoTo(w, "start")
    /\ UNCHANGED <<call, child, orphans, results, cancel, expired, dbVars, now>>

\* Mutant: a refused lease gives its unit back.
ValidateFailsRefund(w) ==
    /\ pc[w] = "validate"
    /\ Return(w)
    /\ authority' = [authority EXCEPT ![Key(w)[1]].policy.actions_used = @ - 1]
    /\ UNCHANGED <<child, orphans, results, reservations, now>>

ValidateFails(w) ==
    /\ pc[w] = "validate"
    /\ Return(w)
    /\ UNCHANGED <<child, orphans, results, dbVars, now>>

\* The rest of the call, with validate_reserved as the authority of the loop.
Execute(w) ==
    /\ \/ RecordStarted(w)
       \/ Launch(w)
       \/ PollCancel(w)
       \/ PollRevalidate(w, LeaseValid(w))
       \/ PollWait(w)
       \/ KillChild(w)
       \/ RecordResult(w)
    /\ UNCHANGED <<dbVars, now>>

Environment(w) ==
    /\ SetCancel(w) \/ DeadlinePasses(w)
    /\ UNCHANGED <<dbVars, now>>

Exit(k) == ChildExits(k) /\ UNCHANGED <<dbVars, now>>

CrashCall(w) == Crash(w) /\ UNCHANGED <<dbVars, now>>

Operator ==
    \/ \E e \in Engagements :
          \/ \E p \in Policies, s \in StatusChoices : Register(e, p, s)
          \/ \E s \in StatusChoices : SetStatus(e, s)
          \/ Revoke(e)
    \/ \E E \in SUBSET Engagements \ {{}} :
          \E doc \in [E -> Policies], st \in [E -> StatusChoices] : ImportLegacy(doc, st)

CallStep(w) ==
    \/ Reserve(w) \/ ReserveFails(w)
    \/ Validate(w) \/ ValidateFails(w)
    \/ Execute(w)

Next ==
    \/ Operator
    \/ Tick
    \/ \E w \in Workers : EnterCall(w) \/ CallStep(w) \/ Environment(w) \/ CrashCall(w)
    \/ \E k \in Keys : Exit(k)

Spec == Init /\ [][Next]_vars

\* Without crashes, a thread inside a call keeps running: every step of the loop
\* ends (the transaction is bounded by SQLite's timeout, the wait by the poll
\* interval, SIGKILL by the kernel).
NextNoCrash ==
    \/ Operator
    \/ Tick
    \/ \E w \in Workers : EnterCall(w) \/ CallStep(w) \/ Environment(w)
    \/ \E k \in Keys : Exit(k)

SchedulerFairness == \A w \in Workers : WF_vars(CallStep(w))
ClockFairness == \A w \in Workers : WF_vars(DeadlinePasses(w) /\ UNCHANGED <<dbVars, now>>)

FairSpec == Init /\ [][NextNoCrash]_vars /\ SchedulerFairness

-----------------------------------------------------------------------------
\* Every variable keeps its type; a worker inside a call has a call record.
TypeOK ==
    /\ pc \in [Workers -> Steps]
    /\ call \in [Workers -> Calls \cup {NoCall}]
    /\ \A w \in Workers : pc[w] # "idle" => call[w] \in Calls
    /\ child \in [Keys -> {"none", "running", "exited"}]
    /\ orphans \subseteq Keys
    /\ results \in [Keys -> Seq(RecordStatuses)]
    /\ cancel \in [Workers -> BOOLEAN]
    /\ expired \in [Workers -> BOOLEAN]
    /\ authority \in [Engagements -> Rows \cup {NoRow}]
    /\ reservations \subseteq Keys
    /\ now \in 0 .. MaxTime

\* However many calls race, crash and are retried, an engagement never has more
\* reservations than charged actions, nor more charged actions than its budget
\* (the transaction of reserve).
BudgetRespected ==
    \A e \in Engagements : Registered(e) =>
        /\ Cardinality(Reserved(e)) <= Policy(e).actions_used
        /\ Policy(e).actions_used <= Policy(e).max_actions

\* Two calls never act on the same reservation, also when a caller retries an
\* action id whose first call died (the primary key of authority_reservations).
ExclusiveReservation ==
    \A w1, w2 \in Workers :
        pc[w1] \in Holding /\ pc[w2] \in Holding /\ Key(w1) = Key(w2) => w1 = w2

\* The result log tells one run per action id: nothing, "started", or "started"
\* and one terminal status; a process exists only for a reserved action already
\* recorded as started, and a terminal record only once the process is gone.
LogTellsTheRun ==
    \A k \in Keys :
        /\ \/ results[k] \in {<<>>, <<"started">>}
           \/ \E t \in TerminalStatuses : results[k] = Append(<<"started">>, t)
        /\ child[k] # "none" => k \in reservations /\ results[k] # <<>>
        /\ child[k] = "running" => results[k] = <<"started">>

\* A running process is watched by the one call that launched it, unless that
\* coordinator died: no error path of the loop leaves one behind.
RunningIsSupervised ==
    \A k \in Keys : child[k] = "running" =>
        \/ k \in orphans
        \/ \E w \in Workers : pc[w] \in Supervising /\ Key(w) = k

\* A request that holds a reservation is one the registered policy permits:
\* validate_reserved checks less than reserve (no impact ceiling), which is
\* sound because nothing replaces a registered policy.
OnlyPermittedRequestsRun ==
    \A w \in Workers : pc[w] \in Holding =>
        /\ Registered(Key(w)[1])
        /\ StaticallyPermitted(Policy(Key(w)[1]), call[w].req)

\* The parts of the inductive invariant behind the properties above: reservations
\* belong to registered engagements and to the calls that hold them, an action
\* without reservation left no trace, and the step a call has reached agrees
\* with the log and the process of its action.
ReservationsRegistered == \A k \in reservations : Registered(k[1])

HoldersReserved == \A w \in Workers : pc[w] \in Holding => Key(w) \in reservations

UnreservedUntouched ==
    \A k \in Keys \ reservations : results[k] = <<>> /\ child[k] = "none"

StepMatchesLog ==
    \A w \in Workers :
        /\ pc[w] \in {"validate", "start"} =>
              results[Key(w)] = <<>> /\ child[Key(w)] = "none"
        /\ pc[w] = "launch" => results[Key(w)] = <<"started">> /\ child[Key(w)] = "none"
        /\ pc[w] \in Supervising =>
              results[Key(w)] = <<"started">> /\ child[Key(w)] # "none"
        /\ pc[w] = "record" =>
              results[Key(w)] = <<"started">> /\ child[Key(w)] # "running"

\* The inductive invariant: what makes the log, the processes and the
\* reservations of execute_atomically_governed agree at every step.
IndInv ==
    /\ TypeOK
    /\ IsFiniteSet(reservations)
    /\ BudgetRespected
    /\ ReservationsRegistered
    /\ HoldersReserved
    /\ ExclusiveReservation
    /\ UnreservedUntouched
    /\ StepMatchesLog
    /\ LogTellsTheRun
    /\ RunningIsSupervised
    /\ OnlyPermittedRequestsRun

\* Revocation is final: no command or transaction takes it back, and no action
\* is reserved afterwards.
RevocationIsFinal ==
    [][\A e \in Engagements : Registered(e) /\ Policy(e).revoked =>
         /\ Registered(e)' /\ Policy(e)'.revoked
         /\ Reserved(e)' = Reserved(e)]_vars

\* A unit is charged for each reservation and never given back, whatever
\* becomes of the call.
ChargesAreExact ==
    [][\A e \in Engagements : Registered(e) =>
         Policy(e)'.actions_used + Cardinality(Reserved(e))
           = Policy(e).actions_used + Cardinality(Reserved(e)')]_vars

\* Once the engagement is revoked its processes are stopped, by the poll loop
\* alone (no deadline is needed for it).
RevokedProcessStops ==
    \A k \in Keys :
        (child[k] = "running" /\ Registered(k[1]) /\ Policy(k[1]).revoked)
            ~> child[k] # "running"

\* Every call ends, and with it the process it launched, whatever the process
\* does: the monotonic clock reaches the deadline the poll loop looks at.
CallsEnd == ClockFairness => \A w \in Workers : pc[w] # "idle" ~> pc[w] = "idle"
-----------------------------------------------------------------------------
\* The abstract view of the database and the processes.
Free(e) == IF Registered(e) THEN Policy(e).max_actions - Policy(e).actions_used ELSE 0

Governed == INSTANCE GovernedActions WITH
    authorised <- {e \in Engagements : Registered(e)},
    free       <- [e \in Engagements |-> Free(e)],
    withdrawn  <- {e \in Engagements : Registered(e) /\ Policy(e).revoked},
    granted    <- reservations,
    launched   <- {k \in Keys : child[k] # "none"},
    ended      <- {k \in Keys : child[k] = "exited"}

\* The authority and its executors implement GovernedActions: racing,
\* crashing and retried calls only ever show as one grant, one launch and one
\* end per action, within the units given and never after a revocation.
ImplementsGovernedActions == Governed!Spec

=============================================================================
