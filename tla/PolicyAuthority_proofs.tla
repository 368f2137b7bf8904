----------------------- MODULE PolicyAuthority_proofs -----------------------
(***************************************************************************)
(* Proofs about PolicyAuthority for every number of workers, engagements,  *)
(* action identifiers, policies and requests.                              *)
(***************************************************************************)
EXTENDS PolicyAuthority, FiniteSetTheorems, TLAPS

\* A worker inside a call has a well-formed call record, with any status.
LEMMA CallType ==
    ASSUME TypeOK, NEW w \in Workers, pc[w] # "idle"
    PROVE  /\ call[w] \in Calls
           /\ Key(w) \in Keys
           /\ Key(w)[1] \in Engagements
           /\ call[w].status \in TerminalStatuses
           /\ call[w].req \in Requests
           /\ call[w].current \in Nat
           /\ \A s \in TerminalStatuses : [call[w] EXCEPT !.status = s] \in Calls
BY DEF TypeOK, Key, Keys, Calls

\* Charging a unit keeps a row well formed.
LEMMA ChargeType ==
    ASSUME NEW row \in Rows
    PROVE  [row EXCEPT !.policy =
              [row.policy EXCEPT !.actions_used = row.policy.actions_used + 1]] \in Rows
<1>1. row.policy \in PolicyRecords
  BY DEF Rows
<1>2. [row.policy EXCEPT !.actions_used = row.policy.actions_used + 1] \in PolicyRecords
  BY <1>1 DEF PolicyRecords
<1> QED
  BY <1>2 DEF Rows

\* Every step keeps the type invariant.
LEMMA TypeStep == TypeOK /\ [Next]_vars => TypeOK'
<1> SUFFICES ASSUME TypeOK, [Next]_vars PROVE TypeOK'
  OBVIOUS
<1> USE PolicyAssumption DEF TypeOK, Steps, TerminalStatuses, RecordStatuses
<1>1. CASE UNCHANGED vars
  BY <1>1 DEF vars, execVars, Calls
<1>2. ASSUME NEW e \in Engagements, NEW p \in Policies, NEW s \in StatusChoices,
             Register(e, p, s)
      PROVE  TypeOK'
  BY <1>2 DEF Register, execVars, Rows, ValidPolicy
<1>3. ASSUME NEW E \in SUBSET Engagements, NEW doc \in [E -> Policies],
             NEW st \in [E -> StatusChoices], ImportLegacy(doc, st)
      PROVE  TypeOK'
  BY <1>3 DEF ImportLegacy, execVars, Rows, ValidPolicy
<1>4. ASSUME NEW e \in Engagements, NEW s \in StatusChoices, SetStatus(e, s)
      PROVE  TypeOK'
  BY <1>4 DEF SetStatus, execVars, Rows, Registered
<1>5. ASSUME NEW e \in Engagements, Revoke(e)
      PROVE  TypeOK'
  <2>1. authority[e] \in Rows
    BY <1>5 DEF Revoke, Registered
  <2>2. authority'[e] \in Rows
    BY <1>5, <2>1 DEF Revoke, Rows, PolicyRecords
  <2> QED
    BY <1>5, <2>2 DEF Revoke, execVars
<1>6. CASE Tick
  BY <1>6 DEF Tick, execVars, dbVars
<1>7. ASSUME NEW w \in Workers, EnterCall(w)
      PROVE  TypeOK'
  BY <1>7 DEF EnterCall, Enter, GoTo, dbVars, Calls
<1>8. ASSUME NEW w \in Workers, Reserve(w)
      PROVE  TypeOK'
  <2> DEFINE e == Key(w)[1]
  <2>1. Key(w) \in Keys /\ e \in Engagements
    BY <1>8, CallType DEF Reserve
  <2>2. authority[e] \in Rows
    BY <1>8, <2>1 DEF Reserve, Reservable, Registered
  <2> DEFINE row == authority[e]
  <2>3. authority' = [authority EXCEPT ![e] = [row EXCEPT !.policy =
                        [row.policy EXCEPT !.actions_used = row.policy.actions_used + 1]]]
    BY <1>8 DEF Reserve
  <2> HIDE DEF e
  <2>4. authority'[e] \in Rows
    BY <2>1, <2>2, <2>3, ChargeType
  <2> QED
    BY <1>8, <2>1, <2>3, <2>4 DEF Reserve, GoTo
<1>9. ASSUME NEW w \in Workers, ReserveFails(w) \/ Validate(w) \/ ValidateFails(w)
      PROVE  TypeOK'
  BY <1>9 DEF ReserveFails, Validate, ValidateFails, Return, GoTo, dbVars
<1>10. ASSUME NEW w \in Workers, Execute(w)
       PROVE  TypeOK'
  <2> USE DEF dbVars, GoTo, Return, Fail, AppendRecord
  <2> SUFFICES ASSUME UNCHANGED <<dbVars, now>> PROVE TypeOK'
    BY <1>10 DEF Execute
  <2>1. CASE RecordStarted(w)
    <3>1. Key(w) \in Keys
      BY <2>1, CallType DEF RecordStarted
    <3>2. Append(results[Key(w)], "started") \in Seq(RecordStatuses)
      BY <3>1
    <3> QED
      BY <2>1, <3>1, <3>2, ZenonT(60) DEF RecordStarted
  <2>2. CASE Launch(w)
    BY <2>2 DEF Launch
  <2>3. CASE PollCancel(w)
    <3>1. \A s \in TerminalStatuses : [call[w] EXCEPT !.status = s] \in Calls
      BY <2>3, CallType DEF PollCancel
    <3> QED
      BY <2>3, <3>1, ZenonT(60) DEF PollCancel
  <2>4. CASE PollRevalidate(w, LeaseValid(w))
    <3>1. \A s \in TerminalStatuses : [call[w] EXCEPT !.status = s] \in Calls
      BY <2>4, CallType DEF PollRevalidate
    <3> QED
      BY <2>4, <3>1, ZenonT(60) DEF PollRevalidate
  <2>5. CASE PollWait(w)
    <3>1. \A s \in TerminalStatuses : [call[w] EXCEPT !.status = s] \in Calls
      BY <2>5, CallType DEF PollWait
    <3> QED
      BY <2>5, <3>1, ZenonT(60) DEF PollWait
  <2>6. CASE KillChild(w)
    BY <2>6 DEF KillChild
  <2>7. CASE RecordResult(w)
    <3>1. Key(w) \in Keys /\ call[w].status \in TerminalStatuses
      BY <2>7, CallType DEF RecordResult
    <3>2. Append(results[Key(w)], call[w].status) \in Seq(RecordStatuses)
      BY <3>1
    <3> QED
      BY <2>7, <3>1, <3>2 DEF RecordResult
  <2> QED
    BY <1>10, <2>1, <2>2, <2>3, <2>4, <2>5, <2>6, <2>7 DEF Execute
<1>11. ASSUME NEW w \in Workers, Environment(w) \/ CrashCall(w)
       PROVE  TypeOK'
  <2>1. CASE Environment(w)
    BY <1>11, <2>1 DEF Environment, SetCancel, DeadlinePasses, dbVars
  <2>2. CASE CrashCall(w)
    <3>1. Key(w) \in Keys
      BY <2>2, CallType DEF CrashCall, Crash
    <3> QED
      BY <2>2, <3>1 DEF CrashCall, Crash, Return, dbVars
  <2> QED
    BY <1>11, <2>1, <2>2
<1>12. ASSUME NEW k \in Keys, Exit(k)
       PROVE  TypeOK'
  BY <1>12 DEF Exit, ChildExits, dbVars
<1> QED
  BY <1>1, <1>2, <1>3, <1>4, <1>5, <1>6, <1>7, <1>8, <1>9, <1>10, <1>11, <1>12
     DEF Next, Operator, CallStep

\* The authority and the calls it governs are type correct in every reachable
\* state.
THEOREM TypeCorrect == Spec => []TypeOK
<1>1. Init => TypeOK
  BY PolicyAssumption DEF Init, ExecutorInit, TypeOK, Keys, Steps, RecordStatuses
<1> QED
  BY <1>1, TypeStep, PTL DEF Spec

-----------------------------------------------------------------------------
(***************************************************************************)
(* The budget.  Only Reserve adds a reservation, and it charges a unit of  *)
(* a row whose policy still had one.                                       *)
(***************************************************************************)
Charged == /\ TypeOK
           /\ IsFiniteSet(reservations)
           /\ ReservationsRegistered
           /\ BudgetRespected

LEMMA RowType ==
    ASSUME TypeOK, NEW e \in Engagements, Registered(e)
    PROVE  /\ authority[e] \in Rows
           /\ Policy(e) \in PolicyRecords
           /\ Policy(e).actions_used \in Nat
           /\ Policy(e).max_actions \in Nat
BY DEF TypeOK, Registered, Rows, Policy, PolicyRecords

LEMMA ReservedFinite ==
    ASSUME IsFiniteSet(reservations), NEW e
    PROVE  IsFiniteSet(Reserved(e)) /\ Cardinality(Reserved(e)) \in Nat
<1>1. Reserved(e) \subseteq reservations
  BY DEF Reserved
<1> QED
  BY <1>1, FS_Subset, FS_CardinalityType

\* What Reserve does to the two tables.
LEMMA ReserveEffect ==
    ASSUME Charged, NEW w \in Workers, Reserve(w), NEW e \in Engagements
    PROVE  /\ Registered(Key(w)[1])
           /\ Registered(e)' <=> Registered(e)
           /\ e # Key(w)[1] => Policy(e)' = Policy(e) /\ Reserved(e)' = Reserved(e)
           /\ e = Key(w)[1] =>
                 /\ Policy(e)' = [Policy(e) EXCEPT !.actions_used = @ + 1]
                 /\ Policy(e).actions_used < Policy(e).max_actions
                 /\ Reserved(e)' = Reserved(e) \cup {Key(w)}
                 /\ Cardinality(Reserved(e)') = Cardinality(Reserved(e)) + 1
<1> DEFINE k == Key(w)
           row == authority[k[1]]
<1>1. k \in Keys /\ k[1] \in Engagements
  BY CallType DEF Charged, Reserve
<1>2. Registered(k[1]) /\ k \notin reservations
  BY DEF Reserve, Reservable
<1>3. row \in Rows /\ row.policy.actions_used \in Nat /\ row.policy.max_actions \in Nat
  BY <1>1, <1>2, RowType DEF Charged, Policy
<1>4. row.policy.actions_used < row.policy.max_actions
  BY <1>3 DEF Reserve, Reservable, Allows, evaluate_action, Policy
<1>5. /\ authority' = [authority EXCEPT ![k[1]] = [row EXCEPT !.policy =
                         [row.policy EXCEPT !.actions_used = row.policy.actions_used + 1]]]
      /\ reservations' = reservations \cup {k}
  BY DEF Reserve
<1>6. authority \in [Engagements -> Rows \cup {NoRow}]
  BY DEF Charged, TypeOK
<1> HIDE DEF k
<1>7. CASE e # k[1]
  BY <1>2, <1>5, <1>6, <1>7, <1>1 DEF Registered, Policy, Reserved, k
<1>8. CASE e = k[1]
  <2>1. authority'[e] = [row EXCEPT !.policy =
                           [row.policy EXCEPT !.actions_used = row.policy.actions_used + 1]]
    BY <1>5, <1>6, <1>8
  <2>2. authority'[e] \in Rows
    BY <2>1, <1>3, ChargeType
  <2>3. Registered(e)'
    BY <2>2, PolicyAssumption DEF Registered
  <2>4. Policy(e)' = [Policy(e) EXCEPT !.actions_used = @ + 1]
    BY <2>1, <1>3, <1>8 DEF Policy, Rows
  <2>5. Reserved(e)' = Reserved(e) \cup {k}
    BY <1>5, <1>8 DEF Reserved
  <2>6. k \notin Reserved(e) /\ IsFiniteSet(Reserved(e))
    BY <1>2, ReservedFinite DEF Reserved, Charged, k
  <2>7. Cardinality(Reserved(e)') = Cardinality(Reserved(e)) + 1
    BY <2>5, <2>6, FS_AddElement
  <2> QED
    BY <1>2, <1>4, <1>8, <2>3, <2>4, <2>5, <2>7 DEF Policy, k
<1> QED
  BY <1>7, <1>8

\* Steps that leave both tables alone.
LEMMA TablesUnchanged ==
    ASSUME Next, ~Operator, \A w \in Workers : ~Reserve(w)
    PROVE  UNCHANGED dbVars
BY DEF Next, Tick, EnterCall, CallStep, ReserveFails, Validate, ValidateFails, Execute,
       Environment, CrashCall, Exit, dbVars

\* What an operator command does to a row: it may create it, or change its
\* status, or revoke it.
LEMMA OperatorEffect ==
    ASSUME TypeOK, Operator, NEW e \in Engagements
    PROVE  /\ UNCHANGED <<execVars, reservations, now>>
           /\ ~Registered(e) /\ Registered(e)' => Policy(e)' \in Policies
           /\ Registered(e) => /\ Registered(e)'
                               /\ \/ Policy(e)' = Policy(e)
                                  \/ Policy(e)' = [Policy(e) EXCEPT !.revoked = TRUE]
<1> USE PolicyAssumption DEF Registered, Policy
<1>0. authority \in [Engagements -> Rows \cup {NoRow}]
  BY DEF TypeOK
<1>1. ASSUME NEW f \in Engagements, NEW p \in Policies, NEW s \in StatusChoices,
             Register(f, p, s)
      PROVE  /\ UNCHANGED <<execVars, reservations, now>>
             /\ ~Registered(e) /\ Registered(e)' => Policy(e)' \in Policies
             /\ Registered(e) => Registered(e)' /\ Policy(e)' = Policy(e)
  BY <1>0, <1>1 DEF Register
<1>2. ASSUME NEW E \in SUBSET Engagements, NEW doc \in [E -> Policies],
             NEW st \in [E -> StatusChoices], ImportLegacy(doc, st)
      PROVE  /\ UNCHANGED <<execVars, reservations, now>>
             /\ ~Registered(e) /\ Registered(e)' => Policy(e)' \in Policies
             /\ Registered(e) => Registered(e)' /\ Policy(e)' = Policy(e)
  BY <1>0, <1>2 DEF ImportLegacy
<1>3. ASSUME NEW f \in Engagements, NEW s \in StatusChoices, SetStatus(f, s)
      PROVE  /\ UNCHANGED <<execVars, reservations, now>>
             /\ ~Registered(e) => ~Registered(e)'
             /\ Registered(e) => Registered(e)' /\ Policy(e)' = Policy(e)
  <2>1. authority[f] \in Rows /\ [authority[f] EXCEPT !.status = s] \in Rows
    BY <1>0, <1>3 DEF SetStatus, Rows
  <2>2. authority' = [authority EXCEPT ![f] = [authority[f] EXCEPT !.status = s]]
    BY <1>3 DEF SetStatus
  <2>3. CASE e = f
    BY <1>0, <1>3, <2>1, <2>2, <2>3 DEF SetStatus, Rows
  <2>4. CASE e # f
    BY <1>0, <1>3, <2>2, <2>4 DEF SetStatus
  <2> QED
    BY <2>3, <2>4
<1>4. ASSUME NEW f \in Engagements, Revoke(f)
      PROVE  /\ UNCHANGED <<execVars, reservations, now>>
             /\ ~Registered(e) => ~Registered(e)'
             /\ Registered(e) => /\ Registered(e)'
                                 /\ \/ Policy(e)' = Policy(e)
                                    \/ Policy(e)' = [Policy(e) EXCEPT !.revoked = TRUE]
  <2> DEFINE new == [authority[f] EXCEPT !.policy = [authority[f].policy EXCEPT !.revoked = TRUE]]
  <2>1. authority[f] \in Rows /\ new \in Rows
    BY <1>0, <1>4 DEF Revoke, Rows, PolicyRecords
  <2>2. authority' = [authority EXCEPT ![f] = new]
    BY <1>4 DEF Revoke
  <2>3. new.policy = [authority[f].policy EXCEPT !.revoked = TRUE]
    BY <2>1 DEF Rows
  <2> HIDE DEF new
  <2>4. CASE e = f
    BY <1>0, <1>4, <2>1, <2>2, <2>3, <2>4 DEF Revoke
  <2>5. CASE e # f
    BY <1>0, <1>4, <2>2, <2>5 DEF Revoke
  <2> QED
    BY <2>4, <2>5
<1> QED
  BY <1>1, <1>2, <1>3, <1>4 DEF Operator

\* Every step keeps the reservations within the charged units and the charged
\* units within the budget.
LEMMA ChargedStep == Charged /\ [Next]_vars => Charged'
<1> SUFFICES ASSUME Charged, [Next]_vars PROVE Charged'
  OBVIOUS
<1>1. TypeOK'
  BY TypeStep DEF Charged
<1>2. CASE UNCHANGED dbVars
  BY <1>1, <1>2 DEF Charged, dbVars, ReservationsRegistered, BudgetRespected, Registered,
                    Reserved, Policy
<1>3. CASE Operator
  <2>1. UNCHANGED <<execVars, reservations, now>>
    BY <1>3, OperatorEffect DEF Operator, Register, ImportLegacy, SetStatus, Revoke
  <2>2. ReservationsRegistered'
    <3> SUFFICES ASSUME NEW k \in reservations PROVE Registered(k[1])'
      BY <2>1 DEF ReservationsRegistered
    <3>1. k[1] \in Engagements /\ Registered(k[1])
      BY DEF Charged, TypeOK, Keys, ReservationsRegistered
    <3> QED
      BY <1>3, <3>1, OperatorEffect DEF Charged
  <2>3. BudgetRespected'
    <3> SUFFICES ASSUME NEW e \in Engagements, Registered(e)'
                 PROVE  /\ Cardinality(Reserved(e)') <= Policy(e)'.actions_used
                        /\ Policy(e)'.actions_used <= Policy(e)'.max_actions
      BY DEF BudgetRespected
    <3>1. Reserved(e)' = Reserved(e)
      BY <2>1 DEF Reserved
    <3>2. CASE Registered(e)
      <4>1. Policy(e) \in PolicyRecords
        BY <3>2, RowType DEF Charged
      <4>2. /\ Policy(e)'.actions_used = Policy(e).actions_used
            /\ Policy(e)'.max_actions = Policy(e).max_actions
        BY <1>3, <3>2, <4>1, OperatorEffect DEF Charged, PolicyRecords
      <4> QED
        BY <3>1, <3>2, <4>2 DEF Charged, BudgetRespected
    <3>3. CASE ~Registered(e)
      <4>1. Reserved(e) = {}
        BY <3>3 DEF Charged, ReservationsRegistered, Reserved
      <4>2. Policy(e)' \in Policies
        BY <1>3, <3>3, OperatorEffect DEF Charged
      <4>3. /\ Policy(e)'.actions_used \in Nat
            /\ Policy(e)'.actions_used <= Policy(e)'.max_actions
        BY <4>2, PolicyAssumption DEF ValidPolicy, PolicyRecords
      <4> QED
        BY <3>1, <4>1, <4>3, FS_EmptySet
    <3> QED
      BY <3>2, <3>3
  <2> QED
    BY <1>1, <2>1, <2>2, <2>3 DEF Charged
<1>4. ASSUME NEW w \in Workers, Reserve(w)
      PROVE  Charged'
  <2>1. IsFiniteSet(reservations')
    BY <1>4, FS_AddElement DEF Charged, Reserve
  <2>2. ReservationsRegistered'
    <3> SUFFICES ASSUME NEW k \in reservations' PROVE Registered(k[1])'
      BY DEF ReservationsRegistered
    <3>1. k[1] \in Engagements
      BY <1>1 DEF TypeOK, Keys
    <3>2. Registered(k[1])
      <4>1. CASE k = Key(w)
        BY <1>4, <3>1, <4>1, ReserveEffect
      <4>2. CASE k \in reservations
        BY <4>2 DEF Charged, ReservationsRegistered
      <4> QED
        BY <1>4, <4>1, <4>2 DEF Reserve
    <3> QED
      BY <1>4, <3>1, <3>2, ReserveEffect
  <2>3. BudgetRespected'
    <3> SUFFICES ASSUME NEW e \in Engagements, Registered(e)'
                 PROVE  /\ Cardinality(Reserved(e)') <= Policy(e)'.actions_used
                        /\ Policy(e)'.actions_used <= Policy(e)'.max_actions
      BY DEF BudgetRespected
    <3>1. Registered(e) /\ Cardinality(Reserved(e)) \in Nat
      BY <1>4, ReserveEffect, ReservedFinite DEF Charged
    <3>2. /\ Policy(e) \in PolicyRecords
          /\ Policy(e).actions_used \in Nat
          /\ Policy(e).max_actions \in Nat
          /\ Cardinality(Reserved(e)) <= Policy(e).actions_used
          /\ Policy(e).actions_used <= Policy(e).max_actions
      BY <3>1, RowType DEF Charged, BudgetRespected
    <3>3. CASE e = Key(w)[1]
      <4>1. /\ Policy(e)'.actions_used = Policy(e).actions_used + 1
            /\ Policy(e)'.max_actions = Policy(e).max_actions
        BY <1>4, <3>2, <3>3, ReserveEffect DEF PolicyRecords
      <4> QED
        BY <1>4, <3>1, <3>2, <3>3, <4>1, ReserveEffect
    <3>4. CASE e # Key(w)[1]
      BY <1>4, <3>2, <3>4, ReserveEffect
    <3> QED
      BY <3>3, <3>4
  <2> QED
    BY <1>1, <2>1, <2>2, <2>3 DEF Charged
<1> QED
  BY <1>2, <1>3, <1>4, TablesUnchanged DEF vars, dbVars

LEMMA ChargedInit == Init => Charged
<1> SUFFICES ASSUME Init PROVE Charged
  OBVIOUS
<1>1. TypeOK
  BY PolicyAssumption DEF Init, ExecutorInit, TypeOK, Keys, Steps, RecordStatuses
<1> QED
  BY <1>1, FS_EmptySet DEF Init, Charged, ReservationsRegistered, BudgetRespected, Registered

\* No schedule of calls, crashes, retries and operator commands takes more
\* actions than the budget of an engagement.
THEOREM BudgetSafe == Spec => []BudgetRespected
<1>1. Charged => BudgetRespected
  BY DEF Charged
<1> QED
  BY <1>1, ChargedInit, ChargedStep, PTL DEF Spec

-----------------------------------------------------------------------------
(***************************************************************************)
(* What a step may never do.                                               *)
(***************************************************************************)
\* The policy that Reserve charges is not revoked and permits the request.
LEMMA ReservePermitted ==
    ASSUME NEW w \in Workers, Reserve(w)
    PROVE  /\ ~Policy(Key(w)[1]).revoked
           /\ TypeOK => StaticallyPermitted(Policy(Key(w)[1]), call[w].req)
<1> DEFINE p == Policy(Key(w)[1])
           r == call[w].req
<1>1. Allows(evaluate_action(p, authority[Key(w)[1]].status, r, call[w].current))
  BY DEF Reserve, Reservable
<1> HIDE DEF p, r
<1>2. ~p.revoked
  BY <1>1 DEF Allows, evaluate_action
<1>3. /\ r.capability \in p.permitted
      /\ ~(ImpactRank[r.impact] > ImpactRank[p.max_impact])
      /\ r.target \in p.scope
      /\ NeedsApproval(p, r) => r.approved
  BY <1>1 DEF Allows, evaluate_action
<1>4. ASSUME TypeOK PROVE ImpactRank[r.impact] \in Nat /\ ImpactRank[p.max_impact] \in Nat
  <2>1. r \in RequestRecords
    BY <1>4, CallType, PolicyAssumption DEF Reserve, r
  <2>2. p \in PolicyRecords
    BY <1>4, CallType, RowType DEF Reserve, Reservable, p
  <2> QED
    BY <2>1, <2>2 DEF ImpactRank, RequestRecords, PolicyRecords, Impacts
<1> QED
  BY <1>2, <1>3, <1>4 DEF StaticallyPermitted, p, r

LEMMA RevocationStep ==
    ASSUME Charged, Next, NEW e \in Engagements, Registered(e), Policy(e).revoked
    PROVE  Registered(e)' /\ Policy(e)'.revoked /\ Reserved(e)' = Reserved(e)
<1>1. CASE UNCHANGED dbVars
  BY <1>1 DEF dbVars, Registered, Policy, Reserved
<1>2. CASE Operator
  <2>1. Policy(e) \in PolicyRecords
    BY RowType DEF Charged
  <2>2. [Policy(e) EXCEPT !.revoked = TRUE].revoked
    BY <2>1 DEF PolicyRecords
  <2> QED
    BY <1>2, <2>2, OperatorEffect DEF Charged, Reserved
<1>3. ASSUME NEW w \in Workers, Reserve(w)
      PROVE  Registered(e)' /\ Policy(e)'.revoked /\ Reserved(e)' = Reserved(e)
  <2>1. e # Key(w)[1]
    BY <1>3, ReservePermitted
  <2> QED
    BY <1>3, <2>1, ReserveEffect
<1> QED
  BY <1>1, <1>2, <1>3, TablesUnchanged

\* A revocation is never undone and nothing is reserved after it, by any
\* command, call or crash.
THEOREM RevocationSafe == Spec => RevocationIsFinal
<1>1. Charged /\ [Next]_vars =>
        [\A e \in Engagements : Registered(e) /\ Policy(e).revoked =>
           /\ Registered(e)' /\ Policy(e)'.revoked
           /\ Reserved(e)' = Reserved(e)]_vars
  BY RevocationStep
<1> QED
  BY <1>1, ChargedInit, ChargedStep, PTL DEF Spec, RevocationIsFinal

LEMMA ChargeStep ==
    ASSUME Charged, Next, NEW e \in Engagements, Registered(e)
    PROVE  Policy(e)'.actions_used + Cardinality(Reserved(e))
             = Policy(e).actions_used + Cardinality(Reserved(e)')
<1>1. CASE UNCHANGED dbVars
  BY <1>1 DEF dbVars, Policy, Reserved
<1>2. Policy(e) \in PolicyRecords /\ Policy(e).actions_used \in Nat
  BY RowType DEF Charged
<1>3. CASE Operator
  <2>1. [Policy(e) EXCEPT !.revoked = TRUE].actions_used = Policy(e).actions_used
    BY <1>2 DEF PolicyRecords
  <2>2. Reserved(e)' = Reserved(e)
    BY <1>3, OperatorEffect DEF Charged, Reserved
  <2> QED
    BY <1>3, <2>1, <2>2, OperatorEffect DEF Charged
<1>4. ASSUME NEW w \in Workers, Reserve(w)
      PROVE  Policy(e)'.actions_used + Cardinality(Reserved(e))
               = Policy(e).actions_used + Cardinality(Reserved(e)')
  <2>1. CASE e = Key(w)[1]
    <3>1. Policy(e)'.actions_used = Policy(e).actions_used + 1
      BY <1>2, <1>4, <2>1, ReserveEffect DEF PolicyRecords
    <3>2. Cardinality(Reserved(e)') = Cardinality(Reserved(e)) + 1
      BY <1>4, <2>1, ReserveEffect
    <3>3. Cardinality(Reserved(e)) \in Nat
      BY ReservedFinite DEF Charged
    <3> QED
      BY <1>2, <3>1, <3>2, <3>3
  <2>2. CASE e # Key(w)[1]
    BY <1>4, <2>2, ReserveEffect
  <2> QED
    BY <2>1, <2>2
<1> QED
  BY <1>1, <1>3, <1>4, TablesUnchanged

\* Each reservation costs exactly one unit, and no unit is given back.
THEOREM ChargesSafe == Spec => ChargesAreExact
<1>1. Charged /\ [Next]_vars =>
        [\A e \in Engagements : Registered(e) =>
           Policy(e)'.actions_used + Cardinality(Reserved(e))
             = Policy(e).actions_used + Cardinality(Reserved(e)')]_vars
  BY ChargeStep
<1> QED
  BY <1>1, ChargedInit, ChargedStep, PTL DEF Spec, ChargesAreExact

-----------------------------------------------------------------------------
(***************************************************************************)
(* The log and the processes.  A reservation is held by one call; the step *)
(* that call has reached fixes what the log and the process of its action  *)
(* look like, and no other call touches them.                              *)
(***************************************************************************)
Logged == /\ TypeOK
          /\ HoldersReserved
          /\ ExclusiveReservation
          /\ UnreservedUntouched
          /\ StepMatchesLog
          /\ LogTellsTheRun
          /\ RunningIsSupervised

\* What a step of call w leaves alone: the other calls, and its own key for as
\* long as it goes on.
OnlyMoves(w) == /\ pc' = [pc EXCEPT ![w] = pc'[w]]
                /\ \A v \in Workers \ {w} : call'[v] = call[v]
                /\ pc'[w] # "idle" => Key(w)' = Key(w)

LEMMA ExecuteMoves ==
    ASSUME TypeOK, NEW w \in Workers, Execute(w)
    PROVE  OnlyMoves(w)
<1> USE DEF OnlyMoves, GoTo, Return, Key, TypeOK
<1>1. CASE RecordStarted(w)
  BY <1>1 DEF RecordStarted
<1>2. CASE Launch(w) \/ KillChild(w)
  BY <1>2 DEF Launch, KillChild
<1>3. ASSUME NEW s, Fail(w, s, pc'[w]), pc[w] # "idle"
      PROVE  OnlyMoves(w)
  <2>1. call' = [call EXCEPT ![w] = [call[w] EXCEPT !.status = s]]
    BY <1>3 DEF Fail
  <2>2. [call[w] EXCEPT !.status = s].key = call[w].key
    BY <1>3 DEF Calls
  <2> QED
    BY <1>3, <2>1, <2>2 DEF Fail
<1>4. CASE PollCancel(w)
  BY <1>3, <1>4 DEF PollCancel, Fail
<1>5. CASE PollRevalidate(w, LeaseValid(w))
  BY <1>3, <1>5 DEF PollRevalidate, Fail
<1>6. CASE PollWait(w)
  BY <1>3, <1>6 DEF PollWait, Fail
<1>7. CASE RecordResult(w)
  BY <1>7 DEF RecordResult
<1> QED
  BY <1>1, <1>2, <1>4, <1>5, <1>6, <1>7 DEF Execute

\* The four ways a step of the call can change what it holds.
Shape(w) ==
    \/ /\ pc[w] \in Supervising /\ pc'[w] \in Supervising
       /\ UNCHANGED <<child, results>>
    \/ /\ pc[w] = "start" /\ pc'[w] = "launch"
       /\ results' = [results EXCEPT ![Key(w)] = Append(@, "started")]
       /\ UNCHANGED child
    \/ /\ pc[w] = "launch" /\ pc'[w] = "poll"
       /\ child' = [child EXCEPT ![Key(w)] = "running"]
       /\ UNCHANGED results
    \/ /\ pc[w] = "launch" /\ pc'[w] = "record"
       /\ UNCHANGED <<child, results>>
    \/ /\ pc[w] = "kill" /\ pc'[w] = "record"
       /\ child' = [child EXCEPT ![Key(w)] = "exited"]
       /\ UNCHANGED results
    \/ /\ pc[w] = "start" /\ pc'[w] = "idle"
       /\ UNCHANGED <<child, results>>
    \/ /\ pc[w] = "record" /\ pc'[w] = "idle"
       /\ \/ \E t \in TerminalStatuses :
                results' = [results EXCEPT ![Key(w)] = Append(@, t)]
          \/ UNCHANGED results
       /\ UNCHANGED child

LEMMA ExecuteShape ==
    ASSUME TypeOK, NEW w \in Workers, Execute(w)
    PROVE  Shape(w) /\ UNCHANGED <<orphans, reservations>>
<1> USE DEF Shape, GoTo, Return, Fail, TypeOK, Supervising, dbVars
<1>1. CASE RecordStarted(w)
  BY <1>1 DEF RecordStarted, AppendRecord, Execute
<1>2. CASE Launch(w) \/ KillChild(w)
  BY <1>2 DEF Launch, KillChild, Execute
<1>3. CASE PollCancel(w)
  BY <1>3 DEF PollCancel, Execute
<1>4. CASE PollRevalidate(w, LeaseValid(w))
  BY <1>4 DEF PollRevalidate, Execute
<1>5. CASE PollWait(w)
  BY <1>5 DEF PollWait, Execute
<1>6. CASE RecordResult(w)
  <2>1. call[w].status \in TerminalStatuses
    BY <1>6, CallType DEF RecordResult
  <2> QED
    BY <1>6, <2>1 DEF RecordResult, AppendRecord, Execute
<1> QED
  BY <1>1, <1>2, <1>3, <1>4, <1>5, <1>6 DEF Execute

\* A step of the loop or of the clean-up keeps the log in agreement.
LEMMA LoggedExecute ==
    ASSUME Logged, NEW w \in Workers, Execute(w), TypeOK'
    PROVE  Logged'
<1> DEFINE k == Key(w)
<1>1. OnlyMoves(w) /\ Shape(w) /\ UNCHANGED <<orphans, reservations>>
  BY ExecuteMoves, ExecuteShape DEF Logged
<1>2. pc[w] \in Holding /\ k \in reservations /\ k \in Keys
  <2>1. pc[w] \in Holding
    BY <1>1 DEF Shape, Holding, Steps, Supervising
  <2> QED
    BY <2>1, CallType DEF Logged, HoldersReserved, Holding
<1>3. \A v \in Workers \ {w} : pc'[v] = pc[v] /\ Key(v)' = Key(v)
  BY <1>1 DEF OnlyMoves, Logged, TypeOK, Key
<1>4. \A v \in Workers \ {w} : pc[v] \in Holding => Key(v) # k
  BY <1>2 DEF Logged, ExclusiveReservation
<1>5. pc'[w] # "idle" => pc'[w] \in Holding /\ Key(w)' = k
  BY <1>1 DEF OnlyMoves, Shape, Supervising, Holding, Steps
<1>6. \A j \in Keys \ {k} : results'[j] = results[j] /\ child'[j] = child[j]
  BY <1>1, <1>2 DEF Shape, Logged, TypeOK
<1>7. /\ pc[w] \in {"validate", "start"} => results[k] = <<>> /\ child[k] = "none"
      /\ pc[w] = "launch" => results[k] = <<"started">> /\ child[k] = "none"
      /\ pc[w] \in Supervising => results[k] = <<"started">> /\ child[k] # "none"
      /\ pc[w] = "record" => results[k] = <<"started">> /\ child[k] # "running"
  BY DEF Logged, StepMatchesLog
<1>8. /\ pc'[w] \in {"validate", "start"} => results'[k] = <<>> /\ child'[k] = "none"
      /\ pc'[w] = "launch" => results'[k] = <<"started">> /\ child'[k] = "none"
      /\ pc'[w] \in Supervising => results'[k] = <<"started">> /\ child'[k] # "none"
      /\ pc'[w] = "record" => results'[k] = <<"started">> /\ child'[k] # "running"
      /\ pc'[w] = "idle" => child'[k] = child[k] /\ child[k] # "running"
      /\ pc'[w] = "idle" => \/ results'[k] = results[k]
                            \/ \E t \in TerminalStatuses : results'[k] = Append(<<"started">>, t)
  <2>1. Append(<<>>, "started") = <<"started">>
    OBVIOUS
  <2>2. /\ \A x : [results EXCEPT ![k] = x][k] = x
        /\ \A x : [child EXCEPT ![k] = x][k] = x
    BY <1>2 DEF Logged, TypeOK
  <2> HIDE DEF k
  <2>3. CASE pc[w] \in Supervising /\ pc'[w] \in Supervising /\ UNCHANGED <<child, results>>
    BY <2>3, <1>7 DEF Supervising
  <2>4. CASE pc[w] = "start"
    BY <2>1, <2>2, <2>4, <1>1, <1>7, ZenonT(60) DEF Shape, Supervising, k
  <2>5. CASE pc[w] = "launch"
    BY <2>2, <2>5, <1>1, <1>7 DEF Shape, Supervising, k
  <2>6. CASE pc[w] = "kill" /\ pc'[w] = "record"
    BY <2>2, <2>6, <1>1, <1>7 DEF Shape, Supervising, k
  <2>7. CASE pc[w] = "record"
    BY <2>1, <2>2, <2>7, <1>1, <1>7, ZenonT(60) DEF Shape, Supervising, k
  <2> QED
    BY <2>3, <2>4, <2>5, <2>6, <2>7, <1>1 DEF Shape, k
<1>9. HoldersReserved'
  BY <1>1, <1>2, <1>3, <1>5 DEF Logged, HoldersReserved, Holding
<1>10. ExclusiveReservation'
  BY <1>2, <1>3, <1>4, <1>5 DEF Logged, ExclusiveReservation, Holding
<1>11. UnreservedUntouched'
  BY <1>1, <1>2, <1>6 DEF Logged, UnreservedUntouched
<1> HIDE DEF k
<1>12. StepMatchesLog'
  <2> SUFFICES ASSUME NEW v \in Workers
               PROVE  StepMatchesLog!(v)'
    BY DEF StepMatchesLog
  <2>1. CASE v = w
    BY <2>1, <1>5, <1>8 DEF Supervising
  <2>2. CASE v # w
    <3>1. CASE pc[v] \in Holding
      <4>1. Key(v) \in Keys \ {k}
        BY <2>2, <3>1, <1>4, CallType DEF Logged, Holding
      <4> QED
        BY <2>2, <4>1, <1>3, <1>6 DEF Logged, StepMatchesLog
    <3>2. CASE pc[v] \notin Holding
      BY <2>2, <3>2, <1>3 DEF Holding, Steps, Supervising
    <3> QED
      BY <3>1, <3>2
  <2> QED
    BY <2>1, <2>2
<1>13. LogTellsTheRun'
  <2> SUFFICES ASSUME NEW j \in Keys
               PROVE  LogTellsTheRun!(j)'
    BY DEF LogTellsTheRun
  <2>1. CASE j = k
    <3>1. k \in reservations'
      BY <1>1, <1>2
    <3>2. CASE pc'[w] = "idle"
      <4>1. /\ results[k] \in {<<>>, <<"started">>}
               \/ \E t \in TerminalStatuses : results[k] = Append(<<"started">>, t)
            /\ child[k] # "none" => results[k] # <<>>
        BY <1>2 DEF Logged, LogTellsTheRun
      <4> QED
        BY <2>1, <3>1, <3>2, <4>1, <1>8
    <3>3. CASE pc'[w] # "idle"
      <4>1. pc'[w] \in {"launch", "record"} \cup Supervising
        BY <3>3, <1>1 DEF Shape, Supervising
      <4>2. <<"started">> # <<>>
        OBVIOUS
      <4> QED
        BY <2>1, <3>1, <4>1, <4>2, <1>8
    <3> QED
      BY <3>2, <3>3
  <2>2. CASE j # k
    BY <2>2, <1>1, <1>6 DEF Logged, LogTellsTheRun
  <2> QED
    BY <2>1, <2>2
<1>14. RunningIsSupervised'
  <2> SUFFICES ASSUME NEW j \in Keys, child'[j] = "running", j \notin orphans
               PROVE  \E v \in Workers : pc'[v] \in Supervising /\ Key(v)' = j
    BY <1>1 DEF RunningIsSupervised
  <2>1. CASE j = k
    BY <2>1, <1>5, <1>8, <1>1 DEF Shape, Supervising
  <2>2. CASE j # k
    <3>1. PICK v \in Workers : pc[v] \in Supervising /\ Key(v) = j
      BY <2>2, <1>6 DEF Logged, RunningIsSupervised
    <3> QED
      BY <2>2, <3>1, <1>3 DEF k
  <2> QED
    BY <2>1, <2>2
<1> QED
  BY <1>9, <1>10, <1>11, <1>12, <1>13, <1>14 DEF Logged

\* A call that ends without touching the log or a running process.
LEMMA LoggedReturn ==
    ASSUME Logged, NEW w \in Workers, Return(w), TypeOK',
           UNCHANGED <<child, results, reservations>>,
           \/ UNCHANGED orphans /\ pc[w] \notin Supervising
           \/ orphans' = orphans \cup {Key(w)}
    PROVE  Logged'
<1>1. pc'[w] = "idle" /\ \A v \in Workers \ {w} : pc'[v] = pc[v] /\ Key(v)' = Key(v)
  BY DEF Return, Logged, TypeOK, Key
<1>2. HoldersReserved'
  BY <1>1 DEF Logged, HoldersReserved, Holding
<1>3. ExclusiveReservation'
  BY <1>1 DEF Logged, ExclusiveReservation, Holding
<1>4. UnreservedUntouched' /\ LogTellsTheRun'
  BY DEF Logged, UnreservedUntouched, LogTellsTheRun
<1>5. StepMatchesLog'
  BY <1>1 DEF Logged, StepMatchesLog, Supervising
<1>6. RunningIsSupervised'
  <2> SUFFICES ASSUME NEW j \in Keys, child[j] = "running", j \notin orphans'
               PROVE  \E v \in Workers : pc'[v] \in Supervising /\ Key(v)' = j
    BY DEF RunningIsSupervised
  <2>1. PICK v \in Workers : pc[v] \in Supervising /\ Key(v) = j
    BY DEF Logged, RunningIsSupervised
  <2>2. v # w
    BY <2>1
  <2> QED
    BY <2>1, <2>2, <1>1
<1> QED
  BY <1>2, <1>3, <1>4, <1>5, <1>6 DEF Logged

LEMMA LoggedEnter ==
    ASSUME Logged, NEW w \in Workers, EnterCall(w), TypeOK'
    PROVE  Logged'
<1>1. /\ pc[w] = "idle" /\ pc'[w] = "reserve"
      /\ \A v \in Workers \ {w} : pc'[v] = pc[v] /\ Key(v)' = Key(v)
      /\ UNCHANGED <<child, orphans, results, reservations>>
  BY DEF EnterCall, Enter, GoTo, Logged, TypeOK, Key, dbVars
<1>2. HoldersReserved'
  BY <1>1 DEF Logged, HoldersReserved, Holding
<1>3. ExclusiveReservation'
  BY <1>1 DEF Logged, ExclusiveReservation, Holding
<1>4. UnreservedUntouched' /\ LogTellsTheRun'
  BY <1>1 DEF Logged, UnreservedUntouched, LogTellsTheRun
<1>5. StepMatchesLog'
  BY <1>1 DEF Logged, StepMatchesLog, Supervising
<1>6. RunningIsSupervised'
  <2> SUFFICES ASSUME NEW j \in Keys, child[j] = "running", j \notin orphans
               PROVE  \E v \in Workers : pc'[v] \in Supervising /\ Key(v)' = j
    BY <1>1 DEF RunningIsSupervised
  <2>1. PICK v \in Workers : pc[v] \in Supervising /\ Key(v) = j
    BY DEF Logged, RunningIsSupervised
  <2>2. v # w
    BY <2>1, <1>1 DEF Supervising
  <2> QED
    BY <2>1, <2>2, <1>1
<1> QED
  BY <1>2, <1>3, <1>4, <1>5, <1>6 DEF Logged

\* Reserve takes a key nobody reserved, so its log is empty and no call holds it.
LEMMA LoggedReserve ==
    ASSUME Logged, NEW w \in Workers, Reserve(w), TypeOK'
    PROVE  Logged'
<1> DEFINE k == Key(w)
<1>1. /\ pc[w] = "reserve" /\ pc'[w] = "validate"
      /\ \A v \in Workers \ {w} : pc'[v] = pc[v]
      /\ \A v \in Workers : Key(v)' = Key(v)
      /\ reservations' = reservations \cup {k}
      /\ k \notin reservations
      /\ UNCHANGED <<child, orphans, results>>
  BY DEF Reserve, Reservable, GoTo, Logged, TypeOK, Key
<1>2. k \in Keys /\ results[k] = <<>> /\ child[k] = "none"
  BY <1>1, CallType DEF Logged, UnreservedUntouched
<1> HIDE DEF k
<1>3. \A v \in Workers \ {w} : pc[v] \in Holding => Key(v) # k
  BY <1>1 DEF Logged, HoldersReserved
<1>4. HoldersReserved'
  BY <1>1 DEF Logged, HoldersReserved, k
<1>5. ExclusiveReservation'
  BY <1>1, <1>3 DEF Logged, ExclusiveReservation, Holding, k
<1>6. UnreservedUntouched' /\ LogTellsTheRun'
  BY <1>1 DEF Logged, UnreservedUntouched, LogTellsTheRun
<1>7. StepMatchesLog'
  BY <1>1, <1>2 DEF Logged, StepMatchesLog, Supervising, k
<1>8. RunningIsSupervised'
  <2> SUFFICES ASSUME NEW j \in Keys, child[j] = "running", j \notin orphans
               PROVE  \E v \in Workers : pc'[v] \in Supervising /\ Key(v)' = j
    BY <1>1 DEF RunningIsSupervised
  <2>1. PICK v \in Workers : pc[v] \in Supervising /\ Key(v) = j
    BY DEF Logged, RunningIsSupervised
  <2>2. v # w
    BY <2>1, <1>1 DEF Supervising
  <2> QED
    BY <2>1, <2>2, <1>1
<1> QED
  BY <1>4, <1>5, <1>6, <1>7, <1>8 DEF Logged

LEMMA LoggedValidate ==
    ASSUME Logged, NEW w \in Workers, Validate(w), TypeOK'
    PROVE  Logged'
<1>1. /\ pc[w] = "validate" /\ pc'[w] = "start"
      /\ \A v \in Workers \ {w} : pc'[v] = pc[v]
      /\ \A v \in Workers : Key(v)' = Key(v)
      /\ UNCHANGED <<child, orphans, results, reservations>>
  BY DEF Validate, GoTo, Logged, TypeOK, Key, dbVars
<1>2. HoldersReserved'
  BY <1>1 DEF Logged, HoldersReserved, Holding, Steps
<1>3. ExclusiveReservation'
  BY <1>1 DEF Logged, ExclusiveReservation, Holding, Steps
<1>4. UnreservedUntouched' /\ LogTellsTheRun'
  BY <1>1 DEF Logged, UnreservedUntouched, LogTellsTheRun
<1>5. StepMatchesLog'
  BY <1>1 DEF Logged, StepMatchesLog, Supervising
<1>6. RunningIsSupervised'
  BY <1>1 DEF Logged, RunningIsSupervised, Supervising
<1> QED
  BY <1>2, <1>3, <1>4, <1>5, <1>6 DEF Logged

LEMMA LoggedStep == Logged /\ [Next]_vars => Logged'
<1> SUFFICES ASSUME Logged, [Next]_vars PROVE Logged'
  OBVIOUS
<1>1. TypeOK'
  BY TypeStep DEF Logged
<1>2. CASE UNCHANGED <<pc, call, child, orphans, results, reservations>>
  BY <1>1, <1>2 DEF Logged, HoldersReserved, ExclusiveReservation, UnreservedUntouched,
                    StepMatchesLog, LogTellsTheRun, RunningIsSupervised, Key
<1>3. CASE UNCHANGED vars \/ Operator \/ Tick
  BY <1>2, <1>3 DEF vars, execVars, Operator, Register, ImportLegacy, SetStatus, Revoke,
                    Tick, dbVars
<1>4. ASSUME NEW w \in Workers, Environment(w)
      PROVE  Logged'
  BY <1>2, <1>4 DEF Environment, SetCancel, DeadlinePasses, dbVars
<1>5. ASSUME NEW w \in Workers, ReserveFails(w) \/ ValidateFails(w)
      PROVE  Logged'
  BY <1>1, <1>5, LoggedReturn DEF ReserveFails, ValidateFails, dbVars, Supervising
<1>6. ASSUME NEW w \in Workers, CrashCall(w)
      PROVE  Logged'
  BY <1>1, <1>6, LoggedReturn DEF CrashCall, Crash, dbVars
<1>7. ASSUME NEW k \in Keys, Exit(k)
      PROVE  Logged'
  <2>1. /\ child[k] = "running" /\ child' = [child EXCEPT ![k] = "exited"]
        /\ UNCHANGED <<pc, call, orphans, results, reservations>>
    BY <1>7 DEF Exit, ChildExits, dbVars
  <2>2. child'[k] = "exited" /\ \A j \in Keys \ {k} : child'[j] = child[j]
    BY <2>1 DEF Logged, TypeOK
  <2>3. \A v \in Workers : Key(v)' = Key(v) /\ (pc[v] \in Holding => Key(v) \in Keys)
    BY <2>1, CallType DEF Key, Logged, Holding
  <2>4. HoldersReserved' /\ ExclusiveReservation'
    BY <2>1, <2>3 DEF Logged, HoldersReserved, ExclusiveReservation
  <2>5. UnreservedUntouched'
    BY <2>1, <2>2 DEF Logged, UnreservedUntouched
  <2>6. StepMatchesLog'
    <3> SUFFICES ASSUME NEW v \in Workers PROVE StepMatchesLog!(v)'
      BY DEF StepMatchesLog
    <3>1. CASE pc[v] \in Holding /\ Key(v) = k
      BY <3>1, <2>1, <2>2, <2>3 DEF Logged, StepMatchesLog, Supervising
    <3>2. CASE pc[v] \in Holding /\ Key(v) # k
      BY <3>2, <2>1, <2>2, <2>3 DEF Logged, StepMatchesLog, Supervising
    <3>3. CASE pc[v] \notin Holding
      BY <3>3, <2>1 DEF Holding, Steps, Supervising
    <3> QED
      BY <3>1, <3>2, <3>3
  <2>7. LogTellsTheRun'
    <3> SUFFICES ASSUME NEW j \in Keys PROVE LogTellsTheRun!(j)'
      BY DEF LogTellsTheRun
    <3>1. CASE j = k
      BY <3>1, <2>1, <2>2 DEF Logged, LogTellsTheRun
    <3>2. CASE j # k
      BY <3>2, <2>1, <2>2 DEF Logged, LogTellsTheRun
    <3> QED
      BY <3>1, <3>2
  <2>8. RunningIsSupervised'
    BY <2>1, <2>2, <2>3 DEF Logged, RunningIsSupervised
  <2> QED
    BY <1>1, <2>4, <2>5, <2>6, <2>7, <2>8 DEF Logged
<1> QED
  BY <1>1, <1>3, <1>4, <1>5, <1>6, <1>7, LoggedEnter, LoggedReserve, LoggedValidate,
     LoggedExecute DEF Next, CallStep

\* The result log of every action tells one run, a process exists only for a
\* reserved and recorded action, two calls never share one, and only a dead
\* coordinator leaves a process without supervision.
THEOREM LogSafe ==
    Spec => [](ExclusiveReservation /\ LogTellsTheRun /\ RunningIsSupervised)
<1>1. Init => Logged
  <2> SUFFICES ASSUME Init PROVE Logged
    OBVIOUS
  <2>1. TypeOK
    BY ChargedInit DEF Charged
  <2> QED
    BY <2>1 DEF Init, ExecutorInit, Logged, HoldersReserved, ExclusiveReservation,
       UnreservedUntouched, StepMatchesLog, LogTellsTheRun, RunningIsSupervised, Holding,
       Supervising
<1>2. Logged => ExclusiveReservation /\ LogTellsTheRun /\ RunningIsSupervised
  BY DEF Logged
<1> QED
  BY <1>1, <1>2, LoggedStep, PTL DEF Spec

\* A running process is watched by the one call that launched it, or its
\* coordinator died: no error path of the poll loop leaves one behind.
THEOREM SupervisionSafe == Spec => []RunningIsSupervised
BY LogSafe, PTL

-----------------------------------------------------------------------------
(***************************************************************************)
(* The requests that run.  Nothing replaces the permissions of a           *)
(* registered policy, so what reserve checked stays true of a reservation. *)
(***************************************************************************)
Permitted == Charged /\ OnlyPermittedRequestsRun

SamePermissions(p, q) ==
    /\ p.permitted = q.permitted
    /\ p.approval_required = q.approval_required
    /\ p.max_impact = q.max_impact
    /\ p.scope = q.scope

LEMMA PermissionsKept ==
    ASSUME Charged, Next, NEW e \in Engagements, Registered(e)
    PROVE  Registered(e)' /\ SamePermissions(Policy(e)', Policy(e))
<1>1. Policy(e) \in PolicyRecords
  BY RowType DEF Charged
<1>2. CASE UNCHANGED dbVars
  BY <1>2 DEF dbVars, Registered, Policy, SamePermissions
<1>3. CASE Operator
  <2>1. SamePermissions([Policy(e) EXCEPT !.revoked = TRUE], Policy(e))
    BY <1>1 DEF SamePermissions, PolicyRecords
  <2> QED
    BY <1>3, <2>1, OperatorEffect DEF Charged, SamePermissions
<1>4. ASSUME NEW w \in Workers, Reserve(w)
      PROVE  Registered(e)' /\ SamePermissions(Policy(e)', Policy(e))
  <2>1. SamePermissions([Policy(e) EXCEPT !.actions_used = @ + 1], Policy(e))
    BY <1>1 DEF SamePermissions, PolicyRecords
  <2> QED
    BY <1>4, <2>1, ReserveEffect DEF SamePermissions
<1> QED
  BY <1>2, <1>3, <1>4, TablesUnchanged

\* A call keeps its key and its request until it ends.
LEMMA RequestKept ==
    ASSUME TypeOK, Next, NEW v \in Workers, pc'[v] \in Holding,
           ~Reserve(v)
    PROVE  pc[v] \in Holding /\ call'[v].key = call[v].key /\ call'[v].req = call[v].req
<1> USE DEF TypeOK, Holding, Steps
<1>1. CASE Operator \/ Tick \/ \E k \in Keys : Exit(k)
  BY <1>1 DEF Operator, Register, ImportLegacy, SetStatus, Revoke, Tick, Exit, ChildExits, execVars
<1>2. ASSUME NEW w \in Workers,
             EnterCall(w) \/ ReserveFails(w) \/ Validate(w) \/ ValidateFails(w)
                \/ Environment(w) \/ CrashCall(w)
      PROVE  pc[v] \in Holding /\ call'[v].key = call[v].key /\ call'[v].req = call[v].req
  BY <1>2 DEF EnterCall, Enter, ReserveFails, Validate, ValidateFails, Environment, SetCancel,
              DeadlinePasses, CrashCall, Crash, Return, GoTo
<1>3. ASSUME NEW w \in Workers, Reserve(w)
      PROVE  pc[v] \in Holding /\ call'[v].key = call[v].key /\ call'[v].req = call[v].req
  BY <1>3 DEF Reserve, GoTo
<1>4. ASSUME NEW w \in Workers, Execute(w)
      PROVE  pc[v] \in Holding /\ call'[v].key = call[v].key /\ call'[v].req = call[v].req
  <2>1. ASSUME NEW s, pc[w] \in Holding, Fail(w, s, pc'[w])
        PROVE  pc[v] \in Holding /\ call'[v].key = call[v].key /\ call'[v].req = call[v].req
    <3>1. call' = [call EXCEPT ![w] = [call[w] EXCEPT !.status = s]]
      BY <2>1 DEF Fail
    <3>2. /\ [call[w] EXCEPT !.status = s].key = call[w].key
          /\ [call[w] EXCEPT !.status = s].req = call[w].req
      BY <2>1 DEF Calls
    <3> QED
      BY <2>1, <3>1, <3>2 DEF Fail, GoTo
  <2>2. CASE RecordStarted(w) \/ Launch(w) \/ KillChild(w) \/ RecordResult(w)
    BY <2>2 DEF RecordStarted, Launch, KillChild, RecordResult, GoTo, Return
  <2>3. CASE PollCancel(w)
    BY <2>1, <2>3 DEF PollCancel, GoTo, Fail
  <2>4. CASE PollRevalidate(w, LeaseValid(w))
    BY <2>1, <2>4 DEF PollRevalidate, GoTo, Fail
  <2>5. CASE PollWait(w)
    BY <2>1, <2>5 DEF PollWait, GoTo, Fail
  <2> QED
    BY <1>4, <2>2, <2>3, <2>4, <2>5 DEF Execute
<1> QED
  BY <1>1, <1>2, <1>3, <1>4 DEF Next, CallStep

LEMMA PermittedStep == Permitted /\ [Next]_vars => Permitted'
<1> SUFFICES ASSUME Permitted, [Next]_vars PROVE Permitted'
  OBVIOUS
<1>1. Charged'
  BY ChargedStep DEF Permitted
<1>2. CASE UNCHANGED vars
  BY <1>1, <1>2 DEF vars, execVars, Permitted, OnlyPermittedRequestsRun, Registered, Policy, Key
<1>3. CASE Next
  <2> SUFFICES ASSUME NEW v \in Workers, pc'[v] \in Holding
               PROVE  /\ Registered(Key(v)[1])'
                      /\ StaticallyPermitted(Policy(Key(v)[1])', call'[v].req)
    BY <1>1 DEF Permitted, OnlyPermittedRequestsRun
  <2>1. /\ call'[v].key = call[v].key /\ call'[v].req = call[v].req
        /\ Key(v)[1] \in Engagements
        /\ Registered(Key(v)[1])
        /\ StaticallyPermitted(Policy(Key(v)[1]), call[v].req)
    <3>1. CASE Reserve(v)
      BY <3>1, CallType, ReservePermitted DEF Permitted, Charged, Reserve, Reservable
    <3>2. CASE ~Reserve(v)
      <4>1. pc[v] \in Holding /\ call'[v].key = call[v].key /\ call'[v].req = call[v].req
        BY <1>3, <3>2, RequestKept DEF Permitted, Charged
      <4> QED
        BY <4>1, CallType DEF Permitted, Charged, OnlyPermittedRequestsRun, Holding
    <3> QED
      BY <3>1, <3>2
  <2> DEFINE e == Key(v)[1]
  <2>2. Registered(e)' /\ SamePermissions(Policy(e)', Policy(e))
    <3>1. ASSUME NEW f \in Engagements, Registered(f)
          PROVE  /\ authority'[f] # NoRow
                 /\ SamePermissions(authority'[f].policy, authority[f].policy)
      BY <1>3, <3>1, PermissionsKept DEF Permitted, Registered, Policy
    <3> QED
      BY <2>1, <3>1 DEF Registered, Policy, Key
  <2> QED
    BY <2>1, <2>2 DEF SamePermissions, StaticallyPermitted, NeedsApproval, Policy, Registered, Key
<1> QED
  BY <1>2, <1>3

\* Only requests that the registered policy permits, impact ceiling included,
\* ever hold a reservation, although validate_reserved does not check it again.
THEOREM PermittedSafe == Spec => []OnlyPermittedRequestsRun
<1>1. Init => Permitted
  BY ChargedInit DEF Init, ExecutorInit, Permitted, OnlyPermittedRequestsRun, Holding
<1>2. Permitted => OnlyPermittedRequestsRun
  BY DEF Permitted
<1> QED
  BY <1>1, <1>2, PermittedStep, PTL DEF Spec

\* The inductive invariant holds in every reachable state.
THEOREM InvariantHolds == Spec => []IndInv
<1>1. Init => Logged /\ Permitted
  <2> SUFFICES ASSUME Init PROVE Logged /\ Permitted
    OBVIOUS
  <2>1. TypeOK /\ Charged
    BY ChargedInit DEF Charged
  <2> QED
    BY <2>1 DEF Init, ExecutorInit, Logged, HoldersReserved, ExclusiveReservation,
       UnreservedUntouched, StepMatchesLog, LogTellsTheRun, RunningIsSupervised, Holding,
       Supervising, Permitted, OnlyPermittedRequestsRun
<1>2. Logged /\ Permitted => IndInv
  BY DEF Logged, Permitted, Charged, IndInv
<1> QED
  BY <1>1, <1>2, LoggedStep, PermittedStep, PTL DEF Spec

-----------------------------------------------------------------------------
(***************************************************************************)
(* Refinement.                                                             *)
(***************************************************************************)
\* The free units of an engagement only change when its row is created or charged.
LEMMA FreeKept ==
    ASSUME Charged, Next, NEW e \in Engagements, Registered(e)
    PROVE  /\ Registered(e)'
           /\ Free(e) \in Nat
           /\ (\A w \in Workers : ~Reserve(w)) => Free(e)' = Free(e)
           /\ \A w \in Workers : Reserve(w) =>
                 Free(e)' = IF e = Key(w)[1] THEN Free(e) - 1 ELSE Free(e)
<1>1. /\ Policy(e) \in PolicyRecords /\ Policy(e).actions_used \in Nat
      /\ Policy(e).max_actions \in Nat
      /\ Policy(e).actions_used <= Policy(e).max_actions
  BY RowType DEF Charged, BudgetRespected
<1>2. Free(e) \in Nat
  BY <1>1 DEF Free
<1>3. Registered(e)'
  BY PermissionsKept
<1>4. ASSUME UNCHANGED dbVars PROVE Free(e)' = Free(e)
  BY <1>4 DEF dbVars, Registered, Policy, Free
<1>5. ASSUME Operator PROVE Free(e)' = Free(e)
  <2>1. /\ [Policy(e) EXCEPT !.revoked = TRUE].actions_used = Policy(e).actions_used
        /\ [Policy(e) EXCEPT !.revoked = TRUE].max_actions = Policy(e).max_actions
    BY <1>1 DEF PolicyRecords
  <2>2. /\ Policy(e)'.actions_used = Policy(e).actions_used
        /\ Policy(e)'.max_actions = Policy(e).max_actions
    BY <1>5, <2>1, OperatorEffect DEF Charged
  <2> QED
    BY <1>3, <2>2 DEF Free
<1>6. ASSUME NEW w \in Workers, Reserve(w)
      PROVE  Free(e)' = IF e = Key(w)[1] THEN Free(e) - 1 ELSE Free(e)
  <2>1. CASE e = Key(w)[1]
    <3>1. /\ Policy(e)'.actions_used = Policy(e).actions_used + 1
          /\ Policy(e)'.max_actions = Policy(e).max_actions
      BY <1>1, <1>6, <2>1, ReserveEffect DEF PolicyRecords
    <3> QED
      BY <1>1, <1>3, <2>1, <3>1 DEF Free
  <2>2. CASE e # Key(w)[1]
    BY <1>3, <1>6, <2>2, ReserveEffect DEF Free
  <2> QED
    BY <2>1, <2>2
<1>7. (\A w \in Workers : ~Reserve(w)) => Free(e)' = Free(e)
  BY <1>4, <1>5, TablesUnchanged
<1> QED
  BY <1>2, <1>3, <1>6, <1>7

LEMMA FreeType == Charged => \A e \in Engagements : Free(e) \in Nat
<1> SUFFICES ASSUME Charged, NEW e \in Engagements, Registered(e) PROVE Free(e) \in Nat
  BY DEF Free
<1> QED
  BY RowType DEF Charged, BudgetRespected, Free

LEMMA FreeTypeNext == Charged' => (\A e \in Engagements : Free(e) \in Nat)'
BY FreeType, PTL

AbsAuthorised == {e \in Engagements : Registered(e)}
AbsFree == [e \in Engagements |-> Free(e)]
AbsWithdrawn == {e \in Engagements : Registered(e) /\ Policy(e).revoked}
AbsLaunched == {k \in Keys : child[k] # "none"}
AbsEnded == {k \in Keys : child[k] = "exited"}

\* A step that changes neither table shows in the abstract state only through
\* the processes.
LEMMA AbsTables ==
    ASSUME UNCHANGED dbVars
    PROVE  UNCHANGED <<AbsAuthorised, AbsFree, AbsWithdrawn, reservations>>
<1>1. UNCHANGED <<authority, reservations>>
  BY DEF dbVars
<1> QED
  BY <1>1 DEF AbsAuthorised, AbsFree, AbsWithdrawn, Free, Registered, Policy

LEMMA RefineProcess ==
    ASSUME Logged, UNCHANGED dbVars, NEW k \in Keys,
           \/ UNCHANGED child
           \/ /\ child[k] = "none" /\ k \in reservations
              /\ child' = [child EXCEPT ![k] = "running"]
           \/ /\ child[k] # "none"
              /\ child' = [child EXCEPT ![k] = "exited"]
    PROVE  [Governed!Next]_(Governed!vars)
<1>0. child \in [Keys -> {"none", "running", "exited"}]
  BY DEF Logged, TypeOK
<1>1. UNCHANGED <<AbsAuthorised, AbsFree, AbsWithdrawn, reservations>>
  BY AbsTables
<1>2. CASE UNCHANGED child
  <2>1. UNCHANGED <<AbsLaunched, AbsEnded>>
    BY <1>2 DEF AbsLaunched, AbsEnded
  <2> QED
    BY <1>1, <2>1 DEF Governed!vars, AbsAuthorised, AbsFree, AbsWithdrawn, AbsLaunched, AbsEnded
<1>3. CASE /\ child[k] = "none" /\ k \in reservations
           /\ child' = [child EXCEPT ![k] = "running"]
  <2>1. /\ k \in reservations \ AbsLaunched
        /\ AbsLaunched' = AbsLaunched \cup {k}
        /\ AbsEnded' = AbsEnded
    BY <1>0, <1>3 DEF AbsLaunched, AbsEnded
  <2>2. Governed!Launch(k)
    BY <1>1, <2>1 DEF Governed!Launch, AbsAuthorised, AbsFree, AbsWithdrawn, AbsLaunched, AbsEnded
  <2> QED
    BY <2>2 DEF Governed!Next, Keys
<1>4. CASE /\ child[k] # "none"
           /\ child' = [child EXCEPT ![k] = "exited"]
  <2>1. CASE child[k] = "exited"
    <3>1. child' = child
      BY <1>0, <1>4, <2>1
    <3> QED
      BY <1>2, <3>1
  <2>2. CASE child[k] = "running"
    <3>1. /\ k \in AbsLaunched \ AbsEnded
          /\ AbsLaunched' = AbsLaunched
          /\ AbsEnded' = AbsEnded \cup {k}
      BY <1>0, <1>4, <2>2 DEF AbsLaunched, AbsEnded
    <3>2. Governed!End(k)
      BY <1>1, <3>1 DEF Governed!End, AbsAuthorised, AbsFree, AbsWithdrawn, AbsLaunched, AbsEnded
    <3> QED
      BY <3>2 DEF Governed!Next, Keys
  <2> QED
    BY <1>0, <1>4, <2>1, <2>2
<1> QED
  BY <1>2, <1>3, <1>4

LEMMA RefineReserve ==
    ASSUME Charged, Next, NEW w \in Workers, Reserve(w)
    PROVE  Governed!Next
<1> DEFINE k == Key(w)
           e == k[1]
<1>1. k \in Keys /\ e \in Engagements
  BY CallType DEF Charged, Reserve
<1>2. /\ Registered(e) /\ k \notin reservations
      /\ reservations' = reservations \cup {k}
      /\ UNCHANGED child
  BY DEF Reserve, Reservable
<1>3. e \notin AbsWithdrawn
  BY ReservePermitted DEF AbsWithdrawn
<1>4. Free(e) > 0
  <2>1. Policy(e).actions_used \in Nat /\ Policy(e).max_actions \in Nat
    BY <1>1, <1>2, RowType DEF Charged
  <2>2. Policy(e).actions_used < Policy(e).max_actions
    BY <1>1, ReserveEffect
  <2> QED
    BY <1>2, <2>1, <2>2 DEF Free
<1>5. /\ AbsAuthorised' = AbsAuthorised
      /\ AbsFree' = [AbsFree EXCEPT ![e] = @ - 1]
  <2>1. \A f \in Engagements : Registered(f)' <=> Registered(f)
    BY ReserveEffect
  <2>2. \A f \in Engagements : Free(f)' = IF f = e THEN Free(f) - 1 ELSE Free(f)
    <3> SUFFICES ASSUME NEW f \in Engagements
                 PROVE  Free(f)' = IF f = e THEN Free(f) - 1 ELSE Free(f)
      OBVIOUS
    <3>1. CASE Registered(f)
      BY <3>1, FreeKept
    <3>2. CASE ~Registered(f)
      BY <3>2, <2>1, <1>2 DEF Free
    <3> QED
      BY <3>1, <3>2
  <2> HIDE DEF e
  <2> QED
    BY <2>1, <2>2 DEF AbsAuthorised, AbsFree
<1>6. AbsWithdrawn' = AbsWithdrawn
  <2>1. ASSUME NEW f \in Engagements
        PROVE  (Registered(f) /\ Policy(f).revoked)' <=> (Registered(f) /\ Policy(f).revoked)
    <3>1. CASE f = e
      <4>1. Policy(e) \in PolicyRecords
        BY <1>1, <1>2, RowType DEF Charged
      <4>2. Policy(f)'.revoked = Policy(f).revoked
        BY <3>1, <4>1, <1>1, ReserveEffect DEF PolicyRecords
      <4> QED
        BY <4>2, ReserveEffect
    <3>2. CASE f # e
      BY <3>2, ReserveEffect
    <3> QED
      BY <3>1, <3>2
  <2> QED
    BY <2>1 DEF AbsWithdrawn
<1>7. UNCHANGED <<AbsLaunched, AbsEnded>>
  BY <1>2 DEF AbsLaunched, AbsEnded
<1>8. Governed!Grant(k)
  <2>1. e \in AbsAuthorised \ AbsWithdrawn /\ AbsFree[e] > 0
    BY <1>1, <1>2, <1>3, <1>4 DEF AbsAuthorised, AbsFree
  <2> HIDE DEF k
  <2> QED
    BY <1>1, <1>2, <1>5, <1>6, <1>7, <2>1
       DEF Governed!Grant, AbsAuthorised, AbsFree, AbsWithdrawn, AbsLaunched, AbsEnded
<1> QED
  BY <1>1, <1>8 DEF Governed!Next, Keys

LEMMA RefineOperator ==
    ASSUME Charged, Next, Operator, Charged'
    PROVE  [Governed!Next]_(Governed!vars)
<1>1. UNCHANGED <<reservations, child>>
  BY DEF Operator, Register, ImportLegacy, SetStatus, Revoke, execVars
<1>2. UNCHANGED <<AbsLaunched, AbsEnded>>
  BY <1>1 DEF AbsLaunched, AbsEnded
<1> DEFINE new == {f \in Engagements : ~Registered(f) /\ Registered(f)'}
<1>3. /\ AbsFree' \in [Engagements -> Nat]
      /\ AbsAuthorised' = AbsAuthorised \cup new
      /\ AbsAuthorised \cap new = {}
      /\ \A f \in Engagements \ new : AbsFree'[f] = AbsFree[f]
  <2>1. \A f \in Engagements : Free(f)' \in Nat
    BY FreeTypeNext
  <2>2. \A f \in Engagements \ new : Free(f)' = Free(f)
    <3> SUFFICES ASSUME NEW f \in Engagements \ new PROVE Free(f)' = Free(f)
      OBVIOUS
    <3>1. \A w \in Workers : ~Reserve(w)
      BY <1>1 DEF Reserve, Reservable
    <3>2. CASE Registered(f)
      BY <3>1, <3>2, FreeKept
    <3>3. CASE ~Registered(f)
      BY <3>3 DEF Free
    <3> QED
      BY <3>2, <3>3
  <2>3. \A f \in Engagements : Registered(f) => Registered(f)'
    BY OperatorEffect DEF Charged
  <2> QED
    BY <2>1, <2>2, <2>3 DEF AbsFree, AbsAuthorised
<1>4. AbsWithdrawn \subseteq AbsWithdrawn'
  BY RevocationStep DEF AbsWithdrawn
<1>5. CASE \E f \in Engagements : Revoke(f)
  <2>1. PICK f \in Engagements : Revoke(f)
    BY <1>5
  <2>2. new = {} /\ AbsWithdrawn' \subseteq AbsWithdrawn \cup {f}
    <3>1. \A g \in Engagements \ {f} : authority'[g] = authority[g]
      BY <2>1 DEF Revoke, Charged, TypeOK
    <3> QED
      BY <2>1, <3>1 DEF Revoke, AbsWithdrawn, Registered, Policy
  <2>3. UNCHANGED <<AbsAuthorised, AbsFree>>
    BY <1>3, <2>2 DEF AbsFree
  <2>4. CASE f \in AbsWithdrawn'
    <3>1. Governed!Withdraw(f)
      <4>1. AbsWithdrawn' = AbsWithdrawn \cup {f}
        BY <1>4, <2>2, <2>4
      <4> QED
        BY <1>1, <1>2, <2>3, <4>1
           DEF Governed!Withdraw, AbsAuthorised, AbsFree, AbsWithdrawn, AbsLaunched, AbsEnded
    <3> QED
      BY <3>1 DEF Governed!Next
  <2>5. CASE f \notin AbsWithdrawn'
    <3>1. AbsWithdrawn' = AbsWithdrawn
      BY <1>4, <2>2, <2>5
    <3> QED
      BY <1>1, <1>2, <2>3, <3>1 DEF Governed!vars, AbsAuthorised, AbsFree, AbsWithdrawn, AbsLaunched, AbsEnded
  <2> QED
    BY <2>4, <2>5
<1>6. CASE ~\E f \in Engagements : Revoke(f)
  <2>1. AbsWithdrawn' \ AbsWithdrawn \subseteq new
    <3> SUFFICES ASSUME NEW f \in Engagements, Registered(f), Registered(f)', Policy(f)'.revoked
                 PROVE  Policy(f).revoked
      BY DEF AbsWithdrawn
    <3>1. authority \in [Engagements -> Rows \cup {NoRow}] /\ authority[f] \in Rows
      BY DEF Charged, TypeOK, Registered
    <3>2. ASSUME NEW g \in Engagements, NEW p \in Policies, NEW st \in StatusChoices,
                 Register(g, p, st)
          PROVE  Policy(f)' = Policy(f)
      BY <3>1, <3>2 DEF Register, Registered, Policy
    <3>3. ASSUME NEW E \in SUBSET Engagements, NEW doc \in [E -> Policies],
                 NEW st \in [E -> StatusChoices], ImportLegacy(doc, st)
          PROVE  Policy(f)' = Policy(f)
      BY <3>1, <3>3 DEF ImportLegacy, Registered, Policy
    <3>4. ASSUME NEW g \in Engagements, NEW st \in StatusChoices, SetStatus(g, st)
          PROVE  Policy(f)' = Policy(f)
      <4>1. authority' = [authority EXCEPT ![g] = [authority[g] EXCEPT !.status = st]]
        BY <3>4 DEF SetStatus
      <4>2. [authority[f] EXCEPT !.status = st].policy = authority[f].policy
        BY <3>1 DEF Rows
      <4> QED
        BY <3>1, <4>1, <4>2 DEF Policy
    <3> QED
      BY <1>6, <3>2, <3>3, <3>4 DEF Operator
  <2>2. Governed!Authorise(new)
    <3> HIDE DEF new
    <3> QED
      BY <1>1, <1>2, <1>3, <1>4, <2>1
         DEF Governed!Authorise, AbsAuthorised, AbsFree, AbsWithdrawn, AbsLaunched, AbsEnded
  <2> QED
    BY <2>2 DEF Governed!Next
<1> QED
  BY <1>5, <1>6

\* Every step of the authority and its executors is a step of GovernedActions
\* or changes nothing there.
LEMMA RefineStep ==
    Charged /\ Logged /\ Charged' /\ [Next]_vars => [Governed!Next]_(Governed!vars)
<1> SUFFICES ASSUME Charged, Logged, Charged', [Next]_vars
             PROVE  [Governed!Next]_(Governed!vars)
  OBVIOUS
<1>1. CASE Next /\ Operator
  BY <1>1, RefineOperator
<1>2. ASSUME Next, NEW w \in Workers, Reserve(w)
      PROVE  [Governed!Next]_(Governed!vars)
  BY <1>2, RefineReserve
<1>3. CASE UNCHANGED <<dbVars, child>>
  <2>1. UNCHANGED <<AbsAuthorised, AbsFree, AbsWithdrawn, reservations>>
    BY <1>3, AbsTables
  <2>2. UNCHANGED <<AbsLaunched, AbsEnded>>
    BY <1>3 DEF AbsLaunched, AbsEnded
  <2> QED
    BY <2>1, <2>2 DEF Governed!vars, AbsAuthorised, AbsFree, AbsWithdrawn, AbsLaunched, AbsEnded
<1>4. ASSUME NEW w \in Workers, Execute(w)
      PROVE  [Governed!Next]_(Governed!vars)
  <2>1. UNCHANGED dbVars /\ Shape(w)
    BY <1>4, ExecuteShape DEF Execute, Logged
  <2>2. pc[w] \in Holding /\ Key(w) \in Keys /\ Key(w) \in reservations
    <3>1. pc[w] \in Holding
      BY <2>1 DEF Shape, Holding, Steps, Supervising
    <3> QED
      BY <3>1, CallType DEF Logged, HoldersReserved, Holding
  <2>3. /\ pc[w] = "launch" => child[Key(w)] = "none"
        /\ pc[w] = "kill" => child[Key(w)] # "none"
    BY DEF Logged, StepMatchesLog, Supervising
  <2> QED
    BY <2>1, <2>2, <2>3, RefineProcess DEF Shape
<1>5. ASSUME NEW k \in Keys, Exit(k)
      PROVE  [Governed!Next]_(Governed!vars)
  BY <1>5, RefineProcess DEF Exit, ChildExits
<1>6. CASE UNCHANGED vars \/ Tick
  BY <1>3, <1>6 DEF vars, execVars, Tick, dbVars
<1>7. ASSUME NEW w \in Workers,
             EnterCall(w) \/ ReserveFails(w) \/ Validate(w) \/ ValidateFails(w)
                \/ Environment(w) \/ CrashCall(w)
      PROVE  [Governed!Next]_(Governed!vars)
  BY <1>3, <1>7 DEF EnterCall, Enter, ReserveFails, Validate, ValidateFails, Environment,
                    SetCancel, DeadlinePasses, CrashCall, Crash, dbVars
<1> QED
  BY <1>1, <1>2, <1>4, <1>5, <1>6, <1>7 DEF Next, CallStep

\* The authority and the executors it governs implement GovernedActions.
THEOREM Refinement == Spec => ImplementsGovernedActions
<1>1. Init => Governed!Init
  <2> SUFFICES ASSUME Init PROVE Governed!Init
    OBVIOUS
  <2>1. \A e \in Engagements : ~Registered(e)
    BY DEF Init, Registered
  <2>2. /\ AbsAuthorised = {} /\ AbsFree = [e \in Engagements |-> 0]
        /\ AbsWithdrawn = {} /\ AbsLaunched = {} /\ AbsEnded = {}
    BY <2>1 DEF Init, ExecutorInit, AbsAuthorised, AbsFree, AbsWithdrawn, AbsLaunched, AbsEnded,
                Free
  <2> QED
    BY <2>2 DEF Init, Governed!Init, AbsAuthorised, AbsFree, AbsWithdrawn, AbsLaunched, AbsEnded
<1>2. IndInv => Charged /\ Logged
  BY DEF IndInv, Charged, Logged
<1> QED
  BY <1>1, <1>2, InvariantHolds, RefineStep, PTL
     DEF Spec, ImplementsGovernedActions, Governed!Spec

=============================================================================
