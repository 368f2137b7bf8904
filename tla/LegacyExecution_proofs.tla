----------------------- MODULE LegacyExecution_proofs -----------------------
(***************************************************************************)
(* Proofs about LegacyExecution for every number of calls, engagements and *)
(* action identifiers, and for every policy and provisioning limit.        *)
(*                                                                         *)
(* TypeOK says nothing of the calls and of what they have seen beyond what *)
(* a reader wants to know; WellTyped is the part of it that is inductive.  *)
(***************************************************************************)
EXTENDS LegacyExecution, FiniteSetTheorems, TLAPS

\* The variables of CommandExecutor.
ExecTyped ==
    /\ pc \in [Workers -> Steps]
    /\ call \in [Workers -> Calls \cup {NoCall}]
    /\ \A w \in Workers : pc[w] # "idle" => call[w] \in Calls
    /\ child \in [Keys -> {"none", "running", "exited"}]
    /\ results \in [Keys -> Seq(RecordStatuses)]

WellTyped ==
    /\ TypeOK
    /\ ExecTyped
    /\ policyFile \in [Engagements -> PolicyRecords \cup {Absent}]
    /\ ledger \in [Engagements -> LedgerRows \cup {Absent}]
    /\ seen \in [Workers -> PolicyRecords \cup {Absent}]
    /\ reservations \subseteq Keys
    /\ IsFiniteSet(reservations)

\* A worker inside a call has a well-formed call record, with any status.
LEMMA CallType ==
    ASSUME WellTyped, NEW w \in Workers, pc[w] # "idle"
    PROVE  /\ call[w] \in Calls
           /\ Key(w) \in Keys
           /\ Key(w)[1] \in Engagements
           /\ call[w].status \in TerminalStatuses
           /\ \A s \in TerminalStatuses : [call[w] EXCEPT !.status = s] \in Calls
BY DEF WellTyped, ExecTyped, Key, Keys, Calls

\* The smaller and the larger of two counts.
LEMMA MinMaxOfTwo ==
    ASSUME NEW m \in Nat, NEW n \in Nat
    PROVE  /\ Min({m, n}) \in {m, n} /\ Min({m, n}) <= m /\ Min({m, n}) <= n
           /\ Max({m, n}) \in {m, n} /\ Max({m, n}) >= m /\ Max({m, n}) >= n
<1>1. \E x \in {m, n} : \A y \in {m, n} : x <= y
  OBVIOUS
<1>2. \E x \in {m, n} : \A y \in {m, n} : x >= y
  OBVIOUS
<1> QED
  BY <1>1, <1>2 DEF Min, Max

\* The row that reserve's transaction works with: within the limit of the policy
\* that was seen, and not behind what that policy had charged.
LEMMA TightenedRow ==
    ASSUME WellTyped, NEW w \in Workers, pc[w] = "ledger", ledger[Key(w)[1]] # Absent
    PROVE  LET row == ledger[Key(w)[1]] IN
           /\ row \in LedgerRows
           /\ Tightened(w) = [row EXCEPT !.limit = Tightened(w).limit, !.used = Tightened(w).used]
           /\ Tightened(w).limit \in Nat /\ Tightened(w).used \in Nat
           /\ Tightened(w).limit <= row.limit /\ Tightened(w).limit <= seen[w].max_actions
           /\ Tightened(w).used >= row.used /\ Tightened(w).used >= seen[w].actions_used
           /\ Tightened(w).revoked = row.revoked
<1> DEFINE row == ledger[Key(w)[1]]
<1>1. row \in LedgerRows
  BY CallType DEF WellTyped
<1>2. seen[w] \in PolicyRecords
  BY DEF WellTyped, TypeOK
<1>3. row.limit \in Nat /\ row.used \in Nat
  BY <1>1 DEF LedgerRows
<1>4. seen[w].max_actions \in Nat /\ seen[w].actions_used \in Nat
  BY <1>2 DEF PolicyRecords
<1>5. Tightened(w) = [row EXCEPT !.limit = Min({row.limit, seen[w].max_actions}),
                                 !.used = Max({row.used, seen[w].actions_used})]
  BY DEF Tightened
<1>6. /\ Tightened(w).limit = Min({row.limit, seen[w].max_actions})
      /\ Tightened(w).used = Max({row.used, seen[w].actions_used})
      /\ Tightened(w).revoked = row.revoked
  BY <1>1, <1>5 DEF LedgerRows
<1> HIDE DEF row
<1>7. /\ Min({row.limit, seen[w].max_actions}) \in Nat
      /\ Min({row.limit, seen[w].max_actions}) <= row.limit
      /\ Min({row.limit, seen[w].max_actions}) <= seen[w].max_actions
  BY <1>3, <1>4, MinMaxOfTwo
<1>8. /\ Max({row.used, seen[w].actions_used}) \in Nat
      /\ Max({row.used, seen[w].actions_used}) >= row.used
      /\ Max({row.used, seen[w].actions_used}) >= seen[w].actions_used
  BY <1>3, <1>4, MinMaxOfTwo
<1> QED
  BY <1>1, <1>5, <1>6, <1>7, <1>8 DEF row

\* What a reservation leaves in the ledger.
LEMMA ReservedRow ==
    ASSUME WellTyped, NEW w \in Workers, Reserve(w)
    PROVE  LET e == Key(w)[1] IN
           /\ e \in Engagements /\ Key(w) \in Keys
           /\ ledger[e] \in LedgerRows
           /\ ledger'[e] \in LedgerRows
           /\ \A f \in Engagements \ {e} : ledger'[f] = ledger[f]
           /\ ledger' \in [Engagements -> LedgerRows \cup {Absent}]
           /\ ledger'[e].used > ledger[e].used
           /\ ledger'[e].used > seen[w].actions_used
           /\ ledger'[e].used <= ledger'[e].limit
           /\ ledger'[e].limit <= ledger[e].limit
           /\ ledger'[e].limit <= seen[w].max_actions
           /\ ~ledger[e].revoked /\ ~ledger'[e].revoked
<1> DEFINE e == Key(w)[1]
           new == [Tightened(w) EXCEPT !.used = Tightened(w).used + 1]
<1>1. e \in Engagements /\ Key(w) \in Keys
  BY CallType DEF Reserve
<1>2. pc[w] = "ledger" /\ ledger[e] # Absent /\ ~ledger[e].revoked
  BY DEF Reserve
<1>3. /\ ledger[e] \in LedgerRows
      /\ Tightened(w) = [ledger[e] EXCEPT !.limit = Tightened(w).limit, !.used = Tightened(w).used]
      /\ Tightened(w).limit \in Nat /\ Tightened(w).used \in Nat
      /\ Tightened(w).limit <= ledger[e].limit /\ Tightened(w).limit <= seen[w].max_actions
      /\ Tightened(w).used >= ledger[e].used /\ Tightened(w).used >= seen[w].actions_used
      /\ Tightened(w).revoked = ledger[e].revoked
  BY <1>2, TightenedRow
<1>4. Tightened(w).used < Tightened(w).limit
  BY DEF Reserve
<1>5. seen[w].actions_used \in Nat /\ ledger[e].used \in Nat
  BY <1>2, <1>3 DEF WellTyped, TypeOK, PolicyRecords, LedgerRows
<1>6. Tightened(w) \in LedgerRows
  <2>1. Tightened(w).limit \in Nat \ {0}
    BY <1>3, <1>4
  <2>2. \A l \in Nat \ {0}, u \in Nat :
            [ledger[e] EXCEPT !.limit = l, !.used = u] \in LedgerRows
    BY <1>3 DEF LedgerRows
  <2> QED
    BY <1>3, <2>1, <2>2
<1>7. /\ new \in LedgerRows
      /\ new.used = Tightened(w).used + 1
      /\ new.limit = Tightened(w).limit
      /\ new.revoked = Tightened(w).revoked
  BY <1>6, <1>3 DEF LedgerRows
<1>8. ledger' = [ledger EXCEPT ![e] = new]
  BY DEF Reserve
<1> HIDE DEF e, new
<1>9. ledger'[e] = new /\ \A f \in Engagements \ {e} : ledger'[f] = ledger[f]
  BY <1>1, <1>8 DEF WellTyped
<1>10. ledger' \in [Engagements -> LedgerRows \cup {Absent}]
  BY <1>1, <1>7, <1>8 DEF WellTyped
<1> QED
  BY <1>1, <1>2, <1>3, <1>4, <1>5, <1>7, <1>9, <1>10 DEF e

\* A command on either file touches nothing else and keeps its rows well formed.
LEMMA OperatorType ==
    ASSUME WellTyped, Operator
    PROVE  /\ UNCHANGED <<execVars, reservations, seen, now>>
           /\ policyFile' \in [Engagements -> PolicyRecords \cup {Absent}]
           /\ ledger' \in [Engagements -> LedgerRows \cup {Absent}]
           /\ \A e \in Engagements : ledger[e] # Absent =>
                 /\ ledger'[e] # Absent
                 /\ ledger'[e].limit <= ledger[e].limit
                 /\ ledger'[e].used = ledger[e].used
                 /\ ledger[e].revoked => ledger'[e].revoked
<1> USE LegacyAssumption
<1> PICK e \in Engagements :
            \/ \E p \in Policies : SetPolicy(e, p)
            \/ RevokePolicy(e)
            \/ ConsumeAction(e)
            \/ \E n \in Limits, b \in BOOLEAN : Provision(e, n, b)
            \/ RevokeLedger(e)
  BY DEF Operator
<1>0. \A f \in Engagements : ledger[f] # Absent =>
          /\ ledger[f] \in LedgerRows
          /\ ledger[f].limit <= ledger[f].limit
  BY DEF WellTyped, LedgerRows
<1>1. CASE \E p \in Policies : SetPolicy(e, p)
  BY <1>0, <1>1 DEF SetPolicy, WellTyped, ValidPolicy
<1>2. CASE RevokePolicy(e)
  <2>1. [policyFile[e] EXCEPT !.revoked = TRUE] \in PolicyRecords
    BY <1>2 DEF RevokePolicy, WellTyped, PolicyRecords
  <2> QED
    BY <1>0, <1>2, <2>1 DEF RevokePolicy, WellTyped
<1>3. CASE ConsumeAction(e)
  <2>1. [policyFile[e] EXCEPT !.actions_used = policyFile[e].actions_used + 1] \in PolicyRecords
    BY <1>3 DEF ConsumeAction, WellTyped, PolicyRecords
  <2> QED
    BY <1>0, <1>3, <2>1 DEF ConsumeAction, WellTyped
<1>4. ASSUME NEW n \in Limits, NEW b \in BOOLEAN, Provision(e, n, b)
      PROVE  /\ UNCHANGED <<execVars, policyFile, reservations, seen, now>>
             /\ ledger' \in [Engagements -> LedgerRows \cup {Absent}]
             /\ \A f \in Engagements : ledger[f] # Absent =>
                   /\ ledger'[f] # Absent
                   /\ ledger'[f].limit <= ledger[f].limit
                   /\ ledger'[f].used = ledger[f].used
                   /\ ledger[f].revoked => ledger'[f].revoked
  <2> DEFINE fresh == [limit |-> n, used |-> 0, revoked |-> b]
             lower == [ledger[e] EXCEPT !.limit = Min({ledger[e].limit, n}),
                                        !.revoked = ledger[e].revoked \/ b]
  <2>1. UNCHANGED <<execVars, policyFile, reservations, seen, now>>
    BY <1>4 DEF Provision
  <2>2. CASE ledger[e] = Absent
    <3>1. ledger' = [ledger EXCEPT ![e] = fresh]
      BY <1>4, <2>2 DEF Provision
    <3>2. fresh \in LedgerRows
      BY DEF LedgerRows
    <3> QED
      BY <1>0, <2>1, <2>2, <3>1, <3>2 DEF WellTyped
  <2>3. CASE ledger[e] # Absent
    <3>1. ledger' = [ledger EXCEPT ![e] = lower]
      BY <1>4, <2>3 DEF Provision
    <3>2. ledger[e] \in LedgerRows /\ ledger[e].limit \in Nat \ {0} /\ n \in Nat \ {0}
      BY <1>0, <2>3 DEF LedgerRows
    <3>3. /\ Min({ledger[e].limit, n}) \in Nat \ {0}
          /\ Min({ledger[e].limit, n}) <= ledger[e].limit
      BY <3>2, MinMaxOfTwo
    <3>4. /\ lower \in LedgerRows
          /\ lower.limit = Min({ledger[e].limit, n})
          /\ lower.used = ledger[e].used
          /\ lower.revoked = (ledger[e].revoked \/ b)
      BY <3>2, <3>3 DEF LedgerRows
    <3> HIDE DEF lower
    <3>5. ledger'[e] = lower /\ \A f \in Engagements \ {e} : ledger'[f] = ledger[f]
      BY <3>1 DEF WellTyped
    <3>6. ledger' \in [Engagements -> LedgerRows \cup {Absent}]
      BY <3>1, <3>4 DEF WellTyped
    <3> QED
      BY <1>0, <2>1, <3>3, <3>4, <3>5, <3>6
  <2> QED
    BY <2>2, <2>3
<1>5. CASE RevokeLedger(e)
  <2> DEFINE new == [ledger[e] EXCEPT !.revoked = TRUE]
  <2>1. ledger' = [ledger EXCEPT ![e] = new] /\ ledger[e] \in LedgerRows
    BY <1>0, <1>5 DEF RevokeLedger
  <2>2. /\ new \in LedgerRows /\ new.limit = ledger[e].limit
        /\ new.used = ledger[e].used /\ new.revoked
    BY <2>1 DEF LedgerRows
  <2> HIDE DEF new
  <2>3. ledger'[e] = new /\ \A f \in Engagements \ {e} : ledger'[f] = ledger[f]
    BY <2>1 DEF WellTyped
  <2>4. ledger' \in [Engagements -> LedgerRows \cup {Absent}]
    BY <2>1, <2>2 DEF WellTyped
  <2>5. ledger[e].limit <= ledger[e].limit
    BY <1>0, <2>1
  <2> QED
    BY <1>0, <1>5, <2>1, <2>2, <2>3, <2>4, <2>5 DEF RevokeLedger, WellTyped
<1> QED
  BY <1>1, <1>2, <1>3, <1>4, <1>5 DEF WellTyped

\* The steps after the reservation keep the types of the executor's variables, and
\* none of them enters or leaves the ledger.
LEMMA RecheckTyped ==
    ASSUME WellTyped, NEW w \in Workers, Recheck(w)
    PROVE  ExecTyped' /\ \A v \in Workers : (pc'[v] = "ledger") = (pc[v] = "ledger")
<1>1. Key(w) \in Keys /\ ExecTyped /\ pc[w] = "validate"
  BY CallType DEF Recheck, WellTyped
<1>2. Append(results[Key(w)], "denied-after-reservation") \in Seq(RecordStatuses)
  BY <1>1 DEF ExecTyped, RecordStatuses
<1>3. CASE GoTo(w, "start") /\ UNCHANGED <<call, results, child>>
  BY <1>1, <1>3 DEF GoTo, ExecTyped, Steps
<1>4. CASE Return(w) /\ UNCHANGED child
             /\ (UNCHANGED results \/ AppendRecord(Key(w), "denied-after-reservation"))
  BY <1>1, <1>2, <1>4 DEF Return, AppendRecord, ExecTyped, Steps
<1> QED
  BY <1>3, <1>4 DEF Recheck

LEMMA ExecuteTyped ==
    ASSUME WellTyped, NEW w \in Workers, Execute(w)
    PROVE  ExecTyped' /\ \A v \in Workers : (pc'[v] = "ledger") = (pc[v] = "ledger")
<1>0. ExecTyped
  BY DEF WellTyped
<1> USE <1>0 DEF GoTo, Return, Fail, AppendRecord, ExecTyped, Steps
<1>1. CASE RecordStarted(w)
  <2>1. Key(w) \in Keys
    BY <1>1, CallType DEF RecordStarted
  <2>2. Append(results[Key(w)], "started") \in Seq(RecordStatuses)
    BY <2>1 DEF RecordStatuses
  <2> QED
    BY <1>1, <2>1, <2>2 DEF RecordStarted
<1>2. CASE Launch(w) \/ KillChild(w)
  BY <1>2 DEF Launch, KillChild
<1>3. CASE PollCancel(w) \/ PollRevalidate(w, LeaseValid(w)) \/ PollWait(w)
  <2>1. \A s \in TerminalStatuses : [call[w] EXCEPT !.status = s] \in Calls
    BY <1>3, CallType DEF PollCancel, PollRevalidate, PollWait
  <2>2. UNCHANGED <<child, results>> /\ pc[w] \in {"poll", "revalidate", "wait"}
    BY <1>3 DEF PollCancel, PollRevalidate, PollWait
  <2>3. CASE \E s \in TerminalStatuses : Fail(w, s, "kill")
    BY <2>1, <2>2, <2>3
  <2>4. CASE UNCHANGED call /\ \E step \in {"poll", "revalidate", "wait"} : GoTo(w, step)
    BY <2>2, <2>4
  <2> QED
    BY <1>3, <2>3, <2>4 DEF PollCancel, PollRevalidate, PollWait, TerminalStatuses
<1>4. CASE RecordResult(w)
  <2>1. Key(w) \in Keys /\ call[w].status \in TerminalStatuses
    BY <1>4, CallType DEF RecordResult
  <2>2. Append(results[Key(w)], call[w].status) \in Seq(RecordStatuses)
    BY <2>1 DEF RecordStatuses
  <2> QED
    BY <1>4, <2>1, <2>2 DEF RecordResult
<1> QED
  BY <1>1, <1>2, <1>3, <1>4 DEF Execute

\* Every step keeps the types.
LEMMA TypeStep == WellTyped /\ [Next]_vars => WellTyped'
<1> SUFFICES ASSUME WellTyped, [Next]_vars PROVE WellTyped'
  OBVIOUS
<1> USE LegacyAssumption DEF Steps, TerminalStatuses, RecordStatuses
<1>1. CASE UNCHANGED vars
  BY <1>1 DEF vars, execVars, storeVars, WellTyped, TypeOK, ExecTyped, Calls
<1>2. CASE Operator
  <2>1. \A k \in reservations : ledger'[k[1]] # Absent
    BY <1>2, OperatorType DEF WellTyped, TypeOK, ExecTyped, Keys
  <2> QED
    BY <1>2, <2>1, OperatorType DEF WellTyped, TypeOK, ExecTyped, execVars, Calls
<1>3. CASE Tick
  BY <1>3 DEF Tick, execVars, storeVars, WellTyped, TypeOK, ExecTyped
<1>4. ASSUME NEW w \in Workers, EnterCall(w)
      PROVE  WellTyped'
  BY <1>4 DEF EnterCall, Enter, GoTo, storeVars, WellTyped, TypeOK, ExecTyped, Calls
<1>5. ASSUME NEW w \in Workers, Decide(w)
      PROVE  WellTyped'
  <2>1. policyFile[Key(w)[1]] \in PolicyRecords
    BY <1>5, CallType DEF Decide, WellTyped
  <2> QED
    BY <1>5, <2>1 DEF Decide, GoTo, storeVars, WellTyped, TypeOK, ExecTyped
<1>6. ASSUME NEW w \in Workers, Reserve(w)
      PROVE  WellTyped'
  <2>1. /\ ledger' \in [Engagements -> LedgerRows \cup {Absent}]
        /\ ledger'[Key(w)[1]] \in LedgerRows /\ Key(w) \in Keys
        /\ \A f \in Engagements \ {Key(w)[1]} : ledger'[f] = ledger[f]
    BY <1>6, ReservedRow
  <2>2. reservations' = reservations \cup {Key(w)} /\ IsFiniteSet(reservations')
    BY <1>6, FS_AddElement DEF Reserve, WellTyped
  <2>3. \A k \in reservations' : ledger'[k[1]] # Absent
    BY <2>1, <2>2 DEF WellTyped, TypeOK, ExecTyped, Keys
  <2> QED
    BY <1>6, <2>1, <2>2, <2>3 DEF Reserve, GoTo, WellTyped, TypeOK, ExecTyped
<1>7. ASSUME NEW w \in Workers, Refused(w)
      PROVE  WellTyped'
  BY <1>7 DEF Refused, Return, storeVars, WellTyped, TypeOK, ExecTyped
<1>8. ASSUME NEW w \in Workers, Recheck(w) \/ Execute(w)
      PROVE  WellTyped'
  <2>1. ExecTyped' /\ \A v \in Workers : (pc'[v] = "ledger") = (pc[v] = "ledger")
    BY <1>8, RecheckTyped, ExecuteTyped
  <2>2. UNCHANGED <<storeVars, seen, now>>
    BY <1>8 DEF Recheck, Execute
  <2> QED
    BY <2>1, <2>2 DEF storeVars, WellTyped, TypeOK, ExecTyped
<1>9. ASSUME NEW w \in Workers, Environment(w) \/ CrashCall(w)
       PROVE  WellTyped'
  BY <1>9, ZenonT(60) DEF Environment, SetCancel, DeadlinePasses, CrashCall, Crash, Return, storeVars,
               WellTyped, TypeOK, ExecTyped
<1>10. ASSUME NEW k \in Keys, Exit(k)
       PROVE  WellTyped'
  BY <1>10 DEF Exit, ChildExits, storeVars, WellTyped, TypeOK, ExecTyped
<1> QED
  BY <1>1, <1>2, <1>3, <1>4, <1>5, <1>6, <1>7, <1>8, <1>9, <1>10
     DEF Next, NextNoCrash, CallStep

LEMMA TypeInit == Init => WellTyped
BY LegacyAssumption, FS_EmptySet
   DEF Init, ExecutorInit, WellTyped, TypeOK, ExecTyped, Keys, Steps, RecordStatuses, PolicyRecords, LedgerRows

-----------------------------------------------------------------------------
(***************************************************************************)
(* The ledger.  Only Reserve adds a reservation, and it counts one more    *)
(* than the row and the policy had; the commands lower limits, keep counts *)
(* and add revocations.                                                    *)
(***************************************************************************)
Counted == WellTyped /\ LedgerCountsGrants

\* What a step may do to the two tables: nothing, a command, or a reservation.
LEMMA TablesStep ==
    ASSUME [Next]_vars
    PROVE  \/ UNCHANGED <<ledger, reservations>>
           \/ Operator
           \/ \E w \in Workers : Reserve(w)
BY DEF Next, NextNoCrash, vars, storeVars, Tick, EnterCall, CallStep, Decide, Refused, Recheck,
       Execute, Environment, CrashCall, Exit

LEMMA ReservedFinite ==
    ASSUME WellTyped, NEW e
    PROVE  IsFiniteSet(Reserved(e)) /\ Cardinality(Reserved(e)) \in Nat
<1>1. Reserved(e) \subseteq reservations
  BY DEF Reserved
<1> QED
  BY <1>1, FS_Subset, FS_CardinalityType DEF WellTyped

LEMMA CountedStep == Counted /\ [Next]_vars => Counted'
<1> SUFFICES ASSUME Counted, [Next]_vars PROVE Counted'
  OBVIOUS
<1>1. WellTyped' /\ WellTyped
  BY TypeStep DEF Counted
<1> SUFFICES ASSUME NEW e \in Engagements, ledger'[e] # Absent
             PROVE  Cardinality(Reserved(e)') <= ledger'[e].used
  BY <1>1 DEF Counted, LedgerCountsGrants, WellTyped
<1>2. /\ Cardinality(Reserved(e)) \in Nat
      /\ ledger[e] # Absent => /\ Cardinality(Reserved(e)) <= ledger[e].used
                               /\ ledger[e].used \in Nat
      /\ ledger'[e].used \in Nat
  BY <1>1, ReservedFinite DEF Counted, LedgerCountsGrants, WellTyped, LedgerRows
<1>3. CASE UNCHANGED <<ledger, reservations>>
  BY <1>2, <1>3 DEF Reserved
<1>4. CASE Operator
  <2>1. Reserved(e)' = Reserved(e)
    BY <1>1, <1>4, OperatorType DEF Reserved
  <2>2. CASE ledger[e] # Absent
    BY <1>1, <1>2, <1>4, <2>1, <2>2, OperatorType
  <2>3. CASE ledger[e] = Absent
    <3>1. Reserved(e) = {}
      BY <1>1, <2>3 DEF Reserved, WellTyped, TypeOK
    <3> QED
      BY <1>2, <2>1, <3>1, FS_EmptySet
  <2> QED
    BY <2>2, <2>3
<1>5. ASSUME NEW w \in Workers, Reserve(w)
      PROVE  Cardinality(Reserved(e)') <= ledger'[e].used
  <2>1. reservations' = reservations \cup {Key(w)} /\ Key(w) \notin reservations
    BY <1>5 DEF Reserve
  <2>2. CASE e = Key(w)[1]
    <3>1. Reserved(e)' = Reserved(e) \cup {Key(w)} /\ Key(w) \notin Reserved(e)
      BY <2>1, <2>2 DEF Reserved
    <3>2. Cardinality(Reserved(e)') = Cardinality(Reserved(e)) + 1
      BY <1>1, <3>1, ReservedFinite, FS_AddElement
    <3>3. ledger'[e].used > ledger[e].used /\ ledger[e] # Absent
      BY <1>1, <1>5, <2>2, ReservedRow DEF Reserve
    <3> QED
      BY <1>2, <3>2, <3>3
  <2>3. CASE e # Key(w)[1]
    <3>1. Reserved(e)' = Reserved(e)
      BY <2>1, <2>3 DEF Reserved
    <3>2. ledger'[e] = ledger[e]
      BY <1>1, <1>5, <2>3, ReservedRow
    <3> QED
      BY <1>2, <3>1, <3>2
  <2> QED
    BY <2>2, <2>3
<1> QED
  BY <1>3, <1>4, <1>5, TablesStep

\* What TypeOK and the ledger's count say together.
LEMMA CountedInit == Init => Counted
BY TypeInit DEF Init, Counted, LedgerCountsGrants, WellTyped

\* Every variable of the two stores and of the calls keeps its type, whatever is
\* provisioned, revoked or retried.
THEOREM LegacyTypeCorrect == Spec => []TypeOK
<1>1. WellTyped => TypeOK
  BY DEF WellTyped
<1> QED
  BY <1>1, TypeInit, TypeStep, PTL DEF Spec

\* A grant stays within the limit of the policy that was seen and within the
\* ledger's own, and counts what the policy file had already charged
\* (AtomicActionLedger.reserve).
LEMMA GrantStep ==
    ASSUME WellTyped, [Next]_vars, NEW w \in Workers, pc[w] = "ledger", pc'[w] = "validate"
    PROVE  LET row == ledger'[Key(w)[1]] IN
           /\ row.used <= row.limit
           /\ row.limit <= seen[w].max_actions
           /\ row.used > seen[w].actions_used
<1>1. Reserve(w)
  <2> USE DEF ExecTyped, WellTyped, TypeOK
  <2>1. ASSUME NEW v \in Workers, EnterCall(v) \/ CallStep(v) \/ Environment(v) \/ CrashCall(v)
        PROVE  Reserve(w)
    <3>1. CASE v # w
      <4>1. pc'[w] = pc[w]
        BY <2>1, <3>1 DEF EnterCall, Enter, CallStep, Decide, Reserve, Refused, Recheck, Execute,
           RecordStarted, Launch, PollCancel, PollRevalidate, PollWait, KillChild, RecordResult,
           Environment, SetCancel, DeadlinePasses, CrashCall, Crash, GoTo, Return, Fail
      <4> QED
        BY <4>1
    <3>2. CASE v = w
      BY <2>1, <3>2 DEF EnterCall, Enter, CallStep, Decide, Refused, Recheck, Execute,
         RecordStarted, Launch, PollCancel, PollRevalidate, PollWait, KillChild, RecordResult,
         Environment, SetCancel, DeadlinePasses, CrashCall, Crash, GoTo, Return, Fail
    <3> QED
      BY <3>1, <3>2
  <2>2. CASE UNCHANGED pc
    BY <2>2
  <2>3. CASE Operator \/ Tick \/ (\E k \in Keys : Exit(k)) \/ UNCHANGED vars
    <3>1. UNCHANGED pc
      BY <2>3, OperatorType DEF Tick, Exit, ChildExits, vars, execVars
    <3> QED
      BY <3>1
  <2> QED
    BY <2>1, <2>2, <2>3 DEF Next, NextNoCrash
<1> QED
  BY <1>1, ReservedRow

\* No step raises a limit, lowers a count, lifts a revocation or grants after one.
LEMMA TightenStep ==
    ASSUME WellTyped, [Next]_vars, NEW e \in Engagements, ledger[e] # Absent
    PROVE  /\ ledger'[e] # Absent
           /\ ledger'[e].limit <= ledger[e].limit
           /\ ledger'[e].used >= ledger[e].used
           /\ ledger[e].revoked => ledger'[e].revoked /\ Reserved(e)' = Reserved(e)
<1>1. ledger[e] \in LedgerRows /\ ledger[e].limit \in Nat /\ ledger[e].used \in Nat
  BY DEF WellTyped, LedgerRows
<1>2. CASE UNCHANGED <<ledger, reservations>>
  BY <1>1, <1>2 DEF Reserved
<1>3. CASE Operator
  <2>1. Reserved(e)' = Reserved(e)
    BY <1>3, OperatorType DEF Reserved
  <2> QED
    BY <1>1, <1>3, <2>1, OperatorType
<1>4. ASSUME NEW w \in Workers, Reserve(w)
      PROVE  /\ ledger'[e] # Absent
             /\ ledger'[e].limit <= ledger[e].limit
             /\ ledger'[e].used >= ledger[e].used
             /\ ledger[e].revoked => ledger'[e].revoked /\ Reserved(e)' = Reserved(e)
  <2>1. CASE e = Key(w)[1]
    <3>1. ledger'[e] \in LedgerRows /\ ledger'[e].used \in Nat
      BY <1>4, <2>1, ReservedRow DEF LedgerRows
    <3> QED
      BY <1>1, <1>4, <2>1, <3>1, ReservedRow, LegacyAssumption
  <2>2. CASE e # Key(w)[1]
    <3>1. Reserved(e)' = Reserved(e)
      BY <1>4, <2>2 DEF Reserve, Reserved
    <3> QED
      BY <1>1, <1>4, <2>2, <3>1, ReservedRow
  <2> QED
    BY <2>1, <2>2
<1> QED
  BY <1>2, <1>3, <1>4, TablesStep

\* Whatever an operator does to either store while calls race, a grant fits the
\* budgets of both, and a ledger row only gets tighter and grants nothing once
\* it is revoked.
THEOREM LedgerGoverns == Spec => LedgerGovernsGrants
<1>1. WellTyped /\ [Next]_vars =>
        [\A w \in Workers : pc[w] = "ledger" /\ pc'[w] = "validate" =>
           LET row == ledger'[Key(w)[1]] IN
           /\ row.used <= row.limit
           /\ row.limit <= seen[w].max_actions
           /\ row.used > seen[w].actions_used]_vars
  BY GrantStep
<1>2. WellTyped /\ [Next]_vars =>
        [\A e \in Engagements : ledger[e] # Absent =>
           /\ ledger'[e] # Absent
           /\ ledger'[e].limit <= ledger[e].limit
           /\ ledger'[e].used >= ledger[e].used
           /\ ledger[e].revoked => ledger'[e].revoked /\ Reserved(e)' = Reserved(e)]_vars
  BY TightenStep
<1> QED
  BY <1>1, <1>2, TypeInit, TypeStep, PTL
     DEF Spec, LedgerGovernsGrants, GrantsWithinBothBudgets, LedgerOnlyTightens

-----------------------------------------------------------------------------
(***************************************************************************)
(* The log.  A reservation is held by one call; the step that call has     *)
(* reached fixes what the log and the process of its action look like, and *)
(* no other call touches them.  An action nobody reserved left no trace.   *)
(***************************************************************************)
Agrees(step, log, process) ==
    /\ step \in {"validate", "start"} => log = <<>> /\ process = "none"
    /\ step = "launch" => log = <<"started">> /\ process = "none"
    /\ step \in Supervising => log = <<"started">> /\ process # "none"
    /\ step = "record" => log = <<"started">> /\ process # "running"

TellsOneRun(log, process) ==
    /\ \/ log \in {<<>>, <<"started">>, <<"denied-after-reservation">>}
       \/ \E t \in TerminalStatuses : log = Append(<<"started">>, t)
    /\ process = "running" => log = <<"started">>

HoldersReserved == \A w \in Workers : pc[w] \in Holding => Key(w) \in reservations
HoldersDiffer ==
    \A v, w \in Workers :
        pc[v] \in Holding /\ pc[w] \in Holding /\ Key(v) = Key(w) => v = w
UnreservedUntouched ==
    \A k \in Keys \ reservations : results[k] = <<>> /\ child[k] = "none"
StepsAgree == \A w \in Workers : Agrees(pc[w], results[Key(w)], child[Key(w)])
LogsTell == \A k \in Keys : TellsOneRun(results[k], child[k])

Logged == /\ WellTyped
          /\ HoldersReserved
          /\ HoldersDiffer
          /\ UnreservedUntouched
          /\ StepsAgree
          /\ LogsTell

\* What a step of call w leaves alone: the other calls, and its own key for as
\* long as it goes on.
OnlyMoves(w) == /\ \A v \in Workers \ {w} : pc'[v] = pc[v] /\ Key(v)' = Key(v)
                /\ pc[w] # "idle" /\ pc'[w] # "idle" => Key(w)' = Key(w)

\* The ways a step of call w can change what it holds: not at all, by a
\* reservation, by a record, or by what becomes of the process.
Quiet(from, to) ==
    \/ from = "idle" /\ to = "reserve"
    \/ from = "reserve" /\ to = "ledger"
    \/ from = "validate" /\ to = "start"
    \/ from = "launch" /\ to = "record"
    \/ from \in Supervising /\ to \in Supervising
    \/ to = "idle"

Records(from, to, status) ==
    \/ from = "start" /\ to = "launch" /\ status = "started"
    \/ from = "validate" /\ to = "idle" /\ status = "denied-after-reservation"
    \/ from = "record" /\ to = "idle" /\ status \in TerminalStatuses

Shape(w) ==
    \/ /\ Quiet(pc[w], pc'[w])
       /\ UNCHANGED <<child, results, reservations>>
    \/ /\ pc[w] = "ledger" /\ pc'[w] = "validate"
       /\ Key(w) \notin reservations
       /\ reservations' = reservations \cup {Key(w)}
       /\ UNCHANGED <<child, results>>
    \/ /\ \E status \in RecordStatuses :
             /\ Records(pc[w], pc'[w], status)
             /\ results' = [results EXCEPT ![Key(w)] = Append(@, status)]
       /\ UNCHANGED <<child, reservations>>
    \/ /\ \/ pc[w] = "launch" /\ pc'[w] = "poll"
             /\ child' = [child EXCEPT ![Key(w)] = "running"]
          \/ pc[w] = "kill" /\ pc'[w] = "record"
             /\ child' = [child EXCEPT ![Key(w)] = "exited"]
       /\ UNCHANGED <<results, reservations>>

\* The step of one call, of whatever kind.
StepOf(w) == EnterCall(w) \/ CallStep(w) \/ CrashCall(w)

LEMMA StepMoves ==
    ASSUME WellTyped, NEW w \in Workers, StepOf(w)
    PROVE  OnlyMoves(w)
<1>0. ExecTyped
  BY DEF WellTyped
<1> USE <1>0 DEF OnlyMoves, GoTo, Return, Key, ExecTyped
<1>1. CASE EnterCall(w) \/ CrashCall(w)
  BY <1>1 DEF EnterCall, Enter, CrashCall, Crash
<1>2. CASE Decide(w) \/ Reserve(w) \/ Refused(w) \/ Recheck(w)
  BY <1>2 DEF Decide, Reserve, Refused, Recheck
<1>3. ASSUME NEW s, Fail(w, s, "kill"), pc[w] # "idle"
      PROVE  OnlyMoves(w)
  <2>1. call' = [call EXCEPT ![w] = [call[w] EXCEPT !.status = s]]
    BY <1>3 DEF Fail
  <2>2. [call[w] EXCEPT !.status = s].key = call[w].key
    BY <1>3 DEF Calls
  <2> QED
    BY <1>3, <2>1, <2>2 DEF Fail
<1>4. CASE Execute(w)
  <2>1. CASE RecordStarted(w) \/ Launch(w) \/ KillChild(w) \/ RecordResult(w)
    BY <2>1 DEF RecordStarted, Launch, KillChild, RecordResult
  <2>2. CASE PollCancel(w) \/ PollRevalidate(w, LeaseValid(w)) \/ PollWait(w)
    BY <1>3, <2>2 DEF PollCancel, PollRevalidate, PollWait
  <2> QED
    BY <1>4, <2>1, <2>2 DEF Execute
<1> QED
  BY <1>1, <1>2, <1>4 DEF StepOf, CallStep

LEMMA StepShape ==
    ASSUME WellTyped, NEW w \in Workers, StepOf(w)
    PROVE  Shape(w)
<1>0. ExecTyped
  BY DEF WellTyped
<1> USE <1>0 DEF Shape, Quiet, GoTo, Return, ExecTyped, storeVars
<1>1. CASE EnterCall(w) \/ CrashCall(w)
  BY <1>1 DEF EnterCall, Enter, CrashCall, Crash
<1>2. CASE Decide(w) \/ Reserve(w) \/ Refused(w)
  BY <1>2 DEF Decide, Reserve, Refused
<1>3. CASE Recheck(w)
  BY <1>3 DEF Recheck, AppendRecord, Records, RecordStatuses
<1>4. CASE Execute(w)
  <2>0. UNCHANGED reservations
    BY <1>4 DEF Execute
  <2>1. CASE RecordStarted(w)
    BY <2>0, <2>1 DEF RecordStarted, AppendRecord, Records, RecordStatuses
  <2>2. CASE Launch(w) \/ KillChild(w)
    BY <2>0, <2>2 DEF Launch, KillChild
  <2>3. CASE PollCancel(w) \/ PollRevalidate(w, LeaseValid(w)) \/ PollWait(w)
    BY <2>0, <2>3 DEF PollCancel, PollRevalidate, PollWait, Fail, Supervising
  <2>4. CASE RecordResult(w)
    <3>1. call[w].status \in TerminalStatuses
      BY <2>4, CallType DEF RecordResult
    <3> QED
      BY <2>0, <2>4, <3>1 DEF RecordResult, AppendRecord, Records, RecordStatuses
  <2> QED
    BY <1>4, <2>1, <2>2, <2>3, <2>4 DEF Execute
<1> QED
  BY <1>1, <1>2, <1>3, <1>4 DEF StepOf, CallStep

\* The reservations belong to one call each, before and after the step.
LEMMA HoldersStep ==
    ASSUME Logged, NEW w \in Workers, OnlyMoves(w), Shape(w), WellTyped'
    PROVE  HoldersReserved' /\ HoldersDiffer'
<1>1. reservations \subseteq reservations'
  BY DEF Shape
<1>2. pc'[w] \in Holding =>
         /\ Key(w)' = Key(w)
         /\ Key(w) \in reservations'
         /\ pc[w] \in Holding \/ Key(w) \notin reservations
  BY DEF Shape, Quiet, Records, OnlyMoves, Holding, Supervising, Steps, Logged, HoldersReserved,
         TerminalStatuses
<1>3. \A v \in Workers \ {w} : pc'[v] = pc[v] /\ Key(v)' = Key(v)
  BY DEF OnlyMoves
<1>4. HoldersReserved'
  BY <1>1, <1>2, <1>3 DEF Logged, HoldersReserved
<1>5. \A v \in Workers \ {w} : pc[v] \in Holding /\ pc'[w] \in Holding => Key(v) # Key(w)
  BY <1>2 DEF Logged, HoldersReserved, HoldersDiffer
<1>6. HoldersDiffer'
  BY <1>2, <1>3, <1>5 DEF Logged, HoldersDiffer
<1> QED
  BY <1>4, <1>6

\* What the step makes of the log and the process of its own action.
LEMMA OwnKeyStep ==
    ASSUME Logged, NEW w \in Workers, pc[w] # "idle", OnlyMoves(w), Shape(w)
    PROVE  /\ Agrees(pc'[w], results'[Key(w)], child'[Key(w)])
           /\ TellsOneRun(results'[Key(w)], child'[Key(w)])
           /\ Key(w) \notin reservations' =>
                 results'[Key(w)] = <<>> /\ child'[Key(w)] = "none"
<1> DEFINE k == Key(w)
<1> SUFFICES /\ Agrees(pc'[w], results'[k], child'[k])
             /\ TellsOneRun(results'[k], child'[k])
             /\ k \notin reservations' => results'[k] = <<>> /\ child'[k] = "none"
  OBVIOUS
<1>1. /\ k \in Keys
      /\ Agrees(pc[w], results[k], child[k])
      /\ TellsOneRun(results[k], child[k])
      /\ k \notin reservations => results[k] = <<>> /\ child[k] = "none"
  BY CallType DEF Logged, StepsAgree, LogsTell, UnreservedUntouched
<1>2. /\ \A x : [results EXCEPT ![k] = x][k] = x
      /\ \A x : [child EXCEPT ![k] = x][k] = x
  BY <1>1 DEF Logged, WellTyped, ExecTyped
<1>3. pc[w] \in Holding => k \in reservations
  BY DEF Logged, HoldersReserved
<1>4. <<"started">> = Append(<<>>, "started")
      /\ <<"denied-after-reservation">> = Append(<<>>, "denied-after-reservation")
  OBVIOUS
<1> HIDE DEF k
<1>5. CASE Quiet(pc[w], pc'[w]) /\ UNCHANGED <<child, results, reservations>>
  BY <1>1, <1>5 DEF Quiet, Agrees, Supervising
<1>6. CASE pc[w] = "ledger" /\ pc'[w] = "validate" /\ k \notin reservations
           /\ reservations' = reservations \cup {k} /\ UNCHANGED <<child, results>>
  BY <1>1, <1>6 DEF Agrees, Supervising
<1>7. ASSUME NEW status \in RecordStatuses, Records(pc[w], pc'[w], status),
             results' = [results EXCEPT ![k] = Append(results[k], status)],
             UNCHANGED <<child, reservations>>
      PROVE  /\ Agrees(pc'[w], results'[k], child'[k])
             /\ TellsOneRun(results'[k], child'[k])
             /\ k \notin reservations' => results'[k] = <<>> /\ child'[k] = "none"
  <2>1. results'[k] = Append(results[k], status) /\ child'[k] = child[k]
    BY <1>2, <1>7
  <2>2. k \in reservations'
    BY <1>3, <1>7 DEF Records, Holding, Steps
  <2>3. CASE pc[w] = "start" /\ pc'[w] = "launch" /\ status = "started"
    BY <1>1, <1>4, <2>1, <2>2, <2>3 DEF Agrees, TellsOneRun, Supervising
  <2>4. CASE pc[w] = "validate" /\ pc'[w] = "idle" /\ status = "denied-after-reservation"
    BY <1>1, <1>4, <2>1, <2>2, <2>4 DEF Agrees, TellsOneRun, Supervising
  <2>5. CASE pc[w] = "record" /\ pc'[w] = "idle" /\ status \in TerminalStatuses
    BY <1>1, <2>1, <2>2, <2>5 DEF Agrees, TellsOneRun, Supervising
  <2> QED
    BY <1>7, <2>3, <2>4, <2>5 DEF Records
<1>8. CASE pc[w] = "launch" /\ pc'[w] = "poll"
           /\ child' = [child EXCEPT ![k] = "running"] /\ UNCHANGED <<results, reservations>>
  BY <1>1, <1>2, <1>3, <1>8 DEF Agrees, TellsOneRun, Supervising, Holding, Steps
<1>9. CASE pc[w] = "kill" /\ pc'[w] = "record"
           /\ child' = [child EXCEPT ![k] = "exited"] /\ UNCHANGED <<results, reservations>>
  BY <1>1, <1>2, <1>3, <1>9 DEF Agrees, TellsOneRun, Supervising, Holding, Steps
<1> QED
  BY <1>5, <1>6, <1>7, <1>8, <1>9 DEF Shape, k

\* What belongs to other actions stays as it is.
LEMMA OtherKeysStep ==
    ASSUME Logged, NEW w \in Workers, Shape(w), NEW k \in Keys,
           pc[w] # "idle" => k # Key(w)
    PROVE  results'[k] = results[k] /\ child'[k] = child[k] /\ (k \in reservations' <=> k \in reservations)
<1>1. CASE UNCHANGED <<child, results, reservations>>
  BY <1>1
<1>2. CASE pc[w] # "idle"
  <2>1. Key(w) \in Keys /\ k # Key(w)
    BY <1>2, CallType DEF Logged
  <2> QED
    BY <2>1 DEF Shape, Logged, WellTyped, ExecTyped
<1> QED
  BY <1>1, <1>2 DEF Shape, Records

LEMMA LoggedCall ==
    ASSUME Logged, NEW w \in Workers, StepOf(w), WellTyped'
    PROVE  Logged'
<1>1. OnlyMoves(w) /\ Shape(w)
  BY StepMoves, StepShape DEF Logged
<1>2. HoldersReserved' /\ HoldersDiffer'
  BY <1>1, HoldersStep
<1>3. /\ UnreservedUntouched'
      /\ LogsTell'
  <2> SUFFICES ASSUME NEW k \in Keys
               PROVE  /\ k \notin reservations' => results'[k] = <<>> /\ child'[k] = "none"
                      /\ TellsOneRun(results'[k], child'[k])
    BY DEF UnreservedUntouched, LogsTell
  <2>1. CASE pc[w] # "idle" /\ k = Key(w)
    BY <1>1, <2>1, OwnKeyStep
  <2>2. CASE pc[w] # "idle" => k # Key(w)
    BY <1>1, <2>2, OtherKeysStep DEF Logged, UnreservedUntouched, LogsTell
  <2> QED
    BY <2>1, <2>2
<1>4. StepsAgree'
  <2> SUFFICES ASSUME NEW v \in Workers
               PROVE  Agrees(pc'[v], results'[Key(v)'], child'[Key(v)'])
    BY DEF StepsAgree
  <2>1. CASE v = w /\ pc[w] # "idle" /\ pc'[w] # "idle"
    BY <1>1, <2>1, OwnKeyStep DEF OnlyMoves
  <2>2. CASE pc'[v] \in {"idle", "reserve", "ledger"}
    BY <2>2 DEF Agrees, Supervising
  <2>3. CASE v # w /\ pc[v] \in Holding
    <3>1. pc'[v] = pc[v] /\ Key(v)' = Key(v) /\ Key(v) \in Keys
      BY <1>1, <2>3, CallType DEF OnlyMoves, Holding, Logged
    <3>2. CASE pc[w] # "idle" => Key(v) # Key(w)
      BY <1>1, <3>1, <3>2, OtherKeysStep DEF Logged, StepsAgree
    <3>3. CASE pc[w] # "idle" /\ Key(v) = Key(w)
      <4>1. pc[w] \notin Holding /\ Key(w) \in reservations
        BY <2>3, <3>3 DEF Logged, HoldersDiffer, HoldersReserved
      <4>2. UNCHANGED <<child, results>>
        BY <1>1, <4>1 DEF Shape, Quiet, Records, Holding, Steps
      <4> QED
        BY <3>1, <4>2 DEF Logged, StepsAgree
    <3> QED
      BY <3>2, <3>3
  <2>4. CASE pc'[v] \in Holding /\ v # w
    BY <1>1, <2>3, <2>4 DEF OnlyMoves
  <2>5. pc'[v] \in Steps /\ (pc[w] = "idle" => pc'[w] \in {"idle", "reserve"})
    BY <1>1 DEF WellTyped, ExecTyped, Shape, Quiet, Records, Supervising
  <2> QED
    BY <2>1, <2>2, <2>4, <2>5 DEF Holding
<1> QED
  BY <1>2, <1>3, <1>4 DEF Logged

LEMMA LoggedStep == Logged /\ [Next]_vars => Logged'
<1> SUFFICES ASSUME Logged, [Next]_vars PROVE Logged'
  OBVIOUS
<1>1. WellTyped' /\ WellTyped
  BY TypeStep DEF Logged
<1>2. CASE UNCHANGED <<pc, call, child, results, reservations>>
  BY <1>1, <1>2 DEF Logged, HoldersReserved, HoldersDiffer, UnreservedUntouched, StepsAgree,
                    LogsTell, Key
<1>3. CASE UNCHANGED vars \/ Operator \/ Tick \/ \E w \in Workers : Environment(w)
  <2>1. UNCHANGED <<pc, call, child, results, reservations>>
    BY <1>1, <1>3, OperatorType DEF vars, execVars, storeVars, Tick, Environment, SetCancel,
                                     DeadlinePasses
  <2> QED
    BY <1>2, <2>1
<1>4. ASSUME NEW k \in Keys, Exit(k)
      PROVE  Logged'
  <2>1. /\ child[k] = "running" /\ child' = [child EXCEPT ![k] = "exited"]
        /\ UNCHANGED <<pc, call, results, reservations>>
    BY <1>4 DEF Exit, ChildExits, storeVars
  <2>2. child'[k] = "exited" /\ \A j \in Keys \ {k} : child'[j] = child[j]
    BY <1>1, <2>1 DEF WellTyped, ExecTyped
  <2>3. \A v \in Workers : Key(v)' = Key(v) /\ (pc[v] \in Holding => Key(v) \in Keys)
    BY <1>1, <2>1, CallType DEF Key, Holding
  <2>4. HoldersReserved' /\ HoldersDiffer'
    BY <2>1, <2>3 DEF Logged, HoldersReserved, HoldersDiffer
  <2>5. UnreservedUntouched' /\ LogsTell'
    BY <2>1, <2>2 DEF Logged, UnreservedUntouched, LogsTell, TellsOneRun
  <2>6. StepsAgree'
    <3> SUFFICES ASSUME NEW v \in Workers
                 PROVE  Agrees(pc[v], results[Key(v)], child'[Key(v)])
      BY <2>1, <2>3 DEF StepsAgree
    <3>1. Agrees(pc[v], results[Key(v)], child[Key(v)])
      BY DEF Logged, StepsAgree
    <3>2. CASE pc[v] \in Holding
      BY <2>1, <2>2, <2>3, <3>1, <3>2 DEF Agrees, Supervising
    <3>3. CASE pc[v] \notin Holding
      BY <1>1, <3>3 DEF Agrees, Holding, Supervising, Steps
    <3> QED
      BY <3>2, <3>3
  <2> QED
    BY <1>1, <2>4, <2>5, <2>6 DEF Logged
<1> QED
  BY <1>1, <1>3, <1>4, LoggedCall DEF Next, NextNoCrash, StepOf

LEMMA LoggedInit == Init => Logged
BY TypeInit DEF Init, ExecutorInit, Logged, HoldersReserved, HoldersDiffer, UnreservedUntouched,
   StepsAgree, LogsTell, Agrees, TellsOneRun, Holding, Supervising

\* The ledger never counts less than it granted, and the log of every action tells
\* one run, or one refusal after the reservation, and agrees with the process: so
\* no race between the policy file, the ledger and the launch, no crash and no
\* retried identifier makes room for a second run.
THEOREM LedgerSafe == Spec => []LedgerIsExact
<1>1. Logged => LegacyLogTellsTheRun
  BY DEF Logged, LegacyLogTellsTheRun, LogsTell, TellsOneRun, UnreservedUntouched
<1>2. Counted => LedgerCountsGrants
  BY DEF Counted
<1>3. LedgerCountsGrants /\ LegacyLogTellsTheRun => LedgerIsExact
  BY DEF LedgerIsExact
<1> QED
  BY <1>1, <1>2, <1>3, CountedInit, CountedStep, LoggedInit, LoggedStep, PTL DEF Spec

=============================================================================
