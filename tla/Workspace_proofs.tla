--------------------------- MODULE Workspace_proofs ---------------------------
(***************************************************************************)
(* Proofs about Workspace and about ValidationWorker, the runs over it,    *)
(* for every number of sessions, runners, evidence records, bundles,       *)
(* policies and requests.                                                  *)
(***************************************************************************)
EXTENDS ValidationWorker, FiniteSetTheorems, TLAPS

Typed ==
    /\ TypeOK
    /\ mem \in [Sessions -> Copies \cup {Closed}]
    /\ pending \in [Sessions -> {"charged", "noted", None}]

\* One store holds all that another holds, at the same or a later status.
Extends(new, old) ==
    /\ old.status # None =>
          new.status # None /\ StatusRank[new.status] >= StatusRank[old.status]
    /\ \A i \in Evidence : old.records[i] # None => new.records[i] = old.records[i]

\* What may become of the policy in the file.
PolicyGrows ==
    policyFile # None =>
        /\ policyFile' # None
        /\ policyFile'.max_actions = policyFile.max_actions
        /\ policyFile'.actions_used >= policyFile.actions_used
        /\ policyFile.revoked => policyFile'.revoked

\* A copy that may be written: the policy as it is in the file, and a store that
\* may be ahead of the file by replacements that failed.
Ahead(s) == Policy(s) = policyFile /\ Extends(Store(s), storeFile)

\* The units: every record of the audit log, and every charge that is still to be
\* recorded, has one of its own in the policy file.
Used == IF policyFile = None THEN 0 ELSE policyFile.actions_used
Charging == {s \in Sessions : pending[s] = "charged"}
Booked ==
    /\ IsFiniteSet(Charging)
    /\ audited + Cardinality(Charging) <= Used
    /\ granted <= audited

\* What a step of session s does to the files and to the other sessions.
OnlyAdds(s) ==
    /\ PolicyGrows
    /\ Extends(storeFile', storeFile)
    /\ revokeReported' => revokeReported \/ (policyFile' # None /\ policyFile'.revoked)
    /\ granted' >= granted
    /\ \A t \in Sessions \ {s} : mem'[t] = mem[t] /\ pending'[t] = pending[t]

Kept(s) == Typed' /\ OnlyAdds(s) /\ (Booked => Booked')

-----------------------------------------------------------------------------
(***************************************************************************)
(* The stores as data.                                                     *)
(***************************************************************************)
LEMMA Ranks ==
    /\ \A a \in Statuses : StatusRank[a] \in Nat /\ StatusTransitions[a] \subseteq Statuses
    /\ \A a \in Statuses : \A b \in StatusTransitions[a] : StatusRank[b] >= StatusRank[a]
BY DEF Statuses, StatusRank, StatusTransitions

LEMMA StoreFields ==
    ASSUME NEW store \in Stores
    PROVE  /\ store.status \in Statuses \cup {None}
           /\ store.records \in [Evidence -> Contents \cup {None}]
           /\ \A status \in Statuses : [store EXCEPT !.status = status] \in Stores
           /\ \A status : [store EXCEPT !.status = status].status = status
           /\ \A status : [store EXCEPT !.status = status].records = store.records
BY DEF Stores

LEMMA ExtendsItself ==
    ASSUME NEW store \in Stores
    PROVE  Extends(store, store)
BY StoreFields, Ranks DEF Extends

LEMMA ExtendsTransitive ==
    ASSUME NEW a \in Stores, NEW b \in Stores, NEW c \in Stores, Extends(c, b), Extends(b, a)
    PROVE  Extends(c, a)
<1>1. \A i \in Evidence : a.records[i] # None => c.records[i] = a.records[i]
  BY DEF Extends
<1>2. ASSUME a.status # None
      PROVE  c.status # None /\ StatusRank[c.status] >= StatusRank[a.status]
  <2>1. b.status # None /\ StatusRank[b.status] >= StatusRank[a.status]
    BY <1>2 DEF Extends
  <2>2. c.status # None /\ StatusRank[c.status] >= StatusRank[b.status]
    BY <2>1 DEF Extends
  <2>3. a.status \in Statuses /\ b.status \in Statuses /\ c.status \in Statuses
    BY <1>2, <2>1, <2>2, StoreFields
  <2>4. StatusRank[a.status] \in Nat /\ StatusRank[b.status] \in Nat /\ StatusRank[c.status] \in Nat
    BY <2>3, Ranks
  <2> QED
    BY <2>1, <2>2, <2>4
<1> QED
  BY <1>1, <1>2 DEF Extends

\* A store that holds something goes on to hold something.
LEMMA ExistsExtends ==
    ASSUME NEW a \in Stores, NEW b \in Stores, Extends(b, a), Exists(a)
    PROVE  Exists(b)
BY DEF Exists, Extends

\* The first status, a legal transition, or a bundle that does not contradict a
\* store only adds to it.
LEMMA StatusExtends ==
    ASSUME NEW store \in Stores, NEW status \in Statuses,
           store.status = None \/ status \in StatusTransitions[store.status]
    PROVE  LET new == [store EXCEPT !.status = status] IN
           new \in Stores /\ Extends(new, store)
<1>1. store.status # None => StatusRank[status] >= StatusRank[store.status]
  BY StoreFields, Ranks
<1> QED
  BY <1>1, StoreFields, WorkspaceAssumption DEF Extends

LEMMA MergeExtends ==
    ASSUME NEW store \in Stores, NEW env \in Stores, ~Conflict(store, env)
    PROVE  Merged(store, env) \in Stores /\ Extends(Merged(store, env), store)
<1>1. Merged(store, env) \in Stores
  BY StoreFields DEF Merged, Stores
<1>2. Merged(store, env).status # env.status => env.status = None
  BY DEF Merged
<1>3. store.status # None => Merged(store, env).status = store.status
  BY DEF Merged, Conflict
<1>4. \A i \in Evidence : store.records[i] # None =>
         Merged(store, env).records[i] = store.records[i]
  BY DEF Merged, Conflict
<1> QED
  BY <1>1, <1>3, <1>4, StoreFields, Ranks DEF Extends

\* Charging and revoking keep a policy loadable.
LEMMA PolicyFields ==
    ASSUME NEW p, ValidPolicy(p)
    PROVE  /\ p \in PolicyRecords /\ p.actions_used \in Nat /\ p.max_actions \in Nat
           /\ p.actions_used <= p.max_actions
           /\ LET r == [p EXCEPT !.revoked = TRUE] IN
              /\ ValidPolicy(r) /\ r.revoked
              /\ r.actions_used = p.actions_used /\ r.max_actions = p.max_actions
           /\ p.actions_used < p.max_actions => ValidPolicy(Charged(p))
           /\ Charged(p).actions_used = p.actions_used + 1
           /\ Charged(p).max_actions = p.max_actions
           /\ Charged(p).revoked = p.revoked
<1>1. p \in PolicyRecords /\ p.actions_used \in Nat /\ p.max_actions \in Nat
  BY DEF ValidPolicy, PolicyRecords
<1>2. [p EXCEPT !.revoked = TRUE] \in PolicyRecords
  BY <1>1 DEF PolicyRecords
<1>5. [p EXCEPT !.actions_used = p.actions_used + 1] \in PolicyRecords
  BY <1>1 DEF PolicyRecords
<1>3. LET q == [p EXCEPT !.revoked = TRUE] IN
      /\ q.revoked /\ q.actions_used = p.actions_used /\ q.max_actions = p.max_actions
      /\ q.scope = p.scope /\ q.permitted = p.permitted
      /\ q.valid_from = p.valid_from /\ q.valid_until = p.valid_until
      /\ q.approval_required = p.approval_required
  BY <1>1 DEF PolicyRecords
<1>4. LET q == [p EXCEPT !.actions_used = p.actions_used + 1] IN
      /\ q.revoked = p.revoked /\ q.actions_used = p.actions_used + 1
      /\ q.max_actions = p.max_actions
      /\ q.scope = p.scope /\ q.permitted = p.permitted
      /\ q.valid_from = p.valid_from /\ q.valid_until = p.valid_until
      /\ q.approval_required = p.approval_required
  BY <1>1 DEF PolicyRecords
<1> QED
  BY <1>1, <1>2, <1>3, <1>4, <1>5 DEF ValidPolicy, Charged

\* A decision that allows was taken on an active engagement, on a policy that is
\* not revoked and has a unit left.
LEMMA AllowsNeeds ==
    ASSUME NEW p \in PolicyRecords, NEW status, NEW r, NEW now,
           Allows(evaluate_action(p, status, r, now))
    PROVE  status = "active" /\ ~p.revoked /\ p.actions_used < p.max_actions
BY DEF Allows, evaluate_action, PolicyRecords

-----------------------------------------------------------------------------
(***************************************************************************)
(* The operations.                                                         *)
(***************************************************************************)
LEMMA CopyType ==
    ASSUME Typed, NEW s \in Sessions, mem[s] # Closed
    PROVE  /\ mem[s] \in Copies /\ Store(s) \in Stores
           /\ Policy(s) # None => ValidPolicy(Policy(s)) /\ Policy(s) \in PolicyRecords
           /\ \A store \in Stores : [mem[s] EXCEPT !.store = store] \in Copies
           /\ \A store : [mem[s] EXCEPT !.store = store].store = store
           /\ \A store : [mem[s] EXCEPT !.store = store].policy = Policy(s)
           /\ \A p \in PolicyRecords : [mem[s] EXCEPT !.policy = p] \in Copies
           /\ \A p : [mem[s] EXCEPT !.policy = p].policy = p
           /\ \A p : [mem[s] EXCEPT !.policy = p].store = Store(s)
BY DEF Typed, TypeOK, Copies, Store, Policy, ValidPolicy

LEMMA FileType ==
    ASSUME Typed
    PROVE  /\ storeFile \in Stores
           /\ policyFile # None =>
                ValidPolicy(policyFile) /\ policyFile.actions_used \in Nat
           /\ audited \in Nat /\ granted \in Nat
BY PolicyFields DEF Typed, TypeOK

LEMMA PolicyStays ==
    ASSUME Typed, policyFile' = policyFile
    PROVE  PolicyGrows
BY FileType DEF PolicyGrows

\* A new copy of the store reaches the file or does not.
LEMMA StoreWritten ==
    ASSUME Typed, NEW s \in Sessions, mem[s] # Closed, Ahead(s),
           NEW store \in Stores, Extends(store, Store(s)),
           PersistStore(s, store), UNCHANGED <<pending, counters>>
    PROVE  Kept(s) /\ mem'[s] # Closed /\ Ahead(s)'
<1>1. /\ mem' = [mem EXCEPT ![s] = [mem[s] EXCEPT !.store = store]]
      /\ storeFile' \in {store, storeFile} /\ policyFile' = policyFile
  BY DEF PersistStore
<1>2. /\ mem'[s] \in Copies /\ mem'[s] # Closed
      /\ mem'[s].store = store /\ mem'[s].policy = Policy(s)
      /\ \A t \in Sessions \ {s} : mem'[t] = mem[t]
  BY <1>1, CopyType, WorkspaceAssumption DEF Typed
<1>3. storeFile \in Stores /\ Store(s) \in Stores
  BY CopyType DEF Typed, TypeOK
<1>4. Extends(store, storeFile)
  BY <1>3, ExtendsTransitive DEF Ahead
<1>5. Extends(storeFile', storeFile) /\ Extends(store, storeFile')
  BY <1>1, <1>3, <1>4, ExtendsItself
<1>6. Typed'
  <2>1. mem' \in [Sessions -> Copies \cup {Closed}]
    BY <1>1, CopyType DEF Typed
  <2>2. \A t \in Sessions : mem'[t] # Closed =>
          mem'[t].store \in Stores /\ (mem'[t].policy # None => ValidPolicy(mem'[t].policy))
    BY <1>2, CopyType DEF Typed, TypeOK, Store, Policy
  <2> QED
    BY <1>1, <1>2, <1>3, <2>1, <2>2 DEF Typed, TypeOK, Store, Policy, counters
<1>7. Ahead(s)'
  BY <1>1, <1>2, <1>5 DEF Ahead, Store, Policy
<1>8. OnlyAdds(s)
  <2>1. PolicyGrows
    BY <1>1, PolicyStays
  <2>2. revokeReported' = revokeReported /\ pending' = pending /\ granted' >= granted
    BY FileType DEF counters
  <2> QED
    BY <1>2, <1>5, <2>1, <2>2, Zenon DEF OnlyAdds
<1>9. Booked => Booked'
  BY <1>1 DEF Booked, Used, Charging, counters
<1> QED
  BY <1>2, <1>6, <1>7, <1>8, <1>9 DEF Kept

\* What PersistPolicy leaves: the other sessions, and a copy that equals the file.
Written(s, p, done) ==
    /\ mem' \in [Sessions -> Copies \cup {Closed}]
    /\ \A t \in Sessions : mem'[t] # Closed =>
         mem'[t].store \in Stores /\ (mem'[t].policy # None => ValidPolicy(mem'[t].policy))
    /\ mem'[s] # Closed /\ Ahead(s)'
    /\ \A t \in Sessions \ {s} : mem'[t] = mem[t]
    /\ \A t \in Sessions : mem[t] # Closed => mem'[t] # Closed
    /\ storeFile' = storeFile
    /\ policyFile' = IF done THEN p ELSE policyFile
    /\ policyFile' # None => ValidPolicy(policyFile')

\* A new policy reaches the file and the copy, or neither.
LEMMA PolicyWritten ==
    ASSUME Typed, NEW s \in Sessions, mem[s] # Closed, Ahead(s),
           NEW p, ValidPolicy(p), NEW done \in BOOLEAN, PersistPolicy(s, p, done)
    PROVE  Written(s, p, done)
<1>1. /\ mem' = IF done THEN [mem EXCEPT ![s] = [mem[s] EXCEPT !.policy = p]] ELSE mem
      /\ policyFile' = IF done THEN p ELSE policyFile
      /\ storeFile' = storeFile
  BY DEF PersistPolicy
<1>2. [mem[s] EXCEPT !.policy = p] \in Copies
  BY CopyType, PolicyFields
<1>3. mem' \in [Sessions -> Copies \cup {Closed}]
  BY <1>1, <1>2 DEF Typed
<1>4. /\ mem'[s] = IF done THEN [mem[s] EXCEPT !.policy = p] ELSE mem[s]
      /\ \A t \in Sessions \ {s} : mem'[t] = mem[t]
  BY <1>1 DEF Typed
<1>5. /\ mem'[s] # Closed
      /\ mem'[s].store = Store(s)
      /\ mem'[s].policy = IF done THEN p ELSE Policy(s)
  BY <1>2, <1>4, CopyType, WorkspaceAssumption DEF Store, Policy
<1>6. \A t \in Sessions : mem'[t] # Closed =>
         mem'[t].store \in Stores /\ (mem'[t].policy # None => ValidPolicy(mem'[t].policy))
  <2> SUFFICES ASSUME NEW t \in Sessions, mem'[t] # Closed
               PROVE  mem'[t].store \in Stores
                      /\ (mem'[t].policy # None => ValidPolicy(mem'[t].policy))
    OBVIOUS
  <2>1. CASE t = s
    BY <1>5, <2>1, CopyType
  <2>2. CASE t # s
    BY <1>4, <2>2, CopyType DEF Store, Policy
  <2> QED
    BY <2>1, <2>2
<1>7. Ahead(s)'
  BY <1>1, <1>5 DEF Ahead, Store, Policy
<1>8. policyFile' # None => ValidPolicy(policyFile')
  BY <1>1 DEF Typed, TypeOK
<1> QED
  BY <1>1, <1>3, <1>4, <1>5, <1>6, <1>7, <1>8 DEF Written

\* A session that charges, records or forgets a charge leaves the others' alone.
LEMMA ChargingMoves ==
    ASSUME Typed, NEW s \in Sessions, IsFiniteSet(Charging)
    PROVE  /\ IsFiniteSet(Charging \cup {s}) /\ IsFiniteSet(Charging \ {s})
           /\ Cardinality(Charging) \in Nat
           /\ s \notin Charging => /\ Cardinality(Charging \cup {s}) = Cardinality(Charging) + 1
                                   /\ Charging \ {s} = Charging
           /\ s \in Charging => Cardinality(Charging \ {s}) = Cardinality(Charging) - 1
BY FS_AddElement, FS_RemoveElement, FS_CardinalityType

LEMMA SetPolicyKept ==
    ASSUME Typed, NEW s \in Sessions, mem[s] # Closed => Ahead(s),
           NEW p \in Policies, SetPolicy(s, p)
    PROVE  Kept(s) /\ mem'[s] # Closed /\ Ahead(s)'
<1>1. mem[s] # Closed /\ Policy(s) = None /\ policyFile = None
  BY DEF SetPolicy, Open, Ahead
<1>2. PICK done \in BOOLEAN : PersistPolicy(s, p, done)
  BY DEF SetPolicy
<1>3. ValidPolicy(p) /\ p.actions_used = 0 /\ p \in PolicyRecords
  BY WorkspaceAssumption DEF ValidPolicy
<1>4. /\ pending' = pending /\ audited' = audited
      /\ granted' = granted /\ revokeReported' = revokeReported
  BY DEF SetPolicy, counters
<1>5. Written(s, p, done)
  BY <1>1, <1>2, <1>3, PolicyWritten
<1>6. Typed'
  BY <1>4, <1>5 DEF Written, Typed, TypeOK, Store, Policy
<1>7. OnlyAdds(s)
  <2>1. storeFile' = storeFile /\ granted' >= granted
    BY <1>4, <1>5, FileType DEF Written
  <2>2. PolicyGrows
    BY <1>1 DEF PolicyGrows
  <2>3. Extends(storeFile', storeFile)
    BY <2>1, FileType, ExtendsItself
  <2> QED
    BY <1>4, <1>5, <2>1, <2>2, <2>3, Zenon DEF Written, OnlyAdds
<1>8. Booked => Booked'
  BY <1>1, <1>3, <1>4, <1>5 DEF Written, Booked, Used, Charging
<1> QED
  BY <1>5, <1>6, <1>7, <1>8 DEF Written, Kept

LEMMA RevokeKept ==
    ASSUME Typed, NEW s \in Sessions, mem[s] # Closed => Ahead(s), Revoke(s)
    PROVE  Kept(s) /\ mem'[s] # Closed /\ Ahead(s)'
<1>1. mem[s] # Closed /\ Policy(s) # None /\ Policy(s) = policyFile
  BY DEF Revoke, Open, Ahead
<1>2. ValidPolicy(policyFile) /\ policyFile # None
  BY <1>1, FileType
<1>3. pending' = pending /\ audited' = audited /\ granted' = granted /\ granted' >= granted
  BY FileType DEF Revoke
<1>4. CASE policyFile.revoked
  <2>1. /\ mem' = mem /\ storeFile' = storeFile /\ policyFile' = policyFile
        /\ revokeReported' = TRUE
    BY <1>1, <1>4 DEF Revoke, files
  <2>2. Typed'
    BY <1>3, <2>1 DEF Typed, TypeOK, Store, Policy
  <2>3. PolicyGrows /\ Extends(storeFile', storeFile)
    BY <2>1, PolicyStays, FileType, ExtendsItself
  <2>4. OnlyAdds(s)
    BY <1>2, <1>3, <1>4, <2>1, <2>3, Zenon DEF OnlyAdds
  <2>5. Booked => Booked'
    BY <1>3, <2>1 DEF Booked, Used, Charging
  <2> QED
    BY <1>1, <2>1, <2>2, <2>4, <2>5 DEF Kept, Ahead, Store, Policy
<1>5. CASE ~policyFile.revoked
  <2> DEFINE p == [policyFile EXCEPT !.revoked = TRUE]
  <2>1. PICK done \in BOOLEAN : /\ PersistPolicy(s, p, done)
                                /\ revokeReported' = (revokeReported \/ done)
    BY <1>1, <1>5 DEF Revoke
  <2>2. /\ ValidPolicy(p) /\ p.revoked /\ p # None
        /\ p.actions_used = policyFile.actions_used /\ p.max_actions = policyFile.max_actions
        /\ policyFile.actions_used \in Nat
    BY <1>2, PolicyFields, WorkspaceAssumption
  <2> HIDE DEF p
  <2>3. Written(s, p, done)
    BY <1>1, <2>1, <2>2, PolicyWritten
  <2>4. Typed'
    BY <1>3, <2>1, <2>3 DEF Written, Typed, TypeOK, Store, Policy
  <2>5. PolicyGrows
    BY <1>2, <2>2, <2>3 DEF Written, PolicyGrows
  <2>6. Extends(storeFile', storeFile)
    BY <2>3, FileType, ExtendsItself DEF Written
  <2>7. revokeReported' => revokeReported \/ (policyFile' # None /\ policyFile'.revoked)
    BY <2>1, <2>2, <2>3 DEF Written
  <2>8. OnlyAdds(s)
    BY <1>3, <2>3, <2>5, <2>6, <2>7, Zenon DEF Written, OnlyAdds
  <2>9. Booked => Booked'
    BY <1>2, <1>3, <2>2, <2>3 DEF Written, Booked, Used, Charging
  <2> QED
    BY <2>3, <2>4, <2>8, <2>9 DEF Written, Kept
<1> QED
  BY <1>4, <1>5

LEMMA AuthorizeKept ==
    ASSUME Typed, NEW s \in Sessions, mem[s] # Closed => Ahead(s),
           NEW r, NEW now, NEW consume \in BOOLEAN, Authorize(s, r, now, consume)
    PROVE  /\ Kept(s) /\ mem'[s] # Closed /\ Ahead(s)'
           /\ pending'[s] = "charged" =>
                Allows(Decision(s, r, now)) /\ policyFile' = Charged(policyFile)
<1>1. /\ mem[s] # Closed /\ pending[s] = None /\ Policy(s) # None /\ Policy(s) = policyFile
      /\ None \notin {"charged", "noted"}
  BY WorkspaceAssumption DEF Authorize, Open, Ahead
<1>2. ValidPolicy(policyFile) /\ policyFile # None
  BY <1>1, FileType
<1>3. /\ audited' = audited /\ granted' = granted /\ granted' >= granted
      /\ revokeReported' = revokeReported
  BY FileType DEF Authorize, counters
<1>4. CASE ~(consume /\ Allows(Decision(s, r, now)))
  <2>1. /\ mem' = mem /\ storeFile' = storeFile /\ policyFile' = policyFile
        /\ pending' = [pending EXCEPT ![s] = "noted"]
    BY <1>4 DEF Authorize, files
  <2>2. Typed'
    BY <1>1, <1>3, <2>1 DEF Typed, TypeOK, Store, Policy
  <2>3. PolicyGrows /\ Extends(storeFile', storeFile)
    BY <2>1, PolicyStays, FileType, ExtendsItself
  <2>4. pending'[s] = "noted" /\ \A t \in Sessions \ {s} : pending'[t] = pending[t]
    BY <2>1 DEF Typed
  <2>5. OnlyAdds(s)
    BY <1>3, <2>1, <2>3, <2>4, Zenon DEF OnlyAdds
  <2>6. Charging' = Charging
    BY <1>1, <2>4 DEF Charging
  <2>7. Booked => Booked'
    BY <1>3, <2>1, <2>6 DEF Booked, Used
  <2> QED
    BY <1>1, <2>1, <2>2, <2>4, <2>5, <2>7 DEF Kept, Ahead, Store, Policy
<1>5. CASE consume /\ Allows(Decision(s, r, now))
  <2> DEFINE p == Charged(policyFile)
  <2>1. PICK done \in BOOLEAN :
           /\ PersistPolicy(s, p, done)
           /\ pending' = IF done THEN [pending EXCEPT ![s] = "charged"] ELSE pending
    BY <1>1, <1>5 DEF Authorize, Charge
  <2>2. policyFile.actions_used < policyFile.max_actions
    BY <1>1, <1>2, <1>5, AllowsNeeds, PolicyFields DEF Decision
  <2>3. /\ ValidPolicy(p) /\ p # None
        /\ p.actions_used = policyFile.actions_used + 1 /\ p.max_actions = policyFile.max_actions
        /\ p.revoked = policyFile.revoked /\ policyFile.actions_used \in Nat
    BY <1>2, <2>2, PolicyFields, WorkspaceAssumption
  <2> HIDE DEF p
  <2>4. Written(s, p, done)
    BY <1>1, <2>1, <2>3, PolicyWritten
  <2>5. /\ \A t \in Sessions \ {s} : pending'[t] = pending[t]
        /\ pending'[s] = IF done THEN "charged" ELSE None
        /\ pending' \in [Sessions -> {"charged", "noted", None}]
    BY <1>1, <2>1 DEF Typed
  <2>6. Typed'
    <3>1. \A t \in Sessions : pending'[t] # None =>
             mem'[t] # Closed /\ pending'[t] \in {"charged", "noted"}
      BY <1>1, <2>4, <2>5 DEF Written, Typed, TypeOK
    <3> QED
      BY <1>3, <2>4, <2>5, <3>1 DEF Written, Typed, TypeOK, Store, Policy
  <2>7. PolicyGrows
    BY <1>2, <2>3, <2>4 DEF Written, PolicyGrows
  <2>8. Extends(storeFile', storeFile)
    BY <2>4, FileType, ExtendsItself DEF Written
  <2>9. OnlyAdds(s)
    BY <1>3, <2>4, <2>5, <2>7, <2>8, Zenon DEF Written, OnlyAdds
  <2>10. ASSUME Booked PROVE Booked'
    <3>1. s \notin Charging /\ Charging' = IF done THEN Charging \cup {s} ELSE Charging
      BY <1>1, <2>5 DEF Charging
    <3>2. Used = policyFile.actions_used /\ Used' = policyFile'.actions_used
      BY <1>2, <2>3, <2>4 DEF Used, Written
    <3>3. audited + Cardinality(Charging) <= policyFile.actions_used /\ granted <= audited
          /\ IsFiniteSet(Charging)
      BY <2>10, <3>2 DEF Booked
    <3>4. audited' + Cardinality(Charging') <= Used' /\ IsFiniteSet(Charging')
      <4>1. /\ IsFiniteSet(Charging') /\ Cardinality(Charging) \in Nat
            /\ Cardinality(Charging') = IF done THEN Cardinality(Charging) + 1
                                               ELSE Cardinality(Charging)
        BY <3>1, <3>3, ChargingMoves
      <4>2. Used' = IF done THEN policyFile.actions_used + 1 ELSE policyFile.actions_used
        BY <2>3, <2>4, <3>2 DEF Written
      <4> QED
        BY <1>3, <2>3, <3>3, <4>1, <4>2, FileType
    <3> QED
      BY <1>3, <3>3, <3>4 DEF Booked
  <2> QED
    BY <1>1, <1>5, <2>4, <2>5, <2>6, <2>9, <2>10 DEF Written, Kept, p
<1> QED
  BY <1>4, <1>5

\* An operation on the engagement store, by a session whose copy may be written.
LEMMA StoreKept ==
    ASSUME Typed, NEW s \in Sessions, mem[s] # Closed => Ahead(s),
           \/ \E status \in NewStatuses : CreateEngagement(s, status)
           \/ \E status \in Statuses : UpdateStatus(s, status)
           \/ \E env \in Envelopes : MergeEnvelope(s, env)
    PROVE  Kept(s) /\ mem'[s] # Closed /\ Ahead(s)'
<1>1. mem[s] # Closed /\ Ahead(s) /\ Store(s) \in Stores
  BY CopyType DEF CreateEngagement, UpdateStatus, MergeEnvelope, Open
<1>2. UNCHANGED <<pending, counters>>
  BY DEF CreateEngagement, UpdateStatus, MergeEnvelope
<1>3. PICK store \in Stores : Extends(store, Store(s)) /\ PersistStore(s, store)
  <2>1. ASSUME NEW status \in Statuses,
               Store(s).status = None \/ status \in StatusTransitions[Store(s).status],
               PersistStore(s, [Store(s) EXCEPT !.status = status])
        PROVE  \E store \in Stores : Extends(store, Store(s)) /\ PersistStore(s, store)
    BY <1>1, <2>1, StatusExtends
  <2>2. CASE \E status \in NewStatuses : CreateEngagement(s, status)
    BY <2>1, <2>2, WorkspaceAssumption DEF CreateEngagement, Exists
  <2>3. CASE \E status \in Statuses : UpdateStatus(s, status)
    BY <2>1, <2>3 DEF UpdateStatus
  <2>4. CASE \E env \in Envelopes : MergeEnvelope(s, env)
    BY <1>1, <2>4, MergeExtends, WorkspaceAssumption DEF MergeEnvelope
  <2> QED
    BY <2>2, <2>3, <2>4
<1> QED
  BY <1>1, <1>2, <1>3, StoreWritten

\* Opening, closing and recording write no file.
LEMMA OpenKept ==
    ASSUME Typed, NEW s \in Sessions, OpenWorkspace(s)
    PROVE  Kept(s) /\ mem'[s] # Closed /\ Ahead(s)' /\ UNCHANGED <<files, pending, counters>>
<1>1. /\ mem' = [mem EXCEPT ![s] = [store |-> storeFile, policy |-> policyFile]]
      /\ storeFile' = storeFile /\ policyFile' = policyFile /\ pending' = pending
      /\ audited' = audited /\ granted' = granted /\ granted' >= granted
      /\ revokeReported' = revokeReported
  BY FileType DEF OpenWorkspace, files, counters
<1>2. [store |-> storeFile, policy |-> policyFile] \in Copies
  BY FileType DEF Copies, ValidPolicy
<1>3. /\ mem' \in [Sessions -> Copies \cup {Closed}]
      /\ mem'[s] = [store |-> storeFile, policy |-> policyFile]
      /\ \A t \in Sessions \ {s} : mem'[t] = mem[t]
  BY <1>1, <1>2 DEF Typed
<1>4. mem'[s] # Closed
  BY <1>2, <1>3, WorkspaceAssumption
<1>5. \A t \in Sessions : mem'[t] # Closed =>
         mem'[t].store \in Stores /\ (mem'[t].policy # None => ValidPolicy(mem'[t].policy))
  BY <1>3, FileType, CopyType DEF Store, Policy
<1>6. \A t \in Sessions : pending'[t] # None =>
         mem'[t] # Closed /\ pending'[t] \in {"charged", "noted"}
  BY <1>1, <1>3, <1>4 DEF Typed, TypeOK
<1>7. Typed'
  BY <1>1, <1>3, <1>5, <1>6 DEF Typed, TypeOK, Store, Policy
<1>8. PolicyGrows /\ Extends(storeFile', storeFile)
  BY <1>1, PolicyStays, FileType, ExtendsItself
<1>9. OnlyAdds(s)
  BY <1>1, <1>3, <1>8, Zenon DEF OnlyAdds
<1>10. Booked => Booked'
  BY <1>1 DEF Booked, Used, Charging
<1>11. Ahead(s)'
  BY <1>1, <1>3, <1>8 DEF Ahead, Store, Policy
<1> QED
  BY <1>1, <1>4, <1>7, <1>9, <1>10, <1>11 DEF Kept, files, counters

LEMMA CloseKept ==
    ASSUME Typed, NEW s \in Sessions, CloseWorkspace(s)
    PROVE  Kept(s) /\ mem'[s] = Closed /\ UNCHANGED <<files, counters>>
<1>1. /\ mem' = [mem EXCEPT ![s] = Closed] /\ pending' = [pending EXCEPT ![s] = None]
      /\ storeFile' = storeFile /\ policyFile' = policyFile
      /\ audited' = audited /\ granted' = granted /\ granted' >= granted
      /\ revokeReported' = revokeReported
  BY FileType DEF CloseWorkspace, files, counters
<1>2. /\ mem' \in [Sessions -> Copies \cup {Closed}]
      /\ pending' \in [Sessions -> {"charged", "noted", None}]
      /\ mem'[s] = Closed /\ pending'[s] = None
      /\ \A t \in Sessions \ {s} : mem'[t] = mem[t] /\ pending'[t] = pending[t]
  BY <1>1 DEF Typed
<1>3. \A t \in Sessions : mem'[t] # Closed =>
         mem'[t].store \in Stores /\ (mem'[t].policy # None => ValidPolicy(mem'[t].policy))
  BY <1>2, CopyType DEF Store, Policy
<1>4. \A t \in Sessions : pending'[t] # None =>
         mem'[t] # Closed /\ pending'[t] \in {"charged", "noted"}
  BY <1>2 DEF Typed, TypeOK
<1>5. Typed'
  BY <1>1, <1>2, <1>3, <1>4 DEF Typed, TypeOK, Store, Policy
<1>6. PolicyGrows /\ Extends(storeFile', storeFile)
  BY <1>1, PolicyStays, FileType, ExtendsItself
<1>7. OnlyAdds(s)
  BY <1>1, <1>2, <1>6, Zenon DEF OnlyAdds
<1>8. ASSUME Booked PROVE Booked'
  <2>1. Charging' = Charging \ {s}
    BY <1>2, WorkspaceAssumption DEF Charging
  <2>2. /\ IsFiniteSet(Charging')
        /\ Cardinality(Charging') \in Nat /\ Cardinality(Charging) \in Nat
        /\ Cardinality(Charging') <= Cardinality(Charging)
    BY <1>8, <2>1, FS_Subset, FS_CardinalityType DEF Booked
  <2>3. Used \in Nat
    BY FileType DEF Used
  <2> QED
    BY <1>1, <1>8, <2>2, <2>3, FileType DEF Booked, Used
<1> QED
  BY <1>1, <1>2, <1>5, <1>7, <1>8 DEF Kept, files, counters

LEMMA AuditKept ==
    ASSUME Typed, NEW s \in Sessions, AuditDecision(s)
    PROVE  Kept(s) /\ UNCHANGED <<mem, files>> /\ pending'[s] = None
<1>1. /\ mem' = mem /\ storeFile' = storeFile /\ policyFile' = policyFile
      /\ revokeReported' = revokeReported
      /\ pending' = [pending EXCEPT ![s] = None]
      /\ pending[s] \in {"charged", "noted"} /\ pending[s] # None
  BY DEF AuditDecision, files, Typed
<1>2. /\ audited' \in {audited, audited + 1}
      /\ granted' \in {granted, granted + (audited' - audited)}
      /\ pending[s] # "charged" => audited' = audited
  BY FileType DEF AuditDecision
<1>3. audited' \in Nat /\ granted' \in Nat /\ granted' >= granted
  BY <1>2, FileType
<1>4. /\ pending' \in [Sessions -> {"charged", "noted", None}] /\ pending'[s] = None
      /\ \A t \in Sessions \ {s} : mem'[t] = mem[t] /\ pending'[t] = pending[t]
  BY <1>1 DEF Typed
<1>5. Typed'
  BY <1>1, <1>3, <1>4 DEF Typed, TypeOK, Store, Policy
<1>6. PolicyGrows /\ Extends(storeFile', storeFile)
  BY <1>1, PolicyStays, FileType, ExtendsItself
<1>7. OnlyAdds(s)
  BY <1>1, <1>3, <1>4, <1>6, Zenon DEF OnlyAdds
<1>8. ASSUME Booked PROVE Booked'
  <2>1. Charging' = Charging \ {s} /\ Used' = Used /\ Used \in Nat
    BY <1>1, <1>4, WorkspaceAssumption, FileType DEF Charging, Used
  <2>2. (s \in Charging) <=> (pending[s] = "charged")
    BY DEF Charging
  <2>3. /\ IsFiniteSet(Charging') /\ Cardinality(Charging) \in Nat
        /\ Cardinality(Charging') =
             IF s \in Charging THEN Cardinality(Charging) - 1 ELSE Cardinality(Charging)
    BY <1>8, <2>1, ChargingMoves DEF Booked
  <2>4. audited + Cardinality(Charging) <= Used /\ granted <= audited
    BY <1>8 DEF Booked
  <2>5. audited' + Cardinality(Charging') <= Used' /\ granted' <= audited'
    BY <1>2, <2>1, <2>2, <2>3, <2>4, FileType
  <2> QED
    BY <2>3, <2>5 DEF Booked
<1> QED
  BY <1>1, <1>4, <1>5, <1>7, <1>8 DEF Kept, files

\* Any operation of a session whose copy may be written.
LEMMA OperationKept ==
    ASSUME Typed, NEW s \in Sessions, mem[s] # Closed => Ahead(s), Operation(s)
    PROVE  Kept(s) /\ (mem'[s] # Closed => Ahead(s)')
<1>1. CASE CloseWorkspace(s)
  BY <1>1, CloseKept
<1>2. CASE \/ \E status \in NewStatuses : CreateEngagement(s, status)
           \/ \E status \in Statuses : UpdateStatus(s, status)
           \/ \E env \in Envelopes : MergeEnvelope(s, env)
  BY <1>2, StoreKept
<1>3. CASE \E policy \in Policies : SetPolicy(s, policy)
  BY <1>3, SetPolicyKept
<1>4. CASE Revoke(s)
  BY <1>4, RevokeKept
<1>5. CASE \E r \in Requests, now \in Times, consume \in BOOLEAN : Authorize(s, r, now, consume)
  BY <1>5, AuthorizeKept
<1>6. CASE AuditDecision(s)
  BY <1>6, AuditKept DEF Ahead, Store, Policy, files
<1> QED
  BY <1>1, <1>2, <1>3, <1>4, <1>5, <1>6 DEF Operation

-----------------------------------------------------------------------------
(***************************************************************************)
(* Serialized writers.                                                     *)
(***************************************************************************)
\* One session at a time, whose copy may be written.
Serialized ==
    /\ Typed
    /\ Booked
    /\ revokeReported => policyFile # None /\ policyFile.revoked
    /\ \A s, t \in Sessions : mem[s] # Closed /\ mem[t] # Closed => s = t
    /\ \A s \in Sessions : mem[s] # Closed => Ahead(s)

LEMMA SerialInit == Init => Serialized
<1> SUFFICES ASSUME Init PROVE Serialized
  OBVIOUS
<1>1. EmptyStore \in Stores
  BY DEF EmptyStore, Stores
<1>2. Typed
  BY <1>1 DEF Init, Typed, TypeOK
<1>3. Charging = {}
  BY WorkspaceAssumption DEF Init, Charging
<1>4. Booked
  BY <1>3, FS_EmptySet DEF Init, Booked, Used
<1> QED
  BY <1>2, <1>4 DEF Init, Serialized

LEMMA SerialStep ==
    ASSUME Serialized, NEW s \in Sessions,
           \/ (\A t \in Sessions : mem[t] = Closed) /\ OpenWorkspace(s)
           \/ Operation(s)
    PROVE  Serialized' /\ OnlyAdds(s)
<1>1. Kept(s) /\ (mem'[s] # Closed => Ahead(s)')
  BY OpenKept, OperationKept DEF Serialized
<1>2. \A t \in Sessions \ {s} : mem'[t] = Closed
  <2>1. CASE (\A t \in Sessions : mem[t] = Closed) /\ OpenWorkspace(s)
    BY <1>1, <2>1 DEF Kept, OnlyAdds
  <2>2. CASE Operation(s)
    <3>1. mem[s] # Closed
      BY <2>2, WorkspaceAssumption
         DEF Operation, CloseWorkspace, CreateEngagement, UpdateStatus, MergeEnvelope,
             SetPolicy, Revoke, Authorize, AuditDecision, Open, Serialized, Typed, TypeOK
    <3> QED
      BY <1>1, <3>1 DEF Kept, OnlyAdds, Serialized
  <2> QED
    BY <2>1, <2>2
<1>3. revokeReported' => policyFile' # None /\ policyFile'.revoked
  BY <1>1 DEF Kept, OnlyAdds, PolicyGrows, Serialized
<1> QED
  BY <1>1, <1>2, <1>3 DEF Kept, Serialized

LEMMA SerialNextStep == Serialized /\ [SerialNext]_vars => Serialized'
<1>1. ASSUME Serialized, UNCHANGED vars PROVE Serialized'
  BY <1>1 DEF vars, Serialized, Typed, TypeOK, Store, Policy, Booked, Used, Charging, Ahead
<1> QED
  BY <1>1, SerialStep DEF SerialNext

\* What a session told its caller is on file: a grant has its unit and its audit
\* record, a revocation is in the policy file, whichever replacement failed and
\* wherever the command died.
THEOREM AnswersSafe == SerialSpec => []AnswersAreOnFile
<1>1. Serialized => AnswersAreOnFile
  <2> SUFFICES ASSUME Serialized PROVE AnswersAreOnFile
    OBVIOUS
  <2>1. /\ audited + Cardinality(Charging) <= Used /\ Cardinality(Charging) \in Nat
        /\ granted <= audited /\ audited \in Nat /\ TypeOK
    BY FS_CardinalityType, FileType DEF Serialized, Booked, Typed
  <2>2. policyFile # None =>
          policyFile.actions_used \in Nat /\ policyFile.actions_used <= policyFile.max_actions
    BY PolicyFields DEF Serialized, Typed, TypeOK
  <2>3. GrantsAreChargedAndAudited
    BY <2>1, <2>2 DEF GrantsAreChargedAndAudited, Used
  <2> QED
    BY <2>3 DEF Serialized, AnswersAreOnFile, ReportedRevocationIsDurable
<1> QED
  BY <1>1, SerialInit, SerialNextStep, PTL DEF SerialSpec

\* What a step adds is what the action property asks of it.
LEMMA AddingStep ==
    ASSUME Typed, NEW s \in Sessions, OnlyAdds(s)
    PROVE  /\ policyFile # None =>
                /\ policyFile' # None
                /\ policyFile.revoked => policyFile'.revoked
                /\ policyFile'.actions_used >= policyFile.actions_used
           /\ storeFile.status # None =>
                /\ storeFile'.status # None
                /\ StatusRank[storeFile'.status] >= StatusRank[storeFile.status]
           /\ \A i \in Evidence : storeFile.records[i] # None =>
                storeFile'.records[i] = storeFile.records[i]
BY DEF OnlyAdds, PolicyGrows, Extends

\* No failed replacement, repeated call or bundle takes back what the two files
\* say: a revocation, a spent unit, a step of the lifecycle, an evidence record.
THEOREM StoresSafe == SerialSpec => StoresNeverGoBack
<1>1. Serialized /\ [SerialNext]_vars =>
        /\ [policyFile # None =>
              /\ policyFile' # None
              /\ policyFile.revoked => policyFile'.revoked
              /\ policyFile'.actions_used >= policyFile.actions_used]_vars
        /\ [storeFile.status # None =>
              /\ storeFile'.status # None
              /\ StatusRank[storeFile'.status] >= StatusRank[storeFile.status]]_vars
        /\ [\A i \in Evidence : storeFile.records[i] # None =>
              storeFile'.records[i] = storeFile.records[i]]_vars
  <2> SUFFICES ASSUME Serialized, NEW s \in Sessions, OnlyAdds(s)
               PROVE  /\ policyFile # None =>
                           /\ policyFile' # None
                           /\ policyFile.revoked => policyFile'.revoked
                           /\ policyFile'.actions_used >= policyFile.actions_used
                      /\ storeFile.status # None =>
                           /\ storeFile'.status # None
                           /\ StatusRank[storeFile'.status] >= StatusRank[storeFile.status]
                      /\ \A i \in Evidence : storeFile.records[i] # None =>
                           storeFile'.records[i] = storeFile.records[i]
    BY SerialStep DEF SerialNext
  <2> QED
    BY AddingStep DEF Serialized
<1> QED
  BY <1>1, SerialInit, SerialNextStep, PTL
     DEF SerialSpec, StoresNeverGoBack, RevocationPersists, StatusOnlyAdvances, EvidenceIsImmutable

-----------------------------------------------------------------------------
(***************************************************************************)
(* The revocable validation worker.                                        *)
(***************************************************************************)
RunTyped ==
    /\ step \in [Runners -> RunSteps]
    /\ lease \in [Runners -> Leases \cup {NoLease}]
    /\ child \in [Runners -> {"none", "running", "exited", "orphan"}]
    /\ pipe \in [Runners -> {"empty", "observation", "error", "closed"}]
    /\ late \in [Runners -> BOOLEAN]
    /\ outcome \in [Runners -> Outcomes]
    /\ launched \in Nat

\* Every grant that has not led to a launch is held by one run at most.
Due == {s \in Runners : step[s] \in {"lease", "spawn"}}
Covered == IsFiniteSet(Due) /\ launched + Cardinality(Due) <= granted

\* A run relies on its charge from the moment it is made until the run ends.
Relies(s) == \/ step[s] \in {"lease", "spawn"} \cup Watching
             \/ step[s] = "audit" /\ pending[s] = "charged"

RunOK(s) ==
    /\ step[s] = "idle" <=> lease[s] = NoLease
    /\ Relies(s) => LeaseReadable(s)
    /\ child[s] = "running" => step[s] \in Watching

Durable == revokeReported => policyFile # None /\ policyFile.revoked

Supervised ==
    /\ Typed
    /\ RunTyped
    /\ Booked
    /\ Durable
    /\ Covered
    /\ \A s \in Runners : RunOK(s)

\* The step of one run leaves the others alone.
OnlyRuns(s) ==
    \A t \in Runners \ {s} :
        step'[t] = step[t] /\ lease'[t] = lease[t] /\ child'[t] = child[t]

-----------------------------------------------------------------------------
(***************************************************************************)
(* What a step leaves alone.                                               *)
(***************************************************************************)
LEMMA LeaseType ==
    ASSUME RunTyped, NEW s \in Runners, lease[s] # NoLease
    PROVE  lease[s] \in Leases /\ lease[s].used \in Nat /\ lease[s].max \in Nat
BY DEF RunTyped, Leases

\* Files that only grow keep a lease readable.
LEMMA LeaseStays ==
    ASSUME Typed, Typed', PolicyGrows, Extends(storeFile', storeFile),
           NEW s \in Runners, LeaseReadable(s), lease'[s] = lease[s], lease[s] \in Leases
    PROVE  LeaseReadable(s)'
<1>1. Exists(storeFile')
  BY FileType, ExistsExtends DEF LeaseReadable, Typed, TypeOK
<1>2. /\ policyFile # None /\ policyFile' # None
      /\ policyFile.actions_used \in Nat /\ policyFile'.actions_used \in Nat
      /\ lease[s].used \in Nat
  BY FileType, PolicyFields DEF LeaseReadable, PolicyGrows, Typed, TypeOK, Leases
<1> QED
  BY <1>1, <1>2 DEF LeaseReadable, PolicyGrows

\* A step of session t leaves the runs of the others in order.
LEMMA OthersOK ==
    ASSUME Supervised, Typed', NEW t \in Sessions, OnlyAdds(t), OnlyRuns(t),
           NEW s \in Runners, s # t
    PROVE  RunOK(s)'
<1>1. step'[s] = step[s] /\ lease'[s] = lease[s] /\ child'[s] = child[s] /\ pending'[s] = pending[s]
  BY RunnersAssumption DEF OnlyAdds, OnlyRuns
<1>2. RunOK(s) /\ (Relies(s)' <=> Relies(s))
  BY <1>1 DEF Supervised, Relies
<1>3. Relies(s) => LeaseReadable(s)'
  <2> SUFFICES ASSUME Relies(s) PROVE LeaseReadable(s)'
    OBVIOUS
  <2>1. lease[s] \in Leases
    BY <1>2, LeaseType DEF Relies, RunOK, Supervised, Watching
  <2> QED
    BY <1>1, <1>2, <2>1, LeaseStays DEF RunOK, Supervised, OnlyAdds
<1> QED
  BY <1>1, <1>2, <1>3 DEF RunOK

\* A step that keeps a lease and its run going.
LEMMA RunGoesOn ==
    ASSUME Supervised, NEW s \in Runners, UNCHANGED vars, lease'[s] = lease[s],
           Relies(s), step'[s] \in {"spawn"} \cup Watching,
           child'[s] = "running" => step'[s] \in Watching
    PROVE  RunOK(s)'
<1>1. RunOK(s) /\ lease[s] # NoLease
  BY DEF Supervised, RunOK, Relies, Watching
<1>2. LeaseReadable(s)'
  BY <1>1 DEF RunOK, LeaseReadable, Exists, vars
<1>3. step'[s] # "idle"
  BY DEF Watching
<1> QED
  BY <1>1, <1>2, <1>3 DEF RunOK

\* A run that ends and has no process running is in order.
LEMMA RunEnds ==
    ASSUME RunTyped, NEW s \in Runners, NEW state, Finish(s, state), child'[s] # "running"
    PROVE  RunOK(s)' /\ step'[s] = "idle"
<1>1. step'[s] = "idle" /\ lease'[s] = NoLease
  BY DEF RunTyped, Finish, GoTo
<1>2. ~Relies(s)'
  BY <1>1 DEF Relies, Watching
<1> QED
  BY <1>1, <1>2 DEF RunOK

\* The units of the launches when no grant becomes due.
LEMMA CoveredStays ==
    ASSUME Supervised, Due' \subseteq Due, launched' = launched, granted' >= granted,
           granted' \in Nat
    PROVE  Covered'
<1>1. /\ IsFiniteSet(Due') /\ Cardinality(Due') \in Nat /\ Cardinality(Due) \in Nat
      /\ Cardinality(Due') <= Cardinality(Due)
  BY FS_Subset, FS_CardinalityType DEF Supervised, Covered
<1> QED
  BY <1>1, FileType DEF Supervised, Covered, RunTyped

LEMMA QuietFiles ==
    ASSUME Supervised, UNCHANGED vars, NEW s \in Sessions
    PROVE  Typed' /\ Booked' /\ Durable' /\ OnlyAdds(s) /\ granted' \in Nat
<1>1. /\ mem' = mem /\ storeFile' = storeFile /\ policyFile' = policyFile /\ pending' = pending
      /\ audited' = audited /\ granted' = granted /\ revokeReported' = revokeReported
      /\ granted' >= granted /\ granted' \in Nat
  BY FileType DEF vars, Supervised
<1>2. Typed' /\ Booked' /\ Durable'
  BY <1>1 DEF Supervised, Typed, TypeOK, Store, Policy, Booked, Used, Charging, Durable
<1>3. PolicyGrows /\ Extends(storeFile', storeFile)
  BY <1>1, PolicyStays, FileType, ExtendsItself DEF Supervised
<1> QED
  BY <1>1, <1>2, <1>3, Zenon DEF OnlyAdds

LEMMA KeptFiles ==
    ASSUME Supervised, NEW s \in Sessions, Kept(s)
    PROVE  Typed' /\ Booked' /\ Durable' /\ OnlyAdds(s) /\ granted' \in Nat
BY DEF Supervised, Kept, OnlyAdds, Durable, PolicyGrows, Typed, TypeOK

LEMMA Assembled ==
    ASSUME Supervised, NEW s \in Sessions, Typed', Booked', Durable', OnlyAdds(s), OnlyRuns(s),
           RunTyped', Covered', s \in Runners => RunOK(s)'
    PROVE  Supervised'
BY OthersOK DEF Supervised

\* Every action of a run assigns values of the right type to its own entries.
LEMMA RunTypes ==
    ASSUME RunTyped, NEW s \in Runners,
           \/ RunAudit(s)
           \/ \E now \in Times : RunLease(s, now) \/ Recheck(s, now)
           \/ Spawn(s) \/ Poll(s) \/ Deadline(s) \/ Alive(s) \/ Collect(s)
           \/ \E message \in {"observation", "error"} : ChildSends(s, message)
           \/ ChildExits(s) \/ RuntimePasses(s) \/ RunnerDies(s)
    PROVE  RunTyped' /\ OnlyRuns(s)
<1> USE DEF RunTyped, OnlyRuns, RunSteps, Outcomes, GoTo
<1>1. ASSUME NEW state \in Outcomes, Finish(s, state)
      PROVE  /\ step' \in [Runners -> RunSteps]
             /\ lease' \in [Runners -> Leases \cup {NoLease}]
             /\ late' \in [Runners -> BOOLEAN]
             /\ outcome' \in [Runners -> Outcomes]
             /\ \A t \in Runners \ {s} : step'[t] = step[t] /\ lease'[t] = lease[t]
  BY <1>1 DEF Finish
<1>2. ASSUME NEW state \in Outcomes, FinishTerminated(s, state)
      PROVE  RunTyped' /\ OnlyRuns(s)
  BY <1>1, <1>2 DEF FinishTerminated
<1>3. ASSUME NEW state \in Outcomes, Finish(s, state), UNCHANGED <<child, pipe, launched>>
      PROVE  RunTyped' /\ OnlyRuns(s)
  BY <1>1, <1>3
<1>4. ASSUME NEW where \in RunSteps, GoTo(s, where), UNCHANGED <<lease, late, outcome>>,
             UNCHANGED <<child, pipe, launched>>
      PROVE  RunTyped' /\ OnlyRuns(s)
  BY <1>4
<1>5. CASE RunAudit(s)
  BY <1>3, <1>4, <1>5 DEF RunAudit
<1>6. ASSUME NEW now \in Times, RunLease(s, now) \/ Recheck(s, now)
      PROVE  RunTyped' /\ OnlyRuns(s)
  <2>1. \A found \in LeaseOutcomes(s, now) : found # "ok" => found \in Outcomes
    BY DEF LeaseOutcomes
  <2> QED
    BY <1>2, <1>3, <1>4, <1>6, <2>1 DEF RunLease, Recheck
<1>7. CASE Spawn(s)
  BY <1>3, <1>7 DEF Spawn
<1>8. CASE Poll(s) \/ Deadline(s) \/ Alive(s) \/ Collect(s)
  BY <1>2, <1>4, <1>8 DEF Poll, Deadline, Alive, Collect
<1>9. CASE \E message \in {"observation", "error"} : ChildSends(s, message)
  BY <1>9 DEF ChildSends
<1>10. CASE ChildExits(s) \/ RuntimePasses(s)
  BY <1>10, ZenonT(60) DEF ChildExits, RuntimePasses
<1>11. CASE RunnerDies(s)
  BY <1>1, <1>11 DEF RunnerDies
<1> QED
  BY <1>5, <1>6, <1>7, <1>8, <1>9, <1>10, <1>11

-----------------------------------------------------------------------------
(***************************************************************************)
(* The steps of a run.                                                     *)
(***************************************************************************)
\* The charge: the lease holds the numbers the file has now.
LEMMA AuthorizeStep ==
    ASSUME Supervised, NEW s \in Runners, UpToDate(s), NEW r \in Requests, NEW now \in Times,
           RunAuthorize(s, r, now)
    PROVE  /\ Supervised'
           /\ revokeReported /\ step'[s] = "audit" => pending'[s] = "noted"
           /\ OnlyRuns(s)
<1>1. s \in Sessions /\ r \in RequestRecords
  BY RunnersAssumption, WorkspaceAssumption
<1>2. mem[s] # Closed /\ Exists(Store(s)) /\ Authorize(s, r, now, TRUE) /\ step[s] = "idle"
  BY DEF RunAuthorize, Authorize, Open
<1>3. Ahead(s) /\ Store(s) = storeFile /\ Policy(s) = policyFile
  BY FileType, ExtendsItself DEF UpToDate, Ahead, Store, Policy, Supervised
<1>4. /\ Kept(s) /\ mem'[s] # Closed /\ Ahead(s)'
      /\ pending'[s] = "charged" =>
            Allows(Decision(s, r, now)) /\ policyFile' = Charged(policyFile)
  BY <1>1, <1>2, <1>3, AuthorizeKept DEF Supervised
<1>5. Typed' /\ Booked' /\ Durable' /\ OnlyAdds(s) /\ granted' \in Nat
  BY <1>1, <1>4, KeptFiles
<1>6. /\ policyFile' # None /\ ValidPolicy(policyFile') /\ mem'[s].policy = policyFile'
      /\ policyFile'.actions_used \in Nat /\ policyFile'.max_actions \in Nat
  <2>1. policyFile # None
    BY <1>2, <1>3 DEF Authorize
  <2> QED
    BY <1>4, <1>5, <2>1, PolicyFields DEF Ahead, Policy, OnlyAdds, PolicyGrows, Typed, TypeOK
<1>7. Exists(storeFile')
  BY <1>2, <1>3, <1>5, FileType, ExistsExtends DEF OnlyAdds, Supervised, Typed, TypeOK
<1> DEFINE held == [req |-> r, used |-> mem'[s].policy.actions_used,
                    max |-> mem'[s].policy.max_actions]
<1>8. held \in Leases /\ held # NoLease
      /\ held.used = policyFile'.actions_used /\ held.max = policyFile'.max_actions
  BY <1>1, <1>6, RunnersAssumption DEF Leases
<1> HIDE DEF held
<1>9. \/ Finish(s, "none") /\ UNCHANGED <<child, pipe, launched>>
      \/ /\ GoTo(s, "audit") /\ lease' = [lease EXCEPT ![s] = held]
         /\ UNCHANGED <<late, outcome, child, pipe, launched>>
  BY DEF RunAuthorize, held
<1>10. RunTyped' /\ OnlyRuns(s)
  BY <1>8, <1>9, ZenonT(60) DEF Supervised, RunTyped, OnlyRuns, Finish, GoTo, RunSteps, Outcomes
<1>11. child[s] # "running" /\ child' = child
  BY <1>2, <1>9 DEF Supervised, RunOK, Watching
<1>12. RunOK(s)'
  <2>1. CASE Finish(s, "none")
    BY <1>11, <2>1, RunEnds DEF Supervised
  <2>2. CASE GoTo(s, "audit") /\ lease' = [lease EXCEPT ![s] = held]
    <3>1. step'[s] = "audit" /\ lease'[s] = held
      BY <2>2 DEF Supervised, RunTyped, GoTo
    <3>2. LeaseReadable(s)'
      BY <1>6, <1>7, <1>8, <3>1 DEF LeaseReadable
    <3> QED
      BY <1>8, <1>11, <3>1, <3>2 DEF RunOK
  <2> QED
    BY <1>9, <2>1, <2>2
<1>13. Covered'
  <2>1. Due' \subseteq Due /\ launched' = launched
    BY <1>9, <1>10 DEF Due, OnlyRuns, Finish, GoTo, Supervised, RunTyped
  <2> QED
    BY <1>5, <2>1, CoveredStays DEF OnlyAdds
<1>14. Supervised'
  BY <1>1, <1>5, <1>10, <1>12, <1>13, Assembled
<1>15. ASSUME revokeReported, step'[s] = "audit" PROVE pending'[s] = "noted"
  <2>1. policyFile # None /\ policyFile.revoked /\ policyFile \in PolicyRecords
    BY <1>15, FileType, PolicyFields DEF Supervised, Durable
  <2>2. pending'[s] # "charged"
    BY <1>3, <1>4, <2>1, AllowsNeeds DEF Decision
  <2>3. pending'[s] # None
    BY <1>15 DEF RunAuthorize, Finish, GoTo, Supervised, RunTyped
  <2> QED
    BY <1>1, <1>5, <2>2, <2>3 DEF Typed
<1> QED
  BY <1>10, <1>14, <1>15

\* The decision is recorded and returned: a grant becomes due.
LEMMA AuditStep ==
    ASSUME Supervised, NEW s \in Runners, RunAudit(s)
    PROVE  Supervised'
<1>1. s \in Sessions /\ step[s] = "audit" /\ AuditDecision(s)
  BY RunnersAssumption DEF RunAudit
<1>2. Kept(s) /\ UNCHANGED <<mem, files>>
  BY <1>1, AuditKept DEF Supervised
<1>3. Typed' /\ Booked' /\ Durable' /\ OnlyAdds(s) /\ granted' \in Nat
  BY <1>1, <1>2, KeptFiles
<1>4. RunTyped' /\ OnlyRuns(s)
  BY RunTypes DEF Supervised
<1>5. child' = child /\ launched' = launched /\ child[s] # "running" /\ s \notin Due
  BY <1>1 DEF RunAudit, Supervised, RunOK, Watching, Due
<1>6. CASE \E state \in Outcomes : Finish(s, state)
  <2>1. RunOK(s)'
    BY <1>5, <1>6, RunEnds DEF Supervised
  <2>2. Due' \subseteq Due
    BY <1>4, <1>6, RunEnds, <1>5 DEF Due, OnlyRuns, Supervised
  <2>3. Covered'
    BY <1>3, <1>5, <2>2, CoveredStays DEF OnlyAdds
  <2> QED
    BY <1>1, <1>3, <1>4, <2>1, <2>3, Assembled
<1>7. CASE pending[s] = "charged" /\ granted' > granted /\ GoTo(s, "lease")
           /\ UNCHANGED <<lease, late, outcome>>
  <2>1. step'[s] = "lease" /\ lease'[s] = lease[s]
    BY <1>7 DEF GoTo, Supervised, RunTyped
  <2>2. LeaseReadable(s) /\ lease[s] # NoLease
    BY <1>1, <1>7 DEF Supervised, RunOK, Relies
  <2>3. LeaseReadable(s)'
    BY <1>2, <2>1, <2>2 DEF LeaseReadable, Exists, files
  <2>4. RunOK(s)'
    BY <1>5, <2>1, <2>2, <2>3 DEF RunOK
  <2>5. Due' = Due \cup {s}
    BY <1>4, <2>1 DEF Due, OnlyRuns
  <2>6. /\ IsFiniteSet(Due') /\ Cardinality(Due) \in Nat
        /\ Cardinality(Due') = Cardinality(Due) + 1
    BY <1>5, <2>5, FS_AddElement, FS_CardinalityType DEF Supervised, Covered
  <2>7. Covered'
    BY <1>3, <1>5, <1>7, <2>6, FileType DEF Supervised, Covered, RunTyped
  <2> QED
    BY <1>1, <1>3, <1>4, <2>4, <2>7, Assembled
<1> QED
  BY <1>6, <1>7 DEF RunAudit, Outcomes

\* The steps that only look at the files.
LEMMA LookingStep ==
    ASSUME Supervised, NEW s \in Runners,
           \/ \E now \in Times : RunLease(s, now) \/ Recheck(s, now)
           \/ Poll(s) \/ Deadline(s) \/ Alive(s) \/ Collect(s)
           \/ \E message \in {"observation", "error"} : ChildSends(s, message)
           \/ ChildExits(s) \/ RuntimePasses(s)
    PROVE  Supervised'
<1>1. s \in Sessions /\ UNCHANGED vars /\ launched' = launched
  BY RunnersAssumption
     DEF RunLease, Recheck, Poll, Deadline, Alive, Collect, ChildSends, ChildExits, RuntimePasses,
         FinishTerminated
<1>2. Typed' /\ Booked' /\ Durable' /\ OnlyAdds(s) /\ granted' \in Nat
  BY <1>1, QuietFiles
<1>3. RunTyped' /\ OnlyRuns(s)
  BY RunTypes DEF Supervised
<1>4. RunOK(s) /\ RunTyped
  BY DEF Supervised
<1>5. ASSUME NEW state, FinishTerminated(s, state) PROVE RunOK(s)' /\ step'[s] = "idle"
  BY <1>4, <1>5, RunEnds DEF FinishTerminated, RunTyped
<1>6. ASSUME NEW where \in {"spawn"} \cup Watching, GoTo(s, where), Relies(s),
             UNCHANGED <<lease, child>>, where # "spawn" \/ child[s] # "running"
      PROVE  RunOK(s)' /\ (s \in Due' => s \in Due \/ where = "spawn")
  <2>1. step'[s] = where /\ lease'[s] = lease[s] /\ child'[s] = child[s]
    BY <1>4, <1>6 DEF GoTo, RunTyped
  <2>2. child'[s] = "running" => step'[s] \in Watching
    BY <1>6, <2>1
  <2>3. RunOK(s)'
    BY <1>1, <1>6, <2>1, <2>2, RunGoesOn
  <2> QED
    BY <2>1, <2>3 DEF Due, Watching
<1>7. RunOK(s)' /\ (s \in Due' => s \in Due)
  <2>1. ASSUME NEW now \in Times, RunLease(s, now) PROVE RunOK(s)' /\ (s \in Due' => s \in Due)
    <3>1. s \in Due /\ Relies(s) /\ child[s] # "running"
      BY <1>4, <2>1 DEF RunLease, Due, Relies, RunOK, Watching
    <3>2. CASE GoTo(s, "spawn") /\ UNCHANGED <<lease, late, outcome>>
      BY <1>6, <2>1, <3>1, <3>2 DEF RunLease
    <3>3. CASE \E state : Finish(s, state)
      BY <1>4, <2>1, <3>1, <3>3, RunEnds DEF RunLease
    <3> QED
      BY <2>1, <3>1, <3>2, <3>3 DEF RunLease
  <2>2. ASSUME NEW now \in Times, Recheck(s, now) PROVE RunOK(s)' /\ (s \in Due' => s \in Due)
    <3>1. Relies(s)
      BY <2>2 DEF Recheck, Relies, Watching
    <3>2. CASE \E state : FinishTerminated(s, state)
      BY <1>5, <3>2 DEF Due
    <3>3. CASE GoTo(s, "alive") /\ UNCHANGED <<lease, child>>
      BY <1>6, <3>1, <3>3 DEF Watching
    <3> QED
      BY <2>2, <3>2, <3>3 DEF Recheck
  <2>3. CASE Poll(s) \/ Deadline(s) \/ Alive(s) \/ Collect(s)
    <3>1. Relies(s)
      BY <2>3 DEF Poll, Deadline, Alive, Collect, Relies, Watching
    <3>2. CASE \E state : FinishTerminated(s, state)
      BY <1>5, <3>2 DEF Due
    <3>3. CASE \E where \in Watching : GoTo(s, where) /\ UNCHANGED <<lease, child>>
      BY <1>6, <3>1, <3>3 DEF Watching
    <3> QED
      BY <2>3, <3>2, <3>3 DEF Poll, Deadline, Alive, Collect, Watching
  <2>4. ASSUME step'[s] = step[s], lease'[s] = lease[s],
               child'[s] = "running" => child[s] = "running"
        PROVE  RunOK(s)' /\ (s \in Due' => s \in Due)
    BY <1>1, <1>4, <2>4 DEF RunOK, Relies, LeaseReadable, Exists, Due, vars
  <2>5. CASE (\E message \in {"observation", "error"} : ChildSends(s, message)) \/ RuntimePasses(s)
    BY <2>4, <2>5 DEF ChildSends, RuntimePasses
  <2>6. CASE ChildExits(s)
    BY <1>4, <2>4, <2>6 DEF ChildExits, RunTyped
  <2> QED
    BY <2>1, <2>2, <2>3, <2>5, <2>6
<1>8. Due' \subseteq Due
  BY <1>3, <1>7 DEF Due, OnlyRuns
<1>9. Covered'
  BY <1>1, <1>2, <1>8, CoveredStays DEF OnlyAdds
<1> QED
  BY <1>1, <1>2, <1>3, <1>7, <1>9, Assembled

\* The launch takes the grant that was due.
LEMMA SpawnStep ==
    ASSUME Supervised, NEW s \in Runners, Spawn(s)
    PROVE  Supervised'
<1>1. s \in Sessions /\ UNCHANGED vars /\ step[s] = "spawn"
  BY RunnersAssumption DEF Spawn
<1>2. Typed' /\ Booked' /\ Durable' /\ OnlyAdds(s) /\ granted' \in Nat
  BY <1>1, QuietFiles
<1>3. RunTyped' /\ OnlyRuns(s)
  BY RunTypes DEF Supervised
<1>4. s \in Due /\ Relies(s) /\ child[s] # "running"
  BY <1>1 DEF Due, Relies, Supervised, RunOK, Watching
<1>5. CASE Finish(s, "error") /\ UNCHANGED <<child, pipe, launched>>
  <2>1. RunOK(s)' /\ step'[s] = "idle"
    BY <1>4, <1>5, RunEnds DEF Supervised
  <2>2. Due' \subseteq Due
    BY <1>3, <1>4 DEF Due, OnlyRuns
  <2>3. Covered'
    BY <1>2, <1>5, <2>2, CoveredStays DEF OnlyAdds
  <2> QED
    BY <1>1, <1>2, <1>3, <2>1, <2>3, Assembled
<1>6. CASE /\ GoTo(s, "poll") /\ child' = [child EXCEPT ![s] = "running"]
           /\ launched' = launched + 1 /\ UNCHANGED <<lease, late, outcome>>
  <2>1. step'[s] = "poll" /\ lease'[s] = lease[s]
    BY <1>6 DEF GoTo, Supervised, RunTyped
  <2>2. RunOK(s)'
    BY <1>1, <1>4, <2>1, RunGoesOn DEF Watching
  <2>3. Due' = Due \ {s}
    BY <1>3, <2>1 DEF Due, OnlyRuns
  <2>4. /\ IsFiniteSet(Due') /\ Cardinality(Due) \in Nat
        /\ Cardinality(Due') = Cardinality(Due) - 1
    BY <1>4, <2>3, FS_RemoveElement, FS_CardinalityType DEF Supervised, Covered
  <2>5. granted' = granted
    BY <1>1 DEF vars
  <2>6. Covered'
    BY <1>6, <2>4, <2>5, FileType DEF Supervised, Covered, RunTyped
  <2> QED
    BY <1>1, <1>2, <1>3, <2>2, <2>6, Assembled
<1> QED
  BY <1>5, <1>6 DEF Spawn

\* The parent dies: its process is the run's no longer.
LEMMA DyingStep ==
    ASSUME Supervised, NEW s \in Runners, RunnerDies(s)
    PROVE  Supervised'
<1>1. s \in Sessions /\ CloseWorkspace(s)
  BY RunnersAssumption DEF RunnerDies
<1>2. Typed' /\ Booked' /\ Durable' /\ OnlyAdds(s) /\ granted' \in Nat
  BY <1>1, CloseKept, KeptFiles DEF Supervised
<1>3. RunTyped' /\ OnlyRuns(s)
  BY RunTypes DEF Supervised
<1>4. child'[s] # "running" /\ launched' = launched /\ Finish(s, "none")
  BY DEF RunnerDies, Supervised, RunTyped
<1>5. RunOK(s)' /\ step'[s] = "idle"
  BY <1>4, RunEnds DEF Supervised
<1>6. Due' \subseteq Due
  BY <1>3, <1>5 DEF Due, OnlyRuns
<1>7. Covered'
  BY <1>2, <1>4, <1>6, CoveredStays DEF OnlyAdds
<1> QED
  BY <1>1, <1>2, <1>3, <1>5, <1>7, Assembled

\* Sessions outside a run: of an operator, or of a runner between runs.
LEMMA SessionStep ==
    ASSUME Supervised, NEW s \in Sessions, UNCHANGED runVars,
           \/ s \notin Runners /\ UpToDate(s) /\ Operation(s)
           \/ s \notin Runners /\ AuditDecision(s)
           \/ /\ s \in Runners => step[s] = "idle"
              /\ OpenWorkspace(s) \/ CloseWorkspace(s)
    PROVE  Supervised'
<1>1. Kept(s)
  <2>1. UpToDate(s) => (mem[s] # Closed => Ahead(s))
    BY FileType, ExtendsItself DEF UpToDate, Ahead, Store, Policy, Supervised
  <2> QED
    BY <2>1, OperationKept, OpenKept, CloseKept, AuditKept DEF Supervised
<1>2. Typed' /\ Booked' /\ Durable' /\ OnlyAdds(s) /\ granted' \in Nat
  BY <1>1, KeptFiles
<1>3. /\ step' = step /\ lease' = lease /\ child' = child /\ pipe' = pipe
      /\ late' = late /\ outcome' = outcome /\ launched' = launched
  BY DEF runVars
<1>4. RunTyped' /\ OnlyRuns(s) /\ Due' = Due
  BY <1>3 DEF Supervised, RunTyped, OnlyRuns, Due
<1>5. Covered'
  BY <1>2, <1>3, <1>4, CoveredStays DEF OnlyAdds
<1>6. s \in Runners => RunOK(s)'
  BY <1>3 DEF Supervised, RunOK, Relies, Watching
<1> QED
  BY <1>2, <1>4, <1>5, <1>6, Assembled

-----------------------------------------------------------------------------
(***************************************************************************)
(* The runs.                                                               *)
(***************************************************************************)
LEMMA SupervisedInit == WorkerInit => Supervised
<1> SUFFICES ASSUME WorkerInit PROVE Supervised
  OBVIOUS
<1>1. Typed /\ Booked /\ Durable
  BY SerialInit DEF WorkerInit, Serialized, Durable
<1>2. RunTyped
  BY DEF WorkerInit, RunTyped, RunSteps, Outcomes
<1>3. Due = {}
  BY DEF WorkerInit, Due
<1>4. Covered
  BY <1>3, FS_EmptySet DEF WorkerInit, Init, Covered
<1>5. \A s \in Runners : RunOK(s)
  BY DEF WorkerInit, RunOK, Relies, Watching
<1> QED
  BY <1>1, <1>2, <1>4, <1>5 DEF Supervised

LEMMA SupervisedStep == Supervised /\ [WorkerNext]_wvars => Supervised'
<1> SUFFICES ASSUME Supervised, [WorkerNext]_wvars PROVE Supervised'
  OBVIOUS
<1>1. CASE UNCHANGED wvars
  <2>1. UNCHANGED vars /\ UNCHANGED runVars
    BY <1>1 DEF wvars
  <2>2. Typed' /\ Booked' /\ Durable'
    BY <2>1 DEF vars, Supervised, Typed, TypeOK, Store, Policy, Booked, Used, Charging, Durable
  <2>3. RunTyped' /\ Covered' /\ \A s \in Runners : RunOK(s)'
    BY <2>1 DEF vars, runVars, Supervised, RunTyped, Covered, Due, RunOK, Relies, LeaseReadable,
                Exists
  <2> QED
    BY <2>2, <2>3 DEF Supervised
<1>2. ASSUME NEW s \in Sessions \ Runners, OperatorStep(s) PROVE Supervised'
  BY <1>2, SessionStep DEF OperatorStep
<1>3. ASSUME NEW s \in Runners, RunnerSession(s) PROVE Supervised'
  BY <1>3, SessionStep, RunnersAssumption DEF RunnerSession
<1>4. ASSUME NEW s \in Runners, UpToDate(s) /\ StartRun(s) PROVE Supervised'
  BY <1>4, AuthorizeStep DEF StartRun
<1>5. ASSUME NEW s \in Runners,
             \/ RunStep(s)
             \/ \E message \in {"observation", "error"} : ChildSends(s, message)
             \/ ChildExits(s) \/ RuntimePasses(s) \/ RunnerDies(s)
      PROVE  Supervised'
  BY <1>5, AuditStep, LookingStep, SpawnStep, DyingStep DEF RunStep
<1> QED
  BY <1>1, <1>2, <1>3, <1>4, <1>5 DEF WorkerNext, WorkerNextNoCrash

\* Under serialized writers every process that was started stands for a decision
\* that was charged, recorded and returned; the lease of a run cannot regress
\* under it; and only the death of the parent leaves a process behind.
THEOREM WorkerSafe == WorkerSpec => []LaunchesAreGoverned
<1>1. Supervised => LaunchesAreGoverned
  <2> SUFFICES ASSUME Supervised PROVE LaunchesAreGoverned
    OBVIOUS
  <2>1. WorkerTypeOK
    BY DEF Supervised, Typed, RunTyped, RunOK, WorkerTypeOK
  <2>2. /\ audited + Cardinality(Charging) <= Used /\ Cardinality(Charging) \in Nat
        /\ granted <= audited /\ audited \in Nat /\ granted \in Nat /\ launched \in Nat
        /\ launched + Cardinality(Due) <= granted /\ Cardinality(Due) \in Nat
    BY FS_CardinalityType, FileType DEF Supervised, Booked, Covered, RunTyped
  <2>3. policyFile # None => policyFile.actions_used \in Nat
    BY FileType DEF Supervised
  <2>4. LaunchesAreCharged
    BY <2>1, <2>2, <2>3 DEF LaunchesAreCharged, Used
  <2>5. LeaseNeverRegresses /\ NoProcessLeftBehind
    BY DEF Supervised, RunOK, Relies, LeaseNeverRegresses, NoProcessLeftBehind
  <2> QED
    BY <2>4, <2>5 DEF LaunchesAreGoverned
<1> QED
  BY <1>1, SupervisedInit, SupervisedStep, PTL DEF WorkerSpec

\* A run that starts after an operator was told of a revocation is denied.
LEMMA DeniedStep ==
    ASSUME Supervised, WorkerNext, revokeReported,
           NEW s \in Runners, step[s] = "idle", step'[s] = "audit"
    PROVE  pending'[s] = "noted"
<1>1. ASSUME NEW t \in Sessions, OnlyRuns(t) \/ UNCHANGED runVars, t # s
      PROVE  FALSE
  BY <1>1 DEF OnlyRuns, runVars
<1>2. ~UNCHANGED runVars
  BY DEF runVars
<1>3. ASSUME NEW t \in Runners,
             \/ RunStep(t)
             \/ \E message \in {"observation", "error"} : ChildSends(t, message)
             \/ ChildExits(t) \/ RuntimePasses(t) \/ RunnerDies(t)
      PROVE  FALSE
  <2>1. OnlyRuns(t)
    BY <1>3, RunTypes DEF RunStep, Supervised
  <2>2. t = s
    BY <1>1, <2>1, RunnersAssumption
  <2> QED
    BY <1>3, <2>2
       DEF RunStep, RunAudit, RunLease, Recheck, Spawn, Poll, Deadline, Alive, Collect,
           ChildSends, ChildExits, RuntimePasses, RunnerDies, Watching
<1>4. PICK t \in Runners : UpToDate(t) /\ StartRun(t)
  BY <1>2, <1>3 DEF WorkerNext, WorkerNextNoCrash, OperatorStep, RunnerSession
<1>5. OnlyRuns(t) /\ (step'[t] = "audit" => pending'[t] = "noted")
  BY <1>4, AuthorizeStep DEF StartRun
<1> QED
  BY <1>1, <1>4, <1>5, RunnersAssumption

\* Once an operator has been told that the engagement is revoked, no run is
\* granted an action any more, provided it starts from an up-to-date copy.
THEOREM RevokedIsDenied == WorkerSpec => RevokedEngagementIsDenied
<1>1. Supervised /\ [WorkerNext]_wvars =>
        [revokeReported =>
           \A s \in Runners : step[s] = "idle" /\ step'[s] = "audit" => pending'[s] = "noted"]_wvars
  BY DeniedStep
<1> QED
  BY <1>1, SupervisedInit, SupervisedStep, PTL DEF WorkerSpec, RevokedEngagementIsDenied

===============================================================================
