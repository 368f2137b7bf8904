-------------------------- MODULE Operations_proofs --------------------------
(***************************************************************************)
(* What the operations of the two command lines promise, for every value   *)
(* of their limits and of the far end's answers: the infrastructure        *)
(* commands (InfrastructureAssessment), the pentest run (PentestRun), the  *)
(* probe engines (NetworkScan), the objective controller with its queue    *)
(* (ObjectiveQueue), the task controller (TaskRun), the intercepting proxy *)
(* (InterceptProxy), the API probes (ApiAssessment), the web assessment    *)
(* (WebAssessment) and the policy compiler (PolicyCompiler).               *)
(***************************************************************************)
EXTENDS InfrastructureAssessment, PentestRun, NetworkScan, ObjectiveQueue, TaskRun,
        InterceptProxy, ApiAssessment, WebAssessment, PolicyCompiler, Integers, WellFoundedInduction,
        FiniteSetTheorems, SequenceTheorems, TLAPS

-----------------------------------------------------------------------------
(***************************************************************************)
(* The infrastructure commands.  Between two actions as many actions were  *)
(* charged as were handed to the adapter; during one, one less.            *)
(***************************************************************************)
AdapterStages == {"connect", "login", "read-only", "collect", "facts"}
InfraStages == {"start", "authorize", "resolve", "execute", "exit", "done"} \cup AdapterStages

\* The limits and the history of the charges.
ChargesOK ==
    /\ actionsUsed \in 0 .. MaxActions
    /\ adapterCalls \in Nat
    /\ infraStage \notin AdapterStages => adapterCalls = actionsUsed
    /\ infraStage \in AdapterStages => /\ adapterCalls = actionsUsed + 1
                                       /\ actionsUsed < MaxActions

\* A record carries the charge of its moment: the last charge is the highest.
UsedOK ==
    /\ records \in Seq([success : BOOLEAN, used : 0 .. MaxActions])
    /\ \A i \in DOMAIN records : records[i].used <= actionsUsed
    /\ actionsUsed = 0 \/ \E i \in DOMAIN records : records[i].used = actionsUsed

\* The lease of the secret and of the session that was opened with it.
LeaseOK ==
    /\ secret \in {"active", "expired"} => infraStage \in InAction
    /\ session # "closed" => infraStage \in InAction \ {"execute", "connect"}

InfraReportOK ==
    infraReport # NoReport => /\ infraStage = "done"
                              /\ infraReport.attempted = adapterCalls

InfraOK ==
    /\ infraStage \in InfraStages
    /\ ChargesOK
    /\ UsedOK
    /\ LeaseOK
    /\ InfraReportOK

LEMMA UsedTyped ==
  ASSUME UsedOK PROVE \A i \in DOMAIN records : records[i].used \in 0 .. MaxActions
  <1> DEFINE Rec == [success : BOOLEAN, used : 0 .. MaxActions]
  <1>1. records \in Seq(Rec) BY DEF UsedOK
  <1>2. \A r \in Rec : r.used \in 0 .. MaxActions OBVIOUS
  <1> HIDE DEF Rec
  <1>3. \A i \in DOMAIN records : records[i] \in Rec BY <1>1
  <1> QED BY <1>2, <1>3

LEMMA InfraInitOK == ASSUME InfraInit PROVE InfraOK
  <1> USE InfraAssumption DEF InfraInit, InAction, AdapterStages
  <1>1. infraStage \in InfraStages BY DEF InfraStages
  <1>2. ChargesOK BY DEF ChargesOK
  <1>3. UsedOK BY DEF UsedOK
  <1>4. LeaseOK BY DEF LeaseOK
  <1>5. InfraReportOK BY DEF InfraReportOK
  <1> QED BY <1>1, <1>2, <1>3, <1>4, <1>5 DEF InfraOK

\* What the end of an action does, whatever the adapter answered: an action that
\* reached the adapter is charged, one that did not is not.
LEMMA ResultRecorded ==
  ASSUME InfraOK, NEW success \in BOOLEAN, NEW used \in Nat,
         RecordResult(success, used), adapterCalls' = adapterCalls,
         UNCHANGED infraReport, infraStage \in InAction, used = adapterCalls
  PROVE InfraOK'
  <1>0. /\ infraStage' = "authorize"
        /\ actionsUsed' = used
        /\ secret' = "cleared"
        /\ session' = "closed"
        /\ records' = Append(records, [success |-> success, used |-> used])
    BY DEF RecordResult, Goes
  <1>1. infraStage' \in InfraStages BY <1>0 DEF InfraStages
  <1>2. adapterCalls \in 0 .. MaxActions /\ actionsUsed <= adapterCalls
    BY InfraAssumption DEF InfraOK, ChargesOK, InAction, AdapterStages
  <1>3. ChargesOK' BY <1>0, <1>2 DEF ChargesOK, AdapterStages
  <1>4. UsedOK'
    <2> DEFINE Rec == [success : BOOLEAN, used : 0 .. MaxActions]
               rec == [success |-> success, used |-> used]
    <2>0. UsedOK BY DEF InfraOK
    <2>1. records \in Seq(Rec) /\ \A i \in DOMAIN records : records[i].used <= actionsUsed
      BY <2>0 DEF UsedOK
    <2>2. rec \in Rec /\ rec.used = used BY <1>2
    <2>3. actionsUsed \in Nat /\ used \in Nat /\ actionsUsed <= used
      BY <1>2 DEF InfraOK, ChargesOK
    <2>4. \A i \in DOMAIN records : records[i].used \in Nat
      BY <2>0, UsedTyped, InfraAssumption DEF UsedOK
    <2> HIDE DEF Rec, rec
    <2>5. /\ records' \in Seq(Rec)
          /\ Len(records) + 1 \in DOMAIN records'
          /\ records'[Len(records) + 1] = rec
          /\ \A i \in DOMAIN records' :
                i = Len(records) + 1 \/ (i \in DOMAIN records /\ records'[i] = records[i])
      BY <1>0, <2>1, <2>2 DEF rec
    <2>6. \A i \in DOMAIN records' : records'[i].used <= actionsUsed'
      BY <2>1, <2>2, <2>3, <2>4, <2>5, <1>0
    <2>7. \E i \in DOMAIN records' : records'[i].used = actionsUsed'
      BY <2>2, <2>5, <1>0
    <2> QED BY <2>5, <2>6, <2>7 DEF UsedOK, Rec
  <1>5. LeaseOK' BY <1>0 DEF LeaseOK
  <1>6. infraReport = NoReport
    BY DEF InfraOK, InfraReportOK, InAction
  <1>7. InfraReportOK' BY <1>6 DEF InfraReportOK, NoReport
  <1> QED BY <1>1, <1>3, <1>4, <1>5, <1>7 DEF InfraOK

\* Steps that neither charge nor record, and say nothing new about the stage's
\* charges.
LEMMA QuietInfraStep ==
  ASSUME InfraOK, UNCHANGED <<actionsUsed, records, infraReport>>,
         infraStage' \in InfraStages, ChargesOK', LeaseOK', infraStage # "done"
  PROVE InfraOK'
  <1>1. UsedOK' BY DEF InfraOK, UsedOK
  <1>2. InfraReportOK' BY DEF InfraOK, InfraReportOK, NoReport
  <1> QED BY <1>1, <1>2 DEF InfraOK

\* attempted_actions of the report is the number of charges.
LEMMA AttemptedIsUsed == ASSUME InfraOK PROVE Attempted = actionsUsed
  <1> DEFINE P(n) == /\ n = 0 \/ \E i \in DOMAIN records : records[i].used = n
                     /\ \A i \in DOMAIN records : records[i].used <= n
  <1>1. actionsUsed \in 0 .. MaxActions /\ P(actionsUsed)
    BY DEF InfraOK, ChargesOK, UsedOK
  <1>2. \A i \in DOMAIN records : records[i].used \in 0 .. MaxActions
    BY UsedTyped DEF InfraOK
  <1>3. \A n \in 0 .. MaxActions : P(n) => n = actionsUsed
    <2> SUFFICES ASSUME NEW n \in 0 .. MaxActions, P(n) PROVE n = actionsUsed OBVIOUS
    <2>1. n <= actionsUsed
      BY <1>1, <1>2, InfraAssumption
    <2>2. actionsUsed <= n
      BY <1>1, <1>2, InfraAssumption
    <2> QED BY <2>1, <2>2, <1>1, InfraAssumption
  <1>4. Attempted \in 0 .. MaxActions /\ P(Attempted)
    <2>1. Attempted = CHOOSE n \in 0 .. MaxActions : P(n) BY DEF Attempted
    <2> HIDE DEF P
    <2> QED BY <2>1, <1>1
  <1> QED BY <1>3, <1>4

LEMMA InfraStep == ASSUME InfraOK, [InfraNext]_infraVars PROVE InfraOK'
  <1> USE InfraAssumption
  <1>1. CASE UNCHANGED infraVars
    BY <1>1 DEF infraVars, InfraOK, ChargesOK, UsedOK, LeaseOK, InfraReportOK
  <1>2. ASSUME NEW t \in Transports, InfraCommand(t) PROVE InfraOK'
    <2>1. CASE BeginInfra
      <3>0. infraStage = "start" /\ infraStage' \in {"exit", "authorize"}
        BY <2>1 DEF BeginInfra, Goes
      <3>1. ChargesOK' BY <2>1, <3>0 DEF BeginInfra, InfraOK, ChargesOK, AdapterStages
      <3>2. LeaseOK' BY <2>1, <3>0 DEF BeginInfra, InfraOK, LeaseOK, InAction
      <3>3. infraStage' \in InfraStages BY <3>0 DEF InfraStages
      <3> QED BY <2>1, <3>0, <3>1, <3>2, <3>3, QuietInfraStep DEF BeginInfra
    <2>2. CASE AuthorizeAction
      <3>0. infraStage = "authorize" /\ infraStage' \in {"exit", "resolve"}
        BY <2>2 DEF AuthorizeAction, Goes
      <3>1. ChargesOK' BY <2>2, <3>0 DEF AuthorizeAction, InfraOK, ChargesOK, AdapterStages
      <3>2. LeaseOK' BY <2>2, <3>0 DEF AuthorizeAction, InfraOK, LeaseOK, InAction
      <3>3. infraStage' \in InfraStages BY <3>0 DEF InfraStages
      <3> QED BY <2>2, <3>0, <3>1, <3>2, <3>3, QuietInfraStep DEF AuthorizeAction
    <2>3. CASE ResolveCredential
      <3>0. /\ infraStage = "resolve"
            /\ \/ secret' = "active" /\ infraStage' = "execute"
               \/ secret' = secret /\ infraStage' = "exit"
        BY <2>3 DEF ResolveCredential, Goes
      <3>1. ChargesOK' BY <2>3, <3>0 DEF ResolveCredential, InfraOK, ChargesOK, AdapterStages
      <3>2. LeaseOK' BY <2>3, <3>0 DEF ResolveCredential, InfraOK, LeaseOK, InAction
      <3>3. infraStage' \in InfraStages BY <3>0 DEF InfraStages
      <3> QED BY <2>3, <3>0, <3>1, <3>2, <3>3, QuietInfraStep DEF ResolveCredential
    <2>4. CASE SecretExpires
      <3>0. infraStage' = infraStage /\ infraStage \in InAction
        BY <2>4 DEF SecretExpires, Goes, InfraOK, LeaseOK
      <3>1. ChargesOK' BY <2>4, <3>0 DEF SecretExpires, InfraOK, ChargesOK
      <3>2. LeaseOK' BY <2>4, <3>0 DEF SecretExpires, InfraOK, LeaseOK
      <3>3. infraStage' \in InfraStages BY <3>0 DEF InfraOK
      <3> QED BY <2>4, <3>0, <3>1, <3>2, <3>3, QuietInfraStep DEF SecretExpires, InAction
    <2>5. CASE ExecuteAction
      <3>1. infraStage = "execute" BY <2>5 DEF ExecuteAction
      <3>2. adapterCalls = actionsUsed /\ actionsUsed \in Nat
        BY <3>1 DEF InfraOK, ChargesOK, AdapterStages
      <3>3. CASE RecordResult(FALSE, actionsUsed) /\ UNCHANGED adapterCalls
        BY <3>1, <3>2, <3>3, <2>5, ResultRecorded DEF ExecuteAction, InAction
      <3>4. CASE /\ actionsUsed < MaxActions
                 /\ adapterCalls' = adapterCalls + 1
                 /\ Goes("connect")
                 /\ UNCHANGED <<actionsUsed, secret, session, records>>
        <4>1. ChargesOK' BY <3>2, <3>4 DEF InfraOK, ChargesOK, Goes, AdapterStages
        <4>2. LeaseOK' BY <3>1, <3>4 DEF InfraOK, LeaseOK, Goes, InAction
        <4>3. infraStage' \in InfraStages BY <3>4 DEF Goes, InfraStages, AdapterStages
        <4> QED BY <3>1, <3>4, <4>1, <4>2, <4>3, <2>5, QuietInfraStep DEF ExecuteAction
      <3> QED BY <2>5, <3>3, <3>4 DEF ExecuteAction
    <2>6. CASE SaveInfraReport
      <3>0. infraStage = "authorize" /\ infraStage' \in {"done", "exit"}
        BY <2>6 DEF SaveInfraReport, Goes
      <3>1. ChargesOK' BY <2>6, <3>0 DEF SaveInfraReport, InfraOK, ChargesOK, AdapterStages
      <3>2. LeaseOK' BY <2>6, <3>0 DEF SaveInfraReport, InfraOK, LeaseOK, InAction
      <3>3. infraStage' \in InfraStages BY <3>0 DEF InfraStages
      <3>4. UsedOK' BY <2>6 DEF SaveInfraReport, InfraOK, UsedOK
      <3>5. actionsUsed = adapterCalls /\ adapterCalls' = adapterCalls
        BY <2>6, <3>0 DEF SaveInfraReport, InfraOK, ChargesOK, AdapterStages
      <3>6. InfraReportOK'
        <4>1. CASE infraReport' = NoReport BY <4>1 DEF InfraReportOK, NoReport
        <4>2. CASE /\ infraReport' = [status |-> ReportStatus, attempted |-> Attempted,
                                      successful |-> Successes]
                   /\ Goes("done")
          <5>1. infraStage' = "done" /\ infraReport'.attempted = Attempted
            BY <4>2 DEF Goes
          <5> QED BY <5>1, <3>5, AttemptedIsUsed DEF InfraReportOK
        <4> QED BY <2>6, <4>1, <4>2 DEF SaveInfraReport
      <3> QED BY <3>1, <3>2, <3>3, <3>4, <3>6 DEF InfraOK
    <2> QED BY <1>2, <2>1, <2>2, <2>3, <2>4, <2>5, <2>6 DEF InfraCommand
  <1>3. ASSUME SshAdapter \/ SmbAdapter \/ WinrmAdapter \/ DatabaseAdapter PROVE InfraOK'
    <2>1. infraStage \in AdapterStages
      BY <1>3 DEF SshAdapter, SmbAdapter, WinrmAdapter, DatabaseAdapter, SshConnect,
         SshCollect, SshFacts, SmbDial, SmbLogin, SmbCollect, SmbFacts, WinrmPrepare,
         WinrmCollect, WinrmFacts, PostgresConnect, MySqlConnect, MySqlReadOnly,
         DatabaseCollect, DatabaseFacts, Normalise, InfraAt, AdapterStages
    <2>2. \/ \E success \in BOOLEAN :
                RecordResult(success, actionsUsed + 1) /\ UNCHANGED <<adapterCalls, infraReport>>
          \/ \E state \in {"open", "prepared"},
                stage \in {"login", "read-only", "collect", "facts"} : Proceeds(state, stage)
      <3>1. CASE SshAdapter
        BY <3>1 DEF SshAdapter, SshConnect, SshCollect, SshFacts, Normalise, AdapterFails
      <3>2. CASE SmbAdapter
        BY <3>2 DEF SmbAdapter, SmbDial, SmbLogin, SmbCollect, SmbFacts, Normalise, AdapterFails
      <3>3. CASE WinrmAdapter
        BY <3>3 DEF WinrmAdapter, WinrmPrepare, WinrmCollect, WinrmFacts, Normalise, AdapterFails
      <3>4. CASE DatabaseAdapter
        BY <3>4 DEF DatabaseAdapter, PostgresConnect, MySqlConnect, MySqlReadOnly,
           DatabaseCollect, DatabaseFacts, Normalise, AdapterFails
      <3> QED BY <1>3, <3>1, <3>2, <3>3, <3>4
    <2>3. /\ adapterCalls = actionsUsed + 1 /\ actionsUsed \in Nat
          /\ infraStage \in InAction /\ infraStage # "done"
      BY <2>1 DEF InfraOK, ChargesOK, AdapterStages, InAction
    <2>4. ASSUME NEW success \in BOOLEAN, RecordResult(success, actionsUsed + 1),
                 UNCHANGED <<adapterCalls, infraReport>>
          PROVE InfraOK'
      BY <2>3, <2>4, ResultRecorded
    <2>5. ASSUME NEW state \in {"open", "prepared"},
                 NEW stage \in {"login", "read-only", "collect", "facts"},
                 Proceeds(state, stage)
          PROVE InfraOK'
      <3>0. infraStage' = stage /\ stage \in AdapterStages BY <2>5 DEF Proceeds, Goes, AdapterStages
      <3>1. ChargesOK' BY <2>1, <2>5, <3>0 DEF Proceeds, InfraOK, ChargesOK
      <3>2. LeaseOK' BY <2>5, <3>0 DEF InAction, Proceeds, InfraOK, LeaseOK
      <3>3. infraStage' \in InfraStages BY <3>0 DEF InfraStages
      <3> QED BY <2>3, <2>5, <3>1, <3>2, <3>3, QuietInfraStep DEF Proceeds
    <2> QED BY <2>2, <2>4, <2>5
  <1> QED
    BY <1>1, <1>2, <1>3
    DEF InfraNext, SshCommand, SmbCommand, WinrmCommand, DatabaseCommand, Transports

\* A credential serves one action and every action that reached the adapter is
\* charged and reported, for every --max-actions and any number of selected
\* actions (execute_infrastructure_action, the adapters' finally clauses, to_dict).
THEOREM LeasesSafe == InfraSpec => []LeasesAreOneShot
  <1>1. InfraInit => InfraOK BY InfraInitOK
  <1>2. InfraOK /\ [InfraNext]_infraVars => InfraOK' BY InfraStep
  <1>3. InfraOK => LeasesAreOneShot
    <2> SUFFICES ASSUME InfraOK PROVE LeasesAreOneShot OBVIOUS
    <2>1. adapterCalls <= MaxActions
      BY InfraAssumption DEF InfraOK, ChargesOK
    <2>2. infraStage \notin InAction \ {"execute"} => actionsUsed = adapterCalls
      BY DEF InfraOK, ChargesOK, AdapterStages, InAction
    <2> QED BY <2>1, <2>2 DEF InfraOK, LeaseOK, InfraReportOK, LeasesAreOneShot
  <1> QED BY <1>1, <1>2, <1>3, PTL DEF InfraSpec

-----------------------------------------------------------------------------
(***************************************************************************)
(* The pentest run.  A follow-up is to be run, or was run and has its one  *)
(* phase; a service of the report is behind one of the two, or its branch  *)
(* was skipped.                                                            *)
(***************************************************************************)
WhatFor(s) == IF s.kind = "smb" THEN "smb" ELSE "web"
StatusesOf(f, ps) == {p.status : p \in {p \in ps : p.of = f}}
OutcomeStatus(outcome) == IF outcome = "exit" THEN "failed" ELSE outcome

\* Before the follow-ups nothing is told and nothing was run.
EarlyOK ==
    /\ pentestStage \in {"guard", "scan", "inventory"} =>
            ran = {} /\ followUps = {} /\ phases = {}
    /\ pentestStage \in {"inventory", "follow-up"} => TheScan \in resultFiles

\* What is to be run: nothing was told of it yet.
WaitingOK ==
    /\ \A s \in report : s.addr \in scanned
    /\ \A f \in followUps :
        /\ f.what \in {"web", "smb"}
        /\ f.what = "web" => f.addr \in scanned
        /\ \A r \in ran : r.of # f
        /\ \A p \in phases : p.of # f

\* What was run: its one phase tells its outcome.
RanOK ==
    \A r \in ran :
        /\ r.of.what = "web" /\ r.outcome # "exit" => r.addr \in scanned
        /\ StatusesOf(r.of, phases) = {OutcomeStatus(r.outcome)}

CompletedOK == \A p \in phases : p.status = "completed" => p.of \in resultFiles

CoveredOK ==
    pentestStage \in {"follow-up", "done"} =>
        \A s \in report :
            \/ \E r \in ran : r.of.what = WhatFor(s) /\ r.of.port = s.port
            \/ \E f \in followUps : f.what = WhatFor(s) /\ f.port = s.port
            \/ Phase(WhatFor(s), "skipped", TheScan) \in phases

ManifestOK ==
    manifest # Unknown => manifest = phases /\ followUps = {} /\ pentestStage = "done"

PentestOK ==
    EarlyOK /\ WaitingOK /\ RanOK /\ CompletedOK /\ CoveredOK /\ ManifestOK

LEMMA PentestInitOK == ASSUME PentestInit PROVE PentestOK
  BY DEF PentestInit, PentestOK, EarlyOK, WaitingOK, RanOK, CompletedOK, CoveredOK, ManifestOK

\* The guard, the world and the failures only move the run along.
LEMMA QuietPentestStep ==
  ASSUME PentestOK, UNCHANGED <<report, scanned, followUps, ran, resultFiles, phases, manifest>>,
         \/ pentestStage' = pentestStage
         \/ pentestStage \in {"guard", "scan"} /\ pentestStage' \in {"scan", "exit"}
         \/ pentestStage \in {"guard", "scan"} /\ pentestStage' = "UnboundLocalError"
         \/ pentestStage \in {"follow-up", "inventory"} /\ pentestStage' = "exit"
  PROVE PentestOK'
  <1>1. EarlyOK' BY DEF PentestOK, EarlyOK
  <1>2. WaitingOK' BY DEF PentestOK, WaitingOK
  <1>3. RanOK' BY DEF PentestOK, RanOK, StatusesOf
  <1>4. CompletedOK' BY DEF PentestOK, CompletedOK
  <1>5. CoveredOK' BY DEF PentestOK, CoveredOK
  <1>6. ManifestOK' BY DEF PentestOK, ManifestOK
  <1> QED BY <1>1, <1>2, <1>3, <1>4, <1>5, <1>6 DEF PentestOK

LEMMA RunScanOK == ASSUME PentestOK, RunScan PROVE PentestOK'
  <1>0. /\ pentestStage = "scan" /\ ran = {} /\ followUps = {} /\ phases = {}
        /\ ran' = {} /\ followUps' = {} /\ phases' = {} /\ manifest' = manifest
    BY DEF RunScan, PentestOK, EarlyOK
  <1>1. CASE pentestStage' \in {"exit", "UnboundLocalError"} /\
             UNCHANGED <<scanned, report, resultFiles>>
    BY <1>0, <1>1, QuietPentestStep
  <1>2. CASE /\ scanned' = dns
             /\ report' \in SUBSET {s \in ScanServices : s.addr \in dns}
             /\ resultFiles' = {TheScan}
             /\ pentestStage' = "inventory"
    <2>1. EarlyOK' BY <1>0, <1>2 DEF EarlyOK
    <2>2. WaitingOK' BY <1>0, <1>2 DEF WaitingOK
    <2>3. RanOK' /\ CompletedOK' BY <1>0 DEF RanOK, CompletedOK
    <2>4. CoveredOK' BY <1>2 DEF CoveredOK
    <2>5. ManifestOK' BY <1>0 DEF PentestOK, ManifestOK
    <2> QED BY <2>1, <2>2, <2>3, <2>4, <2>5 DEF PentestOK
  <1> QED BY <1>1, <1>2 DEF RunScan

\* The follow-ups cover the report, or their branch is recorded as skipped.
LEMMA ScanPhasesOK == ASSUME PentestOK, ScanPhases PROVE PentestOK'
  <1>0. /\ pentestStage = "inventory" /\ ran = {} /\ followUps = {} /\ phases = {}
        /\ TheScan \in resultFiles
        /\ UNCHANGED <<report, scanned, ran, resultFiles, manifest>>
    BY DEF ScanPhases, PentestOK, EarlyOK
  <1>1. CASE pentestStage' = "exit" /\ UNCHANGED <<phases, followUps>>
    BY <1>0, <1>1, QuietPentestStep
  <1>2. ASSUME NEW versioned \in BOOLEAN, NEW matched \in BOOLEAN,
               pentestStage' = "follow-up",
               followUps' =
                 (IF "no-web-follow-up" \in switches THEN {} ELSE WebFollowUps) \cup
                 (IF "no-smb-follow-up" \in switches \/ ~smbCredentials
                  THEN {} ELSE SmbFollowUps),
               phases' = OwnPhases(versioned, matched) \cup
                 {Phase(what, "skipped", TheScan) :
                    what \in {w \in {"web", "smb"} : ~\E f \in followUps' : f.what = w}}
        PROVE PentestOK'
    <2>1. \A f \in WebFollowUps : f.what = "web" /\ \E s \in report : f.addr = s.addr
      BY DEF WebFollowUps, TheCommand
    <2>2. \A f \in SmbFollowUps : f.what = "smb"
      BY DEF SmbFollowUps, TheCommand
    <2>3. \A p \in phases' : p.of = TheScan
      BY <1>2 DEF OwnPhases, Phase
    <2>4. TheScan.what = "scan" BY DEF TheScan, TheCommand
    <2>5. \A f \in followUps' : f \in WebFollowUps \/ f \in SmbFollowUps
      BY <1>2
    <2>6. EarlyOK' BY <1>0, <1>2 DEF EarlyOK
    <2>7. WaitingOK'
      <3>1. \A s \in report : s.addr \in scanned BY DEF PentestOK, WaitingOK
      <3>2. ASSUME NEW f \in followUps' PROVE f.what \in {"web", "smb"} /\ f # TheScan
        BY <2>1, <2>2, <2>4, <2>5
      <3>3. ASSUME NEW f \in followUps', f.what = "web" PROVE f.addr \in scanned
        BY <2>1, <2>2, <2>5, <3>1, <3>3
      <3> QED BY <1>0, <2>3, <3>1, <3>2, <3>3 DEF WaitingOK
    <2>8. RanOK' BY <1>0 DEF RanOK
    <2>9. CompletedOK' BY <1>0, <2>3 DEF CompletedOK
    <2>10. CoveredOK'
      <3> SUFFICES ASSUME NEW s \in report
                   PROVE \/ \E f \in followUps' : f.what = WhatFor(s) /\ f.port = s.port
                         \/ Phase(WhatFor(s), "skipped", TheScan) \in phases'
        BY <1>0, <1>2 DEF CoveredOK
      <3>1. WhatFor(s) \in {"web", "smb"} BY DEF WhatFor
      <3>2. CASE ~\E f \in followUps' : f.what = WhatFor(s)
        BY <1>2, <3>1, <3>2
      <3>3. CASE \E f \in followUps' : f.what = WhatFor(s)
        <4>1. CASE s.kind = "smb"
          <5>1. followUps' \cap SmbFollowUps # {}
            BY <2>1, <2>2, <2>5, <3>3, <4>1 DEF WhatFor
          <5>2. ~("no-smb-follow-up" \in switches \/ ~smbCredentials)
            BY <1>2, <5>1, <2>1, <2>2
          <5>3. SmbFollowUps \subseteq followUps' BY <1>2, <5>2
          <5>4. TheCommand("smb", Unknown, s.port, "smb") \in SmbFollowUps
            BY <4>1 DEF SmbFollowUps
          <5> QED BY <4>1, <5>3, <5>4 DEF TheCommand, WhatFor
        <4>2. CASE s.kind # "smb"
          <5>1. followUps' \cap WebFollowUps # {}
            BY <2>1, <2>2, <2>5, <3>3, <4>2 DEF WhatFor
          <5>2. ~("no-web-follow-up" \in switches)
            BY <1>2, <5>1, <2>1, <2>2
          <5>3. WebFollowUps \subseteq followUps' BY <1>2, <5>2
          <5>4. TheCommand("web", s.addr, s.port, IF s.kind = "http" THEN "http" ELSE "https")
                    \in WebFollowUps
            BY <4>2 DEF WebFollowUps
          <5> QED BY <4>2, <5>3, <5>4 DEF TheCommand, WhatFor
        <4> QED BY <4>1, <4>2
      <3> QED BY <3>2, <3>3
    <2>11. ManifestOK' BY <1>0 DEF PentestOK, ManifestOK
    <2> QED BY <2>6, <2>7, <2>8, <2>9, <2>10, <2>11 DEF PentestOK
  <1> QED BY <1>1, <1>2 DEF ScanPhases

\* One follow-up, with the outcome it has.
LEMMA FollowUpOK ==
  ASSUME PentestOK, NEW f \in followUps, NEW addr, NEW outcome, FollowUp(f, addr, outcome),
         f.what = "web" /\ outcome # "exit" => addr = f.addr
  PROVE PentestOK'
  <1> DEFINE run == [of |-> f, addr |-> addr, outcome |-> outcome]
             told == Phase(f.what, OutcomeStatus(outcome), f)
  <1>0. /\ pentestStage = "follow-up" /\ pentestStage' = "follow-up"
        /\ followUps' = followUps \ {f}
        /\ ran' = ran \cup {run}
        /\ phases' = phases \cup {told}
        /\ resultFiles' = IF outcome = "exit" THEN resultFiles ELSE resultFiles \cup {f}
        /\ UNCHANGED <<report, scanned, manifest>>
    BY DEF FollowUp, NextUp, OutcomeStatus
  <1>1. /\ run.of = f /\ run.addr = addr /\ run.outcome = outcome
        /\ told.of = f /\ told.status = OutcomeStatus(outcome)
    BY DEF Phase
  <1>2. /\ f.what \in {"web", "smb"}
        /\ f.what = "web" => f.addr \in scanned
        /\ \A r \in ran : r.of # f
        /\ \A p \in phases : p.of # f
    BY DEF PentestOK, WaitingOK
  <1> HIDE DEF run, told
  <1>3. EarlyOK' BY <1>0 DEF PentestOK, EarlyOK
  <1>4. WaitingOK' BY <1>0, <1>1 DEF PentestOK, WaitingOK
  <1>5. RanOK'
    <2> SUFFICES ASSUME NEW r \in ran'
                 PROVE /\ r.of.what = "web" /\ r.outcome # "exit" => r.addr \in scanned
                       /\ StatusesOf(r.of, phases') = {OutcomeStatus(r.outcome)}
      BY <1>0 DEF RanOK
    <2>1. CASE r \in ran
      <3>1. r.of # f BY <1>2, <2>1
      <3>2. {p \in phases' : p.of = r.of} = {p \in phases : p.of = r.of}
        BY <1>0, <1>1, <3>1
      <3> QED BY <2>1, <3>2 DEF PentestOK, RanOK, StatusesOf
    <2>2. CASE r = run
      <3>1. {p \in phases' : p.of = f} = {told} BY <1>0, <1>1, <1>2
      <3>2. StatusesOf(f, phases') = {told.status} BY <3>1 DEF StatusesOf
      <3> QED BY <2>2, <3>2, <1>1, <1>2
    <2> QED BY <1>0, <2>1, <2>2
  <1>6. CompletedOK'
    <2>1. ASSUME NEW p \in phases, p.status = "completed" PROVE p.of \in resultFiles'
      BY <1>0, <2>1 DEF PentestOK, CompletedOK
    <2>2. told.status = "completed" => told.of \in resultFiles'
      BY <1>0, <1>1 DEF OutcomeStatus
    <2> QED BY <1>0, <2>1, <2>2 DEF CompletedOK
  <1>7. CoveredOK'
    <2> SUFFICES ASSUME NEW s \in report
                 PROVE \/ \E r \in ran' : r.of.what = WhatFor(s) /\ r.of.port = s.port
                       \/ \E g \in followUps' : g.what = WhatFor(s) /\ g.port = s.port
                       \/ Phase(WhatFor(s), "skipped", TheScan) \in phases'
      BY <1>0 DEF CoveredOK
    <2>1. \/ \E r \in ran : r.of.what = WhatFor(s) /\ r.of.port = s.port
          \/ \E g \in followUps : g.what = WhatFor(s) /\ g.port = s.port
          \/ Phase(WhatFor(s), "skipped", TheScan) \in phases
      BY <1>0 DEF PentestOK, CoveredOK
    <2> QED BY <1>0, <1>1, <2>1
  <1>8. ManifestOK' BY <1>0 DEF PentestOK, ManifestOK
  <1> QED BY <1>3, <1>4, <1>5, <1>6, <1>7, <1>8 DEF PentestOK

LEMMA PentestStep == ASSUME PentestOK, [PentestNext]_pentestVars PROVE PentestOK'
  <1>1. CASE UNCHANGED pentestVars
    BY <1>1, QuietPentestStep DEF pentestVars
  <1>2. CASE RevokeEngagement BY <1>2, QuietPentestStep DEF RevokeEngagement
  <1>3. CASE DnsChanges BY <1>3, QuietPentestStep DEF DnsChanges
  <1>4. CASE AuthorizeScan
    <2>1. pentestStage = "guard" /\ pentestStage' \in {"scan", "exit"}
      BY <1>4 DEF AuthorizeScan
    <2>2. UNCHANGED <<report, scanned, followUps, ran, resultFiles, phases, manifest>>
      BY <1>4 DEF AuthorizeScan
    <2> QED BY <2>1, <2>2, QuietPentestStep
  <1>5. CASE RunScan BY <1>5, RunScanOK
  <1>6. CASE ScanPhases BY <1>6, ScanPhasesOK
  <1>7. ASSUME NEW f \in followUps, WebFollowUp(f) PROVE PentestOK'
    BY <1>7, FollowUpOK DEF WebFollowUp
  <1>8. ASSUME NEW f \in followUps, SmbFollowUp(f) PROVE PentestOK'
    <2>1. f.what # "web" BY <1>8 DEF SmbFollowUp
    <2>2. PICK addr, outcome : FollowUp(f, addr, outcome)
      BY <1>8 DEF SmbFollowUp
    <2> QED BY <2>1, <2>2, FollowUpOK
  <1>9. CASE SaveManifest
    <2>0. /\ pentestStage = "follow-up" /\ followUps = {} /\ pentestStage' = "done"
          /\ manifest' = phases
          /\ UNCHANGED <<report, scanned, followUps, ran, resultFiles, phases>>
      BY <1>9 DEF SaveManifest
    <2>1. EarlyOK' BY <2>0 DEF EarlyOK
    <2>2. WaitingOK' BY <2>0 DEF PentestOK, WaitingOK
    <2>3. RanOK' BY <2>0 DEF PentestOK, RanOK, StatusesOf
    <2>4. CompletedOK' BY <2>0 DEF PentestOK, CompletedOK
    <2>5. CoveredOK' BY <2>0 DEF PentestOK, CoveredOK
    <2>6. ManifestOK' BY <2>0 DEF ManifestOK
    <2> QED BY <2>1, <2>2, <2>3, <2>4, <2>5, <2>6 DEF PentestOK
  <1>10. CASE WriteFails BY <1>10, QuietPentestStep DEF WriteFails
  <1> QED
    BY <1>1, <1>2, <1>3, <1>4, <1>5, <1>6, <1>7, <1>8, <1>9, <1>10 DEF PentestNext

\* The manifest tells what happened: every reported service followed up or its
\* branch skipped, every follow-up with the one phase of its outcome, every
\* completed phase with its file, every pinned crawl at an address of the scan,
\* for every report, any number of services and addresses (red_cli.py main,
\* pentest_orchestrator.py, pentest_evidence.py).
THEOREM ManifestSafe == PentestSpec => []ManifestTellsTheRun
  <1>1. PentestInit => PentestOK BY PentestInitOK
  <1>2. PentestOK /\ [PentestNext]_pentestVars => PentestOK' BY PentestStep
  <1>3. PentestOK => ManifestTellsTheRun
    <2> SUFFICES ASSUME PentestOK PROVE ManifestTellsTheRun OBVIOUS
    <2>1. \A r \in ran : r.of.what = "web" /\ r.outcome # "exit" => r.addr \in scanned
      BY DEF PentestOK, RanOK
    <2>2. ASSUME manifest # Unknown
          PROVE /\ \A p \in manifest : p.status = "completed" => p.of \in resultFiles
                /\ \A r \in ran : {p.status : p \in {p \in manifest : p.of = r.of}} =
                                    {IF r.outcome = "exit" THEN "failed" ELSE r.outcome}
                /\ \A s \in report :
                      \/ \E r \in ran : r.of.what = WhatFor(s) /\ r.of.port = s.port
                      \/ Phase(WhatFor(s), "skipped", TheScan) \in manifest
      <3>1. manifest = phases /\ followUps = {} /\ pentestStage = "done"
        BY <2>2 DEF PentestOK, ManifestOK
      <3>2. \A p \in manifest : p.status = "completed" => p.of \in resultFiles
        BY <3>1 DEF PentestOK, CompletedOK
      <3>3. \A r \in ran : {p.status : p \in {p \in manifest : p.of = r.of}} =
                                    {IF r.outcome = "exit" THEN "failed" ELSE r.outcome}
        BY <3>1 DEF PentestOK, RanOK, StatusesOf, OutcomeStatus
      <3>4. \A s \in report :
                      \/ \E r \in ran : r.of.what = WhatFor(s) /\ r.of.port = s.port
                      \/ Phase(WhatFor(s), "skipped", TheScan) \in manifest
        BY <3>1 DEF PentestOK, CoveredOK
      <3> QED BY <3>2, <3>3, <3>4
    <2> QED BY <2>1, <2>2 DEF ManifestTellsTheRun, WhatFor
  <1> QED BY <1>1, <1>2, <1>3, PTL DEF PentestSpec

-----------------------------------------------------------------------------
(***************************************************************************)
(* The probe engines.  The items of a call share the pool and nothing      *)
(* else, so the invariant is one of each item, of the threads at work and  *)
(* of the end of the call.                                                 *)
(***************************************************************************)
Places == {"queued", "trying", "banner", "http", "https", "probe", "ended", "raised", "gathered"}
Resting == {"queued", "ended", "raised", "gathered"}
ScanStatuses == {"running", "raising", "raised", "returned"}
ItemStates == {"none", "open", "closed", "filtered", "open|filtered", "error", "responsive",
               "no-response", "detected"}
Seen == TcpAnswers \cup {"reply", "malformed", "syn-ack", "rst", "icmp", "other", "connected",
            "ssh banner", "no banner", "reset", "server header", "http status", "no http",
            "tls only", "no tls", "match", "no match"}

Jobs ==
    [engine : Engines, retries : Nat, active : BOOLEAN, taken : Nat,
     at : [ItemIds -> Places], tries : [ItemIds -> Nat], seen : [ItemIds -> Seq(Seen)],
     results : [ItemIds -> [state : ItemStates, attempts : Nat]], status : ScanStatuses]

\* Answers that settle nothing.
Quiet == {"silence", "gave up", "unreachable", "icmp"}

AllowedOf(j) == IF j.engine = "hosts" THEN HostPorts ELSE j.retries + 1
SeenOf(j, i) == {j.seen[i][k] : k \in DOMAIN j.seen[i]}

\* The result of an item says what its answers bear out.
ResultOK(j, i) ==
    LET state == j.results[i].state
    IN  /\ state # "none"
        /\ state = "open" => {"accept", "reply", "malformed", "syn-ack"} \cap SeenOf(j, i) # {}
        /\ state = "closed" => {"refuse", "rst"} \cap SeenOf(j, i) # {}
        /\ state \in {"filtered", "open|filtered"} => j.results[i].attempts = j.retries + 1
        /\ state = "responsive" <=>
            j.engine = "hosts" /\ {"accept", "refuse"} \cap SeenOf(j, i) # {}

\* Of the engines that retry: what settled an item is the last thing seen of it.
AttemptsOK(j, i) ==
    /\ j.at[i] \in {"queued", "trying", "ended", "raised", "gathered"}
    /\ j.tries[i] <= AllowedOf(j)
    /\ \A k \in 1 .. Len(j.seen[i]) - 1 : j.seen[i][k] \in Quiet
    /\ j.at[i] \in {"queued", "trying", "raised"} =>
        /\ j.tries[i] < AllowedOf(j)
        /\ \A k \in DOMAIN j.seen[i] : j.seen[i][k] \in Quiet

\* A print port is sent nothing: its one try is a connection that failed.
PrintOK(j, i) ==
    /\ j.tries[i] <= 1
    /\ j.at[i] \notin {"ended", "raised", "gathered"} => j.tries[i] = 0

ItemOK(j, i) ==
    /\ j.at[i] = "queued" <=> j.taken < i
    /\ j.engine # "services" => AttemptsOK(j, i)
    /\ j.engine = "services" /\ ScanItems[i].print => PrintOK(j, i)
    /\ j.at[i] = "ended" => ResultOK(j, i)
    /\ j.at[i] = "gathered" /\ j.status \in {"running", "returned"} => ResultOK(j, i)

JobOK ==
    /\ job \in Jobs
    /\ job.taken <= Len(ScanItems)
    /\ \A i \in ItemIds : ItemOK(job, i)
    /\ Cardinality(Running) <= PoolSize
    /\ job.status = "returned" => \A i \in ItemIds : job.at[i] = "gathered"

LEMMA ItemIdsFinite ==
  /\ ItemIds = 1 .. Len(ScanItems) /\ Len(ScanItems) \in Nat
  /\ \A S \in SUBSET ItemIds : IsFiniteSet(S)
  <1>1. ItemIds = 1 .. Len(ScanItems) /\ Len(ScanItems) \in Nat
    BY NetworkScanAssumption DEF ItemIds
  <1>2. IsFiniteSet(ItemIds) BY <1>1, FS_Interval
  <1> QED BY <1>1, <1>2, FS_Subset

LEMMA ScanInitOK == ASSUME ScanInit PROVE JobOK
  <1>1. PICK engine \in Engines, retries \in 0 .. MaxProbeRetries, active \in BOOLEAN :
            job = [engine |-> engine, retries |-> retries, active |-> active, taken |-> 0,
                   at |-> [i \in ItemIds |-> "queued"],
                   tries |-> [i \in ItemIds |-> 0],
                   seen |-> [i \in ItemIds |-> <<>>],
                   results |-> [i \in ItemIds |-> Open],
                   status |-> "running"]
    BY DEF ScanInit
  <1>2. Open \in [state : ItemStates, attempts : Nat] BY DEF Open, ItemStates
  <1>3. "queued" \in Places /\ "running" \in ScanStatuses /\ <<>> \in Seq(Seen)
    BY DEF Places, ScanStatuses
  <1>4. job \in Jobs
    <2>1. /\ retries \in Nat /\ 0 \in Nat
          /\ [i \in ItemIds |-> "queued"] \in [ItemIds -> Places]
          /\ [i \in ItemIds |-> 0] \in [ItemIds -> Nat]
          /\ [i \in ItemIds |-> <<>>] \in [ItemIds -> Seq(Seen)]
          /\ [i \in ItemIds |-> Open] \in [ItemIds -> [state : ItemStates, attempts : Nat]]
      BY <1>2, <1>3, NetworkScanAssumption
    <2> QED BY <1>1, <1>3, <2>1 DEF Jobs
  <1>5. ASSUME NEW i \in ItemIds PROVE ItemOK(job, i)
    <2>1. job.at[i] = "queued" /\ job.tries[i] = 0 /\ job.seen[i] = <<>> /\ job.taken = 0
      BY <1>1
    <2>2. 0 < i BY ItemIdsFinite
    <2>3. 0 < AllowedOf(job) BY <1>4, NetworkScanAssumption DEF AllowedOf, Jobs
    <2>4. AttemptsOK(job, i)
      <3>1. AllowedOf(job) \in Nat BY <1>4, NetworkScanAssumption DEF AllowedOf, Jobs
      <3>2. Len(job.seen[i]) = 0 /\ DOMAIN job.seen[i] = {} BY <2>1
      <3>3. 1 .. Len(job.seen[i]) - 1 = {} BY <3>2
      <3> QED BY <2>1, <2>3, <3>1, <3>2, <3>3 DEF AttemptsOK
    <2>5. PrintOK(job, i) BY <2>1 DEF PrintOK
    <2> QED BY <2>1, <2>2, <2>4, <2>5 DEF ItemOK
  <1>6. Running = {} BY <1>1 DEF Running
  <1>7. Cardinality(Running) <= PoolSize BY <1>6, FS_EmptySet, NetworkScanAssumption
  <1>8. job.taken <= Len(ScanItems) /\ job.status # "returned" BY <1>1, ItemIdsFinite
  <1> QED BY <1>4, <1>5, <1>7, <1>8 DEF JobOK

\* A step on one item: the others keep their parts, and the threads at work are
\* at most those of before.
LEMMA OneItem ==
  ASSUME JobOK, NEW i \in ItemIds, job' \in Jobs,
         job.at[i] # "gathered",
         i \in Running \/ job'.at[i] \in Resting,
         job'.engine = job.engine, job'.retries = job.retries, job'.taken = job.taken,
         job'.status = job.status \/ job'.status = "raising",
         \A k \in ItemIds \ {i} :
            /\ job'.at[k] = job.at[k] /\ job'.tries[k] = job.tries[k]
            /\ job'.seen[k] = job.seen[k] /\ job'.results[k] = job.results[k],
         ItemOK(job', i)
  PROVE JobOK'
  <1>1. ASSUME NEW k \in ItemIds PROVE ItemOK(job', k)
    <2>1. CASE k = i BY <2>1
    <2>2. CASE k # i
      <3>1. ItemOK(job, k) BY DEF JobOK
      <3>2. /\ job'.at[k] = job.at[k] /\ job'.tries[k] = job.tries[k]
            /\ job'.seen[k] = job.seen[k] /\ job'.results[k] = job.results[k]
        BY <2>2
      <3>3. AttemptsOK(job, k) => AttemptsOK(job', k) BY <3>2 DEF AttemptsOK, AllowedOf
      <3>4. PrintOK(job, k) => PrintOK(job', k) BY <3>2 DEF PrintOK
      <3>5. SeenOf(job', k) = SeenOf(job, k) BY <3>2 DEF SeenOf
      <3>6. ResultOK(job, k) => ResultOK(job', k) BY <3>2, <3>5 DEF ResultOK
      <3> QED BY <3>1, <3>2, <3>3, <3>4, <3>6 DEF ItemOK
    <2> QED BY <2>1, <2>2
  <1>2. Running' \subseteq Running
    BY DEF Running, Resting
  <1>3. Running \subseteq ItemIds BY DEF Running
  <1>4. Cardinality(Running') <= PoolSize
    <2>1. IsFiniteSet(Running) BY <1>3, ItemIdsFinite
    <2>2. IsFiniteSet(Running') /\ Cardinality(Running') <= Cardinality(Running)
      BY <1>2, <2>1, FS_Subset
    <2>3. Cardinality(Running) \in Nat /\ Cardinality(Running') \in Nat
      BY <2>1, <2>2, FS_CardinalityType
    <2> QED BY <2>2, <2>3, NetworkScanAssumption DEF JobOK
  <1>5. job'.status # "returned" BY DEF JobOK
  <1>6. job'.taken <= Len(ScanItems) BY DEF JobOK
  <1> QED BY <1>1, <1>4, <1>5, <1>6 DEF JobOK

\* An item that is settled: the answer comes last, after answers that settle nothing.
LEMMA SettleOK ==
  ASSUME JobOK, NEW i \in Running, NEW answer \in Seen, NEW state \in ItemStates \ {"none"},
         Settle(i, answer, state),
         job.engine # "services" \/ ScanItems[i].print => job.at[i] = "trying",
         state = "open" => answer \in {"accept", "reply", "malformed", "syn-ack"},
         state = "closed" => answer \in {"refuse", "rst"},
         state \in {"filtered", "open|filtered"} =>
            job.engine \notin {"services", "hosts"} /\ ~AttemptsLeft(i),
         state = "responsive" => job.engine = "hosts",
         job.engine = "hosts" => (state = "responsive" <=> answer \in {"accept", "refuse"})
  PROVE JobOK'
  <1>1. /\ job \in Jobs /\ i \in ItemIds /\ ItemOK(job, i)
        /\ job.at[i] \notin Resting /\ job.at[i] # "gathered"
    BY DEF JobOK, Running, Resting
  <1>2. /\ job'.engine = job.engine /\ job'.retries = job.retries /\ job'.taken = job.taken
        /\ job'.status = job.status /\ job'.active = job.active
        /\ job'.at = [job.at EXCEPT ![i] = "ended"]
        /\ job'.tries = [job.tries EXCEPT ![i] = job.tries[i] + 1]
        /\ job'.seen = [job.seen EXCEPT ![i] = Append(job.seen[i], answer)]
        /\ job'.results = [job.results EXCEPT ![i] = [state |-> state, attempts |-> job.tries[i] + 1]]
    BY <1>1 DEF Settle, Jobs
  <1>3. job' \in Jobs
    <2>1. /\ job.tries[i] + 1 \in Nat /\ Append(job.seen[i], answer) \in Seq(Seen)
          /\ "ended" \in Places
          /\ [state |-> state, attempts |-> job.tries[i] + 1] \in [state : ItemStates, attempts : Nat]
      BY <1>1 DEF Jobs, Places
    <2> QED BY <1>1, <2>1 DEF Settle, Jobs
  <1>4. /\ job'.at[i] = "ended" /\ job'.tries[i] = job.tries[i] + 1
        /\ job'.seen[i] = Append(job.seen[i], answer)
        /\ job'.results[i].state = state /\ job'.results[i].attempts = job.tries[i] + 1
        /\ job.tries[i] \in Nat /\ job.retries \in Nat
        /\ job.seen[i] \in Seq(Seen)
    BY <1>1, <1>2 DEF Jobs
  <1>5. /\ DOMAIN job'.seen[i] = 1 .. Len(job.seen[i]) + 1
        /\ Len(job'.seen[i]) - 1 = Len(job.seen[i]) /\ Len(job.seen[i]) \in Nat
        /\ DOMAIN job.seen[i] = 1 .. Len(job.seen[i])
        /\ \A k \in DOMAIN job.seen[i] : job'.seen[i][k] = job.seen[i][k]
        /\ job'.seen[i][Len(job.seen[i]) + 1] = answer
    BY <1>4
  <1>6. answer \in SeenOf(job', i) BY <1>5 DEF SeenOf
  <1>7. AllowedOf(job') = AllowedOf(job) /\ AllowedOf(job) \in Nat
    BY <1>2, <1>4, NetworkScanAssumption DEF AllowedOf
  <1>8. job.engine # "services" =>
            /\ job.at[i] = "trying" /\ job.tries[i] < AllowedOf(job)
            /\ \A k \in DOMAIN job.seen[i] : job.seen[i][k] \in Quiet
    BY <1>1 DEF ItemOK, AttemptsOK
  <1>9. job.engine # "services" => AttemptsOK(job', i)
    <2> HAVE job.engine # "services"
    <2>1. \A k \in 1 .. Len(job'.seen[i]) - 1 : job'.seen[i][k] \in Quiet
      BY <1>5, <1>8
    <2>2. job'.tries[i] <= AllowedOf(job') BY <1>4, <1>7, <1>8
    <2> QED BY <1>4, <2>1, <2>2 DEF AttemptsOK
  <1>10. job.engine = "services" /\ ScanItems[i].print => PrintOK(job', i)
    BY <1>1, <1>4 DEF ItemOK, PrintOK
  <1>11. ResultOK(job', i)
    <2>1. state = "open" => {"accept", "reply", "malformed", "syn-ack"} \cap SeenOf(job', i) # {}
      BY <1>6
    <2>2. state = "closed" => {"refuse", "rst"} \cap SeenOf(job', i) # {} BY <1>6
    <2>3. state \in {"filtered", "open|filtered"} => job'.results[i].attempts = job'.retries + 1
      BY <1>2, <1>4, <1>8 DEF AttemptsLeft, Allowed, AllowedOf
    <2>4. job.engine = "hosts" =>
             (answer \in {"accept", "refuse"} <=> {"accept", "refuse"} \cap SeenOf(job', i) # {})
      <3> HAVE job.engine = "hosts"
      <3>1. \A k \in DOMAIN job'.seen[i] :
                job'.seen[i][k] = answer \/ job'.seen[i][k] \in Quiet
        BY <1>5, <1>8
      <3>2. \A x \in SeenOf(job', i) : x = answer \/ x \in Quiet BY <3>1 DEF SeenOf
      <3>3. \A x \in {"accept", "refuse"} : x \notin Quiet BY DEF Quiet
      <3> QED BY <1>6, <3>2, <3>3
    <2> QED BY <1>2, <1>4, <2>1, <2>2, <2>3, <2>4 DEF ResultOK
  <1>12. ItemOK(job', i)
    BY <1>1, <1>2, <1>4, <1>9, <1>10, <1>11 DEF ItemOK, Resting
  <1> QED BY <1>1, <1>2, <1>3, <1>12, OneItem

\* The next attempt, after an answer that settles nothing.
LEMMA AgainOK ==
  ASSUME JobOK, NEW i \in Running, NEW answer \in Seen, Again(i, answer),
         job.engine # "services" => answer \in Quiet /\ AttemptsLeft(i),
         job.engine = "services" => ~ScanItems[i].print
  PROVE JobOK'
  <1>1. /\ job \in Jobs /\ i \in ItemIds /\ ItemOK(job, i)
        /\ job.at[i] \notin Resting /\ job.at[i] # "gathered"
    BY DEF JobOK, Running, Resting
  <1>2. /\ job'.engine = job.engine /\ job'.retries = job.retries /\ job'.taken = job.taken
        /\ job'.status = job.status /\ job'.active = job.active
        /\ job'.at = job.at /\ job'.results = job.results
        /\ job'.tries = [job.tries EXCEPT ![i] = job.tries[i] + 1]
        /\ job'.seen = [job.seen EXCEPT ![i] = Append(job.seen[i], answer)]
    BY <1>1 DEF Again, Jobs
  <1>3. job' \in Jobs
    <2>1. job.tries[i] + 1 \in Nat /\ Append(job.seen[i], answer) \in Seq(Seen)
      BY <1>1 DEF Jobs
    <2> QED BY <1>1, <2>1 DEF Again, Jobs
  <1>4. /\ job'.at[i] = job.at[i] /\ job'.tries[i] = job.tries[i] + 1
        /\ job'.seen[i] = Append(job.seen[i], answer)
        /\ job.tries[i] \in Nat /\ job.retries \in Nat /\ job.seen[i] \in Seq(Seen)
    BY <1>1, <1>2 DEF Jobs
  <1>5. /\ DOMAIN job'.seen[i] = 1 .. Len(job.seen[i]) + 1
        /\ Len(job'.seen[i]) - 1 = Len(job.seen[i]) /\ Len(job.seen[i]) \in Nat
        /\ DOMAIN job.seen[i] = 1 .. Len(job.seen[i])
        /\ \A k \in DOMAIN job.seen[i] : job'.seen[i][k] = job.seen[i][k]
        /\ job'.seen[i][Len(job.seen[i]) + 1] = answer
    BY <1>4
  <1>6. AllowedOf(job') = AllowedOf(job) /\ AllowedOf(job) \in Nat
    BY <1>2, <1>4, NetworkScanAssumption DEF AllowedOf
  <1>7. job.engine # "services" =>
            /\ job.at[i] = "trying" /\ job.tries[i] + 1 < AllowedOf(job)
            /\ \A k \in DOMAIN job.seen[i] : job.seen[i][k] \in Quiet
    BY <1>1 DEF ItemOK, AttemptsOK, Resting, AttemptsLeft, Allowed, AllowedOf
  <1>8. job.engine # "services" => \A k \in DOMAIN job'.seen[i] : job'.seen[i][k] \in Quiet
    BY <1>5, <1>7
  <1>9. job.engine # "services" => AttemptsOK(job', i)
    <2> HAVE job.engine # "services"
    <2>1. \A k \in 1 .. Len(job'.seen[i]) - 1 : job'.seen[i][k] \in Quiet
      BY <1>5, <1>7
    <2>2. job'.tries[i] < AllowedOf(job') /\ job'.tries[i] <= AllowedOf(job')
      BY <1>4, <1>6, <1>7
    <2> QED BY <1>4, <1>7, <1>8, <2>1, <2>2 DEF AttemptsOK
  <1>10. ItemOK(job', i)
    BY <1>1, <1>2, <1>4, <1>9 DEF ItemOK, Resting
  <1> QED BY <1>1, <1>2, <1>3, <1>10, OneItem

\* A step of the service detection: what it learns settles nothing.
LEMMA LearnOK ==
  ASSUME JobOK, NEW i \in Running, NEW what \in Seen, NEW next \in Places,
         job' = [job EXCEPT !.at[i] = next, !.seen[i] = Append(@, what)],
         job.engine = "services", next \notin {"queued", "ended", "gathered"}
  PROVE JobOK'
  <1>1. /\ job \in Jobs /\ i \in ItemIds /\ ItemOK(job, i)
        /\ job.at[i] \notin Resting /\ job.at[i] # "gathered"
    BY DEF JobOK, Running, Resting
  <1>2. /\ job'.engine = job.engine /\ job'.retries = job.retries /\ job'.taken = job.taken
        /\ job'.status = job.status /\ job'.active = job.active
        /\ job'.at = [job.at EXCEPT ![i] = next] /\ job'.results = job.results
        /\ job'.tries = job.tries
        /\ job'.seen = [job.seen EXCEPT ![i] = Append(job.seen[i], what)]
    BY <1>1 DEF Jobs
  <1>3. job' \in Jobs
    <2>1. Append(job.seen[i], what) \in Seq(Seen) BY <1>1 DEF Jobs
    <2> QED BY <1>1, <2>1 DEF Jobs
  <1>4. job'.at[i] = next /\ job'.tries[i] = job.tries[i]
    BY <1>1, <1>2 DEF Jobs
  <1>5. PrintOK(job, i) => PrintOK(job', i) BY <1>1, <1>4 DEF PrintOK, Resting
  <1>6. ItemOK(job', i) BY <1>1, <1>2, <1>4, <1>5 DEF ItemOK, Resting
  <1> QED BY <1>1, <1>2, <1>3, <1>6, OneItem

\* A thread that raises: nothing is said of its item.
LEMMA RaiseOK == ASSUME JobOK, NEW i \in Running, ProbeRaises(i) PROVE JobOK'
  <1>1. /\ job \in Jobs /\ i \in ItemIds /\ ItemOK(job, i) /\ job.at[i] = "trying"
    BY DEF JobOK, Running, ProbeRaises
  <1>2. /\ job'.engine = job.engine /\ job'.retries = job.retries /\ job'.taken = job.taken
        /\ job'.status = job.status /\ job'.active = job.active
        /\ job'.at = [job.at EXCEPT ![i] = "raised"] /\ job'.results = job.results
        /\ job'.tries = job.tries /\ job'.seen = job.seen
    BY <1>1 DEF ProbeRaises, Jobs
  <1>3. job' \in Jobs
    <2>1. "raised" \in Places BY DEF Places
    <2> QED BY <1>1, <2>1 DEF ProbeRaises, Jobs
  <1>4. job'.at[i] = "raised" BY <1>1, <1>2 DEF Jobs
  <1>5. PrintOK(job, i) => PrintOK(job', i) BY <1>1, <1>2, <1>4 DEF PrintOK
  <1>6. AttemptsOK(job, i) => AttemptsOK(job', i)
    BY <1>1, <1>2, <1>4 DEF AttemptsOK, AllowedOf
  <1>7. ItemOK(job', i) BY <1>1, <1>2, <1>4, <1>5, <1>6 DEF ItemOK
  <1> QED BY <1>1, <1>2, <1>3, <1>4, <1>7, OneItem DEF Resting

\* The end of a detection: detected, or nothing recognised.
LEMMA ServiceDoneOK == ASSUME JobOK, NEW i \in Running, ServiceDone(i) PROVE JobOK'
  <1>1. /\ job \in Jobs /\ i \in ItemIds /\ ItemOK(job, i) /\ job.at[i] = "probe"
    BY DEF JobOK, Running, ServiceDone
  <1>2. job.engine = "services" BY <1>1 DEF ItemOK, AttemptsOK
  <1>3. /\ job'.engine = job.engine /\ job'.retries = job.retries /\ job'.taken = job.taken
        /\ job'.status = job.status /\ job'.active = job.active
        /\ job'.at = [job.at EXCEPT ![i] = "ended"]
        /\ job'.results = [job.results EXCEPT ![i] =
                            [state |-> "detected", attempts |-> job.tries[i]]]
        /\ job'.tries = job.tries /\ job'.seen = job.seen
    BY <1>1 DEF ServiceDone, Jobs
  <1>4. job' \in Jobs
    <2>1. "ended" \in Places BY DEF Places
    <2>2. [state |-> "detected", attempts |-> job.tries[i]] \in [state : ItemStates, attempts : Nat]
      BY <1>1 DEF Jobs, ItemStates
    <2> QED BY <1>1, <2>1, <2>2 DEF ServiceDone, Jobs
  <1>5. job'.at[i] = "ended" /\ job'.results[i].state = "detected"
    BY <1>1, <1>3 DEF Jobs
  <1>6. PrintOK(job, i) => PrintOK(job', i) BY <1>1, <1>3, <1>5 DEF PrintOK
  <1>7. ResultOK(job', i) BY <1>2, <1>3, <1>5 DEF ResultOK
  <1>8. ItemOK(job', i) BY <1>1, <1>2, <1>3, <1>5, <1>6, <1>7 DEF ItemOK
  <1> QED BY <1>1, <1>3, <1>4, <1>5, <1>8, OneItem DEF Resting

\* Gathering a result, or the exception in its place.
LEMMA GatherOK == ASSUME JobOK, NEW i \in ItemIds, Gather(i) PROVE JobOK'
  <1>1. /\ job \in Jobs /\ ItemOK(job, i) /\ job.status = "running"
        /\ job.at[i] \in {"ended", "raised"} /\ "gathered" \in Places
        /\ "raising" \in ScanStatuses
    BY DEF JobOK, Gather, Places, ScanStatuses
  <1>2. CASE /\ job.at[i] = "ended"
             /\ job' = [job EXCEPT !.at[i] = "gathered"]
    <2>1. /\ job'.engine = job.engine /\ job'.retries = job.retries /\ job'.taken = job.taken
          /\ job'.status = job.status /\ job'.active = job.active
          /\ job'.at = [job.at EXCEPT ![i] = "gathered"]
          /\ job'.results = job.results /\ job'.tries = job.tries /\ job'.seen = job.seen
      BY <1>1, <1>2 DEF Jobs
    <2>2. job' \in Jobs BY <1>1, <1>2 DEF Jobs
    <2>3. job'.at[i] = "gathered" BY <1>1, <2>1 DEF Jobs
    <2>4. PrintOK(job, i) => PrintOK(job', i) BY <2>1, <2>3, <1>2 DEF PrintOK
    <2>5. AttemptsOK(job, i) => AttemptsOK(job', i)
      BY <1>2, <2>1, <2>3 DEF AttemptsOK, AllowedOf
    <2>6. SeenOf(job', i) = SeenOf(job, i) BY <2>1 DEF SeenOf
    <2>7. ResultOK(job, i) => ResultOK(job', i) BY <2>1, <2>6 DEF ResultOK
    <2>8. ItemOK(job', i) BY <1>1, <1>2, <2>1, <2>3, <2>4, <2>5, <2>7 DEF ItemOK
    <2> QED BY <1>1, <2>1, <2>2, <2>3, <2>8, OneItem DEF Resting
  <1>3. CASE /\ job.at[i] = "raised" /\ job.engine \in {"tcp", "udp", "hosts"}
             /\ job' = [job EXCEPT !.at[i] = "gathered",
                                   !.results[i] = [state |-> "error", attempts |-> 1]]
    <2>1. /\ job'.engine = job.engine /\ job'.retries = job.retries /\ job'.taken = job.taken
          /\ job'.status = job.status /\ job'.active = job.active
          /\ job'.at = [job.at EXCEPT ![i] = "gathered"]
          /\ job'.results = [job.results EXCEPT ![i] = [state |-> "error", attempts |-> 1]]
          /\ job'.tries = job.tries /\ job'.seen = job.seen
      BY <1>1, <1>3 DEF Jobs
    <2>2. [state |-> "error", attempts |-> 1] \in [state : ItemStates, attempts : Nat]
      BY DEF ItemStates
    <2>3. job' \in Jobs BY <1>1, <1>3, <2>2 DEF Jobs
    <2>4. job'.at[i] = "gathered" /\ job'.results[i].state = "error" BY <1>1, <2>1 DEF Jobs
    <2>5. AttemptsOK(job, i) => AttemptsOK(job', i)
      BY <1>3, <2>1, <2>4 DEF AttemptsOK, AllowedOf
    <2>6. \A k \in DOMAIN job'.seen[i] : job'.seen[i][k] \in Quiet
      BY <1>1, <1>3, <2>1 DEF ItemOK, AttemptsOK
    <2>7. {"accept", "refuse"} \cap SeenOf(job', i) = {} BY <2>6 DEF SeenOf, Quiet
    <2>8. ResultOK(job', i) BY <2>4, <2>7 DEF ResultOK
    <2>9. ItemOK(job', i) BY <1>1, <1>3, <2>1, <2>4, <2>5, <2>8 DEF ItemOK
    <2> QED BY <1>1, <2>1, <2>3, <2>4, <2>9, OneItem DEF Resting
  <1>4. CASE /\ job.at[i] = "raised"
             /\ job' = [job EXCEPT !.at[i] = "gathered", !.status = "raising"]
    <2>1. /\ job'.engine = job.engine /\ job'.retries = job.retries /\ job'.taken = job.taken
          /\ job'.status = "raising" /\ job'.active = job.active
          /\ job'.at = [job.at EXCEPT ![i] = "gathered"]
          /\ job'.results = job.results /\ job'.tries = job.tries /\ job'.seen = job.seen
      BY <1>1, <1>4 DEF Jobs
    <2>2. job' \in Jobs BY <1>1, <1>4 DEF Jobs
    <2>3. job'.at[i] = "gathered" BY <1>1, <2>1 DEF Jobs
    <2>4. PrintOK(job, i) => PrintOK(job', i) BY <2>1, <2>3, <1>4 DEF PrintOK
    <2>5. AttemptsOK(job, i) => AttemptsOK(job', i)
      BY <1>4, <2>1, <2>3 DEF AttemptsOK, AllowedOf
    <2>6. ItemOK(job', i) BY <1>1, <1>4, <2>1, <2>3, <2>4, <2>5 DEF ItemOK
    <2> QED BY <1>1, <2>1, <2>2, <2>3, <2>6, OneItem DEF Resting
  <1> QED BY <1>2, <1>3, <1>4 DEF Gather

\* The pool takes the next item only while a thread is free.
LEMMA TakeItemOK == ASSUME JobOK, TakeItem PROVE JobOK'
  <1> DEFINE n == job.taken + 1
  <1>1. /\ job \in Jobs /\ n \in ItemIds /\ job.taken \in Nat /\ n <= Len(ScanItems)
        /\ "trying" \in Places
    BY ItemIdsFinite DEF JobOK, TakeItem, Jobs, Places
  <1>2. ItemOK(job, n) /\ job.at[n] = "queued" BY <1>1 DEF JobOK, ItemOK
  <1>3. /\ job'.engine = job.engine /\ job'.retries = job.retries /\ job'.taken = n
        /\ job'.status = job.status /\ job'.active = job.active
        /\ job'.at = [job.at EXCEPT ![n] = "trying"]
        /\ job'.results = job.results /\ job'.tries = job.tries /\ job'.seen = job.seen
    BY <1>1 DEF TakeItem, Jobs
  <1>4. job' \in Jobs
    <2>1. n \in Nat BY <1>1
    <2> QED BY <1>1, <2>1 DEF TakeItem, Jobs
  <1>5. job'.at[n] = "trying" /\ \A k \in ItemIds \ {n} : job'.at[k] = job.at[k]
    BY <1>1, <1>3 DEF Jobs
  <1>6. ASSUME NEW k \in ItemIds PROVE ItemOK(job', k)
    <2>1. ItemOK(job, k) /\ k \in Nat BY ItemIdsFinite DEF JobOK
    <2>2. SeenOf(job', k) = SeenOf(job, k) BY <1>3 DEF SeenOf
    <2>3. ResultOK(job, k) => ResultOK(job', k) BY <1>3, <2>2 DEF ResultOK
    <2>4. AttemptsOK(job, k) => AttemptsOK(job', k)
      BY <1>2, <1>3, <1>5 DEF AttemptsOK, AllowedOf
    <2>5. PrintOK(job, k) => PrintOK(job', k) BY <1>2, <1>3, <1>5 DEF PrintOK
    <2>6. job'.at[k] = "queued" <=> n < k
      BY <1>1, <1>5, <2>1 DEF ItemOK
    <2> QED BY <1>2, <1>3, <1>5, <2>1, <2>3, <2>4, <2>5, <2>6 DEF ItemOK
  <1>7. Running' = Running \cup {n}
    BY <1>1, <1>5 DEF Running
  <1>8. IsFiniteSet(Running) BY ItemIdsFinite DEF Running
  <1>9. /\ Cardinality(Running) \in Nat
        /\ Cardinality(Running') \in Nat /\ Cardinality(Running') <= Cardinality(Running) + 1
    <2> HIDE DEF n
    <2>1. Cardinality(Running) \in Nat BY <1>8, FS_CardinalityType
    <2>2. Cardinality(Running \cup {n}) =
            IF n \in Running THEN Cardinality(Running) ELSE Cardinality(Running) + 1
      BY <1>8, FS_AddElement
    <2> QED BY <1>7, <2>1, <2>2
  <1>10. Cardinality(Running') <= PoolSize
    <2>1. CASE job.engine = "syn"
      <3>1. \A k \in ItemIds : job.at[k] \in {"queued", "gathered"}
        <4> SUFFICES ASSUME NEW k \in ItemIds PROVE job.at[k] \in {"queued", "gathered"} OBVIOUS
        <4>1. ItemOK(job, k) /\ k \in Nat /\ 1 <= k BY ItemIdsFinite DEF JobOK
        <4>2. CASE job.taken < k BY <4>1, <4>2 DEF ItemOK
        <4>3. CASE k \in 1 .. job.taken BY <2>1, <4>3 DEF TakeItem
        <4> QED BY <1>1, <4>1, <4>2, <4>3
      <3>2. Running = {} BY <3>1 DEF Running
      <3> QED BY <3>2, <1>9, FS_EmptySet, NetworkScanAssumption
    <2>2. CASE job.engine # "syn"
      BY <2>2, <1>9, NetworkScanAssumption DEF TakeItem
    <2> QED BY <2>1, <2>2
  <1>11. job.status # "returned"
    BY <1>1, <1>2 DEF JobOK
  <1> QED BY <1>1, <1>3, <1>4, <1>6, <1>10, <1>11 DEF JobOK

LEMMA AttemptStep ==
  ASSUME JobOK, NEW i \in Running,
         TcpAttempt(i) \/ UdpAttempt(i) \/ SynAttempt(i) \/ HostAttempt(i)
  PROVE JobOK'
  <1>1. CASE TcpAttempt(i)
    <2>1. PICK answer \in TcpAnswers :
            IF classify_tcp_error(connect_ex(answer)) = "filtered" /\ AttemptsLeft(i)
            THEN Again(i, answer)
            ELSE Settle(i, answer, classify_tcp_error(connect_ex(answer)))
      BY <1>1 DEF TcpAttempt
    <2> DEFINE state == classify_tcp_error(connect_ex(answer))
    <2>2. \/ answer = "accept" /\ state = "open"
          \/ answer = "refuse" /\ state = "closed"
          \/ answer = "gave up" /\ state = "filtered"
          \/ answer \in {"silence", "unreachable"} /\ state = "error"
      <3>1. CASE answer = "accept" BY <3>1 DEF connect_ex, classify_tcp_error
      <3>2. CASE answer = "refuse" BY <3>2 DEF connect_ex, classify_tcp_error
      <3>3. CASE answer = "gave up" BY <3>3 DEF connect_ex, classify_tcp_error
      <3>4. CASE answer = "silence" BY <3>4 DEF connect_ex, classify_tcp_error
      <3>5. CASE answer = "unreachable" BY <3>5 DEF connect_ex, classify_tcp_error
      <3> QED BY <2>1, <3>1, <3>2, <3>3, <3>4, <3>5 DEF TcpAnswers
    <2>3. job.engine = "tcp" /\ job.at[i] = "trying" /\ answer \in Seen
      BY <1>1 DEF TcpAttempt, Seen
    <2> HIDE DEF state
    <2>4. state \in ItemStates \ {"none"} BY <2>2 DEF ItemStates
    <2>5. CASE state = "filtered" /\ AttemptsLeft(i)
      BY <2>1, <2>2, <2>3, <2>5, AgainOK DEF state, Quiet
    <2>6. CASE ~(state = "filtered" /\ AttemptsLeft(i))
      <3>1. Settle(i, answer, state) BY <2>1, <2>6 DEF state
      <3> QED BY <3>1, <2>2, <2>3, <2>4, <2>6, SettleOK
    <2> QED BY <2>5, <2>6
  <1>2. CASE UdpAttempt(i)
    <2>1. PICK answer \in {"reply", "malformed", "refuse", "silence", "unreachable"} :
            IF answer = "silence" /\ AttemptsLeft(i)
            THEN Again(i, answer)
            ELSE Settle(i, answer, UdpState(answer))
      BY <1>2 DEF UdpAttempt
    <2>2. \/ answer \in {"reply", "malformed"} /\ UdpState(answer) = "open"
          \/ answer = "refuse" /\ UdpState(answer) = "closed"
          \/ answer = "silence" /\ UdpState(answer) = "open|filtered"
          \/ answer = "unreachable" /\ UdpState(answer) = "error"
      BY DEF UdpState
    <2>3. job.engine = "udp" /\ job.at[i] = "trying" /\ answer \in Seen
      BY <1>2 DEF UdpAttempt, Seen, TcpAnswers
    <2>4. UdpState(answer) \in ItemStates \ {"none"} BY <2>2 DEF ItemStates
    <2>5. CASE answer = "silence" /\ AttemptsLeft(i)
      BY <2>1, <2>3, <2>5, AgainOK DEF Quiet
    <2>6. CASE ~(answer = "silence" /\ AttemptsLeft(i))
      <3>1. Settle(i, answer, UdpState(answer)) BY <2>1, <2>6
      <3> QED BY <3>1, <2>2, <2>3, <2>4, <2>6, SettleOK
    <2> QED BY <2>5, <2>6
  <1>3. CASE SynAttempt(i)
    <2>1. PICK answer \in {"syn-ack", "rst", "silence", "icmp", "other"} :
            IF classify_syn_response(answer) = "filtered" /\ AttemptsLeft(i)
            THEN Again(i, answer)
            ELSE Settle(i, answer, classify_syn_response(answer))
      BY <1>3 DEF SynAttempt
    <2> DEFINE state == classify_syn_response(answer)
    <2>2. \/ answer = "syn-ack" /\ state = "open"
          \/ answer = "rst" /\ state = "closed"
          \/ answer \in {"silence", "icmp"} /\ state = "filtered"
          \/ answer = "other" /\ state = "error"
      BY DEF classify_syn_response
    <2>3. job.engine = "syn" /\ job.at[i] = "trying" /\ answer \in Seen
      BY <1>3 DEF SynAttempt, Seen, TcpAnswers
    <2> HIDE DEF state
    <2>4. state \in ItemStates \ {"none"} BY <2>2 DEF ItemStates
    <2>5. CASE state = "filtered" /\ AttemptsLeft(i)
      BY <2>1, <2>2, <2>3, <2>5, AgainOK DEF state, Quiet
    <2>6. CASE ~(state = "filtered" /\ AttemptsLeft(i))
      <3>1. Settle(i, answer, state) BY <2>1, <2>6 DEF state
      <3> QED BY <3>1, <2>2, <2>3, <2>4, <2>6, SettleOK
    <2> QED BY <2>5, <2>6
  <1>4. CASE HostAttempt(i)
    <2>1. PICK answer \in TcpAnswers :
            IF answer \in {"accept", "refuse"}
            THEN Settle(i, answer, "responsive")
            ELSE IF AttemptsLeft(i) THEN Again(i, answer) ELSE Settle(i, answer, "no-response")
      BY <1>4 DEF HostAttempt
    <2>2. job.engine = "hosts" /\ job.at[i] = "trying" /\ answer \in Seen
      BY <1>4 DEF HostAttempt, Seen
    <2>3. "responsive" \in ItemStates \ {"none"} /\ "no-response" \in ItemStates \ {"none"}
      BY DEF ItemStates
    <2>4. CASE answer \in {"accept", "refuse"}
      <3>1. Settle(i, answer, "responsive") BY <2>1, <2>4
      <3> QED BY <3>1, <2>2, <2>3, <2>4, SettleOK
    <2>5. CASE answer \notin {"accept", "refuse"} /\ AttemptsLeft(i)
      <3>1. answer \in Quiet BY <2>5 DEF TcpAnswers, Quiet
      <3> QED BY <3>1, <2>1, <2>2, <2>5, AgainOK
    <2>6. CASE answer \notin {"accept", "refuse"} /\ ~AttemptsLeft(i)
      <3>1. Settle(i, answer, "no-response") BY <2>1, <2>6
      <3> QED BY <3>1, <2>2, <2>3, <2>6, SettleOK
    <2> QED BY <2>4, <2>5, <2>6
  <1> QED BY <1>1, <1>2, <1>3, <1>4

LEMMA DetectionStep ==
  ASSUME JobOK, NEW i \in Running,
         ServiceConnect(i) \/ ServiceBanner(i) \/ ProbeHttp(i) \/ ProbeTls(i) \/ ActiveProbe(i)
  PROVE JobOK'
  <1>0. i \in ItemIds /\ ItemOK(job, i) BY DEF JobOK, Running
  <1>1. CASE ServiceConnect(i)
    <2>1. job.engine = "services" /\ job.at[i] = "trying" BY <1>1 DEF ServiceConnect
    <2>2. CASE Settle(i, "refuse", "error")
      <3>1. "refuse" \in Seen /\ "error" \in ItemStates \ {"none"}
        BY DEF Seen, TcpAnswers, ItemStates
      <3> QED BY <2>1, <2>2, <3>1, SettleOK
    <2>3. CASE Learn(i, "connected", "banner")
      <3>1. "connected" \in Seen /\ "banner" \in Places BY DEF Seen, Places
      <3> QED BY <2>1, <2>3, <3>1, LearnOK DEF Learn
    <2> QED BY <1>1, <2>2, <2>3 DEF ServiceConnect
  <1>2. CASE ServiceBanner(i)
    <2>1. job.at[i] = "banner" BY <1>2 DEF ServiceBanner
    <2>2. job.engine = "services" BY <1>0, <2>1 DEF ItemOK, AttemptsOK
    <2>3. \E what \in {"ssh banner", "no banner", "reset"},
             next \in {"http", "https", "probe", "raised"} :
            job' = [job EXCEPT !.at[i] = next, !.seen[i] = Append(@, what)]
      BY <1>2 DEF ServiceBanner, Learn
    <2>4. PICK what \in {"ssh banner", "no banner", "reset"},
               next \in {"http", "https", "probe", "raised"} :
            job' = [job EXCEPT !.at[i] = next, !.seen[i] = Append(@, what)]
      BY <2>3
    <2>5. what \in Seen /\ next \in Places /\ next \notin {"queued", "ended", "gathered"}
      BY DEF Seen, Places
    <2> QED BY <2>2, <2>4, <2>5, LearnOK
  <1>3. CASE ProbeHttp(i) \/ ProbeTls(i)
    <2>1. job.engine = "services"
      BY <1>0, <1>3 DEF ItemOK, AttemptsOK, ProbeHttp, ProbeTls
    <2>2. PICK answer \in {"server header", "http status", "no http", "tls only", "no tls"} :
            Learn(i, answer, "probe")
      BY <1>3 DEF ProbeHttp, ProbeTls
    <2>3. answer \in Seen /\ "probe" \in Places BY DEF Seen, Places
    <2> QED BY <2>1, <2>2, <2>3, LearnOK DEF Learn
  <1>4. CASE ActiveProbe(i)
    <2>1. job.at[i] = "probe" BY <1>4 DEF ActiveProbe
    <2>2. job.engine = "services" BY <1>0, <2>1 DEF ItemOK, AttemptsOK
    <2>3. ~ScanItems[i].print
      <3> SUFFICES ASSUME ScanItems[i].print PROVE FALSE OBVIOUS
      <3>1. job.tries[i] < 0 BY <1>4 DEF ActiveProbe, select_service_probes
      <3>2. job.tries[i] = 0 BY <1>0, <2>1, <2>2 DEF ItemOK, PrintOK
      <3> QED BY <3>1, <3>2
    <2>4. PICK answer \in {"match", "no match", "refuse"} :
            IF answer = "match" THEN Settle(i, answer, "detected") ELSE Again(i, answer)
      BY <1>4 DEF ActiveProbe
    <2>5. answer \in Seen /\ "detected" \in ItemStates \ {"none"}
      BY DEF Seen, TcpAnswers, ItemStates
    <2>6. CASE answer = "match"
      <3>1. Settle(i, answer, "detected") BY <2>4, <2>6
      <3> QED BY <3>1, <2>2, <2>3, <2>5, SettleOK
    <2>7. CASE answer # "match"
      <3>1. Again(i, answer) BY <2>4, <2>7
      <3> QED BY <3>1, <2>2, <2>3, <2>5, AgainOK
    <2> QED BY <2>6, <2>7
  <1> QED BY <1>1, <1>2, <1>3, <1>4

LEMMA ScanStep == ASSUME JobOK, [ScanNext]_job PROVE JobOK'
  <1>1. CASE UNCHANGED job
    <2>1. Running' = Running BY <1>1 DEF Running
    <2> QED BY <1>1, <2>1 DEF JobOK
  <1>2. CASE TakeItem BY <1>2, TakeItemOK
  <1>3. ASSUME NEW i \in Running,
               \/ TcpAttempt(i) \/ UdpAttempt(i) \/ SynAttempt(i) \/ HostAttempt(i)
               \/ ServiceConnect(i) \/ ServiceBanner(i) \/ ProbeHttp(i) \/ ProbeTls(i)
               \/ ActiveProbe(i) \/ ServiceDone(i) \/ ProbeRaises(i)
        PROVE JobOK'
    BY <1>3, AttemptStep, DetectionStep, ServiceDoneOK, RaiseOK
  <1>4. ASSUME NEW i \in ItemIds, Gather(i) PROVE JobOK' BY <1>4, GatherOK
  <1>5. CASE Propagate \/ ReturnResults
    <2>1. PICK status \in {"raised", "returned"} :
            /\ job' = [job EXCEPT !.status = status]
            /\ status = "returned" =>
                job.status = "running" /\ \A i \in ItemIds : job.at[i] = "gathered"
      BY <1>5 DEF Propagate, ReturnResults
    <2>2. job \in Jobs /\ status \in ScanStatuses BY DEF JobOK, ScanStatuses
    <2>3. job' \in Jobs BY <2>1, <2>2 DEF Jobs
    <2>4. /\ job'.engine = job.engine /\ job'.retries = job.retries /\ job'.taken = job.taken
          /\ job'.status = status /\ job'.at = job.at
          /\ job'.results = job.results /\ job'.tries = job.tries /\ job'.seen = job.seen
      BY <2>1, <2>2 DEF Jobs
    <2>5. Running' = Running BY <2>4 DEF Running
    <2>6. ASSUME NEW i \in ItemIds PROVE ItemOK(job', i)
      <3>1. ItemOK(job, i) BY DEF JobOK
      <3>2. SeenOf(job', i) = SeenOf(job, i) BY <2>4 DEF SeenOf
      <3>3. ResultOK(job, i) => ResultOK(job', i) BY <2>4, <3>2 DEF ResultOK
      <3>4. AttemptsOK(job, i) => AttemptsOK(job', i) BY <2>4 DEF AttemptsOK, AllowedOf
      <3>5. PrintOK(job, i) => PrintOK(job', i) BY <2>4 DEF PrintOK
      <3> QED BY <2>1, <2>4, <3>1, <3>3, <3>4, <3>5 DEF ItemOK
    <2> QED BY <2>1, <2>3, <2>4, <2>5, <2>6 DEF JobOK
  <1> QED BY <1>1, <1>2, <1>3, <1>4, <1>5 DEF ScanNext

\* A call that returns reports every item once with a state its answers bear out,
\* and no attempt goes beyond its limit, for every list of items, every number of
\* threads and of retries (scan_tcp_ports, scan_udp_ports, scan_syn_ports,
\* discover_hosts, detect_services).
THEOREM ProbesSafe == ScanSpec => []EveryProbeIsReported
  <1>1. ScanInit => JobOK BY ScanInitOK
  <1>2. JobOK /\ [ScanNext]_job => JobOK' BY ScanStep
  <1>3. JobOK => EveryProbeIsReported
    <2> SUFFICES ASSUME JobOK PROVE EveryProbeIsReported OBVIOUS
    <2>1. Allowed = AllowedOf(job) BY DEF Allowed, AllowedOf
    <2>2. \A i \in ItemIds : Evidence(i) = SeenOf(job, i)
      BY DEF Evidence, SeenOf, ToSet
    <2>3. ASSUME NEW i \in ItemIds
          PROVE /\ job.engine # "services" => job.tries[i] <= Allowed
                /\ ScanItems[i].print /\ job.engine = "services" => job.tries[i] <= 1
                /\ \A k \in 1 .. Len(job.seen[i]) - 1 :
                    job.engine # "services" =>
                        job.seen[i][k] \in {"silence", "gave up", "unreachable", "icmp"}
      BY <2>1 DEF JobOK, ItemOK, AttemptsOK, PrintOK, Quiet
    <2>4. ASSUME job.status = "returned", NEW i \in ItemIds PROVE ResultOK(job, i)
      BY <2>4 DEF JobOK, ItemOK
    <2>5. Cardinality(Running) <= PoolSize BY DEF JobOK
    <2> QED BY <2>2, <2>3, <2>4, <2>5 DEF EveryProbeIsReported, ResultOK
  <1> QED BY <1>1, <1>2, <1>3, PTL DEF ScanSpec

-----------------------------------------------------------------------------
(***************************************************************************)
(* The objective controller.  What the remote repository shows differs     *)
(* from the record in the queue only by the operation its intent names,    *)
(* and a run that holds a record with an intent holds the record that is   *)
(* in the queue, or the objective is blocked with that intent: nobody else *)
(* can have gone on in between.                                            *)
(***************************************************************************)
Intents == {"none", "planning", "implementation", "validation", "commit_push", "acceptance",
            "merge", "release"}
ObjectiveStates == {"pending", "admitted", "running", "validating", "repairing"} \cup Terminal
ServicePlaces ==
    {"idle", "claim", "start", "budget", "plan intent", "plan", "freeze", "batch",
     "implement intent", "implement", "candidate", "validate", "repair", "publish intent",
     "push", "pushed", "accept", "merge intent", "merge", "merged", "release intent",
     "release", "released", "complete"}
Commits == [batch : Nat, generation : Nat]

Objectives ==
    [state : ObjectiveStates, version : Nat, batch : Nat, repairs : Nat, attempts : Nat,
     owner : Controllers \cup {NoOne}, generation : Nat, until : Nat, intent : Intents,
     plan : Nat, commits : Seq(Commits), merged : BOOLEAN, released : BOOLEAN]
Runs == [at : ServicePlaces, rec : Objectives, plan : Nat, tries : Nat, polls : Nat]
Remotes == [branch : Seq(Commits), merged : BOOLEAN, release : {"none", "draft", "published"}]

\* The intent a run holds where it is.
IntentsAt(place) ==
    CASE place \in {"start", "budget", "plan intent", "release intent", "complete"} -> {"none"}
      [] place = "plan"                               -> {"planning"}
      [] place = "freeze"                             -> {"none", "planning"}
      [] place \in {"batch", "implement intent"}      -> {"none", "validation"}
      [] place \in {"implement", "candidate"}         -> {"implementation"}
      [] place \in {"validate", "repair", "publish intent"} -> {"validation"}
      [] place \in {"push", "pushed"}                 -> {"commit_push"}
      [] place \in {"accept", "merge intent"}         -> {"acceptance"}
      [] place \in {"merge", "merged"}                -> {"merge"}
      [] place \in {"release", "released"}            -> {"release"}
      [] OTHER                                        -> Intents

CommitOf(r) == [batch |-> r.batch + 1, generation |-> r.generation]

\* What the remote m and w worker calls show is in the record r, or is what its
\* intent names.
Accounted(r, m, w) ==
    /\ \/ m.branch = r.commits
       \/ r.intent = "commit_push" /\ m.branch = Append(r.commits, CommitOf(r))
    /\ m.merged => r.merged \/ r.intent = "merge"
    /\ m.release # "none" => r.released \/ r.intent = "release"
    /\ r.merged => m.merged
    /\ w <= r.attempts

\* All of a record but its state and version.
SameWork(h, r) ==
    /\ h.owner = r.owner /\ h.generation = r.generation /\ h.intent = r.intent
    /\ h.batch = r.batch /\ h.commits = r.commits /\ h.attempts = r.attempts
    /\ h.merged = r.merged /\ h.released = r.released

\* The run s of controller c, beside the record r of the queue.
RunOK(s, c, r, m, w) ==
    s.at \notin {"idle", "claim"} =>
        /\ s.rec.owner = c
        /\ s.rec.version <= r.version
        /\ s.rec.version = r.version => s.rec = r
        /\ s.rec.intent # "none" => SameWork(s.rec, r)
        /\ s.rec.intent \in IntentsAt(s.at)
        /\ s.at \in {"plan intent", "implement intent"} /\ s.rec = r => w < r.attempts
        /\ s.at \in {"plan", "implement"} => w < r.attempts
        /\ s.at = "pushed" => m.branch = Append(r.commits, CommitOf(r))
        /\ s.at = "merged" => m.merged

ObjectiveTypeOK ==
    /\ objective \in Objectives
    /\ service \in [Controllers -> Runs]
    /\ remote \in Remotes
    /\ workerCalls \in Nat
    /\ objectiveTime \in Nat

ObjectiveOK ==
    /\ ObjectiveTypeOK
    /\ Accounted(objective, remote, workerCalls)
    /\ \A c \in Controllers : RunOK(service[c], c, objective, remote, workerCalls)

\* The places where a run holds no intent are not those of an effect.
LEMMA NoIntentPlaces ==
  ASSUME NEW place, "none" \in IntentsAt(place)
  PROVE place \notin {"plan", "implement", "pushed", "merged"}
  BY DEF IntentsAt

\* A record the queue blocks, or whose lease ends, keeps its work.
Ended(r) == [r EXCEPT !.state = "blocked", !.version = @ + 1]

LEMMA EndedKeeps ==
  ASSUME NEW r \in Objectives
  PROVE /\ Ended(r) \in Objectives /\ Ended(r).version = r.version + 1
        /\ SameWork(r, Ended(r)) /\ Ended(r).attempts = r.attempts
        /\ \A m, w : Accounted(r, m, w) => Accounted(Ended(r), m, w)
        /\ \A m, w, c : \A s \in Runs : RunOK(s, c, r, m, w) => RunOK(s, c, Ended(r), m, w)
  <1>1. Ended(r) \in Objectives
    <2>1. "blocked" \in ObjectiveStates BY DEF ObjectiveStates, Terminal
    <2>2. r.version + 1 \in Nat BY DEF Objectives
    <2> QED BY <2>1, <2>2 DEF Ended, Objectives
  <1>2. /\ Ended(r).version = r.version + 1 /\ SameWork(r, Ended(r))
        /\ Ended(r).attempts = r.attempts /\ CommitOf(Ended(r)) = CommitOf(r)
    BY DEF Ended, Objectives, SameWork, CommitOf
  <1>3. ASSUME NEW m, NEW w, Accounted(r, m, w) PROVE Accounted(Ended(r), m, w)
    BY <1>2, <1>3 DEF Accounted, SameWork
  <1>4. ASSUME NEW m, NEW w, NEW c, NEW s \in Runs, RunOK(s, c, r, m, w)
        PROVE RunOK(s, c, Ended(r), m, w)
    <2> SUFFICES ASSUME s.at \notin {"idle", "claim"}
                 PROVE RunOK(s, c, Ended(r), m, w)
      BY DEF RunOK
    <2>1. s.rec \in Objectives /\ s.rec.version \in Nat /\ r.version \in Nat
      BY DEF Runs, Objectives
    <2>2. s.rec.version <= r.version BY <1>4 DEF RunOK
    <2>3. /\ s.rec.version <= Ended(r).version /\ s.rec.version # Ended(r).version
          /\ s.rec # Ended(r)
      BY <1>2, <2>1, <2>2
    <2>4. SameWork(s.rec, r) => SameWork(s.rec, Ended(r)) BY <1>2 DEF SameWork
    <2>5. Ended(r).commits = r.commits BY <1>2 DEF SameWork
    <2>6. /\ s.rec.owner = c /\ s.rec.intent \in IntentsAt(s.at)
          /\ s.rec.intent # "none" => SameWork(s.rec, r)
          /\ s.at \in {"plan", "implement"} => w < r.attempts
          /\ s.at = "pushed" => m.branch = Append(r.commits, CommitOf(r))
          /\ s.at = "merged" => m.merged
      BY <1>4 DEF RunOK
    <2> QED BY <1>2, <2>3, <2>4, <2>5, <2>6 DEF RunOK
  <1> QED BY <1>1, <1>2, <1>3, <1>4

\* A run that holds no intent is not concerned by what others do to a later record.
LEMMA StaleRun ==
  ASSUME NEW s \in Runs, NEW c, NEW r \in Objectives, NEW q \in Objectives, NEW m, NEW w,
         NEW n, NEW v,
         RunOK(s, c, r, m, w), s.at \in {"idle", "claim"} \/ s.rec.intent = "none",
         r.version <= q.version, q = r \/ r.version < q.version,
         s.rec # r \/ r.version < q.version
  PROVE RunOK(s, c, q, n, v)
  <1> SUFFICES ASSUME s.at \notin {"idle", "claim"} PROVE RunOK(s, c, q, n, v)
    BY DEF RunOK
  <1>1. s.rec.intent = "none" /\ s.rec.intent \in IntentsAt(s.at) BY DEF RunOK
  <1>2. s.at \notin {"plan", "implement", "pushed", "merged"} BY <1>1, NoIntentPlaces
  <1>3. /\ s.rec \in Objectives /\ s.rec.version \in Nat /\ r.version \in Nat /\ q.version \in Nat
        /\ s.rec.version <= r.version /\ s.rec.owner = c
        /\ s.rec.version = r.version => s.rec = r
    BY DEF Runs, Objectives, RunOK
  <1>4. s.rec.version <= q.version BY <1>3
  <1>5. s.rec # q /\ s.rec.version # q.version BY <1>3
  <1> QED BY <1>1, <1>2, <1>3, <1>4, <1>5 DEF RunOK

LEMMA ObjectiveInitOK == ASSUME ObjectiveInit PROVE ObjectiveOK
  <1>1. Enqueued \in Objectives
    BY DEF Enqueued, Objectives, ObjectiveStates, Intents
  <1>2. Idle \in Runs BY <1>1 DEF Idle, Runs, ServicePlaces
  <1>3. ObjectiveTypeOK
    <2>1. remote \in Remotes BY DEF ObjectiveInit, Remotes
    <2> QED BY <1>1, <1>2, <2>1 DEF ObjectiveInit, ObjectiveTypeOK
  <1>4. Accounted(objective, remote, workerCalls)
    BY DEF ObjectiveInit, Accounted, Enqueued
  <1>5. ASSUME NEW c \in Controllers PROVE service[c].at = "idle"
    BY DEF ObjectiveInit, Idle
  <1> QED BY <1>3, <1>4, <1>5 DEF ObjectiveOK, RunOK

LEMMA IdleRun == Idle \in Runs /\ Idle.at = "idle"
  <1>1. Enqueued \in Objectives
    BY DEF Enqueued, Objectives, ObjectiveStates, Intents
  <1> QED BY <1>1 DEF Idle, Runs, ServicePlaces

\* What the queue accepts comes from the run that holds its record.
LEMMA AcceptedIsCurrent ==
  ASSUME ObjectiveOK, NEW c \in Controllers, service[c].at \notin {"idle", "claim"}, NEW new,
         Accepts(objective, Held(c), new, objectiveTime)
  PROVE /\ Held(c) = objective /\ objective.owner = c
        /\ objective.attempts <= new.attempts
        /\ \A d \in Controllers \ {c} :
              service[d].at \in {"idle", "claim"} \/ service[d].rec.intent = "none"
  <1>1. RunOK(service[c], c, objective, remote, workerCalls) BY DEF ObjectiveOK
  <1>2. Held(c) = objective /\ objective.owner = c
    BY <1>1 DEF Held, Accepts, RunOK
  <1>3. ASSUME NEW d \in Controllers \ {c}, service[d].at \notin {"idle", "claim"}
        PROVE service[d].rec.intent = "none"
    <2>1. /\ service[d].rec.owner = d
          /\ service[d].rec.intent # "none" => SameWork(service[d].rec, objective)
      BY <1>3 DEF ObjectiveOK, RunOK
    <2> QED BY <1>2, <2>1 DEF SameWork
  <1> QED BY <1>2, <1>3 DEF Accepts

\* A run at an effect holds the lease and the intent of the queue's record.
LEMMA EffectIsOwned ==
  ASSUME ObjectiveOK, NEW c \in Controllers, service[c].at \notin {"idle", "claim"},
         "none" \notin IntentsAt(service[c].at)
  PROVE /\ SameWork(Held(c), objective) /\ Held(c).intent \in IntentsAt(service[c].at)
        /\ \A d \in Controllers \ {c} : service[d].rec # objective \/ service[d].at \in {"idle", "claim"}
        /\ \A d \in Controllers \ {c} :
              service[d].at \in {"idle", "claim"} \/ service[d].rec.intent = "none"
  <1>1. SameWork(Held(c), objective) /\ Held(c).owner = c
        /\ Held(c).intent \in IntentsAt(service[c].at)
    BY DEF ObjectiveOK, RunOK, Held
  <1>2. objective.owner = c BY <1>1 DEF SameWork
  <1>3. ASSUME NEW d \in Controllers \ {c}, service[d].at \notin {"idle", "claim"}
        PROVE service[d].rec.intent = "none" /\ service[d].rec # objective
    <2>1. /\ service[d].rec.owner = d
          /\ service[d].rec.intent # "none" => SameWork(service[d].rec, objective)
      BY <1>3 DEF ObjectiveOK, RunOK
    <2> QED BY <1>2, <2>1 DEF SameWork
  <1> QED BY <1>1, <1>3

\* The run of c ends, dies or has not begun; the objective is as before, or blocked with its work.
LEMMA RunEnds ==
  ASSUME ObjectiveOK, NEW c \in Controllers, NEW s \in Runs, s.at \in {"idle", "claim"},
         objective' = objective \/ objective' = Ended(objective),
         service' = [service EXCEPT ![c] = s],
         remote' \in Remotes, workerCalls' \in Nat, objectiveTime' = objectiveTime,
         Accounted(objective, remote', workerCalls'),
         \A d \in Controllers \ {c} : RunOK(service[d], d, objective, remote', workerCalls')
  PROVE ObjectiveOK'
  <1>1. ObjectiveTypeOK BY DEF ObjectiveOK
  <1>2. objective' \in Objectives /\ Accounted(objective', remote', workerCalls')
    BY <1>1, EndedKeeps DEF ObjectiveTypeOK
  <1>3. ObjectiveTypeOK' BY <1>1, <1>2 DEF ObjectiveTypeOK
  <1>4. ASSUME NEW d \in Controllers
        PROVE RunOK(service'[d], d, objective', remote', workerCalls')
    <2>1. CASE d = c
      <3>1. service'[d] = s BY <1>1, <2>1 DEF ObjectiveTypeOK
      <3> QED BY <3>1 DEF RunOK
    <2>2. CASE d # c
      <3>1. service'[d] = service[d] /\ service[d] \in Runs
        BY <1>1, <2>2 DEF ObjectiveTypeOK
      <3>2. RunOK(service[d], d, objective, remote', workerCalls') BY <2>2
      <3> QED BY <1>1, <3>1, <3>2, EndedKeeps DEF ObjectiveTypeOK
    <2> QED BY <2>1, <2>2
  <1> QED BY <1>2, <1>3, <1>4 DEF ObjectiveOK

\* Blocking keeps the work, also when the lease is lost.
LEMMA BlockedEnds ==
  ASSUME ObjectiveOK, NEW c \in Controllers, service[c].at \notin {"idle", "claim"}, Blocked(c)
  PROVE objective' = objective \/ objective' = Ended(objective)
  <1> DEFINE new == [Held(c) EXCEPT !.state = "blocked"]
  <1>1. CASE Accepts(objective, Held(c), new, objectiveTime)
    <2>1. Held(c) = objective BY <1>1, AcceptedIsCurrent
    <2>2. objective' = [new EXCEPT !.version = @ + 1] BY <1>1 DEF Blocked
    <2>3. objective \in Objectives BY DEF ObjectiveOK, ObjectiveTypeOK
    <2> QED BY <2>1, <2>2, <2>3 DEF Ended, Objectives
  <1>2. CASE ~Accepts(objective, Held(c), new, objectiveTime)
    <2>1. objective' = Expired(objective, objectiveTime) BY <1>2 DEF Blocked
    <2> QED BY <2>1 DEF Expired, Ended
  <1> QED BY <1>1, <1>2

LEMMA BlockedOK ==
  ASSUME ObjectiveOK, NEW c \in Controllers, service[c].at \notin {"idle", "claim"}, Blocked(c),
         UNCHANGED <<remote, workerCalls, objectiveTime>>
  PROVE ObjectiveOK'
  <1>1. objective' = objective \/ objective' = Ended(objective) BY BlockedEnds
  <1>2. service' = [service EXCEPT ![c] = Idle] BY DEF Blocked
  <1>3. ObjectiveTypeOK /\ Accounted(objective, remote, workerCalls)
        /\ \A d \in Controllers : RunOK(service[d], d, objective, remote, workerCalls)
    BY DEF ObjectiveOK
  <1>4. remote' \in Remotes /\ workerCalls' \in Nat BY <1>3 DEF ObjectiveTypeOK
  <1> QED BY <1>1, <1>2, <1>3, <1>4, IdleRun, RunEnds

\* What the queue stores: the record with the next version.
LEMMA NextVersion ==
  ASSUME NEW r \in Objectives, NEW new \in Objectives, new.version = r.version
  PROVE LET q == [new EXCEPT !.version = @ + 1]
        IN  /\ q \in Objectives /\ q.version = r.version + 1 /\ q.version <= q.version
            /\ r.version < q.version /\ r.version <= q.version
            /\ SameWork(new, q) /\ CommitOf(q) = CommitOf(new)
  <1> DEFINE q == [new EXCEPT !.version = @ + 1]
  <1>1. r.version \in Nat /\ new.version + 1 \in Nat BY DEF Objectives
  <1>2. q \in Objectives BY <1>1 DEF Objectives
  <1>3. q.version = r.version + 1 BY DEF Objectives
  <1>4. SameWork(new, q) BY DEF Objectives, SameWork
  <1>5. CommitOf(q) = CommitOf(new) BY <1>4 DEF CommitOf, SameWork
  <1> HIDE DEF q
  <1>6. q.version <= q.version /\ r.version < q.version /\ r.version <= q.version
    BY <1>1, <1>3
  <1> QED BY <1>2, <1>3, <1>4, <1>5, <1>6 DEF q

\* A transaction of the run: the record it stores accounts for the effects as the
\* record it replaces does.
LEMMA TransactionOK ==
  ASSUME ObjectiveOK, NEW c \in Controllers, NEW place \in ServicePlaces \ {"idle", "claim"},
         NEW new \in Objectives, NEW next \in Runs, Transaction(c, place, new, next),
         new.owner = Held(c).owner, new.version = Held(c).version,
         Held(c) = objective =>
            /\ Accounted(new, remote, workerCalls)
            /\ next.at # "idle" => new.intent \in IntentsAt(next.at)
            /\ next.at \in {"plan intent", "implement intent", "plan", "implement"} =>
                workerCalls < new.attempts,
         next.at \notin {"claim", "pushed", "merged"}
  PROVE ObjectiveOK'
  <1>0. service[c].at = place /\ service[c].at \notin {"idle", "claim"}
        /\ UNCHANGED <<remote, workerCalls, objectiveTime>>
    BY DEF Transaction, At
  <1>1. CASE Update(c, new, next)
    <2> DEFINE q == [new EXCEPT !.version = @ + 1]
    <2>1. /\ Accepts(objective, Held(c), new, objectiveTime)
          /\ objective' = q
          /\ service' = [service EXCEPT ![c] = [next EXCEPT !.rec = q]]
      BY <1>1 DEF Update
    <2>2. /\ Held(c) = objective /\ objective.owner = c
          /\ \A d \in Controllers \ {c} :
                service[d].at \in {"idle", "claim"} \/ service[d].rec.intent = "none"
      BY <1>0, <2>1, AcceptedIsCurrent
    <2>3. ObjectiveTypeOK /\ objective \in Objectives /\ remote' = remote /\ workerCalls' = workerCalls
      BY <1>0 DEF ObjectiveOK, ObjectiveTypeOK
    <2> HIDE DEF q
    <2>4. /\ q \in Objectives /\ q.version = objective.version + 1 /\ q.version <= q.version
          /\ objective.version < q.version /\ objective.version <= q.version
          /\ SameWork(new, q) /\ CommitOf(q) = CommitOf(new)
      <3>1. new.version = objective.version BY <2>2
      <3> QED BY <3>1, <2>3, NextVersion DEF q
    <2>5. Accounted(q, remote', workerCalls')
      BY <2>2, <2>3, <2>4 DEF Accounted, SameWork
    <2> DEFINE s == [next EXCEPT !.rec = q]
    <2>6. s \in Runs /\ s.at = next.at /\ s.rec = q BY <2>4 DEF Runs
    <2>7. RunOK(s, c, q, remote', workerCalls')
      <3> SUFFICES ASSUME s.at \notin {"idle", "claim"}
                   PROVE RunOK(s, c, q, remote', workerCalls')
        BY DEF RunOK
      <3>1. q.owner = c /\ q.version <= q.version /\ SameWork(q, q)
        <4>1. q.owner = new.owner BY <2>4 DEF SameWork
        <4>3. q.version <= q.version BY <2>4
        <4>2. q.owner = c BY <2>2, <4>1
        <4> QED BY <4>2, <4>3 DEF SameWork
      <3>2. q.intent \in IntentsAt(s.at) BY <2>2, <2>4, <2>6 DEF SameWork
      <3>3. s.at \in {"plan intent", "implement intent", "plan", "implement"} =>
                workerCalls' < q.attempts
        BY <2>2, <2>3, <2>4, <2>6 DEF SameWork
      <3>4. s.at \notin {"pushed", "merged"} BY <2>6
      <3> QED BY <2>6, <3>1, <3>2, <3>3, <3>4 DEF RunOK
    <2> HIDE DEF s
    <2>8. service' = [service EXCEPT ![c] = s] BY <2>1 DEF s, q
    <2>9. ASSUME NEW d \in Controllers
          PROVE RunOK(service'[d], d, objective', remote', workerCalls')
      <3>1. CASE d = c
        <4>1. service'[d] = s BY <2>3, <2>8, <3>1 DEF ObjectiveTypeOK
        <4> QED BY <2>1, <2>7, <3>1, <4>1
      <3>2. CASE d # c
        <4>1. service'[d] = service[d] /\ service[d] \in Runs
          BY <2>3, <2>8, <3>2 DEF ObjectiveTypeOK
        <4>2. RunOK(service[d], d, objective, remote, workerCalls) BY DEF ObjectiveOK
        <4>3. service[d].at \in {"idle", "claim"} \/ service[d].rec.intent = "none"
          BY <2>2, <3>2
        <4>4. RunOK(service[d], d, q, remote', workerCalls')
          BY <2>3, <2>4, <4>1, <4>2, <4>3, StaleRun
        <4> QED BY <2>1, <4>1, <4>4
      <3> QED BY <3>1, <3>2
    <2>10. ObjectiveTypeOK'
      BY <1>0, <2>1, <2>3, <2>4, <2>6, <2>8 DEF ObjectiveTypeOK
    <2> QED BY <2>1, <2>5, <2>9, <2>10 DEF ObjectiveOK
  <1>2. CASE Blocked(c) BY <1>0, <1>2, BlockedOK
  <1> QED BY <1>1, <1>2 DEF Transaction

\* What a run holds where it is.
LEMMA RunHolds ==
  ASSUME ObjectiveOK, NEW c \in Controllers
  PROVE /\ service[c] \in Runs /\ Held(c) \in Objectives /\ objective \in Objectives
        /\ service[c].at \notin {"idle", "claim"} => Held(c).intent \in IntentsAt(service[c].at)
        /\ \A place \in ServicePlaces :
              ServiceGoes(c, place) \in Runs /\ ServiceGoes(c, place).at = place
  <1>1. service[c] \in Runs /\ objective \in Objectives BY DEF ObjectiveOK, ObjectiveTypeOK
  <1>2. Held(c) \in Objectives BY <1>1 DEF Held, Runs
  <1>3. RunOK(service[c], c, objective, remote, workerCalls) BY DEF ObjectiveOK
  <1>4. service[c].at \notin {"idle", "claim"} => Held(c).intent \in IntentsAt(service[c].at)
    BY <1>3 DEF RunOK, Held
  <1>5. \A place \in ServicePlaces :
              ServiceGoes(c, place) \in Runs /\ ServiceGoes(c, place).at = place
    BY <1>1 DEF ServiceGoes, Runs
  <1> QED BY <1>1, <1>2, <1>4, <1>5

LEMMA OneMore ==
  \A n, k \in Nat : k # k + 1 /\ (n <= k => n <= k + 1 /\ n < k + 1)
  OBVIOUS

\* A transaction that records no effect, from a place before any.
LEMMA PlainTransaction ==
  ASSUME ObjectiveOK, NEW c \in Controllers, NEW place \in ServicePlaces \ {"idle", "claim"},
         NEW new \in Objectives, NEW next \in Runs, Transaction(c, place, new, next),
         IntentsAt(place) \cap {"commit_push", "merge", "release"} = {},
         new.owner = Held(c).owner, new.version = Held(c).version,
         new.commits = Held(c).commits, new.merged = Held(c).merged,
         new.released = Held(c).released,
         new.attempts = Held(c).attempts \/ new.attempts = Held(c).attempts + 1,
         next.at # "idle" => new.intent \in IntentsAt(next.at),
         next.at \in {"plan intent", "implement intent", "plan", "implement"} =>
            \/ new.attempts = Held(c).attempts + 1
            \/ place \in {"plan intent", "implement intent"},
         next.at \notin {"claim", "pushed", "merged"}
  PROVE ObjectiveOK'
  <1>1. service[c].at = place BY DEF Transaction, At
  <1>2. /\ Held(c).intent \in IntentsAt(place) /\ Held(c) \in Objectives
        /\ Accounted(objective, remote, workerCalls) /\ workerCalls \in Nat
        /\ RunOK(service[c], c, objective, remote, workerCalls)
    BY <1>1, RunHolds DEF ObjectiveOK, ObjectiveTypeOK
  <1>3. ASSUME Held(c) = objective
        PROVE /\ Accounted(new, remote, workerCalls)
              /\ next.at \in {"plan intent", "implement intent", "plan", "implement"} =>
                    workerCalls < new.attempts
    <2>1. objective.intent \notin {"commit_push", "merge", "release"} BY <1>2, <1>3
    <2>2. objective.attempts \in Nat /\ workerCalls <= objective.attempts
      BY <1>2, <1>3 DEF Objectives, Accounted
    <2>3. workerCalls <= new.attempts
          /\ (new.attempts = objective.attempts + 1 => workerCalls < new.attempts)
      <3>1. new.attempts = objective.attempts \/ new.attempts = objective.attempts + 1
        BY <1>3
      <3>2. workerCalls \in Nat BY <1>2
      <3>3. workerCalls <= objective.attempts + 1 /\ workerCalls < objective.attempts + 1
        BY <2>2, <3>2, OneMore, Zenon
      <3>4. objective.attempts # objective.attempts + 1 BY <2>2, OneMore, Zenon
      <3> QED BY <2>2, <3>1, <3>3, <3>4
    <2>4. Accounted(new, remote, workerCalls)
      BY <1>2, <1>3, <2>1, <2>3 DEF Accounted
    <2>5. place \in {"plan intent", "implement intent"} => workerCalls < objective.attempts
      BY <1>1, <1>2, <1>3 DEF RunOK, Held
    <2>6. place \in {"plan intent", "implement intent"} => workerCalls < new.attempts
      <3> HAVE place \in {"plan intent", "implement intent"}
      <3>1. CASE new.attempts = objective.attempts BY <2>5, <3>1
      <3>2. CASE new.attempts = objective.attempts + 1 BY <2>3, <3>2
      <3> QED BY <1>3, <3>1, <3>2
    <2> QED BY <1>3, <2>3, <2>4, <2>6
  <1> QED BY <1>3, TransactionOK

LEMMA ReservePlanningOK == ASSUME ObjectiveOK, NEW c \in Controllers, ReservePlanning(c) PROVE ObjectiveOK'
  <1> DEFINE new == Reserved(Held(c))
             next == ServiceGoes(c, "plan intent")
  <1>1. Transaction(c, "budget", new, next) BY DEF ReservePlanning
  <1>2. /\ service[c].at = "budget" /\ service[c] \in Runs /\ Held(c) \in Objectives
        /\ Held(c).intent \in IntentsAt("budget")
    BY <1>1, RunHolds DEF Transaction, At
  <1>3. next \in Runs /\ next.at = "plan intent"
    BY RunHolds DEF ServicePlaces
  <1>4. Held(c).attempts + 1 \in Nat
    <2>1. Held(c).attempts \in Nat BY <1>2 DEF Objectives
    <2> QED BY <2>1
  <1>5. new \in Objectives BY <1>2, <1>4 DEF Objectives, Reserved
  <1>6. /\ new.owner = Held(c).owner /\ new.version = Held(c).version
        /\ new.commits = Held(c).commits /\ new.merged = Held(c).merged
        /\ new.released = Held(c).released
        /\ new.attempts = Held(c).attempts + 1
    BY <1>2 DEF Objectives, Reserved
  <1>7. new.intent \in IntentsAt("plan intent")
    BY <1>2 DEF Objectives, IntentsAt, Reserved
  <1>8. /\ IntentsAt("budget") \cap {"commit_push", "merge", "release"} = {}
        /\ "budget" \in ServicePlaces \ {"idle", "claim"}
    BY DEF IntentsAt, ServicePlaces
  <1> HIDE DEF new, next
  <1> QED BY <1>1, <1>3, <1>5, <1>6, <1>7, <1>8, PlainTransaction

LEMMA PlanningIntentOK == ASSUME ObjectiveOK, NEW c \in Controllers, PlanningIntent(c) PROVE ObjectiveOK'
  <1> DEFINE new == [Held(c) EXCEPT !.intent = "planning"]
             next == ServiceGoes(c, "plan")
  <1>1. Transaction(c, "plan intent", new, next) BY DEF PlanningIntent
  <1>2. /\ service[c].at = "plan intent" /\ service[c] \in Runs /\ Held(c) \in Objectives
        /\ Held(c).intent \in IntentsAt("plan intent")
    BY <1>1, RunHolds DEF Transaction, At
  <1>3. next \in Runs /\ next.at = "plan"
    BY RunHolds DEF ServicePlaces
  <1>4. "planning" \in Intents
    BY <1>2 DEF Intents, ObjectiveStates, Terminal, Runs, Objectives
  <1>5. new \in Objectives BY <1>2, <1>4 DEF Objectives
  <1>6. /\ new.owner = Held(c).owner /\ new.version = Held(c).version
        /\ new.commits = Held(c).commits /\ new.merged = Held(c).merged
        /\ new.released = Held(c).released
        /\ new.attempts = Held(c).attempts
    BY <1>2 DEF Objectives
  <1>7. new.intent \in IntentsAt("plan")
    BY <1>2 DEF Objectives, IntentsAt
  <1>8. /\ IntentsAt("plan intent") \cap {"commit_push", "merge", "release"} = {}
        /\ "plan intent" \in ServicePlaces \ {"idle", "claim"}
    BY DEF IntentsAt, ServicePlaces
  <1> HIDE DEF new, next
  <1> QED BY <1>1, <1>3, <1>5, <1>6, <1>7, <1>8, PlainTransaction

LEMMA FreezePlanOK == ASSUME ObjectiveOK, NEW c \in Controllers, FreezePlan(c) PROVE ObjectiveOK'
  <1> DEFINE new == [Held(c) EXCEPT !.plan = service[c].plan, !.intent = "none"]
             next == ServiceGoes(c, "batch")
  <1>1. Transaction(c, "freeze", new, next) BY DEF FreezePlan
  <1>2. /\ service[c].at = "freeze" /\ service[c] \in Runs /\ Held(c) \in Objectives
        /\ Held(c).intent \in IntentsAt("freeze")
    BY <1>1, RunHolds DEF Transaction, At
  <1>3. next \in Runs /\ next.at = "batch"
    BY RunHolds DEF ServicePlaces
  <1>4. service[c].plan \in Nat /\ "none" \in Intents
    BY <1>2 DEF Intents, ObjectiveStates, Terminal, Runs, Objectives
  <1>5. new \in Objectives BY <1>2, <1>4 DEF Objectives
  <1>6. /\ new.owner = Held(c).owner /\ new.version = Held(c).version
        /\ new.commits = Held(c).commits /\ new.merged = Held(c).merged
        /\ new.released = Held(c).released
        /\ new.attempts = Held(c).attempts
    BY <1>2 DEF Objectives
  <1>7. new.intent \in IntentsAt("batch")
    BY <1>2 DEF Objectives, IntentsAt
  <1>8. /\ IntentsAt("freeze") \cap {"commit_push", "merge", "release"} = {}
        /\ "freeze" \in ServicePlaces \ {"idle", "claim"}
    BY DEF IntentsAt, ServicePlaces
  <1> HIDE DEF new, next
  <1> QED BY <1>1, <1>3, <1>5, <1>6, <1>7, <1>8, PlainTransaction

LEMMA ReserveImplementationOK == ASSUME ObjectiveOK, NEW c \in Controllers, ReserveImplementation(c) PROVE ObjectiveOK'
  <1> DEFINE new == Reserved(Held(c))
             next == ServiceGoes(c, "implement intent")
  <1>1. Transaction(c, "batch", new, next) BY DEF ReserveImplementation
  <1>2. /\ service[c].at = "batch" /\ service[c] \in Runs /\ Held(c) \in Objectives
        /\ Held(c).intent \in IntentsAt("batch")
    BY <1>1, RunHolds DEF Transaction, At
  <1>3. next \in Runs /\ next.at = "implement intent"
    BY RunHolds DEF ServicePlaces
  <1>4. Held(c).attempts + 1 \in Nat
    <2>1. Held(c).attempts \in Nat BY <1>2 DEF Objectives
    <2> QED BY <2>1
  <1>5. new \in Objectives BY <1>2, <1>4 DEF Objectives, Reserved
  <1>6. /\ new.owner = Held(c).owner /\ new.version = Held(c).version
        /\ new.commits = Held(c).commits /\ new.merged = Held(c).merged
        /\ new.released = Held(c).released
        /\ new.attempts = Held(c).attempts + 1
    BY <1>2 DEF Objectives, Reserved
  <1>7. new.intent \in IntentsAt("implement intent")
    BY <1>2 DEF Objectives, IntentsAt, Reserved
  <1>8. /\ IntentsAt("batch") \cap {"commit_push", "merge", "release"} = {}
        /\ "batch" \in ServicePlaces \ {"idle", "claim"}
    BY DEF IntentsAt, ServicePlaces
  <1> HIDE DEF new, next
  <1> QED BY <1>1, <1>3, <1>5, <1>6, <1>7, <1>8, PlainTransaction

LEMMA ImplementationIntentOK == ASSUME ObjectiveOK, NEW c \in Controllers, ImplementationIntent(c) PROVE ObjectiveOK'
  <1> DEFINE new == [Held(c) EXCEPT !.intent = "implementation"]
             next == ServiceGoes(c, "implement")
  <1>1. Transaction(c, "implement intent", new, next) BY DEF ImplementationIntent
  <1>2. /\ service[c].at = "implement intent" /\ service[c] \in Runs /\ Held(c) \in Objectives
        /\ Held(c).intent \in IntentsAt("implement intent")
    BY <1>1, RunHolds DEF Transaction, At
  <1>3. next \in Runs /\ next.at = "implement"
    BY RunHolds DEF ServicePlaces
  <1>4. "implementation" \in Intents
    BY <1>2 DEF Intents, ObjectiveStates, Terminal, Runs, Objectives
  <1>5. new \in Objectives BY <1>2, <1>4 DEF Objectives
  <1>6. /\ new.owner = Held(c).owner /\ new.version = Held(c).version
        /\ new.commits = Held(c).commits /\ new.merged = Held(c).merged
        /\ new.released = Held(c).released
        /\ new.attempts = Held(c).attempts
    BY <1>2 DEF Objectives
  <1>7. new.intent \in IntentsAt("implement")
    BY <1>2 DEF Objectives, IntentsAt
  <1>8. /\ IntentsAt("implement intent") \cap {"commit_push", "merge", "release"} = {}
        /\ "implement intent" \in ServicePlaces \ {"idle", "claim"}
    BY DEF IntentsAt, ServicePlaces
  <1> HIDE DEF new, next
  <1> QED BY <1>1, <1>3, <1>5, <1>6, <1>7, <1>8, PlainTransaction

LEMMA FreezeCandidateOK == ASSUME ObjectiveOK, NEW c \in Controllers, FreezeCandidate(c) PROVE ObjectiveOK'
  <1> DEFINE new == [Held(c) EXCEPT !.state = "validating", !.repairs = service[c].tries,
                                !.intent = "validation"]
             next == ServiceGoes(c, "validate")
  <1>1. Transaction(c, "candidate", new, next) BY DEF FreezeCandidate
  <1>2. /\ service[c].at = "candidate" /\ service[c] \in Runs /\ Held(c) \in Objectives
        /\ Held(c).intent \in IntentsAt("candidate")
    BY <1>1, RunHolds DEF Transaction, At
  <1>3. next \in Runs /\ next.at = "validate"
    BY RunHolds DEF ServicePlaces
  <1>4. service[c].tries \in Nat /\ "validation" \in Intents /\ "validating" \in ObjectiveStates
    BY <1>2 DEF Intents, ObjectiveStates, Terminal, Runs, Objectives
  <1>5. new \in Objectives BY <1>2, <1>4 DEF Objectives
  <1>6. /\ new.owner = Held(c).owner /\ new.version = Held(c).version
        /\ new.commits = Held(c).commits /\ new.merged = Held(c).merged
        /\ new.released = Held(c).released
        /\ new.attempts = Held(c).attempts
    BY <1>2 DEF Objectives
  <1>7. new.intent \in IntentsAt("validate")
    BY <1>2 DEF Objectives, IntentsAt
  <1>8. /\ IntentsAt("candidate") \cap {"commit_push", "merge", "release"} = {}
        /\ "candidate" \in ServicePlaces \ {"idle", "claim"}
    BY DEF IntentsAt, ServicePlaces
  <1> HIDE DEF new, next
  <1> QED BY <1>1, <1>3, <1>5, <1>6, <1>7, <1>8, PlainTransaction

LEMMA RequestRepairOK == ASSUME ObjectiveOK, NEW c \in Controllers, RequestRepair(c) PROVE ObjectiveOK'
  <1> DEFINE new == [Held(c) EXCEPT !.state = "repairing", !.repairs = service[c].tries + 1]
             next == [ServiceGoes(c, "batch") EXCEPT !.tries = @ + 1]
  <1>1. Transaction(c, "repair", new, next) BY DEF RequestRepair
  <1>2. /\ service[c].at = "repair" /\ service[c] \in Runs /\ Held(c) \in Objectives
        /\ Held(c).intent \in IntentsAt("repair")
    BY <1>1, RunHolds DEF Transaction, At
  <1>3. next \in Runs /\ next.at = "batch"
    <2>1. ServiceGoes(c, "batch") \in Runs /\ ServiceGoes(c, "batch").at = "batch"
      BY RunHolds DEF ServicePlaces
    <2>2. ServiceGoes(c, "batch").tries + 1 \in Nat BY <2>1 DEF Runs
    <2> QED BY <2>1, <2>2 DEF Runs
  <1>4. service[c].tries + 1 \in Nat /\ "repairing" \in ObjectiveStates
    <2>1. service[c].tries \in Nat BY <1>2 DEF Runs
    <2> QED BY <2>1 DEF ObjectiveStates
  <1>5. new \in Objectives BY <1>2, <1>4 DEF Objectives
  <1>6. /\ new.owner = Held(c).owner /\ new.version = Held(c).version
        /\ new.commits = Held(c).commits /\ new.merged = Held(c).merged
        /\ new.released = Held(c).released
        /\ new.attempts = Held(c).attempts
    BY <1>2 DEF Objectives
  <1>7. new.intent \in IntentsAt("batch")
    BY <1>2 DEF Objectives, IntentsAt
  <1>8. /\ IntentsAt("repair") \cap {"commit_push", "merge", "release"} = {}
        /\ "repair" \in ServicePlaces \ {"idle", "claim"}
    BY DEF IntentsAt, ServicePlaces
  <1> HIDE DEF new, next
  <1> QED BY <1>1, <1>3, <1>5, <1>6, <1>7, <1>8, PlainTransaction

LEMMA PublicationIntentOK == ASSUME ObjectiveOK, NEW c \in Controllers, PublicationIntent(c) PROVE ObjectiveOK'
  <1> DEFINE new == [Held(c) EXCEPT !.intent = "commit_push"]
             next == ServiceGoes(c, "push")
  <1>1. Transaction(c, "publish intent", new, next) BY DEF PublicationIntent
  <1>2. /\ service[c].at = "publish intent" /\ service[c] \in Runs /\ Held(c) \in Objectives
        /\ Held(c).intent \in IntentsAt("publish intent")
    BY <1>1, RunHolds DEF Transaction, At
  <1>3. next \in Runs /\ next.at = "push"
    BY RunHolds DEF ServicePlaces
  <1>4. "commit_push" \in Intents
    BY <1>2 DEF Intents, ObjectiveStates, Terminal, Runs, Objectives
  <1>5. new \in Objectives BY <1>2, <1>4 DEF Objectives
  <1>6. /\ new.owner = Held(c).owner /\ new.version = Held(c).version
        /\ new.commits = Held(c).commits /\ new.merged = Held(c).merged
        /\ new.released = Held(c).released
        /\ new.attempts = Held(c).attempts
    BY <1>2 DEF Objectives
  <1>7. new.intent \in IntentsAt("push")
    BY <1>2 DEF Objectives, IntentsAt
  <1>8. /\ IntentsAt("publish intent") \cap {"commit_push", "merge", "release"} = {}
        /\ "publish intent" \in ServicePlaces \ {"idle", "claim"}
    BY DEF IntentsAt, ServicePlaces
  <1> HIDE DEF new, next
  <1> QED BY <1>1, <1>3, <1>5, <1>6, <1>7, <1>8, PlainTransaction

LEMMA StartAcceptanceOK == ASSUME ObjectiveOK, NEW c \in Controllers, StartAcceptance(c) PROVE ObjectiveOK'
  <1> DEFINE new == [Held(c) EXCEPT !.state = "validating", !.intent = "acceptance"]
             next == ServiceGoes(c, "accept")
  <1>1. Transaction(c, "batch", new, next) BY DEF StartAcceptance
  <1>2. /\ service[c].at = "batch" /\ service[c] \in Runs /\ Held(c) \in Objectives
        /\ Held(c).intent \in IntentsAt("batch")
    BY <1>1, RunHolds DEF Transaction, At
  <1>3. next \in Runs /\ next.at = "accept"
    BY RunHolds DEF ServicePlaces
  <1>4. "acceptance" \in Intents /\ "validating" \in ObjectiveStates
    BY <1>2 DEF Intents, ObjectiveStates, Terminal, Runs, Objectives
  <1>5. new \in Objectives BY <1>2, <1>4 DEF Objectives
  <1>6. /\ new.owner = Held(c).owner /\ new.version = Held(c).version
        /\ new.commits = Held(c).commits /\ new.merged = Held(c).merged
        /\ new.released = Held(c).released
        /\ new.attempts = Held(c).attempts
    BY <1>2 DEF Objectives
  <1>7. new.intent \in IntentsAt("accept")
    BY <1>2 DEF Objectives, IntentsAt
  <1>8. /\ IntentsAt("batch") \cap {"commit_push", "merge", "release"} = {}
        /\ "batch" \in ServicePlaces \ {"idle", "claim"}
    BY DEF IntentsAt, ServicePlaces
  <1> HIDE DEF new, next
  <1> QED BY <1>1, <1>3, <1>5, <1>6, <1>7, <1>8, PlainTransaction

LEMMA MergeIntentOK == ASSUME ObjectiveOK, NEW c \in Controllers, MergeIntent(c) PROVE ObjectiveOK'
  <1> DEFINE new == [Held(c) EXCEPT !.intent = "merge"]
             next == ServiceGoes(c, "merge")
  <1>1. Transaction(c, "merge intent", new, next) BY DEF MergeIntent
  <1>2. /\ service[c].at = "merge intent" /\ service[c] \in Runs /\ Held(c) \in Objectives
        /\ Held(c).intent \in IntentsAt("merge intent")
    BY <1>1, RunHolds DEF Transaction, At
  <1>3. next \in Runs /\ next.at = "merge"
    BY RunHolds DEF ServicePlaces
  <1>4. "merge" \in Intents
    BY <1>2 DEF Intents, ObjectiveStates, Terminal, Runs, Objectives
  <1>5. new \in Objectives BY <1>2, <1>4 DEF Objectives
  <1>6. /\ new.owner = Held(c).owner /\ new.version = Held(c).version
        /\ new.commits = Held(c).commits /\ new.merged = Held(c).merged
        /\ new.released = Held(c).released
        /\ new.attempts = Held(c).attempts
    BY <1>2 DEF Objectives
  <1>7. new.intent \in IntentsAt("merge")
    BY <1>2 DEF Objectives, IntentsAt
  <1>8. /\ IntentsAt("merge intent") \cap {"commit_push", "merge", "release"} = {}
        /\ "merge intent" \in ServicePlaces \ {"idle", "claim"}
    BY DEF IntentsAt, ServicePlaces
  <1> HIDE DEF new, next
  <1> QED BY <1>1, <1>3, <1>5, <1>6, <1>7, <1>8, PlainTransaction

LEMMA ReleaseIntentOK == ASSUME ObjectiveOK, NEW c \in Controllers, ReleaseIntent(c) PROVE ObjectiveOK'
  <1> DEFINE new == [Held(c) EXCEPT !.intent = "release"]
             next == ServiceGoes(c, "release")
  <1>1. Transaction(c, "release intent", new, next) BY DEF ReleaseIntent
  <1>2. /\ service[c].at = "release intent" /\ service[c] \in Runs /\ Held(c) \in Objectives
        /\ Held(c).intent \in IntentsAt("release intent")
    BY <1>1, RunHolds DEF Transaction, At
  <1>3. next \in Runs /\ next.at = "release"
    BY RunHolds DEF ServicePlaces
  <1>4. "release" \in Intents
    BY <1>2 DEF Intents, ObjectiveStates, Terminal, Runs, Objectives
  <1>5. new \in Objectives BY <1>2, <1>4 DEF Objectives
  <1>6. /\ new.owner = Held(c).owner /\ new.version = Held(c).version
        /\ new.commits = Held(c).commits /\ new.merged = Held(c).merged
        /\ new.released = Held(c).released
        /\ new.attempts = Held(c).attempts
    BY <1>2 DEF Objectives
  <1>7. new.intent \in IntentsAt("release")
    BY <1>2 DEF Objectives, IntentsAt
  <1>8. /\ IntentsAt("release intent") \cap {"commit_push", "merge", "release"} = {}
        /\ "release intent" \in ServicePlaces \ {"idle", "claim"}
    BY DEF IntentsAt, ServicePlaces
  <1> HIDE DEF new, next
  <1> QED BY <1>1, <1>3, <1>5, <1>6, <1>7, <1>8, PlainTransaction

LEMMA CompleteOK == ASSUME ObjectiveOK, NEW c \in Controllers, Complete(c) PROVE ObjectiveOK'
  <1> DEFINE new == [Held(c) EXCEPT !.state = "completed", !.intent = "none"]
             next == Idle
  <1>1. Transaction(c, "complete", new, next) BY DEF Complete
  <1>2. /\ service[c].at = "complete" /\ service[c] \in Runs /\ Held(c) \in Objectives
        /\ Held(c).intent \in IntentsAt("complete")
    BY <1>1, RunHolds DEF Transaction, At
  <1>3. next \in Runs /\ next.at = "idle"
    BY IdleRun
  <1>4. "none" \in Intents /\ "completed" \in ObjectiveStates
    BY <1>2 DEF Intents, ObjectiveStates, Terminal, Runs, Objectives
  <1>5. new \in Objectives BY <1>2, <1>4 DEF Objectives
  <1>6. /\ new.owner = Held(c).owner /\ new.version = Held(c).version
        /\ new.commits = Held(c).commits /\ new.merged = Held(c).merged
        /\ new.released = Held(c).released
        /\ new.attempts = Held(c).attempts
    BY <1>2 DEF Objectives
  <1>8. /\ IntentsAt("complete") \cap {"commit_push", "merge", "release"} = {}
        /\ "complete" \in ServicePlaces \ {"idle", "claim"}
    BY DEF IntentsAt, ServicePlaces
  <1> HIDE DEF new, next
  <1> QED BY <1>1, <1>3, <1>5, <1>6, <1>8, PlainTransaction

\* An effect of c, while the objective stays: no other run is concerned.
LEMMA OthersUnconcerned ==
  ASSUME ObjectiveOK, NEW c \in Controllers, service[c].at \notin {"idle", "claim"},
         "none" \notin IntentsAt(service[c].at), NEW m, NEW w
  PROVE \A d \in Controllers \ {c} : RunOK(service[d], d, objective, m, w)
  <1> SUFFICES ASSUME NEW d \in Controllers \ {c}
               PROVE RunOK(service[d], d, objective, m, w)
    OBVIOUS
  <1>1. /\ service[d] \in Runs /\ objective \in Objectives
        /\ RunOK(service[d], d, objective, remote, workerCalls)
    BY DEF ObjectiveOK, ObjectiveTypeOK
  <1>2. CASE service[d].at \in {"idle", "claim"} BY <1>2 DEF RunOK
  <1>3. CASE service[d].at \notin {"idle", "claim"}
    <2>1. service[d].rec # objective /\ service[d].rec.intent = "none"
      BY <1>3, EffectIsOwned
    <2>2. objective.version <= objective.version BY <1>1, OneMore DEF Objectives
    <2> QED BY <1>1, <2>1, <2>2, StaleRun
  <1> QED BY <1>2, <1>3

\* The run of c goes on without the queue, perhaps after an effect.
LEMMA RunGoesOn ==
  ASSUME ObjectiveOK, NEW c \in Controllers, NEW s \in Runs,
         service' = [service EXCEPT ![c] = s],
         objective' = objective, objectiveTime' = objectiveTime,
         remote' \in Remotes, workerCalls' \in Nat,
         Accounted(objective, remote', workerCalls'),
         RunOK(s, c, objective, remote', workerCalls'),
         \A d \in Controllers \ {c} : RunOK(service[d], d, objective, remote', workerCalls')
  PROVE ObjectiveOK'
  <1>1. ObjectiveTypeOK BY DEF ObjectiveOK
  <1>2. ObjectiveTypeOK' BY <1>1 DEF ObjectiveTypeOK
  <1>3. ASSUME NEW d \in Controllers
        PROVE RunOK(service'[d], d, objective', remote', workerCalls')
    <2>1. CASE d = c
      <3>1. service'[d] = s BY <1>1, <2>1 DEF ObjectiveTypeOK
      <3> QED BY <2>1, <3>1
    <2>2. CASE d # c
      <3>1. service'[d] = service[d] BY <1>1, <2>2 DEF ObjectiveTypeOK
      <3> QED BY <2>2, <3>1
    <2> QED BY <2>1, <2>2
  <1> QED BY <1>2, <1>3 DEF ObjectiveOK

\* The place a run goes on at, with the record it holds.
LEMMA MovedRun ==
  ASSUME ObjectiveOK, NEW c \in Controllers, service[c].at \notin {"idle", "claim"},
         NEW s \in Runs, s.rec = service[c].rec, NEW m, NEW w,
         Held(c).intent \in IntentsAt(s.at),
         s.at \notin {"plan intent", "implement intent", "plan", "implement"},
         s.at = "pushed" => m.branch = Append(objective.commits, CommitOf(objective)),
         s.at = "merged" => m.merged
  PROVE RunOK(s, c, objective, m, w)
  BY ZenonT(60) DEF ObjectiveOK, RunOK, Held

\* The calls of the worker: each was reserved.
LEMMA WorkerCallOK ==
  ASSUME ObjectiveOK, NEW c \in Controllers, AskForPlan(c) \/ Implement(c)
  PROVE ObjectiveOK'
  <1>1. /\ service[c].at \in {"plan", "implement"} /\ service[c].at \notin {"idle", "claim"}
        /\ workerCalls' = workerCalls + 1
        /\ UNCHANGED <<remote, objectiveTime>>
    BY DEF AskForPlan, Implement, At
  <1>2. /\ ObjectiveTypeOK /\ Accounted(objective, remote, workerCalls)
        /\ RunOK(service[c], c, objective, remote, workerCalls)
    BY DEF ObjectiveOK
  <1>3. /\ "none" \notin IntentsAt(service[c].at)
        /\ Held(c).intent \in IntentsAt(service[c].at)
    BY <1>1, RunHolds DEF IntentsAt
  <1>4. /\ workerCalls < objective.attempts /\ workerCalls \in Nat /\ objective.attempts \in Nat
        /\ remote \in Remotes
    BY <1>1, <1>2 DEF RunOK, ObjectiveTypeOK, Objectives
  <1>5. workerCalls' <= objective.attempts /\ workerCalls' \in Nat BY <1>1, <1>4
  <1>6. Accounted(objective, remote', workerCalls') BY <1>1, <1>2, <1>5 DEF Accounted
  <1>7. \A d \in Controllers \ {c} : RunOK(service[d], d, objective, remote', workerCalls')
    BY <1>1, <1>3, OthersUnconcerned
  <1>8. CASE Blocked(c)
    <2>1. objective' = objective \/ objective' = Ended(objective) BY <1>1, <1>8, BlockedEnds
    <2>2. service' = [service EXCEPT ![c] = Idle] BY <1>8 DEF Blocked
    <2> QED BY <1>1, <1>4, <1>5, <1>6, <1>7, <2>1, <2>2, IdleRun, RunEnds
  <1>9. ASSUME NEW s \in Runs, s.rec = service[c].rec, s.at \in {"freeze", "candidate"},
               Held(c).intent \in IntentsAt(s.at),
               service' = [service EXCEPT ![c] = s], objective' = objective
        PROVE ObjectiveOK'
    <2>1. RunOK(s, c, objective, remote', workerCalls') BY <1>1, <1>9, MovedRun
    <2> QED BY <1>1, <1>4, <1>5, <1>6, <1>7, <1>9, <2>1, RunGoesOn
  <1>10. service[c] \in Runs /\ service \in [Controllers -> Runs]
    BY <1>2 DEF ObjectiveTypeOK
  <1>11. ASSUME NEW n \in 1 .. MaxBatches, At(c, "plan"), UNCHANGED objective,
                service' = [service EXCEPT ![c].at = "freeze", ![c].plan = n]
         PROVE ObjectiveOK'
    <2> DEFINE s == [service[c] EXCEPT !.at = "freeze", !.plan = n]
    <2>1. s \in Runs /\ s.rec = service[c].rec /\ s.at = "freeze"
      <3>1. "freeze" \in ServicePlaces /\ n \in Nat
        BY ObjectiveAssumption DEF ServicePlaces
      <3> QED BY <1>10, <3>1 DEF Runs
    <2>2. service' = [service EXCEPT ![c] = s] BY <1>10, <1>11 DEF Runs
    <2>3. Held(c).intent \in IntentsAt("freeze") BY <1>3, <1>11 DEF At, IntentsAt
    <2> HIDE DEF s
    <2> QED BY <1>9, <1>11, <2>1, <2>2, <2>3
  <1>12. ASSUME At(c, "implement"), UNCHANGED objective,
                service' = [service EXCEPT ![c].at = "candidate"]
         PROVE ObjectiveOK'
    <2> DEFINE s == [service[c] EXCEPT !.at = "candidate"]
    <2>1. s \in Runs /\ s.rec = service[c].rec /\ s.at = "candidate"
      BY <1>10 DEF Runs, ServicePlaces
    <2>2. service' = [service EXCEPT ![c] = s] BY <1>10, <1>12 DEF Runs
    <2>3. Held(c).intent \in IntentsAt("candidate") BY <1>3, <1>12 DEF At, IntentsAt
    <2> HIDE DEF s
    <2> QED BY <1>9, <1>12, <2>1, <2>2, <2>3
  <1> QED BY <1>8, <1>11, <1>12 DEF AskForPlan, Implement

\* The run of c goes on at a place, the queue and the worker calls staying.
LEMMA EffectDone ==
  ASSUME ObjectiveOK, NEW c \in Controllers, service[c].at \notin {"idle", "claim"},
         "none" \notin IntentsAt(service[c].at),
         NEW place \in ServicePlaces \ {"idle", "claim"},
         service' = [service EXCEPT ![c].at = place],
         UNCHANGED <<objective, workerCalls, objectiveTime>>, remote' \in Remotes,
         Accounted(objective, remote', workerCalls),
         Held(c).intent \in IntentsAt(place),
         place \notin {"plan intent", "implement intent", "plan", "implement"},
         place = "pushed" => remote'.branch = Append(objective.commits, CommitOf(objective)),
         place = "merged" => remote'.merged
  PROVE ObjectiveOK'
  <1> DEFINE s == [service[c] EXCEPT !.at = place]
  <1>1. service[c] \in Runs /\ service \in [Controllers -> Runs] /\ workerCalls \in Nat
    BY DEF ObjectiveOK, ObjectiveTypeOK
  <1>2. s \in Runs /\ s.rec = service[c].rec /\ s.at = place BY <1>1 DEF Runs
  <1>3. service' = [service EXCEPT ![c] = s] BY <1>1 DEF Runs
  <1> HIDE DEF s
  <1>4. RunOK(s, c, objective, remote', workerCalls) BY <1>2, MovedRun
  <1>5. \A d \in Controllers \ {c} : RunOK(service[d], d, objective, remote', workerCalls)
    BY OthersUnconcerned
  <1> QED BY <1>1, <1>2, <1>3, <1>4, <1>5, RunGoesOn

\* The call failed, before or after its effect.
LEMMA EffectBlocked ==
  ASSUME ObjectiveOK, NEW c \in Controllers, service[c].at \notin {"idle", "claim"},
         "none" \notin IntentsAt(service[c].at), Blocked(c),
         UNCHANGED <<workerCalls, objectiveTime>>, remote' \in Remotes,
         Accounted(objective, remote', workerCalls)
  PROVE ObjectiveOK'
  <1>1. objective' = objective \/ objective' = Ended(objective) BY BlockedEnds
  <1>2. service' = [service EXCEPT ![c] = Idle] BY DEF Blocked
  <1>3. \A d \in Controllers \ {c} : RunOK(service[d], d, objective, remote', workerCalls)
    BY OthersUnconcerned
  <1>4. workerCalls' \in Nat BY DEF ObjectiveOK, ObjectiveTypeOK
  <1> QED BY <1>1, <1>2, <1>3, <1>4, IdleRun, RunEnds

LEMMA JudgeOK ==
  ASSUME ObjectiveOK, NEW c \in Controllers, Validate(c) \/ Accept(c)
  PROVE ObjectiveOK'
  <1>1. /\ service[c].at \in {"validate", "accept"} /\ service[c].at \notin {"idle", "claim"}
        /\ UNCHANGED <<remote, workerCalls, objectiveTime>>
    BY DEF Validate, Accept, At
  <1>2. /\ "none" \notin IntentsAt(service[c].at)
        /\ Held(c).intent \in IntentsAt(service[c].at)
        /\ remote' \in Remotes /\ Accounted(objective, remote', workerCalls)
    BY <1>1, RunHolds DEF IntentsAt, ObjectiveOK, ObjectiveTypeOK
  <1>3. CASE Blocked(c) BY <1>1, <1>2, <1>3, EffectBlocked
  <1>4. ASSUME NEW place \in {"publish intent", "repair", "merge intent"},
               Held(c).intent \in IntentsAt(place),
               service' = [service EXCEPT ![c].at = place], UNCHANGED objective
        PROVE ObjectiveOK'
    <2>1. place \in ServicePlaces \ {"idle", "claim"} BY DEF ServicePlaces
    <2> QED BY <1>1, <1>2, <1>4, <2>1, EffectDone
  <1>5. CASE Validate(c)
    <2>1. /\ Held(c).intent \in IntentsAt("publish intent")
          /\ Held(c).intent \in IntentsAt("repair")
      BY <1>2, <1>5 DEF Validate, At, IntentsAt
    <2>2. \/ service' = [service EXCEPT ![c].at = "publish intent"] /\ UNCHANGED objective
          \/ service' = [service EXCEPT ![c].at = "repair"] /\ UNCHANGED objective
          \/ Blocked(c)
      BY <1>5 DEF Validate
    <2> QED BY <1>3, <1>4, <2>1, <2>2
  <1>6. CASE Accept(c)
    <2>1. Held(c).intent \in IntentsAt("merge intent")
      BY <1>2, <1>6 DEF Accept, At, IntentsAt
    <2> QED BY <1>3, <1>4, <1>6, <2>1 DEF Accept
  <1> QED BY <1>5, <1>6

\* The branch moves by the commit of the batch the record is at.
LEMMA CommitPushOK ==
  ASSUME ObjectiveOK, NEW c \in Controllers, CommitPush(c) PROVE ObjectiveOK'
  <1>1. /\ service[c].at = "push" /\ service[c].at \notin {"idle", "claim"}
        /\ UNCHANGED <<workerCalls, objectiveTime>>
    BY DEF CommitPush, At
  <1>2. "none" \notin IntentsAt(service[c].at) BY <1>1 DEF IntentsAt
  <1>3. /\ SameWork(Held(c), objective) /\ Held(c).intent = "commit_push"
        /\ remote \in Remotes /\ Accounted(objective, remote, workerCalls)
        /\ objective \in Objectives
    BY <1>1, <1>2, EffectIsOwned DEF IntentsAt, ObjectiveOK, ObjectiveTypeOK
  <1>4. /\ CommitOf(objective) = [batch |-> Held(c).batch + 1, generation |-> Held(c).generation]
        /\ Held(c).commits = objective.commits /\ objective.intent = "commit_push"
    BY <1>3 DEF SameWork, CommitOf
  <1>5. CASE Blocked(c) /\ UNCHANGED remote BY <1>1, <1>2, <1>3, <1>5, EffectBlocked
  <1>6. ASSUME remote.branch = Held(c).commits,
               remote' = [remote EXCEPT !.branch = Append(@, CommitOf(objective))],
               \/ /\ service' = [service EXCEPT ![c].at = "pushed"]
                  /\ UNCHANGED objective
               \/ Blocked(c)
        PROVE ObjectiveOK'
    <2>1. CommitOf(objective) \in Commits BY <1>3 DEF Objectives, CommitOf, Commits
    <2>2. /\ remote' \in Remotes
          /\ remote'.branch = Append(objective.commits, CommitOf(objective))
          /\ remote'.merged = remote.merged /\ remote'.release = remote.release
      <3>1. remote.branch = objective.commits BY <1>4, <1>6
      <3>2. Append(remote.branch, CommitOf(objective)) \in Seq(Commits)
        BY <1>3, <2>1 DEF Remotes
      <3> QED BY <1>3, <1>6, <3>1, <3>2 DEF Remotes
    <2>3. Accounted(objective, remote', workerCalls)
      BY <1>3, <1>4, <2>2 DEF Accounted
    <2>4. Held(c).intent \in IntentsAt("pushed") /\ "pushed" \in ServicePlaces \ {"idle", "claim"}
      BY <1>3 DEF IntentsAt, ServicePlaces
    <2>5. CASE Blocked(c) BY <1>1, <1>2, <2>2, <2>3, <2>5, EffectBlocked
    <2>6. CASE service' = [service EXCEPT ![c].at = "pushed"] /\ UNCHANGED objective
      BY <1>1, <1>2, <2>2, <2>3, <2>4, <2>6, EffectDone
    <2> QED BY <1>6, <2>5, <2>6
  <1> QED BY <1>4, <1>5, <1>6 DEF CommitPush

LEMMA MergeOK ==
  ASSUME ObjectiveOK, NEW c \in Controllers, Merge(c) PROVE ObjectiveOK'
  <1>1. /\ service[c].at = "merge" /\ service[c].at \notin {"idle", "claim"}
        /\ UNCHANGED <<workerCalls, objectiveTime>>
    BY DEF Merge, At
  <1>2. "none" \notin IntentsAt(service[c].at) BY <1>1 DEF IntentsAt
  <1>3. /\ SameWork(Held(c), objective) /\ Held(c).intent = "merge"
        /\ remote \in Remotes /\ Accounted(objective, remote, workerCalls)
    BY <1>1, <1>2, EffectIsOwned DEF IntentsAt, ObjectiveOK, ObjectiveTypeOK
  <1>4. objective.intent = "merge" BY <1>3 DEF SameWork
  <1>5. CASE Blocked(c) /\ UNCHANGED remote BY <1>1, <1>2, <1>3, <1>5, EffectBlocked
  <1>6. ASSUME remote' = [remote EXCEPT !.merged = TRUE],
               \/ service' = [service EXCEPT ![c].at = "merged"] /\ UNCHANGED objective
               \/ Blocked(c)
        PROVE ObjectiveOK'
    <2>1. /\ remote' \in Remotes /\ remote'.merged
          /\ remote'.branch = remote.branch /\ remote'.release = remote.release
      BY <1>3, <1>6 DEF Remotes
    <2>2. Accounted(objective, remote', workerCalls)
      BY <1>3, <1>4, <2>1 DEF Accounted
    <2>3. Held(c).intent \in IntentsAt("merged") /\ "merged" \in ServicePlaces \ {"idle", "claim"}
      BY <1>3 DEF IntentsAt, ServicePlaces
    <2>4. CASE Blocked(c) BY <1>1, <1>2, <2>1, <2>2, <2>4, EffectBlocked
    <2>5. CASE service' = [service EXCEPT ![c].at = "merged"] /\ UNCHANGED objective
      BY <1>1, <1>2, <2>1, <2>2, <2>3, <2>5, EffectDone
    <2> QED BY <1>6, <2>4, <2>5
  <1> QED BY <1>5, <1>6 DEF Merge

LEMMA ReleaseOK ==
  ASSUME ObjectiveOK, NEW c \in Controllers, Release(c) PROVE ObjectiveOK'
  <1>1. /\ service[c].at = "release" /\ service[c].at \notin {"idle", "claim"}
        /\ UNCHANGED <<workerCalls, objectiveTime>>
    BY DEF Release, At
  <1>2. "none" \notin IntentsAt(service[c].at) BY <1>1 DEF IntentsAt
  <1>3. /\ SameWork(Held(c), objective) /\ Held(c).intent = "release"
        /\ remote \in Remotes /\ Accounted(objective, remote, workerCalls)
    BY <1>1, <1>2, EffectIsOwned DEF IntentsAt, ObjectiveOK, ObjectiveTypeOK
  <1>4. objective.intent = "release" BY <1>3 DEF SameWork
  <1>5. CASE Blocked(c) /\ UNCHANGED remote BY <1>1, <1>2, <1>3, <1>5, EffectBlocked
  <1>6. ASSUME NEW what \in {"draft", "published"}, remote' = [remote EXCEPT !.release = what],
               \/ service' = [service EXCEPT ![c].at = "released"] /\ UNCHANGED objective
               \/ Blocked(c)
        PROVE ObjectiveOK'
    <2>1. /\ remote' \in Remotes
          /\ remote'.branch = remote.branch /\ remote'.merged = remote.merged
      BY <1>3, <1>6 DEF Remotes
    <2>2. Accounted(objective, remote', workerCalls)
      BY <1>3, <1>4, <2>1 DEF Accounted
    <2>3. Held(c).intent \in IntentsAt("released") /\ "released" \in ServicePlaces \ {"idle", "claim"}
      BY <1>3 DEF IntentsAt, ServicePlaces
    <2>4. CASE Blocked(c) BY <1>1, <1>2, <2>1, <2>2, <2>4, EffectBlocked
    <2>5. CASE service' = [service EXCEPT ![c].at = "released"] /\ UNCHANGED objective
      BY <1>1, <1>2, <2>1, <2>2, <2>3, <2>5, EffectDone
    <2> QED BY <1>6, <2>4, <2>5
  <1> QED BY <1>5, <1>6 DEF Release

\* The commit of the batch is recorded: the branch is what the record says again.
LEMMA BatchPublishedOK ==
  ASSUME ObjectiveOK, NEW c \in Controllers, BatchPublished(c) PROVE ObjectiveOK'
  <1> DEFINE commit == [batch |-> Held(c).batch + 1, generation |-> Held(c).generation]
             new == [Held(c) EXCEPT !.state = "running", !.intent = "none", !.batch = @ + 1,
                                    !.repairs = 0, !.commits = Append(@, commit)]
             next == [ServiceGoes(c, "batch") EXCEPT !.tries = 0]
  <1>1. Transaction(c, "pushed", new, next) BY DEF BatchPublished
  <1>2. /\ service[c].at = "pushed" /\ Held(c) \in Objectives
        /\ Held(c).intent \in IntentsAt("pushed")
        /\ RunOK(service[c], c, objective, remote, workerCalls)
        /\ Accounted(objective, remote, workerCalls)
    BY <1>1, RunHolds DEF Transaction, At, ObjectiveOK
  <1>3. next \in Runs /\ next.at = "batch"
    <2>1. ServiceGoes(c, "batch") \in Runs /\ ServiceGoes(c, "batch").at = "batch"
      BY RunHolds DEF ServicePlaces
    <2> QED BY <2>1 DEF Runs
  <1>4. new \in Objectives
    <2>1. Held(c).batch + 1 \in Nat /\ commit \in Commits BY <1>2 DEF Objectives, Commits
    <2>2. Append(Held(c).commits, commit) \in Seq(Commits) BY <1>2, <2>1 DEF Objectives
    <2>3. "running" \in ObjectiveStates /\ "none" \in Intents BY DEF ObjectiveStates, Intents
    <2> HIDE DEF commit
    <2> QED BY <1>2, <2>1, <2>2, <2>3 DEF Objectives
  <1>5. /\ new.owner = Held(c).owner /\ new.version = Held(c).version /\ new.intent = "none"
        /\ new.commits = Append(Held(c).commits, CommitOf(Held(c)))
        /\ new.merged = Held(c).merged /\ new.released = Held(c).released
        /\ new.attempts = Held(c).attempts
    BY <1>2 DEF Objectives, CommitOf
  <1> HIDE DEF new, next, commit
  <1>6. ASSUME Held(c) = objective PROVE Accounted(new, remote, workerCalls)
    <2>1. objective.intent = "commit_push" BY <1>2, <1>6 DEF IntentsAt
    <2>2. remote.branch = Append(objective.commits, CommitOf(objective))
      BY <1>2 DEF RunOK
    <2> QED BY <1>2, <1>5, <1>6, <2>1, <2>2 DEF Accounted
  <1>7. "none" \in IntentsAt("batch") /\ "pushed" \in ServicePlaces \ {"idle", "claim"}
    BY DEF IntentsAt, ServicePlaces
  <1> QED BY <1>1, <1>3, <1>4, <1>5, <1>6, <1>7, TransactionOK

\* The merge and the release are recorded.
LEMMA MergeCompletedOK ==
  ASSUME ObjectiveOK, NEW c \in Controllers, MergeCompleted(c) PROVE ObjectiveOK'
  <1> DEFINE new == [Held(c) EXCEPT !.intent = "none", !.merged = TRUE]
             place == IF ReleaseAuthorized THEN "release intent" ELSE "complete"
             next == ServiceGoes(c, place)
  <1>1. Transaction(c, "merged", new, next) BY DEF MergeCompleted
  <1>2. /\ service[c].at = "merged" /\ Held(c) \in Objectives
        /\ Held(c).intent \in IntentsAt("merged")
        /\ RunOK(service[c], c, objective, remote, workerCalls)
        /\ Accounted(objective, remote, workerCalls)
    BY <1>1, RunHolds DEF Transaction, At, ObjectiveOK
  <1>3. next \in Runs /\ next.at \in {"release intent", "complete"}
    <2>1. place \in ServicePlaces /\ place \in {"release intent", "complete"}
      BY DEF ServicePlaces
    <2> QED BY <2>1, RunHolds
  <1>4. new \in Objectives BY <1>2 DEF Objectives, Intents
  <1>5. /\ new.owner = Held(c).owner /\ new.version = Held(c).version /\ new.intent = "none"
        /\ new.commits = Held(c).commits /\ new.merged = TRUE
        /\ new.released = Held(c).released /\ new.attempts = Held(c).attempts
    BY <1>2 DEF Objectives
  <1> HIDE DEF new, next, place
  <1>6. ASSUME Held(c) = objective PROVE Accounted(new, remote, workerCalls)
    <2>1. objective.intent = "merge" BY <1>2, <1>6 DEF IntentsAt
    <2>2. remote.merged BY <1>2 DEF RunOK
    <2> QED BY <1>2, <1>5, <1>6, <2>1, <2>2 DEF Accounted
  <1>7. /\ "none" \in IntentsAt("release intent") /\ "none" \in IntentsAt("complete")
        /\ "merged" \in ServicePlaces \ {"idle", "claim"}
    BY DEF IntentsAt, ServicePlaces
  <1> QED BY <1>1, <1>3, <1>4, <1>5, <1>6, <1>7, TransactionOK

LEMMA ReleaseCompletedOK ==
  ASSUME ObjectiveOK, NEW c \in Controllers, ReleaseCompleted(c) PROVE ObjectiveOK'
  <1> DEFINE new == [Held(c) EXCEPT !.intent = "none", !.released = TRUE]
             next == ServiceGoes(c, "complete")
  <1>1. Transaction(c, "released", new, next) BY DEF ReleaseCompleted
  <1>2. /\ service[c].at = "released" /\ Held(c) \in Objectives
        /\ Held(c).intent \in IntentsAt("released")
        /\ Accounted(objective, remote, workerCalls)
    BY <1>1, RunHolds DEF Transaction, At, ObjectiveOK
  <1>3. next \in Runs /\ next.at = "complete" BY RunHolds DEF ServicePlaces
  <1>4. new \in Objectives BY <1>2 DEF Objectives, Intents
  <1>5. /\ new.owner = Held(c).owner /\ new.version = Held(c).version /\ new.intent = "none"
        /\ new.commits = Held(c).commits /\ new.merged = Held(c).merged
        /\ new.released = TRUE /\ new.attempts = Held(c).attempts
    BY <1>2 DEF Objectives
  <1> HIDE DEF new, next
  <1>6. ASSUME Held(c) = objective PROVE Accounted(new, remote, workerCalls)
    <2>1. objective.intent = "release" BY <1>2, <1>6 DEF IntentsAt
    <2> QED BY <1>2, <1>5, <1>6, <2>1 DEF Accounted
  <1>7. "none" \in IntentsAt("complete") /\ "released" \in ServicePlaces \ {"idle", "claim"}
    BY DEF IntentsAt, ServicePlaces
  <1> QED BY <1>1, <1>3, <1>4, <1>5, <1>6, <1>7, TransactionOK

LEMMA MinOfTwo == \A n, k \in Nat : Min({n, k}) \in Nat
  <1> SUFFICES ASSUME NEW n \in Nat, NEW k \in Nat PROVE Min({n, k}) \in Nat
    OBVIOUS
  <1>1. \E x \in {n, k} : \A y \in {n, k} : x <= y
    <2>1. CASE n <= k BY <2>1
    <2>2. CASE k <= n BY <2>2
    <2> QED BY <2>1, <2>2
  <1>2. Min({n, k}) \in {n, k} BY <1>1 DEF Min
  <1> QED BY <1>2

\* The polls of the checks renew the lease and keep the intent.
LEMMA WaitForChecksOK ==
  ASSUME ObjectiveOK, NEW c \in Controllers, WaitForChecks(c) PROVE ObjectiveOK'
  <1> DEFINE until == Min({objectiveTime + LeaseTime, Deadline})
             new == [Held(c) EXCEPT !.until = until]
             next == [service[c] EXCEPT !.polls = @ + 1]
  <1>1. Transaction(c, "merge", new, next) BY DEF WaitForChecks
  <1>2. /\ service[c].at = "merge" /\ Held(c) \in Objectives /\ service[c] \in Runs
        /\ Held(c).intent \in IntentsAt("merge")
        /\ Accounted(objective, remote, workerCalls)
    BY <1>1, RunHolds DEF Transaction, At, ObjectiveOK
  <1>3. next \in Runs /\ next.at = "merge"
    <2>1. service[c].polls + 1 \in Nat BY <1>2 DEF Runs
    <2> QED BY <1>2, <2>1 DEF Runs
  <1>4. until \in Nat
    <2>1. objectiveTime + LeaseTime \in Nat /\ Deadline \in Nat
      BY ObjectiveAssumption DEF ObjectiveOK, ObjectiveTypeOK
    <2> QED BY <2>1, MinOfTwo
  <1> HIDE DEF until
  <1>5. new \in Objectives BY <1>2, <1>4 DEF Objectives
  <1>6. /\ new.owner = Held(c).owner /\ new.version = Held(c).version
        /\ new.intent = Held(c).intent /\ new.commits = Held(c).commits
        /\ new.merged = Held(c).merged /\ new.released = Held(c).released
        /\ new.attempts = Held(c).attempts
    BY <1>2 DEF Objectives
  <1> HIDE DEF new, next
  <1>7. ASSUME Held(c) = objective PROVE Accounted(new, remote, workerCalls)
    <2>1. objective.intent = "merge" BY <1>2, <1>7 DEF IntentsAt
    <2> QED BY <1>2, <1>6, <1>7, <2>1 DEF Accounted
  <1>8. "merge" \in ServicePlaces \ {"idle", "claim"} BY DEF ServicePlaces
  <1> QED BY <1>1, <1>2, <1>3, <1>5, <1>6, <1>7, <1>8, TransactionOK

\* The first update of a run, after its gates.
LEMMA StartOK ==
  ASSUME ObjectiveOK, NEW c \in Controllers, Start(c) PROVE ObjectiveOK'
  <1>1. /\ service[c].at = "start" /\ service[c].at \notin {"idle", "claim"}
        /\ Held(c) \in Objectives /\ service[c] \in Runs
        /\ Held(c).intent \in IntentsAt("start")
    BY RunHolds DEF Start, At
  <1>2. CASE Blocked(c) /\ UNCHANGED <<remote, workerCalls, objectiveTime>>
    BY <1>1, <1>2, BlockedOK
  <1>3. ASSUME NEW given \in 0 .. MaxBatches, NEW place \in {"freeze", "budget"}, NEW plan,
               plan \in {Held(c).plan, given},
               Transaction(c, "start", [Held(c) EXCEPT !.state = "running"],
                           [ServiceGoes(c, place) EXCEPT !.plan = plan])
        PROVE ObjectiveOK'
    <2> DEFINE new == [Held(c) EXCEPT !.state = "running"]
               next == [ServiceGoes(c, place) EXCEPT !.plan = plan]
    <2>1. plan \in Nat BY <1>1, <1>3, ObjectiveAssumption, SMTT(30) DEF Objectives
    <2>2. next \in Runs /\ next.at = place
      <3>1. ServiceGoes(c, place) \in Runs /\ ServiceGoes(c, place).at = place
        BY RunHolds, ZenonT(60) DEF ServicePlaces
      <3> QED BY <2>1, <3>1 DEF Runs
    <2>3. new \in Objectives BY <1>1 DEF Objectives, ObjectiveStates
    <2>4. /\ new.owner = Held(c).owner /\ new.version = Held(c).version
          /\ new.intent = Held(c).intent /\ new.commits = Held(c).commits
          /\ new.merged = Held(c).merged /\ new.released = Held(c).released
          /\ new.attempts = Held(c).attempts
      BY <1>1 DEF Objectives
    <2>5. Transaction(c, "start", new, next) BY <1>3
    <2> HIDE DEF new, next
    <2>6. Held(c).intent \in IntentsAt(place) BY <1>1 DEF IntentsAt
    <2>7. /\ IntentsAt("start") \cap {"commit_push", "merge", "release"} = {}
          /\ "start" \in ServicePlaces \ {"idle", "claim"}
      BY DEF IntentsAt, ServicePlaces
    <2> QED BY <2>2, <2>3, <2>4, <2>5, <2>6, <2>7, PlainTransaction
  <1>4. CASE ~(Blocked(c) /\ UNCHANGED <<remote, workerCalls, objectiveTime>>)
    <2> DEFINE resumes == Held(c).commits # <<>>
    <2>1. PICK given \in 0 .. MaxBatches :
            Transaction(c, "start", [Held(c) EXCEPT !.state = "running"],
                [ServiceGoes(c, IF resumes \/ given > 0 THEN "freeze" ELSE "budget")
                    EXCEPT !.plan = IF resumes THEN Held(c).plan ELSE given])
      BY <1>4 DEF Start
    <2> DEFINE place == IF resumes \/ given > 0 THEN "freeze" ELSE "budget"
               plan == IF resumes THEN Held(c).plan ELSE given
    <2>2. place \in {"freeze", "budget"} /\ plan \in {Held(c).plan, given} OBVIOUS
    <2>3. Transaction(c, "start", [Held(c) EXCEPT !.state = "running"],
                      [ServiceGoes(c, place) EXCEPT !.plan = plan])
      BY <2>1
    <2> HIDE DEF place, plan
    <2> QED BY <1>3, <2>2, <2>3
  <1> QED BY <1>2, <1>4

LEMMA StartRunOK ==
  ASSUME ObjectiveOK, NEW c \in Controllers, StartRun(c) PROVE ObjectiveOK'
  <1>1. /\ objective' = objective \/ objective' = Ended(objective)
        /\ UNCHANGED <<remote, workerCalls, objectiveTime>>
    BY DEF StartRun, Expired, Ended
  <1> DEFINE s == IF objective'.state = "blocked" THEN Idle ELSE [Idle EXCEPT !.at = "claim"]
  <1>2. s \in Runs /\ s.at \in {"idle", "claim"} BY IdleRun DEF Runs, ServicePlaces
  <1>3. service' = [service EXCEPT ![c] = s] BY DEF StartRun
  <1> HIDE DEF s
  <1>4. /\ remote' \in Remotes /\ workerCalls' \in Nat
        /\ Accounted(objective, remote', workerCalls')
        /\ \A d \in Controllers : RunOK(service[d], d, objective, remote', workerCalls')
    BY <1>1 DEF ObjectiveOK, ObjectiveTypeOK
  <1> QED BY <1>1, <1>2, <1>3, <1>4, RunEnds

\* A new lease, which only a record without an intent gets.
LEMMA LeasedIsNew ==
  ASSUME ObjectiveOK, NEW c \in Controllers, Claimable(objective, objectiveTime)
  PROVE LET q == Leased(objective, c, objectiveTime)
        IN  /\ q \in Objectives /\ q.state # "blocked" /\ q.owner = c
            /\ objective.version < q.version /\ objective.version <= q.version
            /\ q.version <= q.version
            /\ q.intent = objective.intent /\ q.commits = objective.commits
            /\ q.merged = objective.merged /\ q.released = objective.released
            /\ q.attempts = objective.attempts
  <1> DEFINE q == Leased(objective, c, objectiveTime)
             until == Min({objectiveTime + LeaseTime, Deadline})
  <1>1. objective \in Objectives BY DEF ObjectiveOK, ObjectiveTypeOK
  <1>2. until \in Nat
    <2>1. objectiveTime + LeaseTime \in Nat /\ Deadline \in Nat
      BY ObjectiveAssumption DEF ObjectiveOK, ObjectiveTypeOK
    <2> QED BY <2>1, MinOfTwo
  <1>3. /\ objective.version \in Nat /\ objective.version + 1 \in Nat
        /\ objective.generation + 1 \in Nat
    BY <1>1 DEF Objectives
  <1> DEFINE state == IF objective.state = "pending" THEN "admitted" ELSE objective.state
  <1>4. state \in ObjectiveStates /\ state # "blocked"
    BY <1>1 DEF Objectives, ObjectiveStates, Claimable, Terminal
  <1>5. q = [objective EXCEPT !.owner = c, !.generation = @ + 1, !.until = until,
                              !.state = state, !.version = @ + 1]
    BY DEF Leased
  <1> HIDE DEF until, state
  <1>6. q \in Objectives BY <1>1, <1>2, <1>3, <1>4, <1>5 DEF Objectives
  <1>7. /\ q.state # "blocked" /\ q.owner = c /\ q.version = objective.version + 1
        /\ q.intent = objective.intent /\ q.commits = objective.commits
        /\ q.merged = objective.merged /\ q.released = objective.released
        /\ q.attempts = objective.attempts
    BY <1>1, <1>4, <1>5 DEF Objectives
  <1> HIDE DEF q
  <1>8. /\ objective.version < q.version /\ objective.version <= q.version
        /\ q.version <= q.version
    BY <1>3, <1>7
  <1> QED BY <1>6, <1>7, <1>8 DEF q

LEMMA ClaimOK ==
  ASSUME ObjectiveOK, NEW c \in Controllers, Claim(c) PROVE ObjectiveOK'
  <1>1. /\ UNCHANGED <<remote, workerCalls, objectiveTime>>
        /\ ObjectiveTypeOK /\ Accounted(objective, remote, workerCalls)
        /\ \A d \in Controllers : RunOK(service[d], d, objective, remote, workerCalls)
    BY DEF Claim, ObjectiveOK
  <1>2. CASE ~Claimable(objective, objectiveTime)
    <2>1. service' = [service EXCEPT ![c] = Idle] /\ objective' = objective
      BY <1>2 DEF Claim
    <2> QED BY <1>1, <2>1, IdleRun, RunEnds DEF ObjectiveTypeOK
  <1>3. CASE Claimable(objective, objectiveTime) /\ objective.intent # "none"
    <2>1. objective' = Ended(objective) BY <1>3 DEF Claim, Claimed, Ended
    <2>2. objective'.state = "blocked" BY <2>1, <1>1 DEF Ended, ObjectiveTypeOK, Objectives
    <2>3. service' = [service EXCEPT ![c] = Idle] BY <1>3, <2>2 DEF Claim
    <2> QED BY <1>1, <2>1, <2>3, IdleRun, RunEnds DEF ObjectiveTypeOK
  <1>4. CASE Claimable(objective, objectiveTime) /\ objective.intent = "none"
    <2> DEFINE q == Leased(objective, c, objectiveTime)
               s == [Idle EXCEPT !.at = "start", !.rec = q]
    <2>1. objective' = q BY <1>4 DEF Claim, Claimed
    <2>2. /\ q \in Objectives /\ q.state # "blocked" /\ q.owner = c
          /\ objective.version < q.version /\ objective.version <= q.version
          /\ q.version <= q.version
          /\ q.intent = "none" /\ q.commits = objective.commits
          /\ q.merged = objective.merged /\ q.released = objective.released
          /\ q.attempts = objective.attempts
      BY <1>4, LeasedIsNew
    <2> HIDE DEF q
    <2>3. service' = [service EXCEPT ![c] = s] BY <1>4, <2>1, <2>2 DEF Claim
    <2>4. s \in Runs /\ s.at = "start" /\ s.rec = q
      BY <2>2, IdleRun DEF Runs, ServicePlaces
    <2> HIDE DEF s
    <2>5. Accounted(q, remote, workerCalls) BY <1>1, <1>4, <2>2 DEF Accounted
    <2>6. RunOK(s, c, q, remote, workerCalls)
      <3>1. "none" \in IntentsAt("start") BY DEF IntentsAt
      <3> QED BY <2>2, <2>4, <3>1 DEF RunOK
    <2>7. ASSUME NEW d \in Controllers
          PROVE RunOK(service'[d], d, objective', remote', workerCalls')
      <3>1. CASE d = c
        <4>1. service'[d] = s BY <1>1, <2>3, <3>1 DEF ObjectiveTypeOK
        <4> QED BY <1>1, <2>1, <2>6, <3>1, <4>1
      <3>2. CASE d # c
        <4>1. service'[d] = service[d] /\ service[d] \in Runs /\ objective \in Objectives
          BY <1>1, <2>3, <3>2 DEF ObjectiveTypeOK
        <4>2. service[d].at \in {"idle", "claim"} \/ service[d].rec.intent = "none"
          BY <1>1, <1>4 DEF RunOK, SameWork
        <4>3. RunOK(service[d], d, objective, remote, workerCalls) BY <1>1
        <4>4. RunOK(service[d], d, q, remote, workerCalls)
          BY <2>2, <4>1, <4>2, <4>3, StaleRun
        <4> QED BY <1>1, <2>1, <4>1, <4>4
      <3> QED BY <3>1, <3>2
    <2>8. ObjectiveTypeOK'
      BY <1>1, <2>1, <2>2, <2>3, <2>4 DEF ObjectiveTypeOK
    <2> QED BY <1>1, <2>1, <2>5, <2>7, <2>8 DEF ObjectiveOK
  <1> QED BY <1>2, <1>3, <1>4

\* The clock, the recovery poll and the death of a controller.
LEMMA WorldStepOK ==
  ASSUME ObjectiveOK, ObjectiveTick \/ Expire \/ (\E c \in Controllers : ControllerDies(c))
  PROVE ObjectiveOK'
  <1>1. /\ ObjectiveTypeOK /\ Accounted(objective, remote, workerCalls)
        /\ \A d \in Controllers : RunOK(service[d], d, objective, remote, workerCalls)
    BY DEF ObjectiveOK
  <1>2. CASE ObjectiveTick
    <2>1. UNCHANGED <<objective, service, remote, workerCalls>> /\ objectiveTime' = objectiveTime + 1
      BY <1>2 DEF ObjectiveTick
    <2>2. ObjectiveTypeOK' BY <1>1, <2>1 DEF ObjectiveTypeOK
    <2> QED BY <1>1, <2>1, <2>2 DEF ObjectiveOK
  <1>3. CASE Expire
    <2>1. /\ objective' = Ended(objective)
          /\ UNCHANGED <<service, remote, workerCalls, objectiveTime>>
      BY <1>3 DEF Expire, Expired, Ended
    <2>2. objective \in Objectives /\ \A d \in Controllers : service[d] \in Runs
      BY <1>1 DEF ObjectiveTypeOK
    <2>3. Accounted(objective', remote', workerCalls') BY <1>1, <2>1, <2>2, EndedKeeps
    <2>4. \A d \in Controllers : RunOK(service'[d], d, objective', remote', workerCalls')
      BY <1>1, <2>1, <2>2, EndedKeeps
    <2>5. ObjectiveTypeOK' BY <1>1, <2>1, <2>2, EndedKeeps DEF ObjectiveTypeOK
    <2> QED BY <2>3, <2>4, <2>5 DEF ObjectiveOK
  <1>4. ASSUME NEW c \in Controllers, ControllerDies(c) PROVE ObjectiveOK'
    <2>1. /\ service' = [service EXCEPT ![c] = Idle]
          /\ UNCHANGED <<objective, remote, workerCalls, objectiveTime>>
      BY <1>4 DEF ControllerDies
    <2>2. remote' \in Remotes /\ workerCalls' \in Nat BY <1>1, <2>1 DEF ObjectiveTypeOK
    <2> QED BY <1>1, <2>1, <2>2, IdleRun, RunEnds
  <1> QED BY <1>2, <1>3, <1>4

LEMMA ObjectiveStep == ASSUME ObjectiveOK, [ObjectiveNext]_objectiveVars PROVE ObjectiveOK'
  <1>1. CASE UNCHANGED objectiveVars
    BY <1>1 DEF objectiveVars, ObjectiveOK, ObjectiveTypeOK
  <1>2. ASSUME NEW c \in Controllers,
               \/ StartRun(c) \/ Claim(c) \/ Start(c)
               \/ ReservePlanning(c) \/ PlanningIntent(c) \/ AskForPlan(c) \/ FreezePlan(c)
               \/ ReserveImplementation(c) \/ ImplementationIntent(c) \/ Implement(c)
               \/ FreezeCandidate(c) \/ Validate(c) \/ RequestRepair(c)
               \/ PublicationIntent(c) \/ CommitPush(c) \/ BatchPublished(c)
        PROVE ObjectiveOK'
    BY <1>2, StartRunOK, ClaimOK, StartOK, ReservePlanningOK, PlanningIntentOK, WorkerCallOK,
       FreezePlanOK, ReserveImplementationOK, ImplementationIntentOK, FreezeCandidateOK,
       JudgeOK, RequestRepairOK, PublicationIntentOK, CommitPushOK, BatchPublishedOK
  <1>3. ASSUME NEW c \in Controllers,
               \/ StartAcceptance(c) \/ Accept(c) \/ MergeIntent(c) \/ Merge(c)
               \/ WaitForChecks(c) \/ MergeCompleted(c) \/ ReleaseIntent(c) \/ Release(c)
               \/ ReleaseCompleted(c) \/ Complete(c)
        PROVE ObjectiveOK'
    BY <1>3, StartAcceptanceOK, JudgeOK, MergeIntentOK, MergeOK, WaitForChecksOK,
       MergeCompletedOK, ReleaseIntentOK, ReleaseOK, ReleaseCompletedOK, CompleteOK
  <1> QED BY <1>1, <1>2, <1>3, WorldStepOK DEF ObjectiveNext

\* What the remote repository shows is in the queue or named by its intent, and
\* every worker call was reserved, for any number of controllers, batches and
\* repairs, wherever calls fail, leases end and controllers die
\* (ObjectiveQueue.claim, ObjectiveQueue.update, ObjectiveService._blocked).
THEOREM EffectsSafe == ObjectiveSpec => []EffectsAreAccounted
  <1>1. ObjectiveInit => ObjectiveOK BY ObjectiveInitOK
  <1>2. ObjectiveOK /\ [ObjectiveNext]_objectiveVars => ObjectiveOK' BY ObjectiveStep
  <1>3. ObjectiveOK => EffectsAreAccounted
    <2> SUFFICES ASSUME ObjectiveOK PROVE EffectsAreAccounted OBVIOUS
    <2>1. Accounted(objective, remote, workerCalls) /\ objective \in Objectives
      BY DEF ObjectiveOK, ObjectiveTypeOK
    <2>2. ASSUME remote.branch = Append(objective.commits, CommitOf(objective))
          PROVE Front(remote.branch) = objective.commits
      <3>1. /\ objective.commits \in Seq(Commits) /\ CommitOf(objective) \in Commits
        BY <2>1 DEF Objectives, CommitOf, Commits
      <3> DEFINE s == objective.commits
                 x == CommitOf(objective)
      <3> HIDE DEF s, x
      <3>2. /\ s \in Seq(Commits) /\ x \in Commits /\ remote.branch = Append(s, x)
        BY <2>2, <3>1 DEF s, x
      <3>3. Len(remote.branch) - 1 = Len(s) BY <3>2
      <3>4. SubSeq(Append(s, x), 1, Len(s)) = s BY <3>2
      <3> QED BY <3>2, <3>3, <3>4 DEF Front, s
    <2> QED BY <2>1, <2>2 DEF EffectsAreAccounted, Accounted
  <1> QED BY <1>1, <1>2, <1>3, PTL DEF ObjectiveSpec

-----------------------------------------------------------------------------
(***************************************************************************)
(* Induction and recursion. The natural numbers are well-founded           *)
(* (WellFoundedInduction): from that come induction over a set of numbers  *)
(* and the existence of the functions the models define by recursion.      *)
(***************************************************************************)
\* A set of numbers that holds 0 and the successor of each of its members holds them all.
LEMMA Induction ==
    ASSUME NEW T, 0 \in T, \A n \in Nat : n \in T => n + 1 \in T
    PROVE  Nat \subseteq T
<1> DEFINE R == Nat \ T
<1> SUFFICES ASSUME R # {} PROVE FALSE
  OBVIOUS
<1>1. PICK x \in R : \A y \in R : ~(<<y, x>> \in OpToRel(<, Nat))
  BY NatLessThanWellFounded, WFMin
<1>2. \A y \in R : ~(y < x)
  BY <1>1 DEF OpToRel
<1>3. x # 0 /\ x - 1 \in Nat /\ x - 1 < x /\ (x - 1) + 1 = x
  OBVIOUS
<1> QED
  BY <1>2, <1>3

\* f starts with base and goes on by G.
Follows(f, n, base, G) == f[0] = base /\ \A i \in 1 .. n : f[i] = G[i][f[i - 1]]

\* A function on 0 .. n may be defined by recursion.
LEMMA Recursion ==
    ASSUME NEW n \in Nat, NEW V, NEW base \in V, NEW G \in [1 .. n -> [V -> V]]
    PROVE  \E f \in [0 .. n -> V] : Follows(f, n, base, G)
<1> USE DEF Follows
<1> DEFINE Good(f, m) == Follows(f, m, base, G)
           T == {m \in Nat : m <= n => \E f \in [0 .. m -> V] : Good(f, m)}
<1>1. 0 \in T
  <2> DEFINE f == [i \in 0 .. 0 |-> base]
  <2>1. f \in [0 .. 0 -> V] /\ Good(f, 0)
    OBVIOUS
  <2> QED
    BY <2>1
<1>2. ASSUME NEW m \in Nat, m \in T PROVE m + 1 \in T
  <2> SUFFICES ASSUME m + 1 <= n PROVE \E f \in [0 .. (m + 1) -> V] : Good(f, m + 1)
    OBVIOUS
  <2>1. PICK f \in [0 .. m -> V] : Good(f, m)
    BY <1>2
  <2> DEFINE g == [i \in 0 .. (m + 1) |-> IF i = m + 1 THEN G[m + 1][f[m]] ELSE f[i]]
  <2>2. G[m + 1][f[m]] \in V
    BY <2>1
  <2>3. g \in [0 .. (m + 1) -> V] /\ g[0] = base
    BY <2>1, <2>2
  <2>4. ASSUME NEW i \in 1 .. (m + 1) PROVE g[i] = G[i][g[i - 1]]
    <3>1. CASE i = m + 1
      <4>1. g[i - 1] = f[m]
        BY <3>1
      <4> QED
        BY <3>1, <4>1
    <3>2. CASE i # m + 1
      <4>1. i \in 1 .. m /\ g[i] = f[i] /\ g[i - 1] = f[i - 1]
        BY <3>2
      <4> QED
        BY <2>1, <4>1
    <3> QED
      BY <3>1, <3>2
  <2> QED
    BY <2>3, <2>4
<1>3. n \in T
  <2> HIDE DEF T
  <2> QED BY <1>1, <1>2, Induction
<1> QED
  BY <1>3

SameUpTo(s, t, m) == \A i \in 1 .. m : s[i] = t[i]


-----------------------------------------------------------------------------
(***************************************************************************)
(* The task controller. What the record of a run says in each state, and   *)
(* why only a candidate with two paths that differ by case escapes the     *)
(* validator.                                                              *)
(***************************************************************************)
TaskStates ==
    {"pending", "admitted", "running", "validating", "repairing", "completed", "blocked", "failed"}

RepairsOK(r) ==
    /\ r.repairs \in 0 .. MaxRepairAttempts
    /\ r.state = "repairing" => r.repairs > 0

\* What the record of a run says in each state, but for names that differ in case.
TaskRunOK(r) ==
    /\ r.state \in TaskStates
    /\ r.candidate # NoCandidate => \E s \in Snapshots : r.candidate = Inspected(s)
    /\ r.candidate = NoCandidate => r.checks = NoChecks
    /\ r.reason = TRUE <=> r.state \in {"blocked", "failed"}
    /\ r.state \in {"pending", "admitted", "running"} => r.candidate = NoCandidate
    /\ r.state \in {"validating", "repairing", "completed"} => r.candidate # NoCandidate
    /\ r.state = "validating" => r.checks = NoChecks
    /\ r.state = "repairing" =>
        ~r.candidate.valid \/ \E n \in DOMAIN r.checks : r.checks[n].status = "failed"
    /\ r.state = "completed" =>
        /\ r.candidate.valid
        /\ RequiredChecks \subseteq DOMAIN r.checks
        /\ \A n \in DOMAIN r.checks :
            r.checks[n].status = "passed" /\ (n \in CountedChecks => r.checks[n].counts)

InspectedCandidates == {NoCandidate} \cup {Inspected(s) : s \in Snapshots}

RunRecords ==
    [state : TaskStates, repairs : Nat, candidate : InspectedCandidates, checks : Reported,
     reason : BOOLEAN]

TaskOK == taskRun \in RunRecords /\ TaskRunOK(taskRun) /\ RepairsOK(taskRun)

LEMMA TaskInits == TaskInit => TaskOK
<1>1. NoChecks \in Reported
  <2>1. NoChecks \in [{} -> Observation]
    BY DEF NoChecks
  <2> QED
    BY <2>1 DEF Reported
<1>2. Pending \in RunRecords
  <2>1. NoCandidate \in InspectedCandidates
    BY DEF InspectedCandidates
  <2> QED
    BY <1>1, <2>1 DEF Pending, RunRecords, TaskStates
<1>3. TaskRunOK(Pending) /\ RepairsOK(Pending)
  <2> DEFINE r == Pending
  <2>1. /\ r.state = "pending" /\ r.repairs = 0 /\ r.candidate = NoCandidate
        /\ r.checks = NoChecks /\ r.reason = FALSE
    BY DEF Pending
  <2> HIDE DEF r
  <2>2. TaskRunOK(r)
    BY <2>1 DEF TaskRunOK, TaskStates
  <2>3. RepairsOK(r)
    BY <2>1, TaskAssumption DEF RepairsOK
  <2> QED
    BY <2>2, <2>3 DEF r
<1> QED
  BY <1>2, <1>3 DEF TaskInit, TaskOK

LEMMA TaskStep == TaskOK /\ [TaskNext]_taskRun => TaskOK'
<1> SUFFICES ASSUME TaskOK, [TaskNext]_taskRun PROVE TaskOK'
  OBVIOUS
<1>0. MaxRepairAttempts \in Nat
  BY TaskAssumption
<1>1. CASE Admit
  BY <1>1 DEF TaskOK, TaskRunOK, RepairsOK, RunRecords, TaskStates, Admit
<1>2. CASE Run
  BY <1>2 DEF TaskOK, TaskRunOK, RepairsOK, RunRecords, TaskStates, Run, TaskEdges
<1>3. ASSUME NEW state \in {"blocked", "failed"}, Stop(state) PROVE TaskOK'
  BY <1>3 DEF TaskOK, TaskRunOK, RepairsOK, RunRecords, TaskStates, Stop, TaskEdges
<1>4. ASSUME NEW s \in Snapshots, FreezeForValidation(s) PROVE TaskOK'
  <2>1. NoChecks \in Reported
    <3>1. NoChecks \in [{} -> Observation]
      BY DEF NoChecks
    <3> QED
      BY <3>1 DEF Reported
  <2>2. taskRun.state \in {"running", "repairing"}
    BY <1>4 DEF TaskOK, RunRecords, TaskStates, FreezeForValidation, TaskEdges
  <2>3. Inspected(s) # NoCandidate /\ Inspected(s) \in InspectedCandidates
    BY CandidateAssumption DEF InspectedCandidates
  <2>4. taskRun' = [taskRun EXCEPT !.state = "validating", !.candidate = Inspected(s),
                                   !.checks = NoChecks]
    BY <1>4 DEF FreezeForValidation
  <2> DEFINE r == taskRun'
  <2>5. /\ r \in RunRecords /\ r.state = "validating" /\ r.candidate = Inspected(s)
        /\ r.checks = NoChecks /\ r.repairs = taskRun.repairs /\ r.reason = taskRun.reason
    BY <2>1, <2>3, <2>4 DEF TaskOK, RunRecords, TaskStates
  <2> QED
    BY <2>2, <2>3, <2>5 DEF TaskOK, TaskRunOK, RepairsOK, TaskStates
<1>5. ASSUME NEW checks \in Reported, Repair(checks) PROVE TaskOK'
  <2>1. taskRun.state = "validating"
    BY <1>5 DEF TaskOK, RunRecords, TaskStates, Repair, RepairUnbounded, TaskEdges
  <2>2. /\ taskRun' = [taskRun EXCEPT !.state = "repairing", !.checks = checks, !.repairs = @ + 1]
        /\ taskRun.repairs < MaxRepairAttempts
        /\ ~taskRun.candidate.valid \/ \E n \in DOMAIN checks : checks[n].status = "failed"
    BY <1>5 DEF Repair, RepairUnbounded
  <2> DEFINE r == taskRun'
  <2>3. /\ r \in RunRecords /\ r.state = "repairing" /\ r.candidate = taskRun.candidate
        /\ r.checks = checks /\ r.repairs = taskRun.repairs + 1 /\ r.reason = taskRun.reason
    <3> DEFINE k == taskRun.repairs + 1
    <3>1. k \in Nat
      BY DEF TaskOK, RunRecords
    <3>2. taskRun' = [taskRun EXCEPT !.state = "repairing", !.checks = checks, !.repairs = k]
      BY <2>2
    <3> HIDE DEF k
    <3>3. /\ r \in RunRecords /\ r.state = "repairing" /\ r.candidate = taskRun.candidate
          /\ r.checks = checks /\ r.repairs = k /\ r.reason = taskRun.reason
      BY <3>1, <3>2 DEF TaskOK, RunRecords, TaskStates
    <3> QED
      BY <3>3 DEF k
  <2> HIDE DEF r
  <2>4. RepairsOK(r)
    BY <1>0, <2>2, <2>3 DEF TaskOK, RepairsOK
  <2>5. TaskRunOK(r)
    BY <2>1, <2>2, <2>3 DEF TaskOK, TaskRunOK, TaskStates
  <2> QED
    BY <2>3, <2>4, <2>5 DEF TaskOK, r
<1>6. ASSUME NEW checks \in Reported, CompleteRun(checks) PROVE TaskOK'
  <2>1. taskRun.state = "validating"
    BY <1>6 DEF TaskOK, RunRecords, TaskStates, CompleteRun, TaskEdges
  <2>2. /\ taskRun' = [taskRun EXCEPT !.state = "completed", !.checks = checks]
        /\ taskRun.candidate.valid /\ RequiredChecks \subseteq DOMAIN checks
        /\ \A n \in DOMAIN checks :
              checks[n].status = "passed" /\ (n \in CountedChecks => checks[n].counts)
    BY <1>6 DEF CompleteRun
  <2> DEFINE r == taskRun'
  <2>3. /\ r \in RunRecords /\ r.state = "completed" /\ r.candidate = taskRun.candidate
        /\ r.checks = checks /\ r.repairs = taskRun.repairs /\ r.reason = taskRun.reason
    BY <2>2 DEF TaskOK, RunRecords, TaskStates
  <2>4. RepairsOK(r)
    BY <2>3 DEF TaskOK, RepairsOK
  <2>5. TaskRunOK(r)
    BY <2>1, <2>2, <2>3 DEF TaskOK, TaskRunOK, TaskStates
  <2> QED
    BY <2>3, <2>4, <2>5 DEF TaskOK
<1>7. CASE UNCHANGED taskRun
  BY <1>7 DEF TaskOK
<1> QED
  BY <1>1, <1>2, <1>3, <1>4, <1>5, <1>6, <1>7 DEF TaskNext

\* A candidate the policy lets through changes something, not too much of it, and
\* only where and how the policy allows it.
LEMMA ValidCandidate ==
    ASSUME NEW s \in Snapshots, Inspected(s).valid
    PROVE  /\ Inspected(s).changes # {}
           /\ Cardinality(Inspected(s).changes) <= MaxChangedFiles
           /\ \A p \in Inspected(s).changes :
                 Inspected(s).modes[p] = {"100644"} /\ p \in PolicyPaths \ ProtectedPaths
BY DEF Inspected, InBounds

\* tools/task_automation/controller.py: the record of a run is accepted by
\* validate_result in every state, exactly unless its candidate renames a file by case;
\* for any paths, policy, task and number of repairs.
THEOREM ResultsSafe == TaskSpec => []ResultsValidate
<1>1. TaskOK => ResultsValidate
  <2> SUFFICES ASSUME TaskOK PROVE ResultsValidate
    OBVIOUS
  <2> DEFINE r == taskRun
  <2>1. RenamesCase(r) => ~ValidResult(r)
    BY DEF RenamesCase, ValidResult
  <2>2. ASSUME ~RenamesCase(r) PROVE ValidResult(r)
    <3>0. r.repairs <= MaxRepairAttempts /\ (r.state = "repairing" => r.repairs > 0)
      BY TaskAssumption DEF TaskOK, RepairsOK
    <3>a. TaskRunOK(r) /\ r.reason \in BOOLEAN
      BY DEF TaskOK, RunRecords
    <3>b. r.reason = (r.state \in {"blocked", "failed"})
      BY <3>a DEF TaskRunOK
    <3> HIDE DEF r
    <3>1. CASE r.candidate = NoCandidate
      BY <3>0, <3>a, <3>b, <3>1 DEF TaskRunOK, ValidResult, TaskStates
    <3>2. CASE r.candidate # NoCandidate
      <4>1. PICK s \in Snapshots : r.candidate = Inspected(s)
        BY <3>2, <3>a DEF TaskRunOK
      <4>2. \A p, q \in r.candidate.changes : Folded[p] = Folded[q] => p = q
        BY <2>2, <3>2 DEF RenamesCase
      <4>3. r.candidate.valid =>
                /\ r.candidate.changes # {}
                /\ Cardinality(r.candidate.changes) <= MaxChangedFiles
                /\ \A p \in r.candidate.changes :
                      r.candidate.modes[p] = {"100644"} /\ p \in PolicyPaths \ ProtectedPaths
        BY <4>1, ValidCandidate
      <4> QED
        BY <3>0, <3>a, <3>b, <3>2, <4>2, <4>3 DEF TaskRunOK, ValidResult, TaskStates
    <3> QED
      BY <3>1, <3>2
  <2> QED
    BY <2>1, <2>2 DEF ResultsValidate
<1> QED
  BY <1>1, TaskInits, TaskStep, PTL DEF TaskSpec

-----------------------------------------------------------------------------
(***************************************************************************)
(* The intercepting proxy. A thread that writes a certificate holds the    *)
(* lock and has found room; an exchange is recorded once its origin was    *)
(* contacted and delivered once it was recorded.                           *)
(***************************************************************************)
\* f is the recursion of Mine over the first m elements of s.
MineOf(f, c, s, m) ==
    /\ f[0] = <<>>
    /\ \A n \in 1 .. m : f[n] = IF s[n][1] = c THEN Append(f[n - 1], s[n]) ELSE f[n - 1]

LEMMA MineExists ==
    ASSUME NEW S, NEW m \in Nat, NEW s \in [1 .. m -> S], NEW c
    PROVE  \E f \in [0 .. m -> Seq(S)] : MineOf(f, c, s, m)
<1> DEFINE G == [n \in 1 .. m |-> [v \in Seq(S) |-> IF s[n][1] = c THEN Append(v, s[n]) ELSE v]]
<1>1. ASSUME NEW n \in 1 .. m, NEW v \in Seq(S)
      PROVE  /\ G[n][v] = IF s[n][1] = c THEN Append(v, s[n]) ELSE v
             /\ G[n][v] \in Seq(S)
  OBVIOUS
<1>2. G \in [1 .. m -> [Seq(S) -> Seq(S)]]
  BY <1>1
<1>3. <<>> \in Seq(S)
  OBVIOUS
<1> HIDE DEF G
<1>4. PICK f \in [0 .. m -> Seq(S)] : Follows(f, m, <<>>, G)
  BY <1>2, <1>3, Recursion
<1>5. ASSUME NEW n \in 1 .. m
      PROVE  f[n] = IF s[n][1] = c THEN Append(f[n - 1], s[n]) ELSE f[n - 1]
  <2>1. n - 1 \in 0 .. m
    OBVIOUS
  <2>2. f[n - 1] \in Seq(S)
    BY <1>4, <2>1
  <2> QED
    BY <1>1, <1>4, <2>2 DEF Follows
<1> QED
  BY <1>4, <1>5 DEF MineOf, Follows


\* Two functions that satisfy the recursion agree as far as the sequences do.
LEMMA MineAgree ==
    ASSUME NEW m \in Nat, NEW s, NEW t, NEW c, NEW f, NEW g,
           SameUpTo(s, t, m),
           MineOf(f, c, s, m), MineOf(g, c, t, m)
    PROVE  \A n \in 0 .. m : f[n] = g[n]
<1> DEFINE T == {n \in Nat : n <= m => f[n] = g[n]}
<1>1. 0 \in T
  BY DEF MineOf
<1>2. ASSUME NEW n \in Nat, n \in T PROVE n + 1 \in T
  <2> SUFFICES ASSUME n + 1 <= m PROVE f[n + 1] = g[n + 1]
    OBVIOUS
  <2>1. f[n] = g[n]
    BY <1>2
  <2>2. (n + 1) - 1 = n /\ n + 1 \in 1 .. m
    OBVIOUS
  <2>3. f[n + 1] = IF s[n + 1][1] = c THEN Append(f[n], s[n + 1]) ELSE f[n]
    BY <2>2 DEF MineOf
  <2>4. g[n + 1] = IF t[n + 1][1] = c THEN Append(g[n], t[n + 1]) ELSE g[n]
    BY <2>2 DEF MineOf
  <2>5. s[n + 1] = t[n + 1]
    BY <2>2 DEF SameUpTo
  <2> QED
    BY <2>1, <2>3, <2>4, <2>5
<1>3. Nat \subseteq T
  <2> HIDE DEF T
  <2> QED BY <1>1, <1>2, Induction
<1> QED
  BY <1>3

LEMMA MineSteps ==
    ASSUME NEW S, NEW s \in Seq(S), NEW c
    PROVE  \E f \in [0 .. Len(s) -> Seq(S)] : Mine(c, s) = f[Len(s)] /\ MineOf(f, c, s, Len(s))
<1> DEFINE P(f) == f = [n \in 0 .. Len(s) |->
                            IF n = 0 THEN <<>>
                            ELSE IF s[n][1] = c THEN Append(f[n - 1], s[n]) ELSE f[n - 1]]
           mine == CHOOSE f : P(f)
<1>1. Mine(c, s) = mine[Len(s)]
  BY DEF Mine
<1>2. Len(s) \in Nat /\ s \in [1 .. Len(s) -> S]
  OBVIOUS
<1>3. PICK f \in [0 .. Len(s) -> Seq(S)] : MineOf(f, c, s, Len(s))
  BY <1>2, MineExists
<1>4. \E h : P(h)
  <2>1. ASSUME NEW n \in 0 .. Len(s)
        PROVE  f[n] = IF n = 0 THEN <<>>
                      ELSE IF s[n][1] = c THEN Append(f[n - 1], s[n]) ELSE f[n - 1]
    <3>1. CASE n = 0
      BY <1>3, <3>1 DEF MineOf
    <3>2. CASE n # 0
      <4>1. n \in 1 .. Len(s)
        BY <1>2, <3>2
      <4> QED
        BY <1>3, <3>2, <4>1 DEF MineOf
    <3> QED
      BY <3>1, <3>2
  <2> QED
    BY <1>3, <2>1
<1>5. P(mine)
  <2> HIDE DEF P
  <2> QED BY <1>4
<1> HIDE DEF mine
<1>6. DOMAIN mine = 0 .. Len(s) /\ MineOf(mine, c, s, Len(s)) /\ mine = [n \in 0 .. Len(s) |-> mine[n]]
  <2>1. mine = [n \in 0 .. Len(s) |-> mine[n]]
    BY <1>5
  <2>2. mine[0] = <<>>
    BY <1>2, <1>5
  <2>3. ASSUME NEW n \in 1 .. Len(s)
        PROVE  mine[n] = IF s[n][1] = c THEN Append(mine[n - 1], s[n]) ELSE mine[n - 1]
    <3>1. n \in 0 .. Len(s) /\ n # 0
      BY <1>2
    <3> QED
      BY <1>5, <3>1
  <2> QED
    BY <2>1, <2>2, <2>3 DEF MineOf
<1>7. ASSUME NEW m \in 0 .. Len(s) PROVE mine[m] = f[m]
  <2>1. PICK k \in Nat : k = Len(s)
    BY <1>2
  <2>2. MineOf(mine, c, s, k) /\ MineOf(f, c, s, k) /\ m \in 0 .. k
    BY <1>3, <1>6, <2>1
  <2>3. SameUpTo(s, s, k)
    BY DEF SameUpTo
  <2> HIDE DEF P
  <2> QED
    BY <2>2, <2>3, MineAgree
<1>8. mine = f
  <2> HIDE DEF P
  <2> QED BY <1>3, <1>6, <1>7
<1> QED
  BY <1>1, <1>3, <1>8

LEMMA MineEmpty == \A c : Mine(c, <<>>) = <<>>
<1> SUFFICES ASSUME NEW c PROVE Mine(c, <<>>) = <<>>
  OBVIOUS
<1>1. <<>> \in Seq({}) /\ Len(<<>>) = 0
  OBVIOUS
<1>2. PICK f \in [0 .. Len(<<>>) -> Seq({})] : Mine(c, <<>>) = f[Len(<<>>)] /\ MineOf(f, c, <<>>, Len(<<>>))
  BY <1>1, MineSteps
<1> QED
  BY <1>1, <1>2 DEF MineOf

LEMMA MineAppend ==
    ASSUME NEW S, NEW s \in Seq(S), NEW e \in S, NEW c
    PROVE  /\ Mine(c, Append(s, e)) = IF e[1] = c THEN Append(Mine(c, s), e) ELSE Mine(c, s)
           /\ Mine(c, s) \in Seq(S)
<1>1. PICK t \in Seq(S), k \in Nat :
            t = Append(s, e) /\ k = Len(s) /\ Len(t) = k + 1 /\ t[k + 1] = e /\ SameUpTo(s, t, k)
  <2>1. Append(s, e) \in Seq(S) /\ Len(s) \in Nat /\ Len(Append(s, e)) = Len(s) + 1
        /\ Append(s, e)[Len(s) + 1] = e /\ \A i \in 1 .. Len(s) : s[i] = Append(s, e)[i]
    OBVIOUS
  <2> QED
    BY <2>1 DEF SameUpTo
<1>2. PICK f \in [0 .. k -> Seq(S)] : Mine(c, s) = f[k] /\ MineOf(f, c, s, k)
  BY <1>1, MineSteps
<1>3. PICK g \in [0 .. Len(t) -> Seq(S)] : Mine(c, t) = g[Len(t)] /\ MineOf(g, c, t, Len(t))
  BY MineSteps
<1>4. f[k] = g[k]
  <2>1. MineOf(g, c, t, k)
    <3>1. \A n \in 1 .. k : n \in 1 .. Len(t)
      BY <1>1
    <3> QED
      BY <1>3, <3>1 DEF MineOf
  <2>2. k \in 0 .. k
    BY <1>1
  <2>3. \A n \in 0 .. k : f[n] = g[n]
    BY <1>1, <1>2, <2>1, MineAgree
  <2> QED
    BY <2>2, <2>3
<1>5. g[k + 1] = IF t[k + 1][1] = c THEN Append(g[k], t[k + 1]) ELSE g[k]
  <2>1. k + 1 \in 1 .. k + 1 /\ (k + 1) - 1 = k
    BY <1>1
  <2> QED
    BY <1>1, <1>3, <2>1 DEF MineOf
<1>6. f[k] \in Seq(S)
  BY <1>1, <1>2
<1> QED
  BY <1>1, <1>2, <1>3, <1>4, <1>5, <1>6

Ats == {"none", "reading", "forward", "record", "respond", "connect", "certificate", "issuing",
        "load", "handshake", "closed"}
WithHost == {"forward", "record", "respond", "connect", "certificate", "issuing", "load", "handshake"}
Tunnelled == {"certificate", "issuing", "load", "handshake"}
Threads == [at : Ats, host : HostSpellings \cup {NoHost}, origin : HostSpellings \cup {NoHost}]
Exchanges == Clients \X HostSpellings
ProxyStates ==
    [https : BOOLEAN, temporary : BOOLEAN,
     status : {"serving", "reported", "shut", "closed", "exited"}, directory : BOOLEAN,
     lock : Clients \cup {NoHost}, issued : Seq(STRING), contacted : SUBSET HostSpellings,
     records : Seq(Exchanges), delivered : Seq(Exchanges), report : Seq(Exchanges), requests : Nat]

CertificatesOK ==
    /\ ToSet(proxy.issued) \subseteq ProxyScope
    /\ IsInjective(proxy.issued)
    /\ Len(proxy.issued) <= MaxHostCerts

\* What a thread knows of its host, and that one that writes a certificate holds the lock.
ThreadOK(c) ==
    /\ conn[c].at \in WithHost => conn[c].host \in HostSpellings
    /\ conn[c].at \in Tunnelled => proxy.https /\ InProxyScope(conn[c].host)
    /\ conn[c].at = "issuing" => /\ proxy.lock = c
                                 /\ ~Issued(conn[c].host)
                                 /\ Len(proxy.issued) < MaxHostCerts
    /\ conn[c].at \in {"load", "handshake"} => Issued(conn[c].host)
    /\ conn[c].at \in {"record", "respond"} => conn[c].host \in proxy.contacted
    /\ conn[c].origin # NoHost => proxy.https /\ Issued(conn[c].origin)

\* The answers of a connection: at most the last recorded exchange is not delivered.
AnsweredOK(c) ==
    LET recorded == Mine(c, proxy.records)  answered == Mine(c, proxy.delivered)
    IN  /\ conn[c].at = "respond" => recorded = Append(answered, <<c, conn[c].host>>)
        /\ conn[c].at = "closed" => \/ recorded = answered
                                    \/ \E e \in Exchanges : recorded = Append(answered, e)
        /\ conn[c].at \notin {"respond", "closed"} => recorded = answered

RecordsOK ==
    /\ \A host \in proxy.contacted : InProxyScope(host)
    /\ \A i \in 1 .. Len(proxy.records) : proxy.records[i][2] \in proxy.contacted
    /\ Len(proxy.report) <= Len(proxy.records)
    /\ \A i \in 1 .. Len(proxy.report) : proxy.report[i] = proxy.records[i]

ProxyOK ==
    /\ proxy \in ProxyStates
    /\ conn \in [Clients -> Threads]
    /\ CertificatesOK
    /\ RecordsOK
    /\ \A c \in Clients : ThreadOK(c) /\ AnsweredOK(c)

LEMMA ProxyInitOK == ASSUME ProxyInit PROVE ProxyOK
<1> USE ProxyAssumption DEF ProxyInit
<1>1. proxy \in ProxyStates
  BY DEF ProxyStates
<1>2. conn \in [Clients -> Threads] /\ \A c \in Clients : conn[c] = Hung
  BY DEF Threads, Hung, Ats
<1>3. CertificatesOK
  BY DEF CertificatesOK, ToSet, IsInjective
<1>4. RecordsOK
  BY DEF RecordsOK
<1>5. ASSUME NEW c \in Clients PROVE ThreadOK(c) /\ AnsweredOK(c)
  <2>1. conn[c].at = "none" /\ conn[c].origin = NoHost
    BY <1>2 DEF Hung
  <2>2. ThreadOK(c)
    BY <2>1 DEF ThreadOK, WithHost, Tunnelled
  <2>3. AnsweredOK(c)
    BY <2>1, MineEmpty DEF AnsweredOK
  <2> QED
    BY <2>2, <2>3
<1> QED
  BY <1>1, <1>2, <1>3, <1>4, <1>5 DEF ProxyOK

\* A step of one thread that records nothing and delivers nothing.
LEMMA ThreadStep ==
    ASSUME ProxyOK, NEW c \in Clients, NEW r \in Threads, conn' = [conn EXCEPT ![c] = r],
           proxy' \in ProxyStates,
           proxy'.https = proxy.https, proxy'.records = proxy.records,
           proxy'.delivered = proxy.delivered, proxy'.report = proxy.report,
           proxy.contacted \subseteq proxy'.contacted,
           \A host \in proxy'.contacted : InProxyScope(host),
           CertificatesOK', ToSet(proxy.issued) \subseteq ToSet(proxy'.issued),
           \A d \in Clients \ {c} : conn[d].at = "issuing" =>
                proxy'.lock = proxy.lock /\ proxy'.issued = proxy.issued,
           ThreadOK(c)',
           r.at = "closed" \/ (conn[c].at \notin {"respond", "closed"} /\ r.at # "respond")
    PROVE  ProxyOK'
<1> USE DEF ProxyOK
<1>1. conn' \in [Clients -> Threads] /\ conn'[c] = r /\ \A d \in Clients \ {c} : conn'[d] = conn[d]
  OBVIOUS
<1>2. RecordsOK'
  BY DEF RecordsOK, InProxyScope
<1>3. ASSUME NEW d \in Clients \ {c} PROVE ThreadOK(d)'
  <2>1. conn'[d] = conn[d] /\ ThreadOK(d)
    BY <1>1
  <2>2. \A h : Issued(h) => Issued(h)'
    BY DEF Issued
  <2>3. \A h : InProxyScope(h)' = InProxyScope(h)
    BY DEF InProxyScope
  <2>4. conn[d].at = "issuing" => proxy'.lock = proxy.lock /\ proxy'.issued = proxy.issued
    OBVIOUS
  <2>5. conn[d].at = "issuing" => \A h : Issued(h)' = Issued(h)
    BY <2>4 DEF Issued
  <2> QED
    BY <2>1, <2>2, <2>3, <2>4, <2>5 DEF ThreadOK
<1>4. ASSUME NEW d \in Clients \ {c} PROVE AnsweredOK(d)'
  <2>1. conn'[d] = conn[d] /\ AnsweredOK(d)
    BY <1>1
  <2> QED
    BY <2>1 DEF AnsweredOK
<1>5. AnsweredOK(c)'
  <2>1. AnsweredOK(c) /\ c \in Clients
    OBVIOUS
  <2>2. CASE r.at = "closed"
    <3>1. CASE conn[c].at = "respond"
      <4>1. conn[c].host \in HostSpellings
        BY <3>1 DEF ThreadOK, WithHost
      <4>2. <<c, conn[c].host>> \in Exchanges
        BY <4>1 DEF Exchanges
      <4> QED
        BY <1>1, <2>1, <2>2, <3>1, <4>2 DEF AnsweredOK
    <3>2. CASE conn[c].at # "respond"
      BY <1>1, <2>1, <2>2, <3>2 DEF AnsweredOK
    <3> QED
      BY <3>1, <3>2
  <2>3. CASE r.at # "closed"
    BY <1>1, <2>1, <2>3 DEF AnsweredOK
  <2> QED
    BY <2>2, <2>3
<1> QED
  BY <1>1, <1>2, <1>3, <1>4, <1>5

LEMMA HungThread == /\ [Hung EXCEPT !.at = "closed"] \in Threads
                    /\ [Hung EXCEPT !.at = "closed"].at = "closed"
                    /\ [Hung EXCEPT !.at = "closed"].origin = NoHost
BY DEF Hung, Threads, Ats

\* A connection that is closed, and at most the lock given up.
LEMMA HangupOK ==
    ASSUME ProxyOK, NEW c \in Clients, Hangup(c),
           UNCHANGED proxy \/ (conn[c].at = "issuing" /\ proxy' = [proxy EXCEPT !.lock = NoHost])
    PROVE  ProxyOK'
<1> DEFINE r == [Hung EXCEPT !.at = "closed"]
<1> USE DEF ProxyOK
<1>1. r \in Threads /\ conn' = [conn EXCEPT ![c] = r] /\ r.at = "closed" /\ r.origin = NoHost
  BY HungThread DEF Hangup
<1>2. proxy' \in ProxyStates /\ proxy'.issued = proxy.issued
      /\ proxy'.https = proxy.https /\ proxy'.records = proxy.records
      /\ proxy'.delivered = proxy.delivered /\ proxy'.report = proxy.report
      /\ proxy'.contacted = proxy.contacted
  BY DEF ProxyStates
<1>3. CertificatesOK'
  BY <1>2 DEF CertificatesOK
<1>4. \A host \in proxy'.contacted : InProxyScope(host)
  BY <1>2 DEF RecordsOK
<1>5. \A d \in Clients \ {c} : conn[d].at = "issuing" =>
                proxy'.lock = proxy.lock /\ proxy'.issued = proxy.issued
  BY <1>2 DEF ThreadOK
<1>6. ThreadOK(c)'
  BY <1>1 DEF ThreadOK, WithHost, Tunnelled
<1> HIDE DEF r, ProxyOK
<1> QED
  BY <1>1, <1>2, <1>3, <1>4, <1>5, <1>6, ThreadStep

\* A thread that goes on, the shared state as it was.
LEMMA QuietThread ==
    ASSUME ProxyOK, NEW c \in Clients, NEW r \in Threads, conn' = [conn EXCEPT ![c] = r],
           UNCHANGED proxy, ThreadOK(c)',
           conn[c].at \notin {"respond", "closed"}, r.at # "respond"
    PROVE  ProxyOK'
<1>1. proxy' \in ProxyStates /\ proxy'.issued = proxy.issued
      /\ proxy'.https = proxy.https /\ proxy'.records = proxy.records
      /\ proxy'.delivered = proxy.delivered /\ proxy'.report = proxy.report
      /\ proxy'.contacted = proxy.contacted /\ proxy'.lock = proxy.lock
  BY DEF ProxyOK
<1>2. CertificatesOK'
  BY <1>1 DEF CertificatesOK, ProxyOK
<1>3. \A host \in proxy'.contacted : InProxyScope(host)
  BY <1>1 DEF RecordsOK, ProxyOK
<1> QED
  BY <1>1, <1>2, <1>3, ThreadStep

LEMMA ThreadMoves ==
    ASSUME ProxyOK, NEW c \in Clients, NEW at \in Ats, GoOn(c, at)
    PROVE  \E r \in Threads : /\ conn' = [conn EXCEPT ![c] = r]
                              /\ r.at = at /\ r.host = conn[c].host /\ r.origin = conn[c].origin
                              /\ conn'[c] = r
<1> DEFINE r == [conn[c] EXCEPT !.at = at]
<1>1. conn[c] \in Threads
  BY DEF ProxyOK
<1>2. r \in Threads /\ r.at = at /\ r.host = conn[c].host /\ r.origin = conn[c].origin
  BY <1>1 DEF Threads
<1>3. conn' = [conn EXCEPT ![c] = r] /\ conn'[c] = r
  BY <1>2 DEF GoOn, ProxyOK
<1> QED
  BY <1>2, <1>3

\* A thread that goes on where nothing more is asked of it than before.
LEMMA GoOnOK ==
    ASSUME ProxyOK, NEW c \in Clients, NEW at \in Ats, GoOn(c, at), UNCHANGED proxy,
           conn[c].at \notin {"respond", "closed"}, at \notin {"respond", "issuing", "record"},
           at \in WithHost => conn[c].at \in WithHost,
           at \in Tunnelled => proxy.https /\ InProxyScope(conn[c].host),
           at \in {"load", "handshake"} => Issued(conn[c].host)
    PROVE  ProxyOK'
<1>1. PICK r \in Threads : /\ conn' = [conn EXCEPT ![c] = r]
                           /\ r.at = at /\ r.host = conn[c].host /\ r.origin = conn[c].origin
                           /\ conn'[c] = r
  BY ThreadMoves
<1>2. ThreadOK(c)
  BY DEF ProxyOK
<1>3. \A h : (Issued(h)' <=> Issued(h)) /\ (InProxyScope(h)' <=> InProxyScope(h))
  BY DEF Issued, InProxyScope
<1>4. ThreadOK(c)'
  BY <1>1, <1>2, <1>3 DEF ThreadOK
<1> QED
  BY <1>1, <1>4, QuietThread

LEMMA AcceptClientOK == ASSUME ProxyOK, NEW c \in Clients, AcceptClient(c) PROVE ProxyOK'
<1>1. GoOn(c, "reading") /\ UNCHANGED proxy /\ conn[c].at = "none" /\ "reading" \in Ats
  BY DEF AcceptClient, Ats
<1>2. "reading" \notin WithHost /\ "reading" \notin Tunnelled
  BY DEF WithHost, Tunnelled
<1> QED
  BY <1>1, <1>2, GoOnOK

LEMMA TunnelAskedOK == ASSUME ProxyOK, NEW c \in Clients, TunnelAsked(c) PROVE ProxyOK'
<1>1. CASE proxy.https /\ InProxyScope(conn[c].host)
  <2>1. GoOn(c, "certificate") /\ UNCHANGED proxy /\ conn[c].at = "connect" /\ "certificate" \in Ats
    BY <1>1 DEF TunnelAsked, Ats
  <2>2. "connect" \in WithHost
    BY DEF WithHost
  <2> QED
    BY <1>1, <2>1, <2>2, GoOnOK
<1>2. CASE ~(proxy.https /\ InProxyScope(conn[c].host))
  BY <1>2, HangupOK DEF TunnelAsked
<1> QED
  BY <1>1, <1>2

LEMMA LoadCertificateOK == ASSUME ProxyOK, NEW c \in Clients, LoadCertificate(c) PROVE ProxyOK'
<1>1. CASE proxy.directory
  <2>1. GoOn(c, "handshake") /\ UNCHANGED proxy /\ conn[c].at = "load" /\ "handshake" \in Ats
    BY <1>1 DEF LoadCertificate, Ats
  <2>2. "load" \in WithHost /\ "load" \in Tunnelled
    BY DEF WithHost, Tunnelled
  <2>3. proxy.https /\ InProxyScope(conn[c].host) /\ Issued(conn[c].host)
    BY <2>1, <2>2 DEF ProxyOK, ThreadOK
  <2> QED
    BY <2>1, <2>2, <2>3, GoOnOK
<1>2. CASE ~proxy.directory
  BY <1>2, HangupOK DEF LoadCertificate
<1> QED
  BY <1>1, <1>2

LEMMA CertificateOK == ASSUME ProxyOK, NEW c \in Clients, Certificate(c) PROVE ProxyOK'
<1> USE DEF Certificate
<1>0. /\ conn[c].at = "certificate" /\ "certificate" \in WithHost /\ "certificate" \in Tunnelled
      /\ "load" \in Ats /\ "issuing" \in Ats /\ "issuing" \in WithHost
  BY DEF WithHost, Tunnelled, Ats
<1>1. proxy.https /\ InProxyScope(conn[c].host) /\ conn[c].host \in HostSpellings
  BY <1>0 DEF ProxyOK, ThreadOK
<1>2. CASE Issued(conn[c].host)
  <2>1. GoOn(c, "load") /\ UNCHANGED proxy
    BY <1>2
  <2> QED
    BY <1>0, <1>1, <1>2, <2>1, GoOnOK
<1>3. CASE ~Issued(conn[c].host) /\ Len(proxy.issued) >= MaxHostCerts
  BY <1>3, HangupOK
<1>4. CASE ~Issued(conn[c].host) /\ ~(Len(proxy.issued) >= MaxHostCerts)
  <2>1. GoOn(c, "issuing") /\ proxy' = [proxy EXCEPT !.lock = c]
    BY <1>4
  <2>2. PICK r \in Threads : /\ conn' = [conn EXCEPT ![c] = r]
                             /\ r.at = "issuing" /\ r.host = conn[c].host
                             /\ r.origin = conn[c].origin /\ conn'[c] = r
    BY <1>0, <2>1, ThreadMoves
  <2>3. /\ proxy' \in ProxyStates /\ proxy'.issued = proxy.issued
        /\ proxy'.https = proxy.https /\ proxy'.records = proxy.records
        /\ proxy'.delivered = proxy.delivered /\ proxy'.report = proxy.report
        /\ proxy'.contacted = proxy.contacted /\ proxy'.lock = c
        /\ proxy.issued \in Seq(STRING)
    BY <2>1 DEF ProxyStates, ProxyOK
  <2>4. CertificatesOK'
    BY <2>3 DEF CertificatesOK, ProxyOK
  <2>5. \A host \in proxy'.contacted : InProxyScope(host)
    BY <2>3 DEF RecordsOK, ProxyOK
  <2>6. \A d \in Clients \ {c} : conn[d].at # "issuing"
    BY ProxyAssumption DEF ProxyOK, ThreadOK
  <2>7. Len(proxy.issued) < MaxHostCerts
    BY <1>4, <2>3, ProxyAssumption
  <2>8. ThreadOK(c)'
    <3>1. ThreadOK(c)
      BY DEF ProxyOK
    <3>2. \A h : (Issued(h)' <=> Issued(h)) /\ (InProxyScope(h)' <=> InProxyScope(h))
      BY <2>3 DEF Issued, InProxyScope
    <3> QED
      BY <1>1, <1>4, <2>2, <2>3, <2>7, <3>1, <3>2 DEF ThreadOK
  <2> QED
    BY <1>0, <2>2, <2>3, <2>4, <2>5, <2>6, <2>8, ThreadStep
<1> QED
  BY <1>2, <1>3, <1>4

LEMMA InjectiveAppend ==
    ASSUME NEW S, NEW s \in Seq(S), NEW e \in S, IsInjective(s), e \notin ToSet(s)
    PROVE  /\ IsInjective(Append(s, e))
           /\ ToSet(Append(s, e)) = ToSet(s) \cup {e}
           /\ Len(Append(s, e)) = Len(s) + 1
           /\ Len(s) \in Nat
<1> DEFINE t == Append(s, e)
           k == Len(s)
<1>1. /\ k \in Nat /\ Len(t) = k + 1 /\ DOMAIN t = 1 .. k + 1 /\ DOMAIN s = 1 .. k
      /\ t[k + 1] = e /\ \A i \in 1 .. k : t[i] = s[i]
  OBVIOUS
<1> HIDE DEF t, k
<1>2. \A i \in 1 .. k + 1 : i # k + 1 => i \in 1 .. k
  BY <1>1
<1>3. \A i \in 1 .. k : s[i] # e /\ i \in 1 .. k + 1
  BY <1>1 DEF ToSet
<1>4. IsInjective(t)
  <2> SUFFICES ASSUME NEW i \in 1 .. k + 1, NEW j \in 1 .. k + 1, t[i] = t[j] PROVE i = j
    BY <1>1 DEF IsInjective
  <2>1. CASE i = k + 1 /\ j # k + 1
    BY <1>1, <1>2, <1>3, <2>1
  <2>2. CASE i # k + 1 /\ j = k + 1
    BY <1>1, <1>2, <1>3, <2>2
  <2>3. CASE i # k + 1 /\ j # k + 1
    BY <1>1, <1>2, <2>3 DEF IsInjective
  <2> QED
    BY <2>1, <2>2, <2>3
<1>5. ToSet(t) = ToSet(s) \cup {e}
  <2>1. k + 1 \in 1 .. k + 1
    BY <1>1
  <2> QED
    BY <1>1, <1>2, <1>3, <2>1 DEF ToSet
<1> QED
  BY <1>1, <1>4, <1>5 DEF t, k

LEMMA WriteCertificateOK == ASSUME ProxyOK, NEW c \in Clients, WriteCertificate(c) PROVE ProxyOK'
<1> USE DEF WriteCertificate
<1>0. /\ conn[c].at = "issuing" /\ "issuing" \in WithHost /\ "issuing" \in Tunnelled
      /\ "load" \in Ats
  BY DEF WithHost, Tunnelled, Ats
<1>1. /\ proxy.https /\ InProxyScope(conn[c].host) /\ conn[c].host \in HostSpellings
      /\ proxy.lock = c /\ ~Issued(conn[c].host) /\ Len(proxy.issued) < MaxHostCerts
  BY <1>0 DEF ProxyOK, ThreadOK
<1>2. CASE proxy' = [proxy EXCEPT !.lock = NoHost] /\ Hangup(c)
  BY <1>0, <1>2, HangupOK
<1>3. ASSUME proxy' = [proxy EXCEPT !.lock = NoHost,
                                    !.issued = Append(@, CanonicalHost[conn[c].host])],
             GoOn(c, "load")
      PROVE  ProxyOK'
  <2> DEFINE name == CanonicalHost[conn[c].host]
  <2>1. name \in STRING /\ name \in ProxyScope /\ name \notin ToSet(proxy.issued)
    BY <1>1, ProxyAssumption DEF InProxyScope, Issued
  <2>2. PICK r \in Threads : /\ conn' = [conn EXCEPT ![c] = r]
                             /\ r.at = "load" /\ r.host = conn[c].host
                             /\ r.origin = conn[c].origin /\ conn'[c] = r
    BY <1>0, <1>3, ThreadMoves
  <2>3. /\ proxy' \in ProxyStates /\ proxy'.issued = Append(proxy.issued, name)
        /\ proxy'.https = proxy.https /\ proxy'.records = proxy.records
        /\ proxy'.delivered = proxy.delivered /\ proxy'.report = proxy.report
        /\ proxy'.contacted = proxy.contacted
        /\ proxy.issued \in Seq(STRING)
    <3> DEFINE S == STRING
    <3>1. name \in S
      BY <2>1
    <3> HIDE DEF name, S
    <3>2. proxy \in [https : BOOLEAN, temporary : BOOLEAN,
              status : {"serving", "reported", "shut", "closed", "exited"}, directory : BOOLEAN,
              lock : Clients \cup {NoHost}, issued : Seq(S), contacted : SUBSET HostSpellings,
              records : Seq(Exchanges), delivered : Seq(Exchanges), report : Seq(Exchanges),
              requests : Nat]
      BY DEF ProxyOK, ProxyStates, S
    <3>3. proxy.issued \in Seq(S) /\ Append(proxy.issued, name) \in Seq(S)
      BY <3>1, <3>2
    <3>4. proxy' = [proxy EXCEPT !.lock = NoHost, !.issued = Append(proxy.issued, name)]
      BY <1>3 DEF name
    <3> QED
      BY <3>2, <3>3, <3>4 DEF ProxyStates, S
  <2> HIDE DEF name
  <2>4. /\ IsInjective(proxy'.issued) /\ ToSet(proxy'.issued) = ToSet(proxy.issued) \cup {name}
        /\ Len(proxy'.issued) = Len(proxy.issued) + 1 /\ Len(proxy.issued) \in Nat
    BY <2>1, <2>3, InjectiveAppend DEF ProxyOK, CertificatesOK
  <2>5. Len(proxy'.issued) <= MaxHostCerts
    BY <1>1, <2>4, ProxyAssumption
  <2>6. CertificatesOK'
    BY <2>1, <2>4, <2>5 DEF CertificatesOK, ProxyOK
  <2>7. \A host \in proxy'.contacted : InProxyScope(host)
    BY <2>3 DEF RecordsOK, ProxyOK
  <2>8. \A d \in Clients \ {c} : conn[d].at # "issuing"
    BY <1>1, ProxyAssumption DEF ProxyOK, ThreadOK
  <2>9. ThreadOK(c)'
    <3>1. ThreadOK(c)
      BY DEF ProxyOK
    <3>2. \A h : (Issued(h) => Issued(h)') /\ (InProxyScope(h)' <=> InProxyScope(h))
      BY <2>4 DEF Issued, InProxyScope
    <3>3. Issued(conn[c].host)'
      BY <2>2, <2>4 DEF Issued, name
    <3> QED
      BY <1>1, <2>2, <2>3, <3>1, <3>2, <3>3 DEF ThreadOK
  <2> QED
    BY <1>0, <2>2, <2>3, <2>4, <2>6, <2>7, <2>8, <2>9, ThreadStep
<1> QED
  BY <1>2, <1>3

\* A request is read: for a host it names, or for the host of the tunnel.
LEMMA ReadRequestOK == ASSUME ProxyOK, NEW c \in Clients, ReadRequest(c) PROVE ProxyOK'
<1>0. /\ conn[c].at = "reading" /\ conn[c] \in Threads /\ ThreadOK(c)
      /\ "forward" \in Ats /\ "connect" \in Ats
  BY DEF ReadRequest, ProxyOK, Ats
<1>1. CASE Hangup(c) /\ UNCHANGED proxy
  BY <1>1, HangupOK
<1>2. ASSUME NEW host \in HostSpellings, NEW at \in {"forward", "connect"},
             conn' = [conn EXCEPT ![c].at = at, ![c].host = host],
             proxy' = [proxy EXCEPT !.requests = @ + 1]
      PROVE  ProxyOK'
  <2> DEFINE r == [conn[c] EXCEPT !.at = at, !.host = host]
  <2>1. r \in Threads /\ r.at = at /\ r.host = host /\ r.origin = conn[c].origin
    BY <1>0 DEF Threads
  <2>2. conn' = [conn EXCEPT ![c] = r] /\ conn'[c] = r
    BY <1>2, <2>1 DEF ProxyOK
  <2>3. /\ proxy' \in ProxyStates /\ proxy'.issued = proxy.issued
        /\ proxy'.https = proxy.https /\ proxy'.records = proxy.records
        /\ proxy'.delivered = proxy.delivered /\ proxy'.report = proxy.report
        /\ proxy'.contacted = proxy.contacted /\ proxy'.lock = proxy.lock
    BY <1>2, SMTT(30) DEF ProxyStates, ProxyOK
  <2>4. CertificatesOK'
    BY <2>3 DEF CertificatesOK, ProxyOK
  <2>5. \A h \in proxy'.contacted : InProxyScope(h)
    BY <2>3 DEF RecordsOK, ProxyOK
  <2> HIDE DEF r
  <2>6. ThreadOK(c)'
    <3>1. \A h : Issued(h)' <=> Issued(h)
      BY <2>3 DEF Issued
    <3> QED
      BY <1>0, <1>2, <2>1, <2>2, <2>3, <3>1 DEF ThreadOK, Tunnelled
  <2> QED
    BY <1>0, <1>2, <2>1, <2>2, <2>3, <2>4, <2>5, <2>6, ThreadStep
<1>3. CASE conn[c].origin # NoHost
  <2>1. conn[c].origin \in HostSpellings
    BY <1>0, <1>3 DEF Threads
  <2> QED
    BY <1>1, <1>2, <2>1 DEF ReadRequest
<1>4. CASE conn[c].origin = NoHost
  BY <1>1, <1>2, <1>4 DEF ReadRequest
<1> QED
  BY <1>3, <1>4

LEMMA HandshakeOK == ASSUME ProxyOK, NEW c \in Clients, Handshake(c) PROVE ProxyOK'
<1>0. /\ conn[c].at = "handshake" /\ conn[c] \in Threads /\ ThreadOK(c)
      /\ "reading" \in Ats /\ UNCHANGED proxy
  BY DEF Handshake, ProxyOK, Ats
<1>1. CASE Hangup(c)
  BY <1>0, <1>1, HangupOK
<1>2. CASE conn' = [conn EXCEPT ![c].at = "reading", ![c].origin = conn[c].host,
                               ![c].host = NoHost]
  <2> DEFINE r == [conn[c] EXCEPT !.at = "reading", !.origin = conn[c].host, !.host = NoHost]
  <2>0. conn[c].host \in HostSpellings /\ proxy.https /\ Issued(conn[c].host)
    BY <1>0 DEF ThreadOK, WithHost, Tunnelled
  <2>1. r \in Threads /\ r.at = "reading" /\ r.host = NoHost /\ r.origin = conn[c].host
    BY <1>0, <2>0 DEF Threads
  <2>2. conn' = [conn EXCEPT ![c] = r] /\ conn'[c] = r
    BY <1>2, <2>1 DEF ProxyOK
  <2> HIDE DEF r
  <2>3. \A h : Issued(h)' <=> Issued(h)
    BY <1>0 DEF Issued
  <2>4. ThreadOK(c)'
    BY <1>0, <2>0, <2>1, <2>2, <2>3 DEF ThreadOK, WithHost, Tunnelled
  <2> QED
    BY <1>0, <2>1, <2>2, <2>4, QuietThread
<1> QED
  BY <1>1, <1>2 DEF Handshake

LEMMA ForwardOK == ASSUME ProxyOK, NEW c \in Clients, Forward(c) PROVE ProxyOK'
<1> USE DEF Forward
<1>0. /\ conn[c].at = "forward" /\ conn[c] \in Threads /\ ThreadOK(c) /\ "record" \in Ats
      /\ conn[c].host \in HostSpellings
  BY DEF ProxyOK, Ats, ThreadOK, WithHost
<1>1. CASE ~InProxyScope(conn[c].host)
  BY <1>1, HangupOK
<1>2. CASE InProxyScope(conn[c].host)
  <2>1. /\ proxy' = [proxy EXCEPT !.contacted = @ \cup {conn[c].host}]
        /\ GoOn(c, "record") \/ Hangup(c)
    BY <1>2
  <2>2. /\ proxy' \in ProxyStates /\ proxy'.issued = proxy.issued
        /\ proxy'.https = proxy.https /\ proxy'.records = proxy.records
        /\ proxy'.delivered = proxy.delivered /\ proxy'.report = proxy.report
        /\ proxy'.contacted = proxy.contacted \cup {conn[c].host} /\ proxy'.lock = proxy.lock
    BY <1>0, <2>1 DEF ProxyStates, ProxyOK
  <2>3. CertificatesOK'
    BY <2>2 DEF CertificatesOK, ProxyOK
  <2>4. \A h \in proxy'.contacted : InProxyScope(h)
    BY <1>2, <2>2 DEF RecordsOK, ProxyOK
  <2>5. \A h : Issued(h)' <=> Issued(h)
    BY <2>2 DEF Issued
  <2>6. PICK r \in Threads : /\ conn' = [conn EXCEPT ![c] = r] /\ conn'[c] = r
                             /\ \/ r.at = "closed" /\ r.origin = NoHost
                                \/ /\ r.at = "record" /\ r.host = conn[c].host
                                   /\ r.origin = conn[c].origin
    <3>1. CASE GoOn(c, "record")
      BY <1>0, <3>1, ThreadMoves
    <3>2. CASE Hangup(c)
      BY <3>2, HungThread DEF Hangup, ProxyOK
    <3> QED
      BY <2>1, <3>1, <3>2
  <2>7. ThreadOK(c)'
    BY <1>0, <2>2, <2>5, <2>6 DEF ThreadOK, WithHost, Tunnelled
  <2> QED
    BY <1>0, <2>2, <2>3, <2>4, <2>6, <2>7, ThreadStep
<1> QED
  BY <1>1, <1>2

\* The exchange a thread records or delivers is its own, in nobody else's order.
LEMMA RecordExchangeOK == ASSUME ProxyOK, NEW c \in Clients, RecordExchange(c) PROVE ProxyOK'
<1> DEFINE e == <<c, conn[c].host>>
<1>0. /\ conn[c].at = "record" /\ ThreadOK(c) /\ AnsweredOK(c) /\ "respond" \in Ats
      /\ GoOn(c, "respond") /\ proxy' = [proxy EXCEPT !.records = Append(@, e)]
  BY DEF ProxyOK, Ats, RecordExchange
<1>1. conn[c].host \in HostSpellings /\ conn[c].host \in proxy.contacted
  BY <1>0 DEF ThreadOK, WithHost
<1>2. e \in Exchanges /\ e[1] = c /\ e[2] = conn[c].host
  BY <1>1 DEF Exchanges
<1>3. PICK r \in Threads : /\ conn' = [conn EXCEPT ![c] = r]
                           /\ r.at = "respond" /\ r.host = conn[c].host
                           /\ r.origin = conn[c].origin /\ conn'[c] = r
  BY <1>0, ThreadMoves
<1>4. conn' \in [Clients -> Threads] /\ \A d \in Clients \ {c} : conn'[d] = conn[d]
  BY <1>3 DEF ProxyOK
<1> HIDE DEF e
<1>5. /\ proxy' \in ProxyStates /\ proxy'.issued = proxy.issued
      /\ proxy'.https = proxy.https /\ proxy'.records = Append(proxy.records, e)
      /\ proxy'.delivered = proxy.delivered /\ proxy'.report = proxy.report
      /\ proxy'.contacted = proxy.contacted /\ proxy'.lock = proxy.lock
      /\ proxy.records \in Seq(Exchanges) /\ proxy.report \in Seq(Exchanges)
  <2>1. proxy.records \in Seq(Exchanges)
    BY DEF ProxyStates, ProxyOK
  <2> DEFINE new == Append(proxy.records, e)
  <2>2. new \in Seq(Exchanges) /\ proxy' = [proxy EXCEPT !.records = new]
    BY <1>0, <1>2, <2>1
  <2> HIDE DEF new
  <2>3. proxy' \in ProxyStates /\ proxy'.records = new
    BY <2>2 DEF ProxyStates, ProxyOK
  <2> QED
    BY <2>1, <2>2, <2>3 DEF ProxyStates, ProxyOK, new
<1>6. CertificatesOK'
  BY <1>5 DEF CertificatesOK, ProxyOK
<1>7. RecordsOK'
  <2>1. /\ Len(proxy'.records) = Len(proxy.records) + 1 /\ Len(proxy.records) \in Nat
        /\ Len(proxy.report) \in Nat
        /\ proxy'.records[Len(proxy.records) + 1] = e
        /\ \A i \in 1 .. Len(proxy.records) : proxy'.records[i] = proxy.records[i]
    BY <1>5, <1>2
  <2>2. \A h : InProxyScope(h)' <=> InProxyScope(h)
    BY DEF InProxyScope
  <2>3. RecordsOK
    BY DEF ProxyOK
  <2>4. \A i \in 1 .. Len(proxy'.records) : proxy'.records[i][2] \in proxy'.contacted
    <3> SUFFICES ASSUME NEW i \in 1 .. Len(proxy'.records)
                 PROVE  proxy'.records[i][2] \in proxy.contacted
      BY <1>5
    <3>1. CASE i = Len(proxy.records) + 1
      BY <1>1, <1>2, <2>1, <3>1
    <3>2. CASE i # Len(proxy.records) + 1
      <4>1. i \in 1 .. Len(proxy.records)
        BY <2>1, <3>2
      <4> QED
        BY <2>1, <2>3, <4>1 DEF RecordsOK
    <3> QED
      BY <3>1, <3>2
  <2>5. /\ Len(proxy'.report) <= Len(proxy'.records)
        /\ \A i \in 1 .. Len(proxy'.report) : proxy'.report[i] = proxy'.records[i]
    <3>1. \A i \in 1 .. Len(proxy.report) : i \in 1 .. Len(proxy.records)
      BY <2>1, <2>3 DEF RecordsOK
    <3> QED
      BY <1>5, <2>1, <2>3, <3>1 DEF RecordsOK
  <2> QED
    BY <1>5, <2>2, <2>3, <2>4, <2>5 DEF RecordsOK
<1>8. ASSUME NEW d \in Clients PROVE ThreadOK(d)'
  <2>1. ThreadOK(d)
    BY DEF ProxyOK
  <2>2. \A h : (Issued(h)' <=> Issued(h)) /\ (InProxyScope(h)' <=> InProxyScope(h))
    BY <1>5 DEF Issued, InProxyScope
  <2>3. CASE d = c
    BY <1>0, <1>1, <1>3, <1>5, <2>1, <2>2, <2>3 DEF ThreadOK, WithHost, Tunnelled
  <2>4. CASE d # c
    <3>1. conn'[d] = conn[d]
      BY <1>4, <2>4
    <3> QED
      BY <1>5, <2>1, <2>2, <3>1 DEF ThreadOK
  <2> QED
    BY <2>3, <2>4
<1>9. ASSUME NEW d \in Clients PROVE AnsweredOK(d)'
  <2>1. AnsweredOK(d)
    BY DEF ProxyOK
  <2>2. Mine(d, proxy'.records) = IF d = c THEN Append(Mine(d, proxy.records), e)
                                  ELSE Mine(d, proxy.records)
    <3>1. Mine(d, Append(proxy.records, e)) =
                IF e[1] = d THEN Append(Mine(d, proxy.records), e) ELSE Mine(d, proxy.records)
      <4>1. PICK s \in Seq(Exchanges) : s = proxy.records
        BY <1>5
      <4>2. Mine(d, Append(s, e)) = IF e[1] = d THEN Append(Mine(d, s), e) ELSE Mine(d, s)
        BY <1>2, MineAppend
      <4> QED
        BY <4>1, <4>2
    <3> QED
      BY <1>2, <1>5, <3>1
  <2>3. CASE d = c
    BY <1>0, <1>3, <1>5, <2>1, <2>2, <2>3 DEF AnsweredOK, e
  <2>4. CASE d # c
    <3>1. conn'[d] = conn[d]
      BY <1>4, <2>4
    <3> QED
      BY <1>5, <2>1, <2>2, <2>4, <3>1 DEF AnsweredOK
  <2> QED
    BY <2>3, <2>4
<1> QED
  BY <1>4, <1>5, <1>6, <1>7, <1>8, <1>9 DEF ProxyOK

LEMMA RespondOK == ASSUME ProxyOK, NEW c \in Clients, Respond(c) PROVE ProxyOK'
<1> DEFINE e == <<c, conn[c].host>>
<1>0. /\ conn[c].at = "respond" /\ ThreadOK(c) /\ AnsweredOK(c) /\ "reading" \in Ats
      /\ conn[c] \in Threads
  BY DEF ProxyOK, Ats, Respond
<1>1. CASE UNCHANGED proxy /\ Hangup(c)
  BY <1>1, HangupOK
<1>2. ASSUME proxy' = [proxy EXCEPT !.delivered = Append(@, e)],
             conn' = [conn EXCEPT ![c].at = "reading", ![c].host = NoHost]
      PROVE  ProxyOK'
  <2> DEFINE r == [conn[c] EXCEPT !.at = "reading", !.host = NoHost]
  <2>1. r \in Threads /\ r.at = "reading" /\ r.origin = conn[c].origin
    BY <1>0 DEF Threads
  <2>2. conn' \in [Clients -> Threads] /\ conn'[c] = r
        /\ \A d \in Clients \ {c} : conn'[d] = conn[d]
    BY <1>2, <2>1 DEF ProxyOK
  <2> HIDE DEF r
  <2>3. conn[c].host \in HostSpellings
    BY <1>0 DEF ThreadOK, WithHost
  <2>4. e \in Exchanges /\ e[1] = c
    BY <2>3 DEF Exchanges
  <2> HIDE DEF e
  <2>5. /\ proxy' \in ProxyStates /\ proxy'.issued = proxy.issued
        /\ proxy'.https = proxy.https /\ proxy'.delivered = Append(proxy.delivered, e)
        /\ proxy'.records = proxy.records /\ proxy'.report = proxy.report
        /\ proxy'.contacted = proxy.contacted /\ proxy'.lock = proxy.lock
        /\ proxy.delivered \in Seq(Exchanges)
    <3>1. proxy.delivered \in Seq(Exchanges)
      BY DEF ProxyStates, ProxyOK
    <3> DEFINE new == Append(proxy.delivered, e)
    <3>2. new \in Seq(Exchanges) /\ proxy' = [proxy EXCEPT !.delivered = new]
      BY <1>2, <2>4, <3>1
    <3> HIDE DEF new
    <3>3. proxy' \in ProxyStates /\ proxy'.delivered = new
      BY <3>2 DEF ProxyStates, ProxyOK
    <3> QED
      BY <3>1, <3>2, <3>3 DEF ProxyStates, ProxyOK, new
  <2>6. CertificatesOK'
    BY <2>5 DEF CertificatesOK, ProxyOK
  <2>7. RecordsOK'
    BY <2>5 DEF RecordsOK, ProxyOK, InProxyScope
  <2>8. ASSUME NEW d \in Clients PROVE ThreadOK(d)'
    <3>1. ThreadOK(d)
      BY DEF ProxyOK
    <3>2. \A h : (Issued(h)' <=> Issued(h)) /\ (InProxyScope(h)' <=> InProxyScope(h))
      BY <2>5 DEF Issued, InProxyScope
    <3>3. CASE d = c
      BY <1>0, <2>1, <2>2, <2>5, <3>1, <3>2, <3>3 DEF ThreadOK, WithHost, Tunnelled
    <3>4. CASE d # c
      <4>1. conn'[d] = conn[d]
        BY <2>2, <3>4
      <4> QED
        BY <2>5, <3>1, <3>2, <4>1 DEF ThreadOK
    <3> QED
      BY <3>3, <3>4
  <2>9. ASSUME NEW d \in Clients PROVE AnsweredOK(d)'
    <3>1. AnsweredOK(d)
      BY DEF ProxyOK
    <3>2. Mine(d, proxy'.delivered) = IF d = c THEN Append(Mine(d, proxy.delivered), e)
                                      ELSE Mine(d, proxy.delivered)
      <4>1. Mine(d, Append(proxy.delivered, e)) =
                IF e[1] = d THEN Append(Mine(d, proxy.delivered), e) ELSE Mine(d, proxy.delivered)
        <5>1. PICK s \in Seq(Exchanges) : s = proxy.delivered
          BY <2>5
        <5>2. Mine(d, Append(s, e)) = IF e[1] = d THEN Append(Mine(d, s), e) ELSE Mine(d, s)
          BY <2>4, MineAppend
        <5> QED
          BY <5>1, <5>2
      <4> QED
        BY <2>4, <2>5, <4>1
    <3>3. CASE d = c
      BY <1>0, <2>1, <2>2, <2>5, <3>1, <3>2, <3>3 DEF AnsweredOK, e
    <3>4. CASE d # c
      <4>1. conn'[d] = conn[d]
        BY <2>2, <3>4
      <4> QED
        BY <2>5, <3>1, <3>2, <3>4, <4>1 DEF AnsweredOK
    <3> QED
      BY <3>3, <3>4
  <2> QED
    BY <2>2, <2>5, <2>6, <2>7, <2>8, <2>9 DEF ProxyOK
<1> QED
  BY <1>1, <1>2 DEF Respond

\* The command on its way out: the report is what there is, the threads go on.
LEMMA ClosingOK ==
    ASSUME ProxyOK, conn' = conn, proxy' \in ProxyStates, proxy'.issued = proxy.issued,
           proxy'.https = proxy.https, proxy'.delivered = proxy.delivered,
           proxy'.records = proxy.records, proxy'.contacted = proxy.contacted,
           proxy'.lock = proxy.lock,
           proxy'.report = proxy.report \/ proxy'.report = proxy.records
    PROVE  ProxyOK'
<1> USE DEF ProxyOK
<1>1. CertificatesOK'
  BY DEF CertificatesOK
<1>2. RecordsOK'
  <2>1. Len(proxy.records) \in Nat
    BY DEF ProxyStates
  <2> QED
    BY <2>1 DEF RecordsOK, InProxyScope
<1>3. ASSUME NEW d \in Clients PROVE ThreadOK(d)' /\ AnsweredOK(d)'
  <2>1. ThreadOK(d) /\ AnsweredOK(d)
    OBVIOUS
  <2>2. \A h : (Issued(h)' <=> Issued(h)) /\ (InProxyScope(h)' <=> InProxyScope(h))
    BY DEF Issued, InProxyScope
  <2> QED
    BY <2>1, <2>2 DEF ThreadOK, AnsweredOK
<1> QED
  BY <1>1, <1>2, <1>3

LEMMA ProcessExitsOK == ASSUME ProxyOK, ProcessExits PROVE ProxyOK'
<1> DEFINE r == [Hung EXCEPT !.at = "closed"]
<1>1. /\ proxy' \in ProxyStates /\ proxy'.issued = proxy.issued
      /\ proxy'.https = proxy.https /\ proxy'.delivered = proxy.delivered
      /\ proxy'.records = proxy.records /\ proxy'.report = proxy.report
      /\ proxy'.contacted = proxy.contacted /\ proxy'.lock = proxy.lock
  BY DEF ProcessExits, ProxyStates, ProxyOK
<1>2. conn' = [c \in Clients |-> r] /\ r \in Threads /\ r.at = "closed" /\ r.origin = NoHost
  BY HungThread DEF ProcessExits
<1> HIDE DEF r
<1>3. CertificatesOK'
  BY <1>1 DEF CertificatesOK, ProxyOK
<1>4. RecordsOK'
  BY <1>1 DEF RecordsOK, InProxyScope, ProxyOK
<1>5. ASSUME NEW d \in Clients PROVE ThreadOK(d)' /\ AnsweredOK(d)'
  <2>1. ThreadOK(d) /\ AnsweredOK(d) /\ conn'[d] = r
    BY <1>2 DEF ProxyOK
  <2>2. ThreadOK(d)'
    BY <1>2, <2>1 DEF ThreadOK, WithHost, Tunnelled
  <2>3. conn[d].at = "respond" => <<d, conn[d].host>> \in Exchanges
    BY <2>1 DEF Exchanges, ThreadOK, WithHost
  <2>4. AnsweredOK(d)'
    BY <1>1, <1>2, <2>1, <2>3 DEF AnsweredOK
  <2> QED
    BY <2>2, <2>4
<1> QED
  BY <1>1, <1>2, <1>3, <1>4, <1>5 DEF ProxyOK

LEMMA ProxyStep == ASSUME ProxyOK, [ProxyNext]_proxyVars PROVE ProxyOK'
<1>1. ASSUME NEW c \in Clients,
             \/ AcceptClient(c) \/ ReadRequest(c) \/ Forward(c) \/ RecordExchange(c)
             \/ Respond(c) \/ TunnelAsked(c) \/ Certificate(c) \/ WriteCertificate(c)
             \/ LoadCertificate(c) \/ Handshake(c)
      PROVE  ProxyOK'
  BY <1>1, AcceptClientOK, ReadRequestOK, ForwardOK, RecordExchangeOK, RespondOK, TunnelAskedOK,
     CertificateOK, WriteCertificateOK, LoadCertificateOK, HandshakeOK
<1>2. CASE TakeReport
  BY <1>2, ClosingOK DEF TakeReport, ProxyStates, ProxyOK
<1>3. CASE Shutdown
  BY <1>3, ClosingOK DEF Shutdown, ProxyStates, ProxyOK
<1>4. CASE CloseAuthority
  BY <1>4, ClosingOK DEF CloseAuthority, ProxyStates, ProxyOK
<1>5. CASE UNCHANGED proxyVars
  BY <1>5, ClosingOK DEF proxyVars, ProxyOK
<1> QED
  BY <1>1, <1>2, <1>3, <1>4, <1>5, ProcessExitsOK DEF ProxyNext

LEMMA PrefixSame ==
    ASSUME NEW S, NEW s \in Seq(S), NEW t \in Seq(S), Len(s) <= Len(t),
           \A i \in 1 .. Len(s) : s[i] = t[i]
    PROVE  IsPrefix(s, t)
<1>1. Len(s) \in Nat /\ Len(t) \in Nat
  OBVIOUS
<1>2. SubSeq(s, 1, Len(s)) = [i \in 1 .. Len(s) |-> s[i]]
  BY <1>1
<1>3. SubSeq(t, 1, Len(s)) = [i \in 1 .. Len(s) |-> t[i]]
  BY <1>1
<1> QED
  BY <1>2, <1>3 DEF IsPrefix

\* However the proxy's threads interleave and wherever one hangs up, no certificate is
\* issued twice, past the limit or out of scope, no origin out of scope is contacted,
\* and the report is a prefix of what was recorded; for any connections, host names,
\* scope and limit (intercept_proxy.py: the certificate authority's lock, the scope
\* check before each forwarding, the records' lock).
THEOREM InterceptionSafe == ProxySpec => []InterceptionStaysInScope
<1>1. ProxyOK => InterceptionStaysInScope
  <2> SUFFICES ASSUME ProxyOK PROVE InterceptionStaysInScope
    OBVIOUS
  <2>1. proxy.records \in Seq(Exchanges) /\ proxy.report \in Seq(Exchanges)
        /\ proxy.delivered \in Seq(Exchanges)
    BY DEF ProxyOK, ProxyStates
  <2>2. \A e \in ToSet(proxy.records) : e[2] \in proxy.contacted
    BY <2>1 DEF ProxyOK, RecordsOK, ToSet
  <2>3. IsPrefix(proxy.report, proxy.records)
    BY <2>1, PrefixSame DEF ProxyOK, RecordsOK
  <2>4. ASSUME NEW c \in Clients
        PROVE  /\ IsPrefix(Mine(c, proxy.delivered), Mine(c, proxy.records))
               /\ Len(Mine(c, proxy.records)) <= Len(Mine(c, proxy.delivered)) + 1
    <3> DEFINE answered == Mine(c, proxy.delivered)
               recorded == Mine(c, proxy.records)
    <3>1. conn[c] \in Threads /\ ThreadOK(c) /\ AnsweredOK(c)
      BY DEF ProxyOK
    <3>2. answered \in Seq(Exchanges) /\ recorded \in Seq(Exchanges)
      <4>1. CASE Exchanges = {}
        BY <2>1, <4>1, MineEmpty
      <4>2. CASE Exchanges # {}
        BY <2>1, <4>2, MineAppend
      <4> QED
        BY <4>1, <4>2
    <3>3. recorded = answered \/ \E e \in Exchanges : recorded = Append(answered, e)
      <4>1. conn[c].at = "respond" => <<c, conn[c].host>> \in Exchanges
        BY <3>1 DEF Exchanges, ThreadOK, WithHost
      <4> QED
        BY <3>1, <4>1 DEF AnsweredOK
    <3> HIDE DEF answered, recorded
    <3>4. Len(answered) \in Nat
      BY <3>2
    <3>5. CASE recorded = answered
      <4>1. IsPrefix(answered, recorded)
        BY <3>2, <3>4, <3>5, PrefixSame
      <4> QED
        BY <3>4, <3>5, <4>1 DEF answered, recorded
    <3>6. ASSUME NEW e \in Exchanges, recorded = Append(answered, e)
          PROVE  IsPrefix(answered, recorded) /\ Len(recorded) <= Len(answered) + 1
      <4>1. Len(recorded) = Len(answered) + 1 /\ \A i \in 1 .. Len(answered) : answered[i] = recorded[i]
        BY <3>2, <3>4, <3>6
      <4>2. Len(answered) <= Len(recorded) /\ Len(recorded) <= Len(answered) + 1
        BY <3>4, <4>1
      <4> QED
        BY <3>2, <4>1, <4>2, PrefixSame
    <3> QED
      BY <3>3, <3>5, <3>6 DEF answered, recorded
  <2> QED
    BY <2>2, <2>3, <2>4 DEF InterceptionStaysInScope, ProxyOK, CertificatesOK, RecordsOK, ThreadOK
<1>2. ProxyInit => ProxyOK
  BY ProxyInitOK
<1>3. ProxyOK /\ [ProxyNext]_proxyVars => ProxyOK'
  BY ProxyStep
<1> QED
  BY <1>1, <1>2, <1>3, PTL DEF ProxySpec

-----------------------------------------------------------------------------
(***************************************************************************)
(* The API probes. A run reserves a request, sends it and records it:      *)
(* between two requests the three counts are one. After an answer that     *)
(* raises, what was sent is one ahead of the records, and there are no     *)
(* files.                                                                  *)
(***************************************************************************)
\* What the planner lets through, the policy asked before each request does.
PlannedRequests == {Request(op) : op \in {o \in Described : Safe(o)}}

ProbeRecords == [success : BOOLEAN, used : Nat]

Introspection == [method |-> "POST", url |-> "graphql", origin |-> ApiOrigin]

ApiRuns == [at : {"start", "probe", "validation", "ended", "raised"}, plan : Seq(PlannedRequests),
            used : Nat, records : Seq(ProbeRecords)]

\* The reservations of a run are its requests, its records, in their order.
ApiRunOK ==
    /\ apiRun.at \in {"start", "probe", "validation"} =>
        /\ apiRun.used = Len(apiRun.records) /\ apiRun.used = Len(apiSent)
        /\ \A i \in 1 .. Len(apiRun.records) : apiRun.records[i].used = i
    /\ apiRun.at = "start" => apiRun.used = 0
    /\ apiRun.at \in {"start", "probe", "raised"} => apiFiles = {}
    /\ apiRun.at = "raised" => Len(apiSent) = Len(apiRun.records) + 1
    /\ apiRun.at = "probe" => apiRun.used + Len(apiRun.plan) <= MaxRequests

ApiOK ==
    /\ apiRun \in ApiRuns
    /\ apiSent \in Seq(PlannedRequests \cup {Introspection})
    /\ apiFiles \in SUBSET [kind : {"inventory", "validation", "schema"}, attempted : Nat, successful : Nat]
    /\ ApiRunOK
    /\ \A file \in apiFiles : file.kind = "validation" =>
        /\ apiRun.at = "ended"
        /\ file.attempted = Len(apiSent)
        /\ file.successful = Successful(apiRun.records)

LEMMA SelectedIsPlanned ==
    ASSUME NEW selectors \in Selectors, Selectable(selectors)
    PROVE  Selected(selectors) \in Seq(PlannedRequests)
<1> DEFINE R == PlannedRequests
           N == Len(selectors)
           req(n) == Request(CHOOSE op \in Matches(selectors[n]) : TRUE)
           G == [n \in 1 .. N |-> [v \in Seq(R) |-> IF req(n) \in Range(v) THEN v ELSE Append(v, req(n))]]
           P(f) == f = [n \in 0 .. N |->
                          IF n = 0 THEN <<>>
                          ELSE IF req(n) \in Range(f[n - 1]) THEN f[n - 1] ELSE Append(f[n - 1], req(n))]
           plan == CHOOSE f : P(f)
<1>1. Selected(selectors) = plan[N]
  BY DEF Selected
<1>2. N \in Nat /\ DOMAIN selectors = 1 .. N
  BY ApiAssumption
<1>3. ASSUME NEW n \in 1 .. N PROVE req(n) \in R
  <2>1. Cardinality(Matches(selectors[n])) = 1 /\ \A op \in Matches(selectors[n]) : Safe(op)
    BY <1>2 DEF Selectable
  <2>2. Matches(selectors[n]) # {}
    BY <2>1, FS_EmptySet
  <2>3. PICK op \in Matches(selectors[n]) : req(n) = Request(op)
    BY <2>2
  <2> QED
    BY <2>1, <2>3 DEF PlannedRequests, Matches
<1> HIDE DEF R, N, req
<1>4. ASSUME NEW n \in 1 .. N, NEW v \in Seq(R)
      PROVE  /\ G[n][v] = IF req(n) \in Range(v) THEN v ELSE Append(v, req(n))
             /\ G[n][v] \in Seq(R)
  BY <1>3
<1>5. G \in [1 .. N -> [Seq(R) -> Seq(R)]] /\ <<>> \in Seq(R)
  BY <1>3
<1>6. \E f : P(f)
  <2>1. PICK f \in [0 .. N -> Seq(R)] : Follows(f, N, <<>>, G)
    <3> HIDE DEF G
    <3> QED BY <1>2, <1>5, Recursion
  <2>2. ASSUME NEW n \in 0 .. N
        PROVE  f[n] = IF n = 0 THEN <<>>
                      ELSE IF req(n) \in Range(f[n - 1]) THEN f[n - 1] ELSE Append(f[n - 1], req(n))
    <3> HIDE DEF G
    <3>1. CASE n = 0
      BY <2>1, <3>1 DEF Follows
    <3>2. CASE n # 0
      <4>1. n \in 1 .. N /\ n - 1 \in 0 .. N
        BY <1>2, <3>2
      <4>2. f[n] = G[n][f[n - 1]] /\ f[n - 1] \in Seq(R)
        BY <2>1, <4>1 DEF Follows
      <4> QED
        BY <1>4, <3>2, <4>1, <4>2
    <3> QED
      BY <3>1, <3>2
  <2> QED
    BY <2>1, <2>2
<1>7. P(plan)
  <2> HIDE DEF P
  <2> QED BY <1>6
<1> HIDE DEF plan
<1>8. DEFINE T == {n \in Nat : n <= N => plan[n] \in Seq(R)}
<1>9. 0 \in T
  BY <1>2, <1>5, <1>7
<1>10. ASSUME NEW n \in Nat, n \in T PROVE n + 1 \in T
  <2> SUFFICES ASSUME n + 1 <= N PROVE plan[n + 1] \in Seq(R)
    OBVIOUS
  <2>1. plan[n] \in Seq(R) /\ n + 1 \in 0 .. N /\ n + 1 # 0 /\ (n + 1) - 1 = n /\ n + 1 \in 1 .. N
    BY <1>2, <1>10
  <2>2. plan[n + 1] = IF req(n + 1) \in Range(plan[n]) THEN plan[n] ELSE Append(plan[n], req(n + 1))
    BY <1>7, <2>1
  <2>3. req(n + 1) \in R
    BY <1>3, <2>1
  <2> QED
    BY <2>1, <2>2, <2>3
<1>11. N \in T
  <2> HIDE DEF T
  <2> QED BY <1>2, <1>9, <1>10, Induction
<1> QED
  BY <1>1, <1>2, <1>11 DEF R

LEMMA ApiInitOK == ASSUME ApiInit PROVE ApiOK
  BY DEF ApiInit, ApiOK, ApiRuns, ApiRunOK

\* A command that ends keeps what it sent; its files are what they were, or one more.
LEMMA ApiEndOK ==
    ASSUME ApiOK, apiRun' = ApiEnds,
           apiSent' \in Seq(PlannedRequests \cup {Introspection}),
           apiFiles' \in SUBSET [kind : {"inventory", "validation", "schema"}, attempted : Nat,
                                 successful : Nat],
           \A file \in apiFiles' : file.kind = "validation" =>
                file.attempted = Len(apiSent') /\ file.successful = Successful(apiRun.records)
    PROVE  ApiOK'
<1>1. apiRun' \in ApiRuns /\ apiRun'.at = "ended" /\ apiRun'.records = apiRun.records
  <2>1. <<>> \in Seq(PlannedRequests)
    OBVIOUS
  <2>2. apiRun' = [apiRun EXCEPT !.at = "ended", !.plan = <<>>] /\ apiRun \in ApiRuns
    BY DEF ApiEnds, ApiOK
  <2> QED
    BY <2>1, <2>2 DEF ApiRuns
<1>2. Successful(apiRun'.records) = Successful(apiRun.records)
  BY <1>1
<1> QED
  BY <1>1, <1>2 DEF ApiOK, ApiRunOK

LEMMA PlanProbeOK ==
    ASSUME ApiOK, NEW selectors \in Selectors, PlanProbe(selectors)
    PROVE  ApiOK'
<1> USE DEF PlanProbe
<1>1. CASE ~(Selectable(selectors) /\ Len(Selected(selectors)) <= MaxRequests)
  BY <1>1, ApiEndOK DEF ApiOK
<1>2. CASE Selectable(selectors) /\ Len(Selected(selectors)) <= MaxRequests
  <2> DEFINE plan == Selected(selectors)
  <2>1. plan \in Seq(PlannedRequests) /\ Len(plan) \in Nat /\ Len(plan) <= MaxRequests
    BY <1>2, SelectedIsPlanned
  <2>2. apiRun' = [apiRun EXCEPT !.at = "probe", !.plan = plan] /\ apiRun.at = "start"
    BY <1>2
  <2> HIDE DEF plan
  <2>3. apiRun' \in ApiRuns /\ apiRun'.at = "probe" /\ apiRun'.plan = plan
        /\ apiRun'.used = apiRun.used /\ apiRun'.records = apiRun.records
    BY <2>1, <2>2 DEF ApiOK, ApiRuns
  <2>4. apiRun.used = 0
    BY <2>2 DEF ApiOK, ApiRunOK
  <2> QED
    BY <2>1, <2>2, <2>3, <2>4, ApiAssumption DEF ApiOK, ApiRunOK
<1> QED
  BY <1>1, <1>2

\* A request whose answer raises, after which the command is over.
LEMMA RaisedRequestOK ==
    ASSUME ApiOK, apiRun.at = "probe", NEW request \in PlannedRequests,
           apiSent' = Append(apiSent, request), apiRun' = [ApiEnds EXCEPT !.at = "raised"],
           apiFiles' = apiFiles
    PROVE  ApiOK'
<1>1. /\ apiRun' \in ApiRuns /\ apiRun'.at = "raised" /\ apiRun'.records = apiRun.records
      /\ apiRun.records \in Seq(ProbeRecords)
  <2>1. <<>> \in Seq(PlannedRequests)
    OBVIOUS
  <2>2. apiRun' = [apiRun EXCEPT !.at = "raised", !.plan = <<>>] /\ apiRun \in ApiRuns
    BY DEF ApiEnds, ApiOK, ApiRuns
  <2> QED
    BY <2>1, <2>2 DEF ApiRuns
<1>2. /\ apiFiles' = {} /\ Len(apiSent) = Len(apiRun.records)
      /\ apiSent \in Seq(PlannedRequests \cup {Introspection})
  BY DEF ApiOK, ApiRunOK
<1>3. /\ apiSent' \in Seq(PlannedRequests \cup {Introspection})
      /\ Len(apiSent') = Len(apiSent) + 1
  BY <1>2
<1> QED
  BY <1>1, <1>2, <1>3 DEF ApiOK, ApiRunOK

LEMMA SendRequestOK ==
    ASSUME ApiOK, NEW outcome \in Outcomes, SendRequest(outcome)
    PROVE  ApiOK'
<1> DEFINE request == Head(apiRun.plan)
           success == outcome = "success"
           rec == [success |-> success, used |-> apiRun.used + 1]
<1>1. /\ apiRun \in ApiRuns /\ apiRun.at = "probe" /\ apiRun.plan # <<>> /\ ApiRunOK
      /\ apiFiles' = apiFiles /\ apiSent \in Seq(PlannedRequests \cup {Introspection})
  BY DEF ApiOK, SendRequest
<1>2. /\ apiRun.plan \in Seq(PlannedRequests) /\ apiRun.used \in Nat
      /\ apiRun.records \in Seq(ProbeRecords)
  BY <1>1 DEF ApiRuns
<1>3. /\ request \in PlannedRequests /\ Tail(apiRun.plan) \in Seq(PlannedRequests)
      /\ Len(apiRun.plan) \in Nat /\ Len(apiRun.plan) # 0
      /\ Len(Tail(apiRun.plan)) = Len(apiRun.plan) - 1
  BY <1>1, <1>2
<1>4. apiRun.used < MaxRequests
  BY <1>1, <1>2, <1>3, ApiAssumption DEF ApiRunOK
<1>5. RequestAllowed(request)
  <2>1. PICK op \in Described : Safe(op) /\ request = Request(op)
    BY <1>3 DEF PlannedRequests
  <2> QED
    BY <1>4, <2>1 DEF RequestAllowed, Safe, Request
<1> SUFFICES ASSUME outcome # "raised" PROVE ApiOK'
  BY <1>1, <1>3, <1>5, RaisedRequestOK DEF SendRequest
<1>6. /\ apiSent' = Append(apiSent, request)
      /\ apiRun' = [apiRun EXCEPT !.plan = Tail(apiRun.plan), !.used = apiRun.used + 1,
                                  !.records = Append(apiRun.records, rec)]
  BY <1>5 DEF SendRequest, Recorded
<1>7. rec \in ProbeRecords /\ rec.used = apiRun.used + 1
  BY <1>2 DEF ProbeRecords
<1> HIDE DEF request, rec
<1> DEFINE new == Append(apiRun.records, rec)
<1>8. /\ new \in Seq(ProbeRecords) /\ Len(new) = Len(apiRun.records) + 1
      /\ Len(apiRun.records) \in Nat /\ new[Len(apiRun.records) + 1] = rec
      /\ \A i \in 1 .. Len(apiRun.records) : new[i] = apiRun.records[i]
  BY <1>2, <1>7
<1> HIDE DEF new
<1>9. /\ apiRun' \in ApiRuns /\ apiRun'.at = "probe" /\ apiRun'.plan = Tail(apiRun.plan)
      /\ apiRun'.used = apiRun.used + 1 /\ apiRun'.records = new
  <2>1. apiRun' = [apiRun EXCEPT !.plan = Tail(apiRun.plan), !.used = apiRun.used + 1,
                                  !.records = new]
    BY <1>6 DEF new
  <2> DEFINE rest == Tail(apiRun.plan)
             used == apiRun.used + 1
  <2>2. rest \in Seq(PlannedRequests) /\ used \in Nat
        /\ apiRun' = [apiRun EXCEPT !.plan = rest, !.used = used, !.records = new]
    BY <1>2, <1>3, <2>1
  <2> HIDE DEF rest, used
  <2>3. /\ apiRun' \in ApiRuns /\ apiRun'.at = "probe" /\ apiRun'.plan = rest
        /\ apiRun'.used = used /\ apiRun'.records = new
    BY <1>1, <1>8, <2>2 DEF ApiRuns
  <2> QED
    BY <2>3 DEF rest, used
<1>10. /\ apiSent' \in Seq(PlannedRequests \cup {Introspection})
       /\ Len(apiSent') = Len(apiSent) + 1
  BY <1>1, <1>3, <1>6
<1>11. ApiRunOK'
  <2>1. /\ apiRun.used = Len(apiRun.records) /\ apiRun.used = Len(apiSent)
        /\ \A i \in 1 .. Len(apiRun.records) : apiRun.records[i].used = i
        /\ apiRun.used + Len(apiRun.plan) <= MaxRequests
    BY <1>1 DEF ApiRunOK
  <2>2. apiRun'.used = Len(new) /\ apiRun'.used = Len(apiSent')
    BY <1>8, <1>9, <1>10, <2>1
  <2>3. \A i \in 1 .. Len(new) : new[i].used = i
    <3> SUFFICES ASSUME NEW i \in 1 .. Len(new) PROVE new[i].used = i
      OBVIOUS
    <3>1. CASE i = Len(apiRun.records) + 1
      BY <1>7, <1>8, <2>1, <3>1
    <3>2. CASE i # Len(apiRun.records) + 1
      BY <1>8, <2>1, <3>2
    <3> QED
      BY <3>1, <3>2
  <2>4. apiRun'.used + Len(apiRun'.plan) <= MaxRequests
    <3>1. MaxRequests \in Nat
      BY ApiAssumption
    <3>2. Len(apiRun'.plan) = Len(apiRun.plan) - 1 /\ apiRun'.used = apiRun.used + 1
      BY <1>3, <1>9
    <3>3. Len(apiRun.plan) \in Nat /\ apiRun.used \in Nat
      BY <1>2, <1>3
    <3>4. \A u, p, M \in Nat : u + p <= M => (u + 1) + (p - 1) <= M
      OBVIOUS
    <3>5. (apiRun.used + 1) + (Len(apiRun.plan) - 1) <= MaxRequests
      BY <2>1, <3>1, <3>3, <3>4
    <3> QED
      BY <3>2, <3>5
  <2>5. apiFiles' = {}
    BY <1>1 DEF ApiRunOK
  <2> QED
    BY <1>9, <2>2, <2>3, <2>4, <2>5 DEF ApiRunOK
<1>12. apiFiles' = {}
  BY <1>1 DEF ApiRunOK
<1> QED
  BY <1>9, <1>10, <1>11, <1>12 DEF ApiOK

\* A summary of records charged 1, 2, ... counts them.
LEMMA SummaryCounts ==
    ASSUME NEW s \in Seq(ProbeRecords), \A i \in 1 .. Len(s) : s[i].used = i
    PROVE  /\ ProbesAttempted(s) = Len(s)
           /\ Successful(s) \in Nat
           /\ Successful(s) <= Len(s)
<1> DEFINE N == Len(s)
           U == {s[i].used : i \in DOMAIN s} \cup {0}
           W == {i \in DOMAIN s : s[i].success}
<1>1. N \in Nat /\ DOMAIN s = 1 .. N
  OBVIOUS
<1>2. U = 0 .. N
  <2>1. \A u \in U : u \in 0 .. N
    BY <1>1
  <2>2. \A u \in 0 .. N : u \in U
    BY <1>1
  <2> HIDE DEF U
  <2> QED
    BY <2>1, <2>2
<1> HIDE DEF U
<1>3. Max(U) = N
  <2>1. N \in U /\ \A y \in U : N >= y
    BY <1>1, <1>2
  <2>2. Max(U) \in U /\ \A y \in U : Max(U) >= y
    BY <2>1 DEF Max
  <2>3. Max(U) >= N /\ N >= Max(U) /\ Max(U) \in Nat
    BY <1>1, <1>2, <2>1, <2>2
  <2> QED
    BY <1>1, <2>3
<1>4. W \subseteq 1 .. N
  BY <1>1
<1> HIDE DEF W
<1>5. IsFiniteSet(1 .. N) /\ Cardinality(1 .. N) = N
  <2>1. 1 \in Int /\ N \in Int
    BY <1>1
  <2>2. IsFiniteSet(1 .. N) /\ Cardinality(1 .. N) = IF 1 > N THEN 0 ELSE N - 1 + 1
    BY <2>1, FS_Interval
  <2> QED
    BY <1>1, <2>2
<1>6. IsFiniteSet(W) /\ Cardinality(W) <= N
  <2> DEFINE S == 1 .. N
  <2>1. IsFiniteSet(S) /\ W \subseteq S /\ Cardinality(S) = N
    BY <1>4, <1>5
  <2> HIDE DEF S
  <2>2. IsFiniteSet(W) /\ Cardinality(W) <= Cardinality(S)
    BY <2>1, FS_Subset
  <2> QED
    BY <2>1, <2>2
<1>7. Cardinality(W) \in Nat
  BY <1>6, FS_CardinalityType
<1> QED
  BY <1>3, <1>6, <1>7 DEF ProbesAttempted, Successful, U, W

LEMMA SaveValidationOK == ASSUME ApiOK, SaveValidation PROVE ApiOK'
<1> DEFINE file == [kind |-> "validation", attempted |-> ProbesAttempted(apiRun.records),
                    successful |-> Successful(apiRun.records)]
<1>1. /\ apiRun \in ApiRuns /\ apiRun.at = "validation" /\ apiRun' = ApiEnds
      /\ apiSent' = apiSent /\ apiFiles' \in {apiFiles, apiFiles \cup {file}}
  BY DEF SaveValidation, ApiOK
<1>2. /\ apiRun.records \in Seq(ProbeRecords) /\ Len(apiRun.records) = Len(apiSent)
      /\ Len(apiSent) \in Nat
      /\ \A i \in 1 .. Len(apiRun.records) : apiRun.records[i].used = i
  BY <1>1 DEF ApiRuns, ApiOK, ApiRunOK
<1>3. /\ ProbesAttempted(apiRun.records) = Len(apiSent) /\ Successful(apiRun.records) \in Nat
      /\ Successful(apiRun.records) <= Len(apiSent)
  BY <1>2, SummaryCounts
<1>4. /\ file \in [kind : {"inventory", "validation", "schema"}, attempted : Nat, successful : Nat]
      /\ file.attempted = Len(apiSent) /\ file.successful = Successful(apiRun.records)
  BY <1>2, <1>3
<1> HIDE DEF file
<1>5. \A f \in apiFiles : f.kind # "validation"
  BY <1>1 DEF ApiOK
<1> QED
  BY <1>1, <1>4, <1>5, ApiEndOK DEF ApiOK

LEMMA SaveInventoryOK == ASSUME ApiOK, SaveInventory PROVE ApiOK'
<1> DEFINE file == [kind |-> "inventory", attempted |-> 0, successful |-> 0]
<1>1. /\ apiRun.at = "probe" /\ apiSent' = apiSent
      /\ \A f \in apiFiles : f.kind # "validation"
  BY DEF SaveInventory, ApiOK
<1>2. CASE apiRun' = ApiEnds /\ UNCHANGED apiFiles
  BY <1>1, <1>2, ApiEndOK DEF ApiOK
<1>3. CASE apiFiles' = apiFiles \cup {file} /\ apiRun' = [apiRun EXCEPT !.at = "validation"]
  <2>1. /\ apiRun' \in ApiRuns /\ apiRun'.at = "validation" /\ apiRun'.used = apiRun.used
        /\ apiRun'.records = apiRun.records /\ apiRun'.plan = apiRun.plan
    BY <1>3 DEF ApiOK, ApiRuns
  <2>2. /\ file \in [kind : {"inventory", "validation", "schema"}, attempted : Nat, successful : Nat]
        /\ file.kind # "validation"
    OBVIOUS
  <2> HIDE DEF file
  <2> QED
    BY <1>1, <1>3, <2>1, <2>2 DEF ApiOK, ApiRunOK
<1> QED
  BY <1>2, <1>3 DEF SaveInventory

LEMMA ApiStep == ASSUME ApiOK, [ApiNext]_apiVars PROVE ApiOK'
<1>1. CASE InspectApi
  BY <1>1, ApiEndOK DEF InspectApi, ApiOK
<1>2. CASE IntrospectGraphQL
  <2>1. apiSent' = <<Introspection>>
    BY <1>2 DEF IntrospectGraphQL, Introspection
  <2>2. apiSent' \in Seq(PlannedRequests \cup {Introspection})
    BY <2>1
  <2>3. /\ apiRun.at = "start" /\ apiRun' = ApiEnds
        /\ apiFiles' \in {apiFiles, {[kind |-> "schema", attempted |-> 1, successful |-> 1]}}
    BY <1>2 DEF IntrospectGraphQL
  <2> QED
    BY <2>2, <2>3, ApiEndOK DEF ApiOK
<1>3. CASE UNCHANGED apiVars
  BY <1>3 DEF apiVars, ApiOK, ApiRunOK
<1> QED
  BY <1>1, <1>2, <1>3, PlanProbeOK, SendRequestOK, SaveInventoryOK, SaveValidationOK DEF ApiNext

\* The request policy refuses nothing the planner let through; every request sent is
\* recorded, and counted by the saved validation, except the one whose answer raised
\* and ended the command without a report; for any description, selections, origin and
\* request ceiling (api_planner.py, api_policy.py, api_execution.py).
THEOREM ProbesCarriedOut == ApiSpec => []ProbesAreCarriedOut
<1>1. ApiOK => ProbesAreCarriedOut
  BY DEF ApiOK, ApiRuns, ApiRunOK, ProbesAreCarriedOut
<1>2. ApiInit => ApiOK
  BY ApiInitOK
<1>3. ApiOK /\ [ApiNext]_apiVars => ApiOK'
  BY ApiStep
<1> QED
  BY <1>1, <1>2, <1>3, PTL DEF ApiSpec

-----------------------------------------------------------------------------
(***************************************************************************)
(* The web assessment. The crawler counts what it has queued, each page    *)
(* once; the probes, the credentialed requests, the browser and the        *)
(* workflow each count what they sent.                                     *)
(***************************************************************************)
\* A non-empty set of naturals has a least element.
LEMMA LeastOf == ASSUME NEW S, S \subseteq Nat, S # {} PROVE \E x \in S : \A y \in S : x <= y
<1>1. PICK x \in S : \A y \in S : ~(<<y, x>> \in OpToRel(<, Nat))
  BY NatLessThanWellFounded, WFMin
<1>2. \A y \in S : ~(y < x)
  BY <1>1 DEF OpToRel
<1> QED
  BY <1>2

Increasing(s, n) == \A i, j \in 1 .. n : i < j => s[i] < s[j]

\* Any finite set of numbers can be put in order.
LEMMA OrderExists ==
    ASSUME NEW S, S \subseteq Nat, IsFiniteSet(S)
    PROVE  \E s \in [1 .. Cardinality(S) -> S] : Increasing(s, Cardinality(S))
<1> DEFINE T == {n \in Nat : \A U \in SUBSET Nat : IsFiniteSet(U) /\ Cardinality(U) = n =>
                                \E s \in [1 .. n -> U] : Increasing(s, n)}
<1>1. 0 \in T
  <2> SUFFICES ASSUME NEW U \in SUBSET Nat, IsFiniteSet(U), Cardinality(U) = 0
               PROVE  \E s \in [1 .. 0 -> U] : Increasing(s, 0)
    OBVIOUS
  <2> DEFINE s == [i \in 1 .. 0 |-> 0]
  <2>1. s \in [1 .. 0 -> U] /\ Increasing(s, 0)
    BY DEF Increasing
  <2> QED
    BY <2>1
<1>2. ASSUME NEW n \in Nat, n \in T PROVE n + 1 \in T
  <2> SUFFICES ASSUME NEW U \in SUBSET Nat, IsFiniteSet(U), Cardinality(U) = n + 1
               PROVE  \E s \in [1 .. (n + 1) -> U] : Increasing(s, n + 1)
    OBVIOUS
  <2>1. U # {}
    BY FS_EmptySet
  <2>2. PICK x \in U : \A y \in U : x <= y
    BY <2>1, LeastOf
  <2>3. IsFiniteSet(U \ {x}) /\ Cardinality(U \ {x}) = n /\ U \ {x} \in SUBSET Nat
    BY <2>2, FS_RemoveElement
  <2>4. PICK t \in [1 .. n -> U \ {x}] : Increasing(t, n)
    BY <1>2, <2>3
  <2> DEFINE s == [i \in 1 .. (n + 1) |-> IF i = 1 THEN x ELSE t[i - 1]]
  <2>5. ASSUME NEW i \in 1 .. (n + 1), i # 1
        PROVE  i - 1 \in 1 .. n /\ s[i] = t[i - 1] /\ s[i] \in U /\ x < s[i]
    <3>1. i - 1 \in 1 .. n /\ s[i] = t[i - 1]
      BY <2>5
    <3>2. t[i - 1] \in U \ {x}
      BY <2>4, <3>1
    <3>3. x \in Nat /\ t[i - 1] \in Nat /\ x <= t[i - 1] /\ x # t[i - 1]
      BY <2>2, <3>2
    <3> QED
      BY <3>1, <3>2, <3>3
  <2>6. s[1] = x /\ s \in [1 .. (n + 1) -> U]
    BY <2>2, <2>5
  <2> HIDE DEF s
  <2>7. ASSUME NEW i \in 1 .. (n + 1), NEW j \in 1 .. (n + 1), i < j PROVE s[i] < s[j]
    <3>1. j # 1
      BY <2>7
    <3>2. CASE i = 1
      BY <2>5, <2>6, <3>1, <3>2
    <3>3. CASE i # 1
      <4>1. i - 1 \in 1 .. n /\ j - 1 \in 1 .. n /\ i - 1 < j - 1
        BY <2>5, <2>7, <3>1, <3>3
      <4>2. t[i - 1] < t[j - 1]
        BY <2>4, <4>1 DEF Increasing
      <4> QED
        BY <2>5, <3>1, <3>3, <4>2
    <3> QED
      BY <3>2, <3>3
  <2> QED
    BY <2>6, <2>7 DEF Increasing
<1>3. Nat \subseteq T
  <2> HIDE DEF T
  <2> QED BY <1>1, <1>2, Induction
<1>4. Cardinality(S) \in Nat
  BY FS_CardinalityType
<1> QED
  BY <1>3, <1>4

\* InOrder lists a finite set of numbers, each once.
LEMMA InOrderLists ==
    ASSUME NEW S, S \subseteq Nat, IsFiniteSet(S)
    PROVE  /\ InOrder(S) \in Seq(S)
           /\ Len(InOrder(S)) = Cardinality(S)
           /\ \A i, j \in 1 .. Cardinality(S) : InOrder(S)[i] = InOrder(S)[j] => i = j
           /\ \A x \in S : \E i \in 1 .. Cardinality(S) : InOrder(S)[i] = x
<1> DEFINE n == Cardinality(S)
           s == InOrder(S)
<1>1. n \in Nat
  BY FS_CardinalityType
<1>2. s \in [1 .. n -> S] /\ \A i, j \in 1 .. n : i < j => s[i] < s[j]
  BY OrderExists DEF InOrder, Increasing
<1> HIDE DEF s, n
<1>3. \A i, j \in 1 .. n : s[i] = s[j] => i = j
  <2> SUFFICES ASSUME NEW i \in 1 .. n, NEW j \in 1 .. n, s[i] = s[j], i # j PROVE FALSE
    OBVIOUS
  <2>1. s[i] \in Nat /\ s[j] \in Nat
    BY <1>2
  <2>2. i < j \/ j < i
    BY <1>1
  <2> QED
    BY <1>2, <2>1, <2>2
<1>4. IsFiniteSet(1 .. n) /\ Cardinality(1 .. n) = n
  <2>1. 1 \in Int /\ n \in Int
    BY <1>1
  <2>2. IsFiniteSet(1 .. n) /\ Cardinality(1 .. n) = IF 1 > n THEN 0 ELSE n - 1 + 1
    BY <2>1, FS_Interval
  <2> QED
    BY <1>1, <2>2
<1>5. s \in Injection(1 .. n, S)
  BY <1>2, <1>3 DEF Injection, IsInjective
<1>6. s \in Surjection(1 .. n, S)
  <2>1. Cardinality(1 .. n) = Cardinality(S)
    BY <1>4 DEF n
  <2> QED
    BY <1>5, <2>1, FS_Injection
<1>7. \A x \in S : \E i \in 1 .. n : s[i] = x
  BY <1>6 DEF Surjection
<1>8. s \in Seq(S) /\ Len(s) = n
  BY <1>1, <1>2
<1> QED
  BY <1>3, <1>7, <1>8 DEF s, n

WebPages == [url : Urls, ok : BOOLEAN, links : SUBSET Urls]

\* The crawler's queue: a page was queued once, and the set counts pages and queue.
CrawlOK ==
    /\ pages \in Seq(WebPages) /\ pending \in Seq(Urls)
    /\ \A i, j \in 1 .. Len(pages) : pages[i].url = pages[j].url => i = j
    /\ \A i, j \in 1 .. Len(pending) : pending[i] = pending[j] => i = j
    /\ \A i \in 1 .. Len(pages), j \in 1 .. Len(pending) : pages[i].url # pending[j]
    /\ \A x : x \in queued <=> \/ \E i \in 1 .. Len(pages) : x = pages[i].url
                              \/ \E j \in 1 .. Len(pending) : x = pending[j]
    /\ IsFiniteSet(queued)
    /\ Cardinality(queued) = Len(pages) + Len(pending)
    /\ Cardinality(queued) <= MaxPages
    /\ \/ Cardinality(queued) = MaxPages
       \/ \A i \in 1 .. Len(pages) : pages[i].links \subseteq queued

LEMMA Fetched ==
    ASSUME NEW u \in Urls, NEW ok \in BOOLEAN
    PROVE  /\ FetchedPage(u, ok) \in WebPages
           /\ FetchedPage(u, ok).url = u
           /\ IsFiniteSet(FetchedPage(u, ok).links)
<1> USE DEF FetchedPage, WebPages
<1>1. CASE ok /\ SiteRedirect[u] # 0
  <2>1. SiteRedirect[u] \in Urls
    BY <1>1, WebAssumption
  <2>2. SiteLinks[SiteRedirect[u]] \ {0} \subseteq Urls
    BY <2>1, WebAssumption
  <2>3. IsFiniteSet(SiteLinks[SiteRedirect[u]] \ {0})
    <3>1. IsFiniteSet(SiteLinks[SiteRedirect[u]])
      BY <2>1, WebAssumption
    <3> QED
      BY <3>1, FS_RemoveElement
  <2> QED
    BY <1>1, <2>2, <2>3
<1>2. CASE ~(ok /\ SiteRedirect[u] # 0)
  BY <1>2, FS_EmptySet
<1> QED
  BY <1>1, <1>2

LEMMA MinOf == ASSUME NEW n \in Nat, NEW k \in Nat
               PROVE  Min({n, k}) = IF n <= k THEN n ELSE k
<1> DEFINE m == IF n <= k THEN n ELSE k
<1>1. m \in {n, k} /\ \A y \in {n, k} : m <= y
  OBVIOUS
<1>2. \A x \in {n, k} : (\A y \in {n, k} : x <= y) => x = m
  OBVIOUS
<1>3. Min({n, k}) \in {n, k} /\ \A y \in {n, k} : Min({n, k}) <= y
  BY <1>1 DEF Min
<1> QED
  BY <1>2, <1>3

\* The new links: different ones, none queued before, as many as there is room
\* for, and all of them when there is.
LEMMA NewLinksOK ==
    ASSUME CrawlOK, NEW page \in WebPages, IsFiniteSet(page.links)
    PROVE  LET new == NewLinks(page)
           IN  /\ new \in Seq(Urls)
               /\ \A i \in 1 .. Len(new) : new[i] \in page.links /\ new[i] \notin queued
               /\ \A i, j \in 1 .. Len(new) : new[i] = new[j] => i = j
               /\ Cardinality(queued) + Len(new) <= MaxPages
               /\ \/ Cardinality(queued) + Len(new) = MaxPages
                  \/ \A x \in page.links \ queued : \E i \in 1 .. Len(new) : x = new[i]
<1> DEFINE S == page.links \ queued
           fresh == InOrder(S)
           room == MaxPages - Cardinality(queued)
           k == Min({Len(fresh), room})
           new == NewLinks(page)
<1>1. S \subseteq Urls /\ S \subseteq Nat /\ IsFiniteSet(S)
  BY WebAssumption, FS_Subset DEF WebPages
<1>2. /\ fresh \in Seq(S) /\ Len(fresh) = Cardinality(S)
      /\ \A i, j \in 1 .. Cardinality(S) : fresh[i] = fresh[j] => i = j
      /\ \A x \in S : \E i \in 1 .. Cardinality(S) : fresh[i] = x
  <2> HIDE DEF S
  <2> QED
    BY <1>1, InOrderLists
<1>3. room \in Nat /\ MaxPages \in Nat /\ Cardinality(queued) \in Nat
  <2>1. MaxPages \in Nat
    BY WebAssumption
  <2>2. Cardinality(queued) \in Nat /\ Cardinality(queued) <= MaxPages
    BY FS_CardinalityType DEF CrawlOK
  <2> QED
    BY <2>1, <2>2
<1>4. new = SubSeq(fresh, 1, k)
  BY DEF NewLinks
<1> HIDE DEF S, fresh, new
<1>5. Len(fresh) \in Nat /\ k = IF Len(fresh) <= room THEN Len(fresh) ELSE room
  BY <1>2, <1>3, MinOf
<1> HIDE DEF k
<1>6. k \in Nat /\ k <= Len(fresh) /\ k <= room /\ (k = room \/ k = Len(fresh))
  <2> HIDE DEF room
  <2> QED BY <1>3, <1>5
<1>7. new \in Seq(S) /\ Len(new) = k /\ \A i \in 1 .. k : new[i] = fresh[i] /\ i \in 1 .. Len(fresh)
  <2>1. \A i \in 1 .. k : i \in 1 .. Len(fresh)
    BY <1>5, <1>6
  <2>2. new = [i \in 1 .. k |-> fresh[i]]
    BY <1>2, <1>4, <1>5, <1>6
  <2>3. \A i \in 1 .. k : fresh[i] \in S
    BY <1>2, <2>1
  <2> QED
    BY <1>6, <2>1, <2>2, <2>3
<1>8. \A i \in 1 .. k : new[i] \in S
  BY <1>7
<1>9. new \in Seq(Urls)
  <2>1. new \in [1 .. k -> S]
    BY <1>6, <1>7
  <2>2. new \in [1 .. k -> Urls]
    BY <1>1, <2>1
  <2> QED
    BY <1>6, <2>2
<1>10. \A i, j \in 1 .. k : new[i] = new[j] => i = j
  BY <1>2, <1>7
<1>11. Cardinality(queued) + k <= MaxPages /\ (k = room => Cardinality(queued) + k = MaxPages)
  BY <1>3, <1>6
<1>12. k = Len(fresh) => \A x \in S : \E i \in 1 .. k : x = new[i]
  BY <1>2, <1>7
<1> QED
  BY <1>6, <1>7, <1>8, <1>9, <1>10, <1>11, <1>12 DEF S, new

\* The set of a sequence of different elements has as many as it is long.
LEMMA DistinctCount ==
    ASSUME NEW S, NEW s \in Seq(S), \A i, j \in 1 .. Len(s) : s[i] = s[j] => i = j
    PROVE  IsFiniteSet(Range(s)) /\ Cardinality(Range(s)) = Len(s)
<1> DEFINE n == Len(s)
<1>1. n \in Nat /\ DOMAIN s = 1 .. n
  OBVIOUS
<1>2. IsFiniteSet(1 .. n) /\ Cardinality(1 .. n) = n
  <2>1. 1 \in Int /\ n \in Int
    BY <1>1
  <2>2. IsFiniteSet(1 .. n) /\ Cardinality(1 .. n) = IF 1 > n THEN 0 ELSE n - 1 + 1
    BY <2>1, FS_Interval
  <2> QED
    BY <1>1, <2>2
<1> HIDE DEF n
<1>3. s \in Bijection(1 .. n, Range(s))
  <2>1. s \in [1 .. n -> Range(s)]
    BY <1>1 DEF Range
  <2>2. \A t \in Range(s) : \E i \in 1 .. n : s[i] = t
    BY <1>1 DEF Range
  <2>3. \A i, j \in 1 .. n : s[i] = s[j] => i = j
    BY DEF n
  <2> QED
    BY <1>1, <2>1, <2>2, <2>3 DEF Bijection, Injection, Surjection, IsInjective
<1>4. ExistsBijection(1 .. n, Range(s))
  BY <1>3 DEF ExistsBijection
<1>5. IsFiniteSet(Range(s)) /\ Cardinality(Range(s)) = Cardinality(1 .. n)
  BY <1>2, <1>4, FS_Bijection
<1> QED
  BY <1>2, <1>5 DEF n

LEMMA CrawlPageOK ==
    ASSUME CrawlOK, NEW ok \in BOOLEAN, CrawlPage(ok)
    PROVE  CrawlOK'
<1> DEFINE u == Head(pending)
           page == FetchedPage(u, ok)
           new == NewLinks(page)
           P == Len(pages)
           Q == Len(pending)
           k == Len(new)
<1>1. /\ pages' = Append(pages, page)
      /\ pending' = Tail(pending) \o new
      /\ queued' = queued \cup Range(new)
      /\ pending # <<>>
  BY DEF CrawlPage
<1>2. /\ pages \in Seq(WebPages) /\ pending \in Seq(Urls) /\ P \in Nat /\ Q \in Nat /\ Q # 0
      /\ u \in Urls /\ u = pending[1]
  BY <1>1 DEF CrawlOK
<1>3. page \in WebPages /\ page.url = u /\ IsFiniteSet(page.links)
  BY <1>2, Fetched
<1> HIDE DEF page
<1>4. /\ new \in Seq(Urls)
      /\ \A i \in 1 .. k : new[i] \in page.links /\ new[i] \notin queued
      /\ \A i, j \in 1 .. k : new[i] = new[j] => i = j
      /\ Cardinality(queued) + k <= MaxPages
      /\ \/ Cardinality(queued) + k = MaxPages
         \/ \A x \in page.links \ queued : \E i \in 1 .. k : x = new[i]
  BY <1>3, NewLinksOK
<1> HIDE DEF new
<1>5. k \in Nat
  BY <1>4
<1>6. /\ pages' \in Seq(WebPages) /\ Len(pages') = P + 1 /\ pages'[P + 1] = page
      /\ \A i \in 1 .. P : pages'[i] = pages[i]
  BY <1>1, <1>2, <1>3
<1>7. /\ Tail(pending) \in Seq(Urls) /\ Len(Tail(pending)) = Q - 1
      /\ \A j \in 1 .. Q - 1 : Tail(pending)[j] = pending[j + 1]
  BY <1>1, <1>2
<1>8. /\ pending' \in Seq(Urls) /\ Len(pending') = (Q - 1) + k
      /\ \A j \in 1 .. Q - 1 : pending'[j] = pending[j + 1] /\ j + 1 \in 1 .. Q /\ j + 1 # 1
      /\ \A j \in 1 .. k : pending'[(Q - 1) + j] = new[j]
  <2> DEFINE tail == Tail(pending)
             q == Q - 1
  <2>1. tail \in Seq(Urls) /\ Len(tail) = q /\ q \in Nat
    BY <1>2, <1>7
  <2>2. pending' = tail \o new
    BY <1>1
  <2> HIDE DEF tail
  <2>3. /\ pending' \in Seq(Urls) /\ Len(pending') = q + k
        /\ \A j \in 1 .. q : pending'[j] = tail[j]
        /\ \A j \in 1 .. k : pending'[q + j] = new[j]
    <3> HIDE DEF q
    <3>1. /\ tail \o new \in Seq(Urls) /\ Len(tail \o new) = Len(tail) + Len(new)
          /\ \A i \in 1 .. Len(tail) + Len(new) :
                (tail \o new)[i] = IF i <= Len(tail) THEN tail[i] ELSE new[i - Len(tail)]
      <4>1. PICK a \in Seq(Urls), b \in Seq(Urls) : a = tail /\ b = new
        BY <1>4, <2>1
      <4>2. /\ a \o b \in Seq(Urls) /\ Len(a \o b) = Len(a) + Len(b)
            /\ \A i \in 1 .. Len(a) + Len(b) : (a \o b)[i] = IF i <= Len(a) THEN a[i] ELSE b[i - Len(a)]
        BY ConcatProperties
      <4> QED
        BY <4>1, <4>2
    <3>2. \A j \in 1 .. q : j \in 1 .. q + k /\ j <= q
      BY <1>5, <2>1
    <3>3. \A j \in 1 .. k : q + j \in 1 .. q + k /\ ~(q + j <= q) /\ (q + j) - q = j
      BY <1>5, <2>1
    <3>4. /\ \A i \in 1 .. q + k : pending'[i] = IF i <= q THEN tail[i] ELSE new[i - q]
          /\ Len(pending') = q + k /\ pending' \in Seq(Urls)
      BY <2>1, <2>2, <3>1
    <3> QED
      BY <3>2, <3>3, <3>4
  <2>4. \A j \in 1 .. q : j + 1 \in 1 .. Q /\ j + 1 # 1
    BY <1>2
  <2> QED
    BY <1>7, <2>3, <2>4 DEF tail
<1> HIDE DEF P, Q, k, u
<1>9. ASSUME NEW j \in 1 .. (Q - 1) + k
      PROVE  \/ /\ j \in 1 .. Q - 1 /\ j + 1 \in 1 .. Q /\ j + 1 # 1
                /\ pending'[j] = pending[j + 1] /\ pending'[j] \in queued
             \/ /\ j - (Q - 1) \in 1 .. k
                /\ pending'[j] = new[j - (Q - 1)] /\ pending'[j] \notin queued
  <2>1. CASE j <= Q - 1
    <3>1. j \in 1 .. Q - 1
      BY <1>2, <1>5, <2>1
    <3>2. pending'[j] = pending[j + 1] /\ j + 1 \in 1 .. Q /\ j + 1 # 1
      BY <1>8, <3>1
    <3>3. pending[j + 1] \in queued
      BY <3>2 DEF CrawlOK, Q
    <3> QED
      BY <3>1, <3>2, <3>3
  <2>2. CASE ~(j <= Q - 1)
    <3>1. j - (Q - 1) \in 1 .. k /\ (Q - 1) + (j - (Q - 1)) = j
      BY <1>2, <1>5, <2>2
    <3>2. pending'[j] = new[j - (Q - 1)]
      BY <1>8, <3>1
    <3> QED
      BY <1>4, <3>1, <3>2
  <2> QED
    BY <2>1, <2>2
<1>10. ASSUME NEW i \in 1 .. P + 1
       PROVE  /\ pages'[i].url \in queued
              /\ i = P + 1 => pages'[i].url = pending[1]
              /\ i # P + 1 => i \in 1 .. P /\ pages'[i] = pages[i]
  <2>1. 1 \in 1 .. Q
    BY <1>2
  <2>2. CASE i = P + 1
    BY <1>2, <1>3, <1>6, <2>1, <2>2 DEF CrawlOK, Q
  <2>3. CASE i # P + 1
    <3>1. i \in 1 .. P
      BY <1>2, <2>3
    <3> QED
      BY <1>6, <2>3, <3>1 DEF CrawlOK, P
  <2> QED
    BY <2>2, <2>3
<1>11. \A i, j \in 1 .. P + 1 : pages'[i].url = pages'[j].url => i = j
  <2> SUFFICES ASSUME NEW i \in 1 .. P + 1, NEW j \in 1 .. P + 1, pages'[i].url = pages'[j].url, i # j
               PROVE  FALSE
    OBVIOUS
  <2>1. 1 \in 1 .. Q
    BY <1>2
  <2>2. CASE i = P + 1
    BY <1>10, <2>1, <2>2 DEF CrawlOK, P, Q
  <2>3. CASE j = P + 1
    BY <1>10, <2>1, <2>3 DEF CrawlOK, P, Q
  <2>4. CASE i # P + 1 /\ j # P + 1
    BY <1>10, <2>4 DEF CrawlOK, P
  <2> QED
    BY <2>2, <2>3, <2>4
<1>12. \A i, j \in 1 .. (Q - 1) + k : pending'[i] = pending'[j] => i = j
  <2> SUFFICES ASSUME NEW i \in 1 .. (Q - 1) + k, NEW j \in 1 .. (Q - 1) + k, pending'[i] = pending'[j]
               PROVE  i = j
    OBVIOUS
  <2>1. CASE pending'[i] \in queued
    <3>1. /\ i + 1 \in 1 .. Q /\ pending'[i] = pending[i + 1]
          /\ j + 1 \in 1 .. Q /\ pending'[j] = pending[j + 1]
      BY <1>9, <2>1
    <3>2. i + 1 = j + 1
      BY <3>1 DEF CrawlOK, Q
    <3> QED
      BY <1>2, <1>5, <3>2
  <2>2. CASE pending'[i] \notin queued
    <3>1. /\ i - (Q - 1) \in 1 .. k /\ pending'[i] = new[i - (Q - 1)]
          /\ j - (Q - 1) \in 1 .. k /\ pending'[j] = new[j - (Q - 1)]
      BY <1>9, <2>2
    <3>2. i - (Q - 1) = j - (Q - 1)
      BY <1>4, <3>1
    <3> QED
      BY <1>2, <1>5, <3>2
  <2> QED
    BY <2>1, <2>2
<1>13. \A i \in 1 .. P + 1, j \in 1 .. (Q - 1) + k : pages'[i].url # pending'[j]
  <2> SUFFICES ASSUME NEW i \in 1 .. P + 1, NEW j \in 1 .. (Q - 1) + k, pages'[i].url = pending'[j]
               PROVE  FALSE
    OBVIOUS
  <2>1. j + 1 \in 1 .. Q /\ j + 1 # 1 /\ pending'[j] = pending[j + 1] /\ 1 \in 1 .. Q
    BY <1>2, <1>9, <1>10
  <2>2. CASE i = P + 1
    <3>1. pending[1] = pending[j + 1]
      BY <1>10, <2>1, <2>2
    <3> QED
      BY <2>1, <3>1 DEF CrawlOK, Q
  <2>3. CASE i # P + 1
    BY <1>10, <2>1, <2>3 DEF CrawlOK, P, Q
  <2> QED
    BY <2>2, <2>3
<1>14. ASSUME NEW x
       PROVE  x \in queued' <=> \/ \E i \in 1 .. P + 1 : x = pages'[i].url
                                \/ \E j \in 1 .. (Q - 1) + k : x = pending'[j]
  <2>1. \A y \in Range(new) : \E j \in 1 .. k : y = new[j]
    BY <1>4 DEF Range, k
  <2>2. ASSUME x \in Range(new) PROVE \E j \in 1 .. (Q - 1) + k : x = pending'[j]
    <3>1. PICK j \in 1 .. k : x = new[j]
      BY <2>1, <2>2
    <3>2. (Q - 1) + j \in 1 .. (Q - 1) + k
      BY <1>2, <1>5
    <3>3. pending'[(Q - 1) + j] = new[j]
      BY <1>8
    <3> QED
      BY <3>1, <3>2, <3>3
  <2>3. ASSUME x \in queued
        PROVE  \/ \E i \in 1 .. P + 1 : x = pages'[i].url
               \/ \E j \in 1 .. (Q - 1) + k : x = pending'[j]
    <3>1. CASE \E i \in 1 .. P : x = pages[i].url
      <4>1. PICK i \in 1 .. P : x = pages[i].url
        BY <3>1
      <4>2. i \in 1 .. P + 1 /\ pages'[i] = pages[i]
        BY <1>2, <1>6
      <4> QED
        BY <4>1, <4>2
    <3>2. CASE \E j \in 1 .. Q : x = pending[j]
      <4>1. PICK j \in 1 .. Q : x = pending[j]
        BY <3>2
      <4>2. CASE j = 1
        <5>1. P + 1 \in 1 .. P + 1
          BY <1>2
        <5> QED
          BY <1>10, <4>1, <4>2, <5>1
      <4>3. CASE j # 1
        <5>1. j - 1 \in 1 .. Q - 1 /\ (j - 1) + 1 = j /\ j - 1 \in 1 .. (Q - 1) + k
          BY <1>2, <1>5, <4>3
        <5>2. pending'[j - 1] = x
          BY <1>8, <4>1, <5>1
        <5> QED
          BY <5>1, <5>2
      <4> QED
        BY <4>2, <4>3
    <3> QED
      BY <2>3, <3>1, <3>2 DEF CrawlOK, P, Q
  <2>4. ASSUME NEW i \in 1 .. P + 1, x = pages'[i].url PROVE x \in queued'
    BY <1>1, <1>10, <2>4
  <2>5. ASSUME NEW j \in 1 .. (Q - 1) + k, x = pending'[j] PROVE x \in queued'
    <3>1. CASE pending'[j] \in queued
      BY <1>1, <2>5, <3>1
    <3>2. CASE pending'[j] \notin queued
      <4>1. j - (Q - 1) \in 1 .. k /\ x = new[j - (Q - 1)]
        BY <1>9, <2>5, <3>2
      <4>2. x \in Range(new)
        BY <1>4, <4>1 DEF Range, k
      <4> QED
        BY <1>1, <4>2
    <3> QED
      BY <3>1, <3>2
  <2> QED
    BY <1>1, <2>2, <2>3, <2>4, <2>5
<1>15. IsFiniteSet(queued') /\ Cardinality(queued') = Cardinality(queued) + k
       /\ Cardinality(queued) \in Nat
  <2>1. IsFiniteSet(Range(new)) /\ Cardinality(Range(new)) = k
    BY <1>4, DistinctCount DEF k
  <2>2. queued \cap Range(new) = {}
    BY <1>4 DEF Range, k
  <2>3. IsFiniteSet(queued) /\ Cardinality(queued) \in Nat
    BY FS_CardinalityType DEF CrawlOK
  <2>4. Cardinality({}) = 0
    BY FS_EmptySet
  <2>5. /\ IsFiniteSet(queued \cup Range(new))
        /\ Cardinality(queued \cup Range(new)) =
                Cardinality(queued) + Cardinality(Range(new)) - Cardinality(queued \cap Range(new))
    BY <2>1, <2>3, FS_Union
  <2>6. Cardinality(queued \cap Range(new)) = 0
    BY <2>2, <2>4
  <2>7. Cardinality(queued \cup Range(new)) = Cardinality(queued) + k
    BY <1>5, <2>1, <2>3, <2>5, <2>6
  <2> QED
    BY <1>1, <2>3, <2>5, <2>7
<1>16. Cardinality(queued') = (P + 1) + ((Q - 1) + k) /\ Cardinality(queued') <= MaxPages
  <2>1. Cardinality(queued) = P + Q
    BY DEF CrawlOK, P, Q
  <2> QED
    BY <1>2, <1>4, <1>5, <1>15, <2>1
<1>17. \/ Cardinality(queued') = MaxPages
       \/ \A i \in 1 .. P + 1 : pages'[i].links \subseteq queued'
  <2>1. CASE Cardinality(queued) = MaxPages
    <3>1. MaxPages \in Nat
      BY WebAssumption
    <3> QED
      BY <1>4, <1>5, <1>15, <2>1, <3>1
  <2>2. CASE Cardinality(queued) + k = MaxPages
    BY <1>15, <2>2
  <2>3. CASE /\ \A i \in 1 .. P : pages[i].links \subseteq queued
             /\ \A x \in page.links \ queued : \E i \in 1 .. k : x = new[i]
    <3>1. page.links \subseteq queued'
      BY <1>1, <1>4, <2>3 DEF Range, k
    <3> QED
      BY <1>1, <1>6, <1>10, <2>3, <3>1
  <2> QED
    BY <1>4, <2>1, <2>2, <2>3 DEF CrawlOK, P
<1> QED
  BY <1>6, <1>8, <1>11, <1>12, <1>13, <1>14, <1>15, <1>16, <1>17 DEF CrawlOK

LEMMA GoodPagesTyped == ASSUME pages \in Seq(WebPages) PROVE GoodPages \in Seq(Urls)
<1> DEFINE N == Len(pages)
           G == [n \in 1 .. N |-> [v \in Seq(Urls) |->
                    IF pages[n].ok THEN Append(v, pages[n].url) ELSE v]]
           P(f) == f = [n \in 0 .. N |->
                          IF n = 0 THEN <<>>
                          ELSE IF pages[n].ok THEN Append(f[n - 1], pages[n].url) ELSE f[n - 1]]
           good == CHOOSE f : P(f)
<1>1. GoodPages = good[N]
  BY DEF GoodPages
<1>2. N \in Nat /\ \A n \in 1 .. N : pages[n].url \in Urls
  <2>1. N \in Nat /\ \A n \in 1 .. N : pages[n] \in WebPages
    OBVIOUS
  <2> QED
    BY <2>1 DEF WebPages
<1> HIDE DEF N
<1>3. ASSUME NEW n \in 1 .. N, NEW v \in Seq(Urls)
      PROVE  /\ G[n][v] = IF pages[n].ok THEN Append(v, pages[n].url) ELSE v
             /\ G[n][v] \in Seq(Urls)
  BY <1>2
<1>4. G \in [1 .. N -> [Seq(Urls) -> Seq(Urls)]] /\ <<>> \in Seq(Urls)
  BY <1>2
<1>5. \E f : P(f)
  <2>1. PICK f \in [0 .. N -> Seq(Urls)] : Follows(f, N, <<>>, G)
    <3> HIDE DEF G
    <3> QED BY <1>2, <1>4, Recursion
  <2>2. ASSUME NEW n \in 0 .. N
        PROVE  f[n] = IF n = 0 THEN <<>>
                      ELSE IF pages[n].ok THEN Append(f[n - 1], pages[n].url) ELSE f[n - 1]
    <3> HIDE DEF G
    <3>1. CASE n = 0
      BY <2>1, <3>1 DEF Follows
    <3>2. CASE n # 0
      <4>1. n \in 1 .. N /\ n - 1 \in 0 .. N
        BY <1>2, <3>2
      <4>2. f[n] = G[n][f[n - 1]] /\ f[n - 1] \in Seq(Urls)
        BY <2>1, <4>1 DEF Follows
      <4> QED
        BY <1>3, <3>2, <4>1, <4>2
    <3> QED
      BY <3>1, <3>2
  <2> QED
    BY <2>1, <2>2
<1>6. P(good)
  <2> HIDE DEF P
  <2> QED BY <1>5
<1> HIDE DEF good
<1> DEFINE T == {n \in Nat : n <= N => good[n] \in Seq(Urls)}
<1>7. 0 \in T
  BY <1>2, <1>4, <1>6
<1>8. ASSUME NEW n \in Nat, n \in T PROVE n + 1 \in T
  <2> SUFFICES ASSUME n + 1 <= N PROVE good[n + 1] \in Seq(Urls)
    OBVIOUS
  <2>1. good[n] \in Seq(Urls) /\ n + 1 \in 0 .. N /\ n + 1 # 0 /\ (n + 1) - 1 = n /\ n + 1 \in 1 .. N
    BY <1>2, <1>8
  <2>2. good[n + 1] = IF pages[n + 1].ok THEN Append(good[n], pages[n + 1].url) ELSE good[n]
    BY <1>6, <2>1
  <2>3. pages[n + 1].url \in Urls
    BY <1>2, <2>1
  <2> QED
    BY <2>1, <2>2, <2>3
<1>9. N \in T
  <2> HIDE DEF T
  <2> QED BY <1>2, <1>7, <1>8, Induction
<1> QED
  BY <1>1, <1>2, <1>9

LEMMA CandidatesOK ==
    ASSUME pages \in Seq(WebPages), NEW n \in Nat
    PROVE  /\ Len(Candidates(n)) \in Nat /\ Len(Candidates(n)) <= n
           /\ \A i \in 1 .. Len(Candidates(n)) : Candidates(n)[i] \in Range(GoodPages)
<1> DEFINE k == Min({Len(GoodPages), n})
<1>1. GoodPages \in Seq(Urls) /\ Len(GoodPages) \in Nat /\ DOMAIN GoodPages = 1 .. Len(GoodPages)
  BY GoodPagesTyped
<1>2. k \in Nat /\ k <= n /\ k <= Len(GoodPages)
  BY <1>1, MinOf
<1>3. Candidates(n) = SubSeq(GoodPages, 1, k)
  BY DEF Candidates
<1> HIDE DEF k
<1>4. SubSeq(GoodPages, 1, k) = [i \in 1 .. k |-> GoodPages[i]]
  BY <1>1, <1>2
<1>5. \A i \in 1 .. k : i \in DOMAIN GoodPages
  BY <1>1, <1>2
<1>6. Len(Candidates(n)) = k /\ \A i \in 1 .. k : Candidates(n)[i] = GoodPages[i]
  BY <1>2, <1>3, <1>4
<1> QED
  BY <1>2, <1>5, <1>6 DEF Range

WebLimits == {MaxPages, MaxProbes, CorsTargets, MaxDast, MaxBrowserRequests, MaxBrowserPages, MaxWorkflow}
WebStages == {"crawl", "probe", "dast", "browse", "workflow", "done", "exit", "raised"}
AfterCors == {"browse", "workflow", "done", "exit"}
Browsers == [used : Nat, documents : Nat, open : Nat, refused : Nat]
Completed == {i \in DOMAIN workflowSent : workflowSent[i] = "completed"}

ProbesOK ==
    /\ probed \in Seq(Urls)
    /\ webStage = "crawl" => probed = <<>>
    /\ Len(probed) <= MaxProbes
    /\ \A i \in 1 .. Len(probed) : probed[i] \in Range(GoodPages)

\* Every target before the last was sent its two requests, and the last one or two.
DastOK ==
    /\ corsPairs \in Seq({1, 2})
    /\ \A i \in 1 .. Len(corsPairs) : i < Len(corsPairs) => corsPairs[i] = 2
    /\ Len(corsPairs) <= CorsTargets
    /\ dastUsed = 2 * Len(corsPairs) - (IF HalfPair THEN 1 ELSE 0)

\* Where the check is with its targets, which are known once the crawl is over.
TargetsOK ==
    /\ webStage \in {"crawl", "probe"} => corsPairs = <<>>
    /\ webStage = "dast" => Len(corsPairs) <= Len(Candidates(CorsTargets))
    /\ webStage \in AfterCors => ~HalfPair /\ Len(corsPairs) = Len(Candidates(CorsTargets))

BrowserOK ==
    /\ browser \in Browsers
    /\ browser.open <= browser.used /\ browser.used <= MaxBrowserRequests
    /\ browser.documents <= MaxBrowserPages

WorkflowOK ==
    /\ workflowSent \in Seq({"denied", "completed", "failed"})
    /\ IsFiniteSet(Completed)
    /\ workflowUsed = Cardinality(Completed)
    /\ workflowUsed \in Nat /\ workflowUsed <= MaxWorkflow

WebOK ==
    /\ webStage \in WebStages
    /\ CrawlOK
    /\ webStage # "crawl" => pending = <<>> \/ Len(pages) >= MaxPages
    /\ ProbesOK
    /\ DastOK
    /\ TargetsOK
    /\ BrowserOK
    /\ WorkflowOK

LEMMA LimitsTyped == /\ MaxPages \in Nat \ {0} /\ MaxProbes \in Nat \ {0} /\ CorsTargets \in Nat \ {0}
                     /\ MaxDast \in Nat \ {0} /\ MaxBrowserRequests \in Nat \ {0}
                     /\ MaxBrowserPages \in Nat \ {0} /\ MaxWorkflow \in Nat \ {0}
                     /\ 2 * CorsTargets <= MaxDast
BY WebAssumption

LEMMA WebInitOK == ASSUME WebInit PROVE WebOK
<1> USE LimitsTyped DEF WebInit
<1>1. CrawlOK
  <2>1. 1 \in Urls
    BY WebAssumption
  <2>2. pending \in Seq(Urls) /\ Len(pending) = 1 /\ pending[1] = 1 /\ pages \in Seq(WebPages)
        /\ Len(pages) = 0
    BY <2>1
  <2>3. IsFiniteSet(queued) /\ Cardinality(queued) = 1
    BY FS_Singleton
  <2> QED
    BY <2>2, <2>3 DEF CrawlOK
<1>2. ProbesOK /\ DastOK /\ TargetsOK
  BY DEF ProbesOK, DastOK, TargetsOK, HalfPair, AfterCors
<1>3. BrowserOK
  BY DEF BrowserOK, Browsers
<1>4. WorkflowOK
  <2>1. Completed = {}
    BY DEF Completed
  <2> QED
    BY <2>1, FS_EmptySet DEF WorkflowOK
<1> QED
  BY <1>1, <1>2, <1>3, <1>4 DEF WebOK, WebStages

LEMMA QuietParts ==
    /\ CrawlOK /\ UNCHANGED <<pending, queued, pages>> => CrawlOK'
    /\ ProbesOK /\ UNCHANGED <<probed, pages>> /\ webStage' # "crawl" => ProbesOK'
    /\ DastOK /\ UNCHANGED <<corsPairs, dastUsed>> => DastOK'
    /\ TargetsOK /\ UNCHANGED <<corsPairs, pages>>
       /\ (webStage' = webStage \/ (webStage \in AfterCors /\ webStage' \in AfterCors)
           \/ webStage' = "raised") => TargetsOK'
    /\ BrowserOK /\ UNCHANGED browser => BrowserOK'
    /\ WorkflowOK /\ UNCHANGED <<workflowSent, workflowUsed>> => WorkflowOK'
<1>1. ASSUME CrawlOK, UNCHANGED <<pending, queued, pages>> PROVE CrawlOK'
  BY <1>1 DEF CrawlOK
<1>2. ASSUME ProbesOK, UNCHANGED <<probed, pages>>, webStage' # "crawl" PROVE ProbesOK'
  BY <1>2 DEF ProbesOK, GoodPages
<1>3. ASSUME DastOK, UNCHANGED <<corsPairs, dastUsed>> PROVE DastOK'
  BY <1>3 DEF DastOK, HalfPair
<1>6. ASSUME TargetsOK, UNCHANGED <<corsPairs, pages>>,
             webStage' = webStage \/ (webStage \in AfterCors /\ webStage' \in AfterCors)
             \/ webStage' = "raised"
      PROVE  TargetsOK'
  <2>1. HalfPair' = HalfPair /\ Candidates(CorsTargets)' = Candidates(CorsTargets)
    BY <1>6 DEF HalfPair, Candidates, GoodPages
  <2> QED
    BY <1>6, <2>1 DEF TargetsOK, AfterCors
<1>4. ASSUME BrowserOK, UNCHANGED browser PROVE BrowserOK'
  BY <1>4 DEF BrowserOK
<1>5. ASSUME WorkflowOK, UNCHANGED <<workflowSent, workflowUsed>> PROVE WorkflowOK'
  BY <1>5 DEF WorkflowOK, Completed
<1> QED
  BY <1>1, <1>2, <1>3, <1>4, <1>5, <1>6

LEMMA CrawlTurnOK == ASSUME WebOK, NEW ok \in BOOLEAN, CrawlPage(ok) PROVE WebOK'
<1>1. webStage = "crawl" /\ webStage' = "crawl"
  BY DEF CrawlPage
<1>2. CrawlOK'
  BY CrawlPageOK DEF WebOK
<1>3. ProbesOK'
  BY <1>1, LimitsTyped DEF WebOK, ProbesOK, CrawlPage
<1>4. DastOK' /\ BrowserOK' /\ WorkflowOK'
  BY QuietParts DEF WebOK, CrawlPage
<1>5. TargetsOK'
  BY <1>1 DEF WebOK, TargetsOK, AfterCors, CrawlPage
<1> QED
  BY <1>1, <1>2, <1>3, <1>4, <1>5 DEF WebOK

LEMMA CrawlEndsOK == ASSUME WebOK, CrawlEnds PROVE WebOK'
<1>1. /\ webStage' = "probe" /\ (pending = <<>> \/ Len(pages) >= MaxPages)
      /\ CrawlOK /\ ProbesOK /\ DastOK /\ BrowserOK /\ WorkflowOK
  BY DEF CrawlEnds, WebOK
<1>2. CrawlOK' /\ ProbesOK' /\ DastOK' /\ BrowserOK' /\ WorkflowOK'
  BY <1>1, QuietParts DEF CrawlEnds
<1>3. TargetsOK'
  BY <1>1 DEF WebOK, TargetsOK, AfterCors, CrawlEnds
<1> QED
  BY <1>2, <1>3 DEF WebOK, CrawlEnds, WebStages

LEMMA ProbeOK == ASSUME WebOK, Probe PROVE WebOK'
<1>1. /\ CrawlOK /\ ProbesOK /\ DastOK /\ BrowserOK /\ WorkflowOK
      /\ webStage = "probe" /\ webStage' \in {"probe", "dast", "raised"} /\ TargetsOK
  BY DEF Probe, WebOK
<1>2. CrawlOK' /\ DastOK' /\ BrowserOK' /\ WorkflowOK'
  BY <1>1, QuietParts DEF Probe
<1>3. ProbesOK'
  <2>1. CASE ~(Len(probed) < Len(Candidates(MaxProbes)))
    BY <1>1, <2>1, QuietParts DEF Probe
  <2>2. CASE Len(probed) < Len(Candidates(MaxProbes))
    <3> DEFINE target == Candidates(MaxProbes)[Len(probed) + 1]
    <3>1. probed' = Append(probed, target) /\ pages' = pages
      BY <2>2 DEF Probe
    <3>2. /\ Len(Candidates(MaxProbes)) \in Nat /\ Len(Candidates(MaxProbes)) <= MaxProbes
          /\ \A i \in 1 .. Len(Candidates(MaxProbes)) : Candidates(MaxProbes)[i] \in Range(GoodPages)
      BY <1>1, LimitsTyped, CandidatesOK DEF CrawlOK
    <3>3. Len(probed) \in Nat /\ probed \in Seq(Urls)
      BY <1>1 DEF ProbesOK
    <3>4. Len(probed) + 1 \in 1 .. Len(Candidates(MaxProbes))
      BY <2>2, <3>2, <3>3
    <3>5. target \in Range(GoodPages)
      BY <3>2, <3>4
    <3> HIDE DEF target
    <3>6. /\ Len(probed') = Len(probed) + 1
          /\ DOMAIN probed' = 1 .. Len(probed) + 1
          /\ probed'[Len(probed) + 1] = target
          /\ \A i \in 1 .. Len(probed) : probed'[i] = probed[i]
      BY <3>1, <3>3
    <3>7. \A i \in 1 .. Len(probed) + 1 : i # Len(probed) + 1 => i \in 1 .. Len(probed)
      BY <3>3
    <3>8. \A i \in 1 .. Len(probed) + 1 : probed'[i] \in Range(GoodPages)
      BY <1>1, <3>5, <3>6, <3>7 DEF ProbesOK
    <3>9. Len(probed') <= MaxProbes
      BY <2>2, <3>2, <3>3, <3>6, LimitsTyped
    <3>10. probed' \in Seq(Urls)
      <4>1. GoodPages \in Seq(Urls)
        BY <1>1, GoodPagesTyped DEF CrawlOK
      <4>2. target \in Urls
        BY <3>5, <4>1 DEF Range
      <4> QED
        BY <3>1, <3>3, <4>2
    <3>11. GoodPages' = GoodPages
      BY <3>1 DEF GoodPages
    <3> QED
      BY <1>1, <3>6, <3>8, <3>9, <3>10, <3>11 DEF ProbesOK
  <2> QED
    BY <2>1, <2>2
<1>4. webStage' \in WebStages /\ (webStage' # "crawl" => pending' = <<>> \/ Len(pages') >= MaxPages)
  BY <1>1 DEF WebOK, Probe, WebStages
<1>5. TargetsOK'
  <2>1. corsPairs = <<>> /\ corsPairs' = corsPairs /\ pages' = pages
        /\ pages \in Seq(WebPages) /\ CorsTargets \in Nat
    BY <1>1, LimitsTyped DEF TargetsOK, Probe, CrawlOK
  <2>2. Candidates(CorsTargets)' = Candidates(CorsTargets) /\ Len(Candidates(CorsTargets)) \in Nat
    BY <2>1, CandidatesOK DEF Candidates, GoodPages
  <2>3. Len(corsPairs') <= Len(Candidates(CorsTargets)')
    BY <2>1, <2>2
  <2> QED
    BY <1>1, <2>1, <2>3 DEF TargetsOK, AfterCors
<1> QED
  BY <1>2, <1>3, <1>4, <1>5 DEF WebOK

\* The end of the check: every target had its pair.
LEMMA CorsEndsOK ==
    ASSUME WebOK, webStage = "dast", webStage' = "browse", ~HalfPair,
           Len(corsPairs) = Len(Candidates(CorsTargets)),
           UNCHANGED <<pending, queued, pages, probed, dastUsed, corsPairs, browser, workflowUsed,
                       workflowSent>>
    PROVE  WebOK'
<1>1. CrawlOK /\ ProbesOK /\ DastOK /\ BrowserOK /\ WorkflowOK
  BY DEF WebOK
<1>2. CrawlOK' /\ ProbesOK' /\ DastOK' /\ BrowserOK' /\ WorkflowOK'
  BY <1>1, QuietParts
<1>3. TargetsOK'
  <2>1. HalfPair' = HalfPair /\ Candidates(CorsTargets)' = Candidates(CorsTargets)
    BY DEF HalfPair, Candidates, GoodPages
  <2> QED
    BY <2>1 DEF TargetsOK, AfterCors
<1> QED
  BY <1>2, <1>3 DEF WebOK, WebStages

\* One more request: the first or the second of the last target.
LEMMA CorsRequestOK ==
    ASSUME WebOK, webStage = "dast", webStage' \in {"dast", "raised"},
           DastOK', Len(corsPairs') <= Len(Candidates(CorsTargets)),
           UNCHANGED <<pending, queued, pages, probed, browser, workflowUsed, workflowSent>>
    PROVE  WebOK'
<1>1. CrawlOK /\ ProbesOK /\ BrowserOK /\ WorkflowOK
  BY DEF WebOK
<1>2. CrawlOK' /\ ProbesOK' /\ BrowserOK' /\ WorkflowOK'
  BY <1>1, QuietParts
<1>3. TargetsOK'
  <2>1. Candidates(CorsTargets)' = Candidates(CorsTargets)
    BY DEF Candidates, GoodPages
  <2> QED
    BY <2>1 DEF TargetsOK, AfterCors
<1> QED
  BY <1>2, <1>3 DEF WebOK, WebStages

\* What the two steps of a target know of the check.
LEMMA CorsFacts ==
    ASSUME WebOK, webStage = "dast"
    PROVE  /\ corsPairs \in Seq({1, 2}) /\ Len(corsPairs) \in Nat
           /\ \A i \in 1 .. Len(corsPairs) : i < Len(corsPairs) => corsPairs[i] = 2
           /\ Len(Candidates(CorsTargets)) \in Nat /\ Len(Candidates(CorsTargets)) <= CorsTargets
           /\ Len(corsPairs) <= Len(Candidates(CorsTargets)) /\ Len(corsPairs) <= CorsTargets
           /\ dastUsed = 2 * Len(corsPairs) - (IF HalfPair THEN 1 ELSE 0)
           /\ HalfPair <=> corsPairs # <<>> /\ corsPairs[Len(corsPairs)] = 1
<1>1. /\ Len(Candidates(CorsTargets)) \in Nat /\ Len(Candidates(CorsTargets)) <= CorsTargets
  BY LimitsTyped, CandidatesOK DEF WebOK, CrawlOK
<1> QED
  BY <1>1 DEF WebOK, DastOK, TargetsOK, HalfPair, Last

LEMMA CorsBaselineOK == ASSUME WebOK, CorsBaseline PROVE WebOK'
<1>1. webStage = "dast" /\ ~HalfPair
  BY DEF CorsBaseline
<1> DEFINE n == Len(corsPairs)
<1>2. /\ corsPairs \in Seq({1, 2}) /\ n \in Nat /\ dastUsed = 2 * n
      /\ \A i \in 1 .. n : i < n => corsPairs[i] = 2
      /\ n <= Len(Candidates(CorsTargets)) /\ Len(Candidates(CorsTargets)) <= CorsTargets
      /\ Len(Candidates(CorsTargets)) \in Nat
      /\ corsPairs # <<>> => corsPairs[n] # 1
  BY <1>1, CorsFacts
<1>3. n < Len(Candidates(CorsTargets)) => dastUsed < MaxDast
  BY <1>2, LimitsTyped
<1>4. CASE n < Len(Candidates(CorsTargets))
  <2>1. /\ dastUsed' = dastUsed + 1 /\ corsPairs' = Append(corsPairs, 1)
        /\ webStage' \in {"dast", "raised"}
    BY <1>3, <1>4 DEF CorsBaseline, DastAllowed
  <2>2. /\ corsPairs' \in Seq({1, 2}) /\ Len(corsPairs') = n + 1 /\ corsPairs'[n + 1] = 1
        /\ corsPairs' # <<>> /\ \A i \in 1 .. n : corsPairs'[i] = corsPairs[i]
    <3> DEFINE P == {1, 2}
    <3>1. corsPairs \in Seq(P) /\ 1 \in P /\ corsPairs' = Append(corsPairs, 1)
      BY <1>2, <2>1
    <3> HIDE DEF P
    <3>2. /\ corsPairs' \in Seq(P) /\ Len(corsPairs') = n + 1 /\ corsPairs'[n + 1] = 1
          /\ corsPairs' # <<>> /\ \A i \in 1 .. n : corsPairs'[i] = corsPairs[i]
      BY <3>1
    <3> QED
      BY <3>2 DEF P
  <2>3. HalfPair'
    BY <2>2 DEF HalfPair, Last
  <2>4. \A i \in 1 .. n : corsPairs[i] = 2
    <3> SUFFICES ASSUME NEW i \in 1 .. n, i = n PROVE corsPairs[i] = 2
      BY <1>2
    <3>1. corsPairs # <<>> /\ corsPairs[n] \in {1, 2}
      BY <1>2
    <3> QED
      BY <1>2, <3>1
  <2>5. \A i \in 1 .. n + 1 : i < n + 1 => corsPairs'[i] = 2
    BY <1>2, <2>2, <2>4
  <2>6. dastUsed' = 2 * (n + 1) - 1
    BY <1>2, <2>1
  <2>7. n + 1 <= CorsTargets /\ n + 1 <= Len(Candidates(CorsTargets))
    BY <1>2, <1>4, LimitsTyped
  <2> HIDE DEF n
  <2>8. DastOK'
    BY <2>2, <2>3, <2>5, <2>6, <2>7 DEF DastOK
  <2> QED
    BY <1>1, <2>1, <2>2, <2>7, <2>8, CorsRequestOK DEF CorsBaseline
<1>5. CASE ~(n < Len(Candidates(CorsTargets)))
  <2>1. Len(corsPairs) = Len(Candidates(CorsTargets))
    BY <1>2, <1>5
  <2> QED
    BY <1>1, <1>5, <2>1, CorsEndsOK DEF CorsBaseline
<1> QED
  BY <1>4, <1>5

LEMMA CorsProbeOK == ASSUME WebOK, CorsProbe PROVE WebOK'
<1>1. webStage = "dast" /\ HalfPair
  BY DEF CorsProbe
<1> DEFINE n == Len(corsPairs)
<1>2. /\ corsPairs \in Seq({1, 2}) /\ n \in Nat /\ dastUsed = 2 * n - 1
      /\ \A i \in 1 .. n : i < n => corsPairs[i] = 2
      /\ n <= Len(Candidates(CorsTargets)) /\ n <= CorsTargets
      /\ corsPairs # <<>>
  BY <1>1, CorsFacts
<1>3. dastUsed < MaxDast
  BY <1>2, LimitsTyped
<1>4. /\ dastUsed' = dastUsed + 1 /\ corsPairs' = [corsPairs EXCEPT ![n] = 2]
      /\ webStage' \in {"dast", "raised"}
  BY <1>3 DEF CorsProbe, DastAllowed
<1>5. n \in 1 .. n /\ DOMAIN corsPairs = 1 .. n
  BY <1>2
<1>6. /\ corsPairs' \in Seq({1, 2}) /\ Len(corsPairs') = n /\ corsPairs'[n] = 2
      /\ \A i \in 1 .. n : i < n => corsPairs'[i] = corsPairs[i]
  <2> DEFINE P == {1, 2}
  <2>1. corsPairs \in Seq(P) /\ 2 \in P
    BY <1>2
  <2> HIDE DEF P
  <2>2. corsPairs' \in Seq(P) /\ Len(corsPairs') = n
    BY <1>2, <1>4, <2>1
  <2>3. n \in Nat
    BY <1>2
  <2> HIDE DEF n
  <2>4. corsPairs'[n] = 2 /\ \A i \in 1 .. n : i < n => corsPairs'[i] = corsPairs[i]
    BY <1>4, <1>5, <2>3
  <2> QED
    BY <2>2, <2>4 DEF P
<1>7. ~HalfPair'
  BY <1>6 DEF HalfPair, Last
<1>8. dastUsed' = 2 * n
  BY <1>2, <1>4
<1> HIDE DEF n
<1>9. DastOK'
  BY <1>2, <1>6, <1>7, <1>8 DEF DastOK
<1> QED
  BY <1>1, <1>2, <1>4, <1>6, <1>9, CorsRequestOK DEF CorsProbe

\* The browser's stage: whatever the routes and the navigation do.
LEMMA BrowserStageOK ==
    ASSUME WebOK, webStage = "browse", webStage' \in {"browse", "workflow", "exit"}, BrowserOK',
           UNCHANGED <<pending, queued, pages, probed, dastUsed, corsPairs, workflowUsed, workflowSent>>
    PROVE  WebOK'
<1>1. CrawlOK /\ ProbesOK /\ DastOK /\ TargetsOK /\ WorkflowOK
  BY DEF WebOK
<1>2. CrawlOK' /\ ProbesOK' /\ DastOK' /\ TargetsOK' /\ WorkflowOK'
  BY <1>1, QuietParts DEF AfterCors
<1> QED
  BY <1>2 DEF WebOK, WebStages

LEMMA InterceptRequestOK ==
    ASSUME WebOK, NEW document \in BOOLEAN, InterceptRequest(document)
    PROVE  WebOK'
<1>1. BrowserOK /\ browser \in Browsers
  BY DEF WebOK, BrowserOK
<1>2. CASE /\ BrowserAllowed(document)
           /\ browser' = [browser EXCEPT !.used = @ + 1, !.open = @ + 1,
                                        !.documents = IF document THEN @ + 1 ELSE @]
  <2>1. browser.used < MaxBrowserRequests /\ (document => browser.documents < MaxBrowserPages)
    BY <1>2 DEF BrowserAllowed
  <2>2. CASE document
    <3>1. /\ browser' \in Browsers /\ browser'.used = browser.used + 1
          /\ browser'.open = browser.open + 1 /\ browser'.documents = browser.documents + 1
      <4>1. browser' = [browser EXCEPT !.used = browser.used + 1, !.open = browser.open + 1,
                                      !.documents = browser.documents + 1]
        BY <1>2, <2>2
      <4>2. browser.used + 1 \in Nat /\ browser.open + 1 \in Nat /\ browser.documents + 1 \in Nat
        BY <1>1 DEF Browsers
      <4> QED
        BY <1>1, <4>1, <4>2 DEF Browsers
    <3>2. browser.used \in Nat /\ browser.open \in Nat /\ browser.documents \in Nat
      BY <1>1 DEF Browsers
    <3>3. /\ browser'.open <= browser'.used /\ browser'.used <= MaxBrowserRequests
          /\ browser'.documents <= MaxBrowserPages
      BY <1>1, <2>1, <2>2, <3>1, <3>2, LimitsTyped DEF BrowserOK
    <3> QED
      BY <3>1, <3>3, BrowserStageOK DEF InterceptRequest, BrowserOK
  <2>3. CASE ~document
    <3>1. /\ browser' \in Browsers /\ browser'.used = browser.used + 1
          /\ browser'.open = browser.open + 1 /\ browser'.documents = browser.documents
      <4>1. browser' = [browser EXCEPT !.used = browser.used + 1, !.open = browser.open + 1,
                                      !.documents = browser.documents]
        BY <1>2, <2>3
      <4>2. browser.used + 1 \in Nat /\ browser.open + 1 \in Nat /\ browser.documents \in Nat
        BY <1>1 DEF Browsers
      <4> QED
        BY <1>1, <4>1, <4>2 DEF Browsers
    <3>2. browser.used \in Nat /\ browser.open \in Nat /\ browser.documents \in Nat
      BY <1>1 DEF Browsers
    <3>3. /\ browser'.open <= browser'.used /\ browser'.used <= MaxBrowserRequests
          /\ browser'.documents <= MaxBrowserPages
      BY <1>1, <2>1, <2>3, <3>1, <3>2, LimitsTyped DEF BrowserOK
    <3> QED
      BY <3>1, <3>3, BrowserStageOK DEF InterceptRequest, BrowserOK
  <2> QED
    BY <2>2, <2>3
<1>3. CASE browser' = [browser EXCEPT !.refused = @ + 1]
  BY <1>1, <1>3, BrowserStageOK DEF InterceptRequest, BrowserOK, Browsers
<1> QED
  BY <1>2, <1>3 DEF InterceptRequest

LEMMA BrowserQuietOK == ASSUME WebOK, RouteAnswered \/ BrowserEnds \/ BrowserUnavailable PROVE WebOK'
<1>1. BrowserOK /\ browser \in Browsers
  BY DEF WebOK, BrowserOK
<1>2. CASE RouteAnswered
  BY <1>1, <1>2, BrowserStageOK DEF RouteAnswered, BrowserOK, Browsers
<1>3. CASE BrowserEnds
  BY <1>1, <1>3, BrowserStageOK DEF BrowserEnds, BrowserOK, Browsers
<1>4. CASE BrowserUnavailable
  BY <1>1, <1>4, BrowserStageOK DEF BrowserUnavailable, BrowserOK, Browsers
<1> QED
  BY <1>2, <1>3, <1>4

LEMMA WorkflowStepOK == ASSUME WebOK, NEW ok \in BOOLEAN, WorkflowStep(ok) PROVE WebOK'
<1> DEFINE page == FetchedPage(WorkflowUrls[Len(workflowSent) + 1], ok)
           what == IF ~WorkflowAllowed THEN "denied" ELSE IF page.ok THEN "completed" ELSE "failed"
           n == Len(workflowSent)
<1>1. /\ CrawlOK /\ ProbesOK /\ DastOK /\ TargetsOK /\ BrowserOK /\ WorkflowOK
      /\ webStage = "workflow" /\ webStage' = "workflow"
  BY DEF WorkflowStep, WebOK
<1>2. CrawlOK' /\ ProbesOK' /\ DastOK' /\ TargetsOK' /\ BrowserOK'
  BY <1>1, QuietParts DEF WorkflowStep
<1>3. /\ workflowUsed' = IF WorkflowAllowed /\ page.ok THEN workflowUsed + 1 ELSE workflowUsed
      /\ workflowSent' = Append(workflowSent, what)
  BY DEF WorkflowStep
<1>4. /\ workflowSent \in Seq({"denied", "completed", "failed"}) /\ n \in Nat
      /\ what \in {"denied", "completed", "failed"}
      /\ IsFiniteSet(Completed) /\ workflowUsed = Cardinality(Completed)
      /\ workflowUsed \in Nat /\ workflowUsed <= MaxWorkflow
  BY <1>1 DEF WorkflowOK
<1>5. what = "completed" <=> WorkflowAllowed /\ page.ok
  OBVIOUS
<1> HIDE DEF what, page
<1>6. /\ workflowSent' \in Seq({"denied", "completed", "failed"})
      /\ DOMAIN workflowSent' = 1 .. n + 1 /\ DOMAIN workflowSent = 1 .. n
      /\ workflowSent'[n + 1] = what
      /\ \A i \in 1 .. n : workflowSent'[i] = workflowSent[i]
  BY <1>3, <1>4
<1> HIDE DEF n
<1>7. /\ \A i \in 1 .. n + 1 : i = n + 1 \/ i \in 1 .. n
      /\ \A i \in 1 .. n : i \in 1 .. n + 1 /\ i # n + 1
      /\ n + 1 \in 1 .. n + 1
  BY <1>4
<1>8. CASE what = "completed"
  <2>1. Completed' = Completed \cup {n + 1} /\ n + 1 \notin Completed
    BY <1>6, <1>7, <1>8 DEF Completed
  <2>2. IsFiniteSet(Completed') /\ Cardinality(Completed') = Cardinality(Completed) + 1
    BY <1>4, <2>1, FS_AddElement
  <2>3. workflowUsed' = workflowUsed + 1 /\ workflowUsed < MaxWorkflow
    BY <1>3, <1>5, <1>8 DEF WorkflowAllowed
  <2> QED
    BY <1>1, <1>2, <1>4, <1>6, <2>2, <2>3, LimitsTyped DEF WebOK, WorkflowOK, WebStages, WorkflowStep
<1>9. CASE what # "completed"
  <2>1. Completed' = Completed
    BY <1>6, <1>7, <1>9 DEF Completed
  <2>2. workflowUsed' = workflowUsed
    BY <1>3, <1>5, <1>9
  <2> QED
    BY <1>1, <1>2, <1>4, <1>6, <2>1, <2>2 DEF WebOK, WorkflowOK, WebStages, WorkflowStep
<1> QED
  BY <1>8, <1>9

LEMMA WebStep == ASSUME WebOK, [WebNext]_webVars PROVE WebOK'
<1>1. CASE SaveWebReports
  <2>1. CrawlOK /\ ProbesOK /\ DastOK /\ TargetsOK /\ BrowserOK /\ WorkflowOK
    BY DEF WebOK
  <2>2. CrawlOK' /\ ProbesOK' /\ DastOK' /\ TargetsOK' /\ BrowserOK' /\ WorkflowOK'
    BY <1>1, <2>1, QuietParts DEF SaveWebReports, AfterCors
  <2> QED
    BY <1>1, <2>2 DEF WebOK, SaveWebReports, WebStages
<1>2. CASE UNCHANGED webVars
  <2>1. CrawlOK /\ ProbesOK /\ DastOK /\ TargetsOK /\ BrowserOK /\ WorkflowOK
    BY DEF WebOK
  <2>2. CrawlOK' /\ DastOK' /\ TargetsOK' /\ BrowserOK' /\ WorkflowOK'
    BY <1>2, <2>1, QuietParts DEF webVars
  <2>3. ProbesOK'
    BY <1>2, <2>1 DEF webVars, ProbesOK, GoodPages
  <2> QED
    BY <1>2, <2>2, <2>3 DEF WebOK, webVars
<1> QED
  BY <1>1, <1>2, CrawlTurnOK, CrawlEndsOK, ProbeOK, CorsBaselineOK, CorsProbeOK, InterceptRequestOK, BrowserQuietOK,
     WorkflowStepOK DEF WebNext

\* The crawl, the probes, the credentialed requests, the browser and the workflow each
\* stay within their ceiling and on pages the crawl reached, and a command that gets past
\* its CORS check sent every target both requests; for any site, with any links and
\* redirects, any limits and list of workflow requests, wherever an answer raises
\* (web_crawl.py and the assessments the crawl command of red_cli.py adds to it).
THEOREM WebAssessmentSafe == WebSpec => []WebAssessmentIsBounded
<1>1. WebOK => WebAssessmentIsBounded
  <2> SUFFICES ASSUME WebOK PROVE WebAssessmentIsBounded
    OBVIOUS
  <2>1. CrawlIsExhaustive
    <3>1. /\ pages \in Seq(WebPages) /\ DOMAIN pages = 1 .. Len(pages) /\ Len(pages) \in Nat
          /\ pending \in Seq(Urls) /\ Len(pending) \in Nat
          /\ Len(pages) + Len(pending) <= MaxPages /\ Cardinality(queued) = Len(pages) + Len(pending)
      BY DEF WebOK, CrawlOK
    <3>2. Len(pages) <= MaxPages
      BY <3>1, LimitsTyped
    <3>3. ASSUME webStage # "crawl", Len(pages) < MaxPages, NEW i \in DOMAIN pages
          PROVE  pages[i].links \subseteq {pages[j].url : j \in DOMAIN pages}
      <4>1. pending = <<>>
        BY <3>1, <3>3, LimitsTyped DEF WebOK
      <4>2. Len(pending) = 0
        BY <4>1
      <4>3. Cardinality(queued) # MaxPages
        <5>1. Cardinality(queued) = Len(pages)
          <6>1. Cardinality(queued) = Len(pages) + Len(pending) /\ Len(pages) \in Nat
            BY <3>1
          <6>2. Cardinality(queued) = Len(pages) + 0
            BY <4>2, <6>1
          <6> QED
            BY <6>1, <6>2
        <5>2. Len(pages) # MaxPages
          <6>1. Len(pages) < MaxPages
            BY <3>3
          <6>2. MaxPages \in Nat /\ Len(pages) \in Nat
            BY <3>1, LimitsTyped
          <6> QED
            BY <6>1, <6>2
        <5> QED
          BY <5>1, <5>2
      <4>4. pages[i].links \subseteq queued
        BY <3>1, <4>3 DEF WebOK, CrawlOK
      <4>5. ASSUME NEW x \in queued PROVE \E j \in DOMAIN pages : x = pages[j].url
        BY <3>1, <4>2 DEF WebOK, CrawlOK
      <4> QED
        BY <4>4, <4>5
    <3> QED
      BY <3>1, <3>2, <3>3 DEF CrawlIsExhaustive, WebOK, CrawlOK
  <2>2. WebBudgetsHold
    <3>1. Len(probed) <= MaxProbes /\ Range(probed) \subseteq Range(GoodPages)
      <4>1. probed \in Seq(Urls) /\ DOMAIN probed = 1 .. Len(probed)
        BY DEF WebOK, ProbesOK
      <4>2. \A x \in Range(probed) : \E i \in 1 .. Len(probed) : x = probed[i]
        BY <4>1 DEF Range
      <4> QED
        BY <4>2 DEF WebOK, ProbesOK
    <3>2. dastUsed <= MaxDast
      <4>1. /\ Len(corsPairs) \in Nat /\ Len(corsPairs) <= CorsTargets
            /\ dastUsed = 2 * Len(corsPairs) - (IF HalfPair THEN 1 ELSE 0)
        BY DEF WebOK, DastOK
      <4> QED
        BY <4>1, LimitsTyped
    <3> QED
      BY <3>1, <3>2 DEF WebBudgetsHold, WebOK, BrowserOK, WorkflowOK, Completed
  <2>3. CorsIsCarriedThrough
    <3>1. DOMAIN corsPairs = 1 .. Len(corsPairs)
      BY DEF WebOK, DastOK
    <3> QED
      BY <3>1 DEF CorsIsCarriedThrough, WebOK, DastOK, TargetsOK, AfterCors
  <2> QED
    BY <2>1, <2>2, <2>3 DEF WebAssessmentIsBounded
<1>2. WebInit => WebOK
  BY WebInitOK
<1>3. WebOK /\ [WebNext]_webVars => WebOK'
  BY WebStep
<1> QED
  BY <1>1, <1>2, <1>3, PTL DEF WebSpec

-----------------------------------------------------------------------------
(***************************************************************************)
(* The policy compiler. Networks are aligned blocks of addresses: what is  *)
(* left when one is taken out of another is a union of blocks, for         *)
(* addresses of any width.                                                 *)
(***************************************************************************)
Bits == 0 .. AddressBits

LEMMA SizeTable ==
    /\ Size[0] = 1
    /\ \A b \in Bits : Size[b] \in Nat \ {0}
    /\ \A b \in Bits : b # 0 => Size[b] = 2 * Size[b - 1]
<1> DEFINE P(f) == f = [b \in 0 .. AddressBits |-> IF b = 0 THEN 1 ELSE 2 * f[b - 1]]
           V == Nat \ {0}
           G == [b \in 1 .. AddressBits |-> [v \in V |-> 2 * v]]
<1>1. G \in [1 .. AddressBits -> [V -> V]] /\ 1 \in V
  OBVIOUS
<1>2. \A b \in 1 .. AddressBits, v \in V : G[b][v] = 2 * v
  OBVIOUS
<1> HIDE DEF G, V
<1>3. PICK f \in [0 .. AddressBits -> V] : Follows(f, AddressBits, 1, G)
  BY <1>1, CompilerAssumption, Recursion
<1>4. ASSUME NEW b \in 0 .. AddressBits PROVE f[b] = IF b = 0 THEN 1 ELSE 2 * f[b - 1]
  <2>1. CASE b = 0
    BY <1>3, <2>1 DEF Follows
  <2>2. CASE b # 0
    <3>1. b \in 1 .. AddressBits /\ b - 1 \in 0 .. AddressBits
      BY <2>2, CompilerAssumption
    <3>2. f[b] = G[b][f[b - 1]] /\ f[b - 1] \in V
      BY <1>3, <3>1 DEF Follows
    <3> QED
      BY <1>2, <2>2, <3>1, <3>2
  <2> QED
    BY <2>1, <2>2
<1>5. P(f)
  BY <1>3, <1>4
<1>6. Size = CHOOSE g : P(g)
  BY DEF Size
<1>7. P(Size)
  <2> HIDE DEF P
  <2> QED BY <1>5, <1>6
<1>8. \A b \in Bits : Size[b] = IF b = 0 THEN 1 ELSE 2 * Size[b - 1]
  BY <1>7 DEF Bits
<1>9. ASSUME NEW n \in Nat PROVE n \in Bits => Size[n] = f[n]
  <2> DEFINE T == {m \in Nat : m \in Bits => Size[m] = f[m]}
  <2>1. 0 \in T
    BY <1>4, <1>8, CompilerAssumption DEF Bits
  <2>2. ASSUME NEW m \in Nat, m \in T PROVE m + 1 \in T
    <3> SUFFICES ASSUME m + 1 \in Bits PROVE Size[m + 1] = f[m + 1]
      OBVIOUS
    <3>1. m \in Bits /\ m + 1 # 0 /\ (m + 1) - 1 = m
      BY CompilerAssumption DEF Bits
    <3>2. Size[m + 1] = 2 * Size[m] /\ f[m + 1] = 2 * f[m]
      BY <1>4, <1>8, <3>1 DEF Bits
    <3> QED
      BY <2>2, <3>1, <3>2
  <2>3. Nat \subseteq T
    <3> HIDE DEF T
    <3> QED BY <2>1, <2>2, Induction
  <2> QED
    BY <2>3
<1>10. \A b \in Bits : Size[b] \in Nat \ {0}
  <2> SUFFICES ASSUME NEW b \in Bits PROVE Size[b] \in Nat \ {0}
    OBVIOUS
  <2>1. b \in Nat /\ b \in 0 .. AddressBits
    BY CompilerAssumption DEF Bits
  <2>2. f[b] \in V
    BY <1>3, <2>1
  <2> QED
    BY <1>9, <2>1, <2>2 DEF V
<1> HIDE DEF P
<1>11. 0 \in Bits
  BY CompilerAssumption DEF Bits
<1>12. Size[0] = 1
  BY <1>8, <1>11
<1>13. \A b \in Bits : b # 0 => Size[b] = 2 * Size[b - 1]
  BY <1>8
<1> QED
  BY <1>10, <1>12, <1>13

-----------------------------------------------------------------------------
\* The number of the block of 2^b addresses that holds address x.
Block(x, b) == x \div Size[b]

LEMMA Division ==
    ASSUME NEW s \in Nat \ {0}
    PROVE  /\ \A x \in Nat : x \div s \in Nat /\ (x \div s) * s <= x /\ x < (x \div s) * s + s
           /\ \A q \in Nat : (q * s) \in Nat /\ (q * s) \div s = q
           /\ \A x \in Nat : (x + s) \div s = (x \div s) + 1
           /\ \A x \in Nat : x \div (2 * s) = (x \div s) \div 2
           /\ \A q, x \in Nat : q * s <= x /\ x < q * s + s => x \div s = q
<1>1. ASSUME NEW x \in Nat PROVE x \div s \in Nat /\ (x \div s) * s <= x /\ x < (x \div s) * s + s
  OBVIOUS
<1>2. ASSUME NEW q \in Nat PROVE (q * s) \in Nat /\ (q * s) \div s = q
  OBVIOUS
<1>3. ASSUME NEW x \in Nat PROVE (x + s) \div s = (x \div s) + 1
  OBVIOUS
<1>4. ASSUME NEW x \in Nat PROVE x \div (2 * s) = (x \div s) \div 2
  OBVIOUS
<1>5. ASSUME NEW q \in Nat, NEW x \in Nat, q * s <= x, x < q * s + s PROVE x \div s = q
  <2>1. PICK r \in Nat : r = x - q * s
    BY <1>2, <1>5
  <2>2. r < s /\ x = q * s + r
    BY <1>2, <1>5, <2>1
  <2> QED
    BY <2>2
<1> QED
  BY <1>1, <1>2, <1>3, <1>4, <1>5

LEMMA BlockNat == ASSUME NEW x \in Nat, NEW b \in Bits PROVE Block(x, b) \in Nat
BY SizeTable, Division DEF Block

LEMMA BlockZero == ASSUME NEW x \in Nat PROVE 0 \in Bits /\ Block(x, 0) = x
BY SizeTable, CompilerAssumption DEF Block, Bits

\* Two blocks make one of the next size.
LEMMA BlockHalves ==
    ASSUME NEW x \in Nat, NEW b \in Bits, b + 1 \in Bits
    PROVE  Block(x, b + 1) = Block(x, b) \div 2
<1>1. b + 1 # 0 /\ (b + 1) - 1 = b
  BY CompilerAssumption DEF Bits
<1>2. Size[b + 1] = 2 * Size[b] /\ Size[b] \in Nat \ {0}
  BY <1>1, SizeTable
<1> QED
  BY <1>2, Division DEF Block

\* Addresses in one block are in one block of any larger size.
LEMMA Coarser ==
    ASSUME NEW x \in Nat, NEW y \in Nat, NEW b \in Bits, NEW m \in Bits, b <= m,
           Block(x, b) = Block(y, b)
    PROVE  Block(x, m) = Block(y, m)
<1> DEFINE T == {d \in Nat : b + d \in Bits => Block(x, b + d) = Block(y, b + d)}
<1>1. b \in Nat /\ m \in Nat
  BY CompilerAssumption DEF Bits
<1>2. 0 \in T
  BY <1>1
<1>3. ASSUME NEW d \in Nat, d \in T PROVE d + 1 \in T
  <2> SUFFICES ASSUME b + (d + 1) \in Bits PROVE Block(x, b + (d + 1)) = Block(y, b + (d + 1))
    OBVIOUS
  <2>1. b + d \in Bits /\ b + (d + 1) = (b + d) + 1
    BY <1>1, CompilerAssumption DEF Bits
  <2>2. Block(x, b + d) = Block(y, b + d)
    BY <1>3, <2>1
  <2> HIDE DEF T
  <2>3. PICK c \in Bits : c = b + d
    BY <2>1
  <2>4. Block(x, c + 1) = Block(x, c) \div 2 /\ Block(y, c + 1) = Block(y, c) \div 2
    BY <2>1, <2>3, BlockHalves
  <2> QED
    BY <2>1, <2>2, <2>3, <2>4
<1>4. m - b \in T
  <2>1. m - b \in Nat
    BY <1>1
  <2> HIDE DEF T
  <2> QED BY <1>2, <1>3, <2>1, Induction
<1> QED
  BY <1>1, <1>4

-----------------------------------------------------------------------------
\* Networks as records with an aligned base.
Networks == {n \in [type : {"network"}, version : {0, 4, 6}, base : Nat, bits : Bits] : NetworkOf(n) = n}

\* SubnetOf and Overlaps in terms of blocks.
LEMMA SubnetBlocks ==
    \A i, o : SubnetOf(i, o) <=> /\ i.version = o.version /\ i.bits <= o.bits
                                 /\ Block(i.base, o.bits) = Block(o.base, o.bits)
BY DEF SubnetOf, Block

\* The base of a network is the first address of its block.
LEMMA NetworkTyped ==
    ASSUME NEW r, NEW types, r \in [type : types, version : {0, 4, 6}, base : Nat, bits : Bits]
    PROVE  /\ NetworkOf(r) \in Networks
           /\ NetworkOf(r).version = r.version /\ NetworkOf(r).bits = r.bits
           /\ NetworkOf(r).base = Block(r.base, r.bits) * Size[r.bits]
           /\ Block(NetworkOf(r).base, r.bits) = Block(r.base, r.bits)
<1> DEFINE b == Block(r.base, r.bits) * Size[r.bits]
<1>1. r.bits \in Bits /\ r.base \in Nat /\ Block(r.base, r.bits) \in Nat /\ Size[r.bits] \in Nat \ {0}
  BY SizeTable, BlockNat
<1>2. b \in Nat /\ b \div Size[r.bits] = Block(r.base, r.bits)
  BY <1>1, Division, ZenonT(60)
<1>3. NetworkOf(r) = [r EXCEPT !.type = "network", !.base = b]
  BY DEF NetworkOf, Block
<1> HIDE DEF b
<1>4. /\ NetworkOf(r) \in [type : {"network"}, version : {0, 4, 6}, base : Nat, bits : Bits]
      /\ NetworkOf(r).version = r.version /\ NetworkOf(r).bits = r.bits /\ NetworkOf(r).base = b
  BY <1>1, <1>2, <1>3
<1>5. Block(b, r.bits) = Block(r.base, r.bits)
  BY <1>2 DEF Block
<1>6. NetworkOf(NetworkOf(r)) = NetworkOf(r)
  <2>1. PICK n \in [type : {"network"}, version : {0, 4, 6}, base : Nat, bits : Bits] :
            n = NetworkOf(r) /\ n.base = b /\ n.bits = r.bits
    BY <1>4
  <2>2. (n.base \div Size[n.bits]) * Size[n.bits] = b
    BY <1>2, <2>1 DEF b
  <2>3. NetworkOf(n) = [n EXCEPT !.type = "network", !.base = b]
    BY <2>2 DEF NetworkOf
  <2>4. [n EXCEPT !.type = "network", !.base = b] = n
    BY <2>1
  <2> QED
    BY <2>1, <2>3, <2>4
<1> QED
  BY <1>4, <1>5, <1>6 DEF Networks, b

LEMMA NetworkBase ==
    ASSUME NEW n \in Networks
    PROVE  /\ n.type = "network" /\ n.version \in {0, 4, 6} /\ n.base \in Nat /\ n.bits \in Bits
           /\ n.base = Block(n.base, n.bits) * Size[n.bits]
           /\ NetworkOf(n) = n
<1>1. n \in [type : {"network"}, version : {0, 4, 6}, base : Nat, bits : Bits] /\ NetworkOf(n) = n
  BY DEF Networks
<1>2. NetworkOf(n).base = Block(n.base, n.bits) * Size[n.bits]
  BY <1>1, NetworkTyped
<1> QED
  BY <1>1, <1>2

\* Two networks are nested or have no address in common.
LEMMA SubnetTransitive ==
    ASSUME NEW x \in Networks, NEW y \in Networks, NEW z \in Networks, SubnetOf(x, y), SubnetOf(y, z)
    PROVE  SubnetOf(x, z)
<1>1. /\ x.base \in Nat /\ y.base \in Nat /\ y.bits \in Bits /\ z.bits \in Bits /\ x.bits \in Bits
      /\ x.version = z.version /\ x.bits <= y.bits /\ y.bits <= z.bits
      /\ Block(x.base, y.bits) = Block(y.base, y.bits)
      /\ Block(y.base, z.bits) = Block(z.base, z.bits)
  BY NetworkBase, SubnetBlocks
<1>2. Block(x.base, z.bits) = Block(y.base, z.bits)
  BY <1>1, Coarser
<1>3. x.bits <= z.bits
  BY <1>1, CompilerAssumption DEF Bits
<1> QED
  BY <1>1, <1>2, <1>3, SubnetBlocks

LEMMA SubnetsNest ==
    ASSUME NEW x \in Networks, NEW y \in Networks, NEW z \in Networks, SubnetOf(x, y), SubnetOf(x, z)
    PROVE  Overlaps(y, z)
<1>1. /\ x.base \in Nat /\ y.base \in Nat /\ z.base \in Nat /\ y.bits \in Bits /\ z.bits \in Bits
      /\ x.version = y.version /\ x.version = z.version
      /\ Block(x.base, y.bits) = Block(y.base, y.bits)
      /\ Block(x.base, z.bits) = Block(z.base, z.bits)
  BY NetworkBase, SubnetBlocks
<1>2. CASE y.bits <= z.bits
  <2>1. Block(x.base, z.bits) = Block(y.base, z.bits)
    BY <1>1, <1>2, Coarser
  <2>2. SubnetOf(y, z)
    BY <1>1, <1>2, <2>1, SubnetBlocks
  <2> QED
    BY <2>2 DEF Overlaps
<1>3. CASE z.bits <= y.bits
  <2>1. Block(x.base, y.bits) = Block(z.base, y.bits)
    BY <1>1, <1>3, Coarser
  <2>2. SubnetOf(z, y)
    BY <1>1, <1>3, <2>1, SubnetBlocks
  <2> QED
    BY <2>2 DEF Overlaps
<1> QED
  BY <1>1, <1>2, <1>3, CompilerAssumption DEF Bits

\* The other half of the network of one bit more.
LEMMA BuddyBlock ==
    ASSUME NEW n \in Networks, NEW b \in Bits, b < AddressBits
    PROVE  LET buddy == Buddy(Around(n, b))
               q == Block(n.base, b)
           IN  /\ buddy \in Networks /\ buddy.version = n.version /\ buddy.bits = b
               /\ Block(buddy.base, b) = IF q % 2 = 0 THEN q + 1 ELSE q - 1
<1> DEFINE q == Block(n.base, b)
           s == Size[b]
           a == Around(n, b)
           base == IF q % 2 = 0 THEN q * s + s ELSE q * s - s
           p == IF q % 2 = 0 THEN q + 1 ELSE q - 1
<1>1. n \in [type : {"network"}, version : {0, 4, 6}, base : Nat, bits : Bits]
  BY DEF Networks
<1>2. q \in Nat /\ s \in Nat \ {0}
  BY <1>1, SizeTable, BlockNat
<1>3. q * s \in Nat /\ (q * s) \div s = q
  BY <1>2, Division
<1>4. a = [n EXCEPT !.base = q * s, !.bits = b]
  BY DEF Around, Block
<1> HIDE DEF q, s, a
<1>5. /\ a \in [type : {"network"}, version : {0, 4, 6}, base : Nat, bits : Bits]
      /\ a.base = q * s /\ a.bits = b /\ a.version = n.version
  BY <1>1, <1>3, <1>4
<1>6. Buddy(a) = [a EXCEPT !.base = base]
  BY <1>3, <1>5 DEF Buddy, s
<1>7. p \in Nat /\ base = p * s
  <2>1. CASE q % 2 = 0
    BY <1>2, <2>1
  <2>2. CASE q % 2 # 0
    <3>1. q # 0
      BY <1>2, <2>2
    <3>2. PICK m \in Nat : q = m + 1
      <4>1. q - 1 \in Nat /\ q = (q - 1) + 1
        BY <1>2, <3>1
      <4> QED
        BY <4>1
    <3>3. q * s = m * s + s /\ m * s \in Nat
      BY <1>2, <3>2
    <3> QED
      BY <1>2, <2>2, <3>2, <3>3
  <2> QED
    BY <2>1, <2>2
<1> HIDE DEF base, p
<1>8. base \in Nat /\ base \div s = p /\ p * s = base
  <2>1. (p * s) \in Nat /\ (p * s) \div s = p
    BY <1>2, <1>7, Division
  <2> QED
    BY <1>7, <2>1
<1>9. /\ Buddy(a) \in [type : {"network"}, version : {0, 4, 6}, base : Nat, bits : Bits]
      /\ Buddy(a).base = base /\ Buddy(a).bits = b /\ Buddy(a).version = n.version
  BY <1>5, <1>6, <1>8
<1>10. NetworkOf(Buddy(a)) = Buddy(a)
  <2>1. PICK m \in [type : {"network"}, version : {0, 4, 6}, base : Nat, bits : Bits] :
            m = Buddy(a) /\ m.base = base /\ m.bits = b
    BY <1>9
  <2>2. (m.base \div Size[m.bits]) * Size[m.bits] = base
    BY <1>8, <2>1 DEF s
  <2>3. NetworkOf(m) = [m EXCEPT !.type = "network", !.base = base]
    BY <2>2 DEF NetworkOf
  <2>4. [m EXCEPT !.type = "network", !.base = base] = m
    BY <2>1
  <2> QED
    BY <2>1, <2>3, <2>4
<1>11. Block(base, b) = p
  BY <1>8 DEF Block, s
<1> QED
  BY <1>9, <1>10, <1>11 DEF Networks, a, p, q

LEMMA Halves ==
    ASSUME NEW x \in Nat, NEW y \in Nat
    PROVE  (x # y /\ x \div 2 = y \div 2) <=> (y = IF x % 2 = 0 THEN x + 1 ELSE x - 1)
OBVIOUS

LEMMA Least == ASSUME NEW T, T \subseteq Nat, T # {} PROVE \E k \in T : \A j \in T : k <= j
<1>1. PICK k \in T : \A j \in T : ~(<<j, k>> \in OpToRel(<, Nat))
  BY NatLessThanWellFounded, WFMin
<1>2. \A j \in T : ~(j < k)
  BY <1>1 DEF OpToRel
<1> QED
  BY <1>2

\* subtract_network leaves pieces that hold exactly the networks inside the allowed
\* one that the excluded one does not touch.
LEMMA SubtractNetwork ==
    ASSUME NEW p \in Networks, NEW n \in Networks, NEW t \in Networks
    PROVE  /\ subtract_network(p, n) \subseteq Networks
           /\ (\E q \in subtract_network(p, n) : SubnetOf(t, q)) <=> (SubnetOf(t, p) /\ ~Overlaps(t, n))
<1>t. /\ p.base \in Nat /\ n.base \in Nat /\ t.base \in Nat
      /\ p.bits \in Bits /\ n.bits \in Bits /\ t.bits \in Bits
      /\ p.bits \in Nat /\ n.bits \in Nat /\ t.bits \in Nat
  BY NetworkBase, CompilerAssumption DEF Bits
<1>1. CASE ~Overlaps(p, n)
  <2>1. subtract_network(p, n) = {p}
    BY <1>1 DEF subtract_network
  <2>2. SubnetOf(t, p) => ~Overlaps(t, n)
    <3>1. SubnetOf(t, p) /\ SubnetOf(t, n) => Overlaps(p, n)
      BY SubnetsNest
    <3>2. SubnetOf(t, p) /\ SubnetOf(n, t) => Overlaps(p, n)
      BY SubnetTransitive DEF Overlaps
    <3> QED
      BY <1>1, <3>1, <3>2 DEF Overlaps
  <2> QED
    BY <2>1, <2>2
<1>2. CASE Overlaps(p, n) /\ SubnetOf(p, n)
  <2>1. subtract_network(p, n) = {}
    BY <1>2 DEF subtract_network
  <2>2. SubnetOf(t, p) => SubnetOf(t, n)
    BY <1>2, SubnetTransitive
  <2> QED
    BY <2>1, <2>2 DEF Overlaps
<1>3. CASE Overlaps(p, n) /\ ~SubnetOf(p, n)
  <2>1. subtract_network(p, n) = {Buddy(Around(n, b)) : b \in n.bits .. p.bits - 1}
    BY <1>3 DEF subtract_network, address_exclude
  <2>2. /\ SubnetOf(n, p) /\ n.version = p.version /\ n.bits <= p.bits
        /\ Block(n.base, p.bits) = Block(p.base, p.bits)
    BY <1>3, SubnetBlocks DEF Overlaps
  <2>3. n.bits # p.bits
    BY <1>3, <2>2, SubnetBlocks
  <2>4. ASSUME NEW b \in n.bits .. p.bits - 1
        PROVE  /\ b \in Bits /\ b + 1 \in Bits /\ b \in Nat /\ b < AddressBits /\ n.bits <= b /\ b + 1 <= p.bits
    BY <1>t, CompilerAssumption DEF Bits
  <2>5. ASSUME NEW b \in n.bits .. p.bits - 1
        PROVE  /\ Buddy(Around(n, b)) \in Networks
               /\ Buddy(Around(n, b)).version = n.version /\ Buddy(Around(n, b)).bits = b
               /\ Block(n.base, b) \in Nat /\ Block(Buddy(Around(n, b)).base, b) \in Nat
               /\ Block(Buddy(Around(n, b)).base, b)
                    = IF Block(n.base, b) % 2 = 0 THEN Block(n.base, b) + 1 ELSE Block(n.base, b) - 1
    <3>1. b \in Bits /\ b < AddressBits
      BY <2>4
    <3>2. Buddy(Around(n, b)) \in Networks
      BY <3>1, BuddyBlock
    <3>3. Buddy(Around(n, b)).base \in Nat
      BY <3>2, NetworkBase
    <3> QED
      BY <1>t, <3>1, <3>2, <3>3, BuddyBlock, BlockNat
  <2>6. subtract_network(p, n) \subseteq Networks
    BY <2>1, <2>5
  <2>7. ASSUME NEW q \in subtract_network(p, n), SubnetOf(t, q)
        PROVE  SubnetOf(t, p) /\ ~Overlaps(t, n)
    <3>1. PICK b \in n.bits .. p.bits - 1 : q = Buddy(Around(n, b))
      BY <2>1, <2>7
    <3>2. /\ t.version = n.version /\ t.bits <= b /\ b \in Bits /\ b + 1 \in Bits /\ b + 1 <= p.bits /\ n.bits <= b
          /\ b \in Nat /\ Block(t.base, b) = Block(q.base, b)
      BY <2>4, <2>5, <2>7, <3>1, SubnetBlocks
    <3>3. Block(n.base, b) # Block(t.base, b) /\ Block(n.base, b) \div 2 = Block(t.base, b) \div 2
      BY <2>5, <3>1, <3>2, Halves
    <3>4. Block(n.base, b + 1) = Block(t.base, b + 1)
      BY <1>t, <3>2, <3>3, BlockHalves
    <3>5. Block(n.base, p.bits) = Block(t.base, p.bits)
      BY <1>t, <3>2, <3>4, Coarser
    <3>6. SubnetOf(t, p)
      <4>1. t.bits <= p.bits
        BY <1>t, <3>2
      <4> QED
        BY <2>2, <3>2, <3>5, <4>1, SubnetBlocks
    <3>7. ~SubnetOf(t, n)
      BY <1>t, <3>2, <3>3, Coarser, SubnetBlocks
    <3>8. ~SubnetOf(n, t)
      BY <1>t, <3>2, <3>3, Coarser, SubnetBlocks
    <3> QED
      BY <3>6, <3>7, <3>8 DEF Overlaps
  <2>8. ASSUME SubnetOf(t, p), ~Overlaps(t, n)
        PROVE  \E q \in subtract_network(p, n) : SubnetOf(t, q)
    <3> DEFINE T == {k \in Bits : /\ t.bits <= k /\ n.bits <= k /\ Block(t.base, k) = Block(n.base, k)}
    <3>1. t.version = n.version /\ p.bits \in T
      BY <1>t, <2>2, <2>8, SubnetBlocks
    <3>2. T \subseteq Nat
      BY CompilerAssumption DEF Bits
    <3>3. PICK k \in T : \A j \in T : k <= j
      <4> HIDE DEF T
      <4> QED BY <3>1, <3>2, Least
    <3>4. /\ k \in Bits /\ k \in Nat /\ k <= p.bits /\ t.bits <= k /\ n.bits <= k
          /\ Block(t.base, k) = Block(n.base, k)
      BY <3>1, <3>2, <3>3
    <3>5. k # t.bits
      BY <2>8, <3>1, <3>4, SubnetBlocks DEF Overlaps
    <3>6. k # n.bits
      BY <2>8, <3>1, <3>4, SubnetBlocks DEF Overlaps
    <3>7. PICK b \in n.bits .. p.bits - 1 : k = b + 1 /\ t.bits <= b
      <4>1. k - 1 \in n.bits .. p.bits - 1 /\ k = (k - 1) + 1 /\ t.bits <= k - 1
        BY <1>t, <3>4, <3>5, <3>6
      <4> QED
        BY <4>1
    <3>8. b \in Bits /\ b + 1 \in Bits /\ b \in Nat /\ n.bits <= b /\ ~(b + 1 <= b)
      BY <2>4
    <3>9. Block(n.base, b) # Block(t.base, b)
      BY <3>3, <3>7, <3>8
    <3>10. Block(n.base, b) \div 2 = Block(t.base, b) \div 2
      BY <1>t, <3>4, <3>7, <3>8, BlockHalves
    <3>11. Block(n.base, b) \in Nat /\ Block(t.base, b) \in Nat
      BY <1>t, <3>8, BlockNat
    <3> DEFINE q == Buddy(Around(n, b))
    <3> HIDE DEF T
    <3>12. q.version = n.version /\ q.bits = b /\ Block(q.base, b) = Block(t.base, b)
      <4>1. Block(t.base, b) = IF Block(n.base, b) % 2 = 0 THEN Block(n.base, b) + 1 ELSE Block(n.base, b) - 1
        BY <3>9, <3>10, <3>11, Halves
      <4> QED
        BY <2>5, <4>1
    <3>13. q \in subtract_network(p, n)
      BY <2>1
    <3>14. SubnetOf(t, q)
      BY <3>1, <3>7, <3>12, SubnetBlocks
    <3> QED
      BY <3>13, <3>14
  <2> QED
    BY <2>6, <2>7, <2>8
<1> QED
  BY <1>1, <1>2, <1>3

-----------------------------------------------------------------------------
LEMMA NoRemainder == ASSUME NEW x \in Nat, NEW b \in Bits PROVE
    Block(x, b) * Size[b] <= x /\ x < Block(x, b) * Size[b] + Size[b]
BY SizeTable, Division DEF Block

\* The addresses of a network are those of its block.
LEMMA BlockAddresses ==
    ASSUME NEW n \in Networks
    PROVE  \A x : x \in AddressesOf(n) <=>
                \E a \in Nat : x = <<n.version, a>> /\ Block(a, n.bits) = Block(n.base, n.bits)
<1> DEFINE q == Block(n.base, n.bits)
           s == Size[n.bits]
<1>1. n.type = "network" /\ n.base \in Nat /\ n.bits \in Bits /\ n.base = q * s /\ NetworkOf(n) = n
  BY NetworkBase
<1>2. q \in Nat /\ s \in Nat \ {0}
  BY <1>1, BlockNat, SizeTable
<1>3. AddressesOf(n) = {<<n.version, a>> : a \in n.base .. n.base + s - 1}
  BY <1>1 DEF AddressesOf
<1>4. ASSUME NEW a \in n.base .. n.base + s - 1 PROVE a \in Nat /\ Block(a, n.bits) = q
  <2>1. a \in Nat /\ n.base <= a /\ a < n.base + s
    BY <1>1, <1>2
  <2> HIDE DEF q, s
  <2>2. q * s <= a /\ a < q * s + s
    BY <1>1, <2>1
  <2>3. a \div s = q
    BY <1>2, <2>1, <2>2, Division
  <2> QED
    BY <2>1, <2>3 DEF Block, s
<1>5. ASSUME NEW a \in Nat, Block(a, n.bits) = q PROVE a \in n.base .. n.base + s - 1
  <2>1. q * s <= a /\ a < q * s + s
    BY <1>1, <1>5, NoRemainder
  <2> HIDE DEF q, s
  <2> QED
    BY <1>1, <1>2, <2>1
<1> HIDE DEF s
<1> QED
  BY <1>3, <1>4, <1>5

\* All addresses of one network are addresses of another iff it is a subnet of it.
LEMMA AddressesInside ==
    ASSUME NEW n \in Networks, NEW o \in Networks
    PROVE  AddressesOf(n) \subseteq AddressesOf(o) <=> SubnetOf(n, o)
<1>1. /\ n.base \in Nat /\ n.bits \in Bits /\ n.bits \in Nat
      /\ o.base \in Nat /\ o.bits \in Bits /\ o.bits \in Nat
  BY NetworkBase, CompilerAssumption DEF Bits
<1>2. ASSUME SubnetOf(n, o), NEW x \in AddressesOf(n) PROVE x \in AddressesOf(o)
  <2>1. PICK a \in Nat : x = <<n.version, a>> /\ Block(a, n.bits) = Block(n.base, n.bits)
    BY <1>2, BlockAddresses
  <2>2. n.version = o.version /\ n.bits <= o.bits /\ Block(n.base, o.bits) = Block(o.base, o.bits)
    BY <1>2, SubnetBlocks
  <2>3. Block(a, o.bits) = Block(n.base, o.bits)
    BY <1>1, <2>1, <2>2, Coarser
  <2> QED
    BY <2>1, <2>2, <2>3, BlockAddresses
<1>3. ASSUME AddressesOf(n) \subseteq AddressesOf(o) PROVE SubnetOf(n, o)
  <2>1. <<n.version, n.base>> \in AddressesOf(n)
    BY <1>1, BlockAddresses
  <2>2. PICK a \in Nat : <<n.version, n.base>> = <<o.version, a>> /\ Block(a, o.bits) = Block(o.base, o.bits)
    BY <1>3, <2>1, BlockAddresses
  <2>3. n.version = o.version /\ Block(n.base, o.bits) = Block(o.base, o.bits)
    BY <2>2
  <2>4. CASE n.bits <= o.bits
    BY <2>3, <2>4, SubnetBlocks
  <2>5. CASE ~(n.bits <= o.bits)
    <3> DEFINE b == o.bits
               c == Buddy(Around(o, b)).base
               q == Block(o.base, b)
    <3>1. b \in Bits /\ b + 1 \in Bits /\ b < AddressBits /\ b + 1 <= n.bits /\ b <= n.bits
      BY <1>1, <2>5, CompilerAssumption DEF Bits
    <3>2. c \in Nat /\ Block(c, b) = IF q % 2 = 0 THEN q + 1 ELSE q - 1
      BY <3>1, BuddyBlock, NetworkBase
    <3>3. q \in Nat /\ Block(c, b) \in Nat
      BY <1>1, <3>2, BlockNat
    <3> HIDE DEF b, c, q
    <3>4. q # Block(c, b) /\ q \div 2 = Block(c, b) \div 2
      BY <3>2, <3>3, Halves
    <3>5. Block(o.base, b + 1) = Block(c, b + 1)
      BY <1>1, <3>1, <3>2, <3>4, BlockHalves DEF q
    <3>6. Block(o.base, n.bits) = Block(c, n.bits)
      BY <1>1, <3>1, <3>2, <3>5, Coarser
    <3>7. Block(n.base, n.bits) = Block(o.base, n.bits)
      BY <1>1, <2>3, <3>1, Coarser DEF b
    <3>8. <<n.version, c>> \in AddressesOf(n)
      BY <3>2, <3>6, <3>7, BlockAddresses
    <3>9. PICK d \in Nat : <<n.version, c>> = <<o.version, d>> /\ Block(d, o.bits) = Block(o.base, o.bits)
      BY <1>3, <3>8, BlockAddresses
    <3>10. c = d
      BY <3>9
    <3> QED
      BY <3>4, <3>9, <3>10 DEF q, b
  <2> QED
    BY <2>4, <2>5
<1> QED
  BY <1>2, <1>3

LEMMA AddressesApart ==
    ASSUME NEW n \in Networks, NEW o \in Networks
    PROVE  AddressesOf(n) \cap AddressesOf(o) = {} <=> ~Overlaps(n, o)
<1>1. /\ n.base \in Nat /\ n.bits \in Bits /\ n.bits \in Nat
      /\ o.base \in Nat /\ o.bits \in Bits /\ o.bits \in Nat
  BY NetworkBase, CompilerAssumption DEF Bits
<1>2. <<n.version, n.base>> \in AddressesOf(n) /\ <<o.version, o.base>> \in AddressesOf(o)
  BY <1>1, BlockAddresses
<1>3. ASSUME Overlaps(n, o) PROVE AddressesOf(n) \cap AddressesOf(o) # {}
  BY <1>2, <1>3, AddressesInside DEF Overlaps
<1>4. ASSUME NEW x \in AddressesOf(n) \cap AddressesOf(o) PROVE Overlaps(n, o)
  <2>1. PICK a \in Nat : x = <<n.version, a>> /\ Block(a, n.bits) = Block(n.base, n.bits)
    BY <1>4, BlockAddresses
  <2>2. PICK c \in Nat : x = <<o.version, c>> /\ Block(c, o.bits) = Block(o.base, o.bits)
    BY <1>4, BlockAddresses
  <2>3. n.version = o.version /\ a = c
    BY <2>1, <2>2
  <2>4. CASE n.bits <= o.bits
    <3>1. Block(a, o.bits) = Block(n.base, o.bits)
      BY <1>1, <2>1, <2>4, Coarser
    <3> QED
      BY <2>2, <2>3, <2>4, <3>1, SubnetBlocks DEF Overlaps
  <2>5. CASE o.bits <= n.bits
    <3>1. Block(c, n.bits) = Block(o.base, n.bits)
      BY <1>1, <2>2, <2>5, Coarser
    <3> QED
      BY <2>1, <2>3, <2>5, <3>1, SubnetBlocks DEF Overlaps
  <2> QED
    BY <1>1, <2>4, <2>5
<1> QED
  BY <1>3, <1>4

-----------------------------------------------------------------------------
LEMMA Listed ==
    ASSUME NEW S, IsFiniteSet(S)
    PROVE  /\ Cardinality(S) \in Nat
           /\ SetToSeq(S) \in [1 .. Cardinality(S) -> S]
           /\ Len(SetToSeq(S)) = Cardinality(S)
           /\ \A x \in S : \E i \in 1 .. Cardinality(S) : SetToSeq(S)[i] = x
<1> DEFINE n == Cardinality(S)
           s == SetToSeq(S)
<1>1. n \in Nat /\ ExistsBijection(1 .. n, S)
  BY FS_CardinalityType
<1>2. PICK f \in Bijection(1 .. n, S) : TRUE
  BY <1>1 DEF ExistsBijection
<1>3. f \in [1 .. n -> S] /\ IsInjective(f)
  BY <1>2 DEF Bijection, Injection, IsInjective
<1>4. s \in [1 .. n -> S] /\ IsInjective(s)
  BY <1>3 DEF SetToSeq
<1> HIDE DEF s, n
<1>5. IsFiniteSet(1 .. n) /\ Cardinality(1 .. n) = n
  <2>1. 1 \in Int /\ n \in Int
    BY <1>1
  <2>2. IsFiniteSet(1 .. n) /\ Cardinality(1 .. n) = IF 1 > n THEN 0 ELSE n - 1 + 1
    BY <2>1, FS_Interval
  <2> QED
    BY <1>1, <2>2
<1>6. s \in Injection(1 .. n, S)
  BY <1>4 DEF Injection, IsInjective
<1>7. s \in Surjection(1 .. n, S)
  <2>1. Cardinality(1 .. n) = Cardinality(S)
    BY <1>5 DEF n
  <2> QED
    BY <1>6, <2>1, FS_Injection
<1>8. \A x \in S : \E i \in 1 .. n : s[i] = x
  BY <1>7 DEF Surjection
<1>9. Len(s) = n
  BY <1>1, <1>4
<1> QED
  BY <1>1, <1>4, <1>8, <1>9 DEF n, s

\* The pieces left of a network when a list of others is taken out of it one by one.
LEMMA RemainingPieces ==
    ASSUME NEW net \in Networks, NEW N \in Nat, NEW others \in [1 .. N -> Networks], Len(others) = N
    PROVE  /\ Remaining(net, others) \subseteq Networks
           /\ \A t \in Networks :
                (\E q \in Remaining(net, others) : SubnetOf(t, q)) <=>
                    SubnetOf(t, net) /\ \A i \in 1 .. N : ~Overlaps(t, others[i])
<1> DEFINE V == SUBSET Networks
           G == [i \in 1 .. N |-> [v \in V |-> UNION {subtract_network(p, others[i]) : p \in v}]]
           P(f) == f = [n \in 0 .. N |->
                    IF n = 0 THEN {net} ELSE UNION {subtract_network(p, others[n]) : p \in f[n - 1]}]
<1>1. \A i \in 1 .. N, v \in V : UNION {subtract_network(p, others[i]) : p \in v} \in V
  BY SubtractNetwork
<1>2. G \in [1 .. N -> [V -> V]] /\ {net} \in V
  BY <1>1
<1>3. \A i \in 1 .. N, v \in V : G[i][v] = UNION {subtract_network(p, others[i]) : p \in v}
  OBVIOUS
<1> HIDE DEF G, V
<1>4. PICK f \in [0 .. N -> V] : Follows(f, N, {net}, G)
  BY <1>2, Recursion
<1>5. ASSUME NEW n \in 0 .. N
      PROVE  f[n] = IF n = 0 THEN {net} ELSE UNION {subtract_network(p, others[n]) : p \in f[n - 1]}
  <2>1. CASE n = 0
    BY <1>4, <2>1 DEF Follows
  <2>2. CASE n # 0
    <3>1. n \in 1 .. N /\ n - 1 \in 0 .. N
      BY <2>2
    <3>2. f[n] = G[n][f[n - 1]] /\ f[n - 1] \in V
      BY <1>4, <3>1 DEF Follows
    <3> QED
      BY <1>3, <2>2, <3>1, <3>2
  <2> QED
    BY <2>1, <2>2
<1>6. P(f)
  BY <1>4, <1>5
<1>7. Remaining(net, others) = (CHOOSE g : P(g))[N]
  BY DEF Remaining
<1> DEFINE g == CHOOSE h : P(h)
<1>8. P(g)
  <2> HIDE DEF P
  <2> QED BY <1>6
<1>9. /\ g[0] = {net}
      /\ \A n \in 1 .. N : g[n] = UNION {subtract_network(p, others[n]) : p \in g[n - 1]}
  <2> HIDE DEF g
  <2>1. \A n \in 0 .. N : g[n] = IF n = 0 THEN {net}
                                 ELSE UNION {subtract_network(p, others[n]) : p \in g[n - 1]}
    <3> SUFFICES ASSUME NEW n \in 0 .. N
                 PROVE  g[n] = IF n = 0 THEN {net}
                               ELSE UNION {subtract_network(p, others[n]) : p \in g[n - 1]}
      OBVIOUS
    <3> QED BY <1>8
  <2>2. 0 \in 0 .. N /\ \A n \in 1 .. N : n \in 0 .. N /\ n # 0
    OBVIOUS
  <2>3. g[0] = {net}
    BY <2>1, <2>2
  <2>4. ASSUME NEW n \in 1 .. N PROVE g[n] = UNION {subtract_network(p, others[n]) : p \in g[n - 1]}
    BY <2>1, <2>2
  <2> QED
    BY <2>3, <2>4
<1> HIDE DEF g, P
<1> DEFINE Left(n) ==
            /\ g[n] \subseteq Networks
            /\ \A t \in Networks :
                (\E q \in g[n] : SubnetOf(t, q)) <=>
                    SubnetOf(t, net) /\ \A i \in 1 .. n : ~Overlaps(t, others[i])
           T == {n \in Nat : n <= N => Left(n)}
<1>10. 0 \in T
  BY <1>9
<1>11. ASSUME NEW n \in Nat, n \in T PROVE n + 1 \in T
  <2> SUFFICES ASSUME n + 1 <= N PROVE Left(n + 1)
    OBVIOUS
  <2>1. Left(n) /\ n + 1 \in 1 .. N /\ (n + 1) - 1 = n
    BY <1>11
  <2>2. g[n + 1] = UNION {subtract_network(p, others[n + 1]) : p \in g[n]}
    BY <1>9, <2>1
  <2>3. g[n] \subseteq Networks /\ others[n + 1] \in Networks
    BY <2>1
  <2>4. g[n + 1] \subseteq Networks
    BY <2>2, <2>3, SubtractNetwork
  <2>5. ASSUME NEW t \in Networks
        PROVE (\E q \in g[n + 1] : SubnetOf(t, q)) <=>
                 SubnetOf(t, net) /\ \A i \in 1 .. (n + 1) : ~Overlaps(t, others[i])
    <3>1. (\E q \in g[n + 1] : SubnetOf(t, q)) <=>
            \E p \in g[n] : \E q \in subtract_network(p, others[n + 1]) : SubnetOf(t, q)
      BY <2>2
    <3>2. (\E q \in g[n + 1] : SubnetOf(t, q)) <=>
            (\E p \in g[n] : SubnetOf(t, p)) /\ ~Overlaps(t, others[n + 1])
      BY <2>3, <3>1, SubtractNetwork
    <3>3. (\A i \in 1 .. (n + 1) : ~Overlaps(t, others[i])) <=>
            (\A i \in 1 .. n : ~Overlaps(t, others[i])) /\ ~Overlaps(t, others[n + 1])
      <4>1. \A i : i \in 1 .. (n + 1) <=> i \in 1 .. n \/ i = n + 1
        OBVIOUS
      <4> QED
        BY <4>1
    <3> QED
      BY <2>1, <3>2, <3>3
  <2> QED
    BY <2>4, <2>5
<1>12. Left(N)
  <2> HIDE DEF Left
  <2>1. Nat \subseteq T
    <3> HIDE DEF T
    <3> QED BY <1>10, <1>11, Induction
  <2> QED
    BY <2>1
<1>13. Remaining(net, others) = g[N]
  BY <1>7 DEF g
<1> QED
  BY <1>12, <1>13

-----------------------------------------------------------------------------
\* The networks of the rules that are not host names.
NetworksOf(rules) == {NetworkOf(e) : e \in {e \in rules : e.type # "host"}}
AnyRules == [type : {"host", "address", "network"}, version : {0, 4, 6}, base : Nat, bits : Bits]

LEMMA RuleTyped ==
    ASSUME NEW r \in ScopeRules
    PROVE  /\ r \in AnyRules
           /\ r.type = "address" => r.bits = 0
           /\ r.type # "host" => r.version \in {4, 6} /\ r.base < Size[AddressBits]
BY DEF ScopeRules, AnyRules, Bits

LEMMA RuleNetwork ==
    ASSUME NEW r \in AnyRules
    PROVE  /\ NetworkOf(r) \in Networks
           /\ NetworkOf(r).version = r.version /\ NetworkOf(r).bits = r.bits
           /\ Block(NetworkOf(r).base, r.bits) = Block(r.base, r.bits)
           /\ r.type # "host" => AddressesOf(r) = AddressesOf(NetworkOf(r))
<1>1. /\ NetworkOf(r) \in Networks
      /\ NetworkOf(r).version = r.version /\ NetworkOf(r).bits = r.bits
      /\ Block(NetworkOf(r).base, r.bits) = Block(r.base, r.bits)
  BY NetworkTyped DEF AnyRules
<1>2. NetworkOf(r).type = "network" /\ NetworkOf(NetworkOf(r)) = NetworkOf(r)
  BY <1>1, NetworkBase
<1> QED
  BY <1>1, <1>2 DEF AddressesOf

\* A record and its network have the same place among the networks.
LEMMA SameNetwork ==
    ASSUME NEW r \in AnyRules, NEW n \in Networks, r.bits = 0
    PROVE  SubnetOf(r, n) <=> SubnetOf(NetworkOf(r), n)
<1>1. /\ r.base \in Nat /\ n.base \in Nat /\ n.bits \in Bits /\ r.bits \in Bits /\ r.bits <= n.bits
      /\ NetworkOf(r).base \in Nat
  BY NetworkBase, RuleNetwork, CompilerAssumption DEF AnyRules, Bits
<1>2. Block(NetworkOf(r).base, n.bits) = Block(r.base, n.bits)
  BY <1>1, RuleNetwork, Coarser
<1> QED
  BY <1>2, RuleNetwork, SubnetBlocks

LEMMA FiniteNetworks ==
    ASSUME NEW X, X \subseteq ScopeRules, IsFiniteSet(X)
    PROVE  IsFiniteSet(NetworksOf(X)) /\ NetworksOf(X) \subseteq Networks
<1> DEFINE E == {e \in X : e.type # "host"}
           f == [e \in E |-> NetworkOf(e)]
<1>1. IsFiniteSet(E)
  BY FS_Subset
<1>2. f \in Surjection(E, NetworksOf(X))
  BY DEF Surjection, NetworksOf
<1>3. IsFiniteSet(NetworksOf(X))
  BY <1>1, <1>2, FS_Surjection
<1>4. NetworksOf(X) \subseteq Networks
  BY RuleTyped, RuleNetwork DEF NetworksOf
<1> QED
  BY <1>3, <1>4

\* Targets other than host names.
TargetRules ==
    {r \in AnyRules :
        /\ r.type # "host" /\ r.version \in {4, 6}
        /\ r.type = "address" => r.bits = 0
        /\ r.type = "network" => NetworkOf(r) = r}

LEMMA TargetTyped ==
    ASSUME NEW t \in TargetRules
    PROVE  /\ t \in AnyRules /\ t.type \in {"address", "network"} /\ t.version \in {4, 6}
           /\ t.type = "address" => t.bits = 0
           /\ t.type = "network" => NetworkOf(t) = t
<1>1. t \in AnyRules /\ t.type # "host" /\ t.version \in {4, 6}
  BY DEF TargetRules
<1>2. t.type \in {"address", "network"}
  BY <1>1 DEF AnyRules
<1>3. (t.type = "address" => t.bits = 0) /\ (t.type = "network" => NetworkOf(t) = t)
  BY DEF TargetRules
<1> QED
  BY <1>1, <1>2, <1>3

\* What an effective rule covers, in terms of the networks of rule and target.
Covered(rule, t, others) ==
    /\ rule.type # "host"
    /\ SubnetOf(NetworkOf(t), NetworkOf(rule))
    /\ t.type = "network" => rule.type = "network"
    /\ \A n \in others : ~Overlaps(NetworkOf(t), n)

LEMMA NetworkRule ==
    ASSUME NEW X, X \subseteq ScopeRules, IsFiniteSet(X),
           NEW rule \in ScopeRules, rule.type = "network", NEW t \in TargetRules
    PROVE  /\ EffectiveRules(rule, X) \subseteq Networks
           /\ \A q \in EffectiveRules(rule, X) : SubnetOf(q, NetworkOf(rule))
           /\ (\E r \in EffectiveRules(rule, X) : RuleMatches(r, t)) <=> Covered(rule, t, NetworksOf(X))
<1> DEFINE S == NetworksOf(X)
           n == Cardinality(S)
           others == SetToSeq(S)
           pieces == Remaining(NetworkOf(rule), others)
           tn == NetworkOf(t)
<1>1. IsFiniteSet(S) /\ S \subseteq Networks
  BY FiniteNetworks
<1>2. /\ n \in Nat /\ others \in [1 .. n -> S] /\ Len(others) = n
      /\ \A x \in S : \E i \in 1 .. n : others[i] = x
  BY <1>1, Listed
<1>3. EffectiveRules(rule, X) = pieces
  BY DEF EffectiveRules, NetworksOf
<1>4. NetworkOf(rule) \in Networks /\ tn \in Networks /\ t \in AnyRules
  BY RuleTyped, RuleNetwork DEF TargetRules
<1> HIDE DEF S, n, others
<1>5. others \in [1 .. n -> Networks]
  BY <1>1, <1>2
<1>6. /\ pieces \subseteq Networks
      /\ \A u \in Networks : (\E q \in pieces : SubnetOf(u, q)) <=>
            SubnetOf(u, NetworkOf(rule)) /\ \A i \in 1 .. n : ~Overlaps(u, others[i])
  BY <1>2, <1>4, <1>5, RemainingPieces
<1>7. (\A i \in 1 .. n : ~Overlaps(tn, others[i])) <=> (\A x \in S : ~Overlaps(tn, x))
  BY <1>2
<1> HIDE DEF pieces
<1>8. ASSUME NEW q \in pieces PROVE RuleMatches(q, t) <=> SubnetOf(tn, q)
  <2>1. q \in Networks /\ q.type = "network" /\ NetworkOf(q) = q
    BY <1>6, NetworkBase
  <2>2. CASE t.type = "address"
    <3>1. t.bits = 0
      BY <2>2, TargetTyped
    <3>2. SubnetOf(t, q) <=> SubnetOf(tn, q)
      BY <1>4, <2>1, <3>1, SameNetwork
    <3> QED
      BY <2>1, <2>2, <3>2 DEF RuleMatches
  <2>3. CASE t.type = "network"
    BY <2>1, <2>3 DEF RuleMatches
  <2> QED
    BY <2>2, <2>3, TargetTyped
<1>9. ASSUME NEW q \in pieces PROVE SubnetOf(q, NetworkOf(rule))
  <2>1. q \in Networks /\ SubnetOf(q, q)
    <3>1. q \in Networks
      BY <1>6
    <3>2. q.bits \in Nat
      BY <3>1, NetworkBase, CompilerAssumption DEF Bits
    <3> QED
      BY <3>1, <3>2, SubnetBlocks
  <2> QED
    BY <1>6, <2>1
<1>10. (\E r \in pieces : RuleMatches(r, t)) <=> Covered(rule, t, S)
  <2>1. (\E r \in pieces : RuleMatches(r, t)) <=> (\E r \in pieces : SubnetOf(tn, r))
    BY <1>8
  <2>2. (\E r \in pieces : SubnetOf(tn, r)) <=>
            SubnetOf(tn, NetworkOf(rule)) /\ \A x \in S : ~Overlaps(tn, x)
    BY <1>4, <1>6, <1>7
  <2> QED
    BY <2>1, <2>2 DEF Covered
<1> QED
  BY <1>3, <1>6, <1>9, <1>10 DEF S

LEMMA SingleAddress ==
    ASSUME NEW x \in Networks, NEW y \in Networks, SubnetOf(x, y), y.bits = 0
    PROVE  x = y
<1>1. x.base \in Nat /\ y.base \in Nat /\ x.bits \in Nat
  BY NetworkBase, CompilerAssumption DEF Bits
<1>2. x.bits = 0 /\ x.version = y.version /\ Block(x.base, 0) = Block(y.base, 0)
  BY <1>1, SubnetBlocks
<1>3. x.base = y.base
  BY <1>1, <1>2, BlockZero
<1>4. x.type = "network" /\ y.type = "network"
  BY NetworkBase
<1> QED
  BY <1>2, <1>3, <1>4 DEF Networks

LEMMA AddressRule ==
    ASSUME NEW X, X \subseteq ScopeRules, IsFiniteSet(X),
           NEW rule \in ScopeRules, rule.type = "address", NEW t \in TargetRules
    PROVE  /\ EffectiveRules(rule, X) \subseteq {rule}
           /\ (\E r \in EffectiveRules(rule, X) : RuleMatches(r, t)) <=> Covered(rule, t, NetworksOf(X))
<1> DEFINE S == NetworksOf(X)
           rn == NetworkOf(rule)
           tn == NetworkOf(t)
<1>1. S \subseteq Networks
  BY FiniteNetworks
<1>2. rn \in Networks /\ tn \in Networks /\ t \in AnyRules /\ rule \in AnyRules /\ rule.bits = 0 /\ rn.bits = 0
  BY RuleTyped, RuleNetwork DEF TargetRules
<1>3. EffectiveRules(rule, X) = IF \E n \in S : SubnetOf(rule, n) THEN {} ELSE {rule}
  BY DEF EffectiveRules, NetworksOf
<1>e. EffectiveRules(rule, X) \subseteq {rule}
  BY <1>3
<1> HIDE DEF S
<1>4. (\E n \in S : SubnetOf(rule, n)) <=> (\E n \in S : SubnetOf(rn, n))
  BY <1>1, <1>2, SameNetwork
<1>5. CASE t.type = "network"
  <2>1. ~RuleMatches(rule, t)
    BY <1>5 DEF RuleMatches
  <2> QED
    BY <1>3, <1>5, <2>1 DEF Covered, S
<1>6. CASE t.type = "address"
  <2>1. RuleMatches(rule, t) <=> SubnetOf(tn, rn)
    <3>1. t.bits = 0
      BY <1>6, TargetTyped
    <3>2. SubnetOf(t, rn) <=> SubnetOf(tn, rn)
      BY <1>2, <3>1, SameNetwork
    <3> QED
      BY <1>6, <3>2 DEF RuleMatches
  <2>2. CASE SubnetOf(tn, rn)
    <3>1. tn = rn
      BY <1>2, <2>2, SingleAddress
    <3>2. ASSUME NEW n \in S PROVE Overlaps(tn, n) <=> SubnetOf(rn, n)
      <4>1. SubnetOf(n, rn) => n = rn
        BY <1>1, <1>2, SingleAddress
      <4> QED
        BY <3>1, <4>1 DEF Overlaps
    <3> QED
      BY <1>3, <1>4, <1>6, <2>1, <2>2, <3>2 DEF Covered, S
  <2>3. CASE ~SubnetOf(tn, rn)
    BY <1>3, <2>1, <2>3 DEF Covered
  <2> QED
    BY <2>2, <2>3
<1> QED
  BY <1>5, <1>6, <1>e, TargetTyped

-----------------------------------------------------------------------------
LEMMA DefinitionTyped ==
    ASSUME NEW roe \in Definitions
    PROVE  /\ roe.allowed \subseteq ScopeRules /\ roe.excluded \subseteq ScopeRules
           /\ IsFiniteSet(roe.excluded) /\ roe.techniques \subseteq Techniques
           /\ roe.max_intrusiveness \in {"passive", "safe-active", "intrusive", "destructive"}
           /\ roe.valid_from \in Nat /\ roe.valid_until \in Nat /\ roe.max_actions \in Nat
BY CompilerAssumption

LEMMA CompilerTargetTyped ==
    ASSUME NEW t \in CompilerTargets
    PROVE  /\ t.type = "host" => t \in ScopeRules
           /\ t.type # "host" => t \in TargetRules
<1> DEFINE top == Size[AddressBits] - 1
<1>0. AddressBits \in Bits /\ 0 \in Bits /\ \A x \in 0 .. top : x \in Nat
  <2>1. AddressBits \in Bits /\ 0 \in Bits
    BY CompilerAssumption DEF Bits
  <2>2. top \in Int
    BY <2>1, SizeTable
  <2> QED
    BY <2>1, <2>2
<1>1. CASE \E roe \in Definitions : t \in roe.allowed \cup roe.excluded /\ t.type = "host"
  BY <1>1, DefinitionTyped
<1>2. CASE t \in [type : {"address"}, version : {4, 6}, base : 0 .. top, bits : {0}]
  BY <1>0, <1>2 DEF TargetRules, AnyRules
<1>3. CASE t \in [type : {"network"}, version : {4, 6}, base : 0 .. top, bits : 0 .. AddressBits]
           /\ t = NetworkOf(t)
  BY <1>0, <1>3 DEF TargetRules, AnyRules, Bits
<1> QED
  BY <1>1, <1>2, <1>3 DEF CompilerTargets

\* What becomes of one allowed rule covers a target iff the rule does and no excluded
\* network touches it.
LEMMA RuleCovers ==
    ASSUME NEW X, X \subseteq ScopeRules, IsFiniteSet(X),
           NEW rule \in ScopeRules, NEW t \in TargetRules
    PROVE  (\E r \in EffectiveRules(rule, X) : RuleMatches(r, t)) <=> Covered(rule, t, NetworksOf(X))
<1>1. CASE rule.type = "host"
  <2>1. EffectiveRules(rule, X) \subseteq {rule}
    BY <1>1 DEF EffectiveRules
  <2>2. ~RuleMatches(rule, t)
    BY <1>1, TargetTyped DEF RuleMatches
  <2> QED
    BY <1>1, <2>1, <2>2 DEF Covered
<1>2. CASE rule.type = "address"
  BY <1>2, AddressRule
<1>3. CASE rule.type = "network"
  BY <1>3, NetworkRule
<1>4. rule.type \in {"host", "address", "network"}
  BY RuleTyped DEF AnyRules
<1> QED
  BY <1>1, <1>2, <1>3, <1>4

\* The effective scope covers exactly what the author meant.
LEMMA ScopeMeant ==
    ASSUME NEW roe \in Definitions, NEW t \in CompilerTargets
    PROVE  (\E rule \in effective_scope(roe.allowed, roe.excluded) : RuleMatches(rule, t)) <=> Meant(roe, t)
<1> DEFINE A == roe.allowed
           X == roe.excluded
           tn == NetworkOf(t)
<1>1. A \subseteq ScopeRules /\ X \subseteq ScopeRules /\ IsFiniteSet(X)
  BY DefinitionTyped
<1>2. (\E rule \in effective_scope(A, X) : RuleMatches(rule, t)) <=>
        \E a \in A : \E r \in EffectiveRules(a, X) : RuleMatches(r, t)
  BY DEF effective_scope
<1> HIDE DEF A, X
<1>3. CASE t.type = "host"
  <2>1. \A r : RuleMatches(r, t) <=> r = t
    BY <1>3 DEF RuleMatches
  <2>2. ASSUME NEW a \in A, t \in EffectiveRules(a, X) PROVE t = a /\ t \notin X
    <3>1. CASE a.type = "host"
      BY <2>2, <3>1 DEF EffectiveRules
    <3>2. CASE a.type = "address"
      <4>1. EffectiveRules(a, X) \subseteq {a}
        BY <3>2 DEF EffectiveRules
      <4> QED
        BY <1>3, <2>2, <3>2, <4>1
    <3>3. CASE a.type = "network"
      <4>1. \E u \in TargetRules : TRUE
        <5> DEFINE u == [type |-> "address", version |-> 4, base |-> 0, bits |-> 0]
        <5>1. u \in TargetRules
          BY CompilerAssumption DEF TargetRules, AnyRules, Bits
        <5> QED
          BY <5>1
      <4>2. EffectiveRules(a, X) \subseteq Networks
        BY <1>1, <2>2, <3>3, <4>1, NetworkRule
      <4> QED
        BY <1>3, <2>2, <4>2, NetworkBase
    <3>4. a.type \in {"host", "address", "network"}
      BY <1>1, <2>2, RuleTyped DEF AnyRules
    <3> QED
      BY <3>1, <3>2, <3>3, <3>4
  <2>3. ASSUME t \in A, t \notin X PROVE t \in EffectiveRules(t, X)
    BY <1>3, <2>3 DEF EffectiveRules
  <2>4. Meant(roe, t) <=> t \in A /\ t \notin X
    BY <1>3 DEF Meant, A, X
  <2> QED
    BY <1>2, <2>1, <2>2, <2>3, <2>4 DEF A, X
<1>4. CASE t.type # "host"
  <2>1. t \in TargetRules /\ t \in AnyRules /\ tn \in Networks /\ AddressesOf(t) = AddressesOf(tn)
    BY <1>4, CompilerTargetTyped, TargetTyped, RuleNetwork
  <2>2. (\E rule \in effective_scope(A, X) : RuleMatches(rule, t)) <=> \E a \in A : Covered(a, t, NetworksOf(X))
    BY <1>1, <1>2, <2>1, RuleCovers
  <2>3. AddressesOf(tn) # {}
    BY <2>1, NetworkBase, BlockAddresses
  <2>4. ASSUME NEW a \in A
        PROVE  AddressesOf(t) \subseteq AddressesOf(a) <=> a.type # "host" /\ SubnetOf(tn, NetworkOf(a))
    <3>1. CASE a.type = "host"
      BY <2>1, <2>3, <3>1 DEF AddressesOf
    <3>2. CASE a.type # "host"
      <4>1. NetworkOf(a) \in Networks /\ AddressesOf(a) = AddressesOf(NetworkOf(a))
        BY <1>1, <3>2, RuleTyped, RuleNetwork
      <4> QED
        BY <2>1, <3>2, <4>1, AddressesInside
    <3> QED
      BY <3>1, <3>2
  <2>5. ASSUME NEW e \in X
        PROVE  AddressesOf(e) \cap AddressesOf(t) = {} <=> (e.type # "host" => ~Overlaps(tn, NetworkOf(e)))
    <3>1. CASE e.type = "host"
      BY <3>1 DEF AddressesOf
    <3>2. CASE e.type # "host"
      <4>1. NetworkOf(e) \in Networks /\ AddressesOf(e) = AddressesOf(NetworkOf(e))
        BY <1>1, <3>2, RuleTyped, RuleNetwork
      <4>2. AddressesOf(NetworkOf(e)) \cap AddressesOf(tn) = {} <=> ~Overlaps(NetworkOf(e), tn)
        BY <2>1, <4>1, AddressesApart
      <4> QED
        BY <2>1, <3>2, <4>1, <4>2 DEF Overlaps
    <3> QED
      BY <3>1, <3>2
  <2>6. (\A e \in X : AddressesOf(e) \cap AddressesOf(t) = {}) <=> \A n \in NetworksOf(X) : ~Overlaps(tn, n)
    BY <2>5 DEF NetworksOf
  <2>7. Meant(roe, t) <=>
            /\ \E a \in A : AddressesOf(t) \subseteq AddressesOf(a) /\ (t.type = "network" => a.type = "network")
            /\ \A e \in X : AddressesOf(e) \cap AddressesOf(t) = {}
    BY <1>4 DEF Meant, A, X
  <2>8. Meant(roe, t) <=> \E a \in A : Covered(a, t, NetworksOf(X))
    BY <2>4, <2>6, <2>7 DEF Covered
  <2> QED
    BY <2>2, <2>8 DEF A, X
<1> QED
  BY <1>3, <1>4

\* An effective scope that is not empty covers a target somebody can name.
LEMMA ScopeNamesTargets ==
    ASSUME NEW roe \in Definitions, effective_scope(roe.allowed, roe.excluded) # {}
    PROVE  \E t \in CompilerTargets :
            \E rule \in effective_scope(roe.allowed, roe.excluded) : RuleMatches(rule, t)
<1> DEFINE A == roe.allowed
           X == roe.excluded
           top == Size[AddressBits] - 1
<1>1. A \subseteq ScopeRules /\ X \subseteq ScopeRules /\ IsFiniteSet(X)
  BY DefinitionTyped
<1>2. PICK a \in A : EffectiveRules(a, X) # {} /\ EffectiveRules(a, X) \subseteq effective_scope(A, X)
  BY DEF effective_scope
<1>r. PICK r \in EffectiveRules(a, X) : r \in effective_scope(A, X)
  BY <1>2
<1>3. AddressBits \in Bits /\ Size[AddressBits] \in Nat \ {0} /\ AddressBits \in Nat
  BY SizeTable, CompilerAssumption DEF Bits
<1>4. a \in AnyRules /\ a.type \in {"host", "address", "network"}
  BY <1>1, RuleTyped DEF AnyRules
<1>5. ASSUME NEW q \in Nat, q < Size[AddressBits] PROVE q \in 0 .. top
  BY <1>3, <1>5
<1>6. SUFFICES \E t \in CompilerTargets : RuleMatches(r, t)
  BY <1>r
<1>7. CASE a.type = "host"
  <2>1. r = a
    BY <1>7 DEF EffectiveRules
  <2>2. a \in CompilerTargets
    BY <1>7 DEF CompilerTargets
  <2>3. RuleMatches(r, a)
    BY <1>7, <2>1 DEF RuleMatches
  <2> QED
    BY <2>2, <2>3
<1>8. CASE a.type = "address"
  <2>1. r = a
    BY <1>8 DEF EffectiveRules
  <2>2. a.bits = 0 /\ a.version \in {4, 6} /\ a.base < Size[AddressBits] /\ a.base \in Nat
    BY <1>1, <1>4, <1>8, RuleTyped DEF AnyRules
  <2>3. a \in [type : {"address"}, version : {4, 6}, base : 0 .. top, bits : {0}]
    BY <1>4, <1>5, <1>8, <2>2 DEF AnyRules
  <2>4. a \in CompilerTargets
    BY <2>3 DEF CompilerTargets
  <2>5. SubnetOf(NetworkOf(a), NetworkOf(a))
    BY <1>4, <2>2, RuleNetwork, SubnetBlocks
  <2>6. SubnetOf(a, NetworkOf(a))
    BY <1>4, <2>2, <2>5, RuleNetwork, SameNetwork
  <2> QED
    BY <1>8, <2>1, <2>4, <2>6 DEF RuleMatches
<1>9. CASE a.type = "network"
  <2> DEFINE an == NetworkOf(a)
  <2>1. \E u \in TargetRules : TRUE
    <3> DEFINE u == [type |-> "address", version |-> 4, base |-> 0, bits |-> 0]
    <3>1. u \in TargetRules
      BY CompilerAssumption DEF TargetRules, AnyRules, Bits
    <3> QED
      BY <3>1
  <2>2. r \in Networks /\ SubnetOf(r, an)
    BY <1>1, <1>9, <2>1, NetworkRule
  <2>3. an \in Networks /\ an.version = a.version /\ an.bits = a.bits /\ Block(an.base, a.bits) = Block(a.base, a.bits)
    BY <1>4, RuleNetwork
  <2>4. a.version \in {4, 6} /\ a.base < Size[AddressBits] /\ a.base \in Nat /\ a.bits \in Bits
    BY <1>1, <1>4, <1>9, RuleTyped DEF AnyRules
  <2>5. /\ r.type = "network" /\ r.base \in Nat /\ r.bits \in Bits /\ NetworkOf(r) = r
        /\ an.base \in Nat
    BY <2>2, <2>3, NetworkBase
  <2>6. r.version \in {4, 6} /\ Block(r.base, a.bits) = Block(a.base, a.bits)
    BY <2>2, <2>3, <2>4, SubnetBlocks
  <2>7. a.bits <= AddressBits
    BY <2>4 DEF Bits
  <2>8. Block(r.base, AddressBits) = Block(a.base, AddressBits)
    <3>1. PICK x \in Nat, y \in Nat, b \in Bits : x = r.base /\ y = a.base /\ b = a.bits
      BY <2>4, <2>5
    <3>2. AddressBits \in Bits /\ b <= AddressBits /\ Block(x, b) = Block(y, b)
      BY <1>3, <2>6, <2>7, <3>1
    <3>3. Block(x, AddressBits) = Block(y, AddressBits)
      BY <3>2, Coarser
    <3> QED
      BY <3>1, <3>3
  <2>9. Block(a.base, AddressBits) = 0
    BY <1>3, <2>4, Division DEF Block
  <2>10. r.base < Size[AddressBits]
    <3>1. r.base < Block(r.base, AddressBits) * Size[AddressBits] + Size[AddressBits]
      BY <1>3, <2>5, NoRemainder
    <3> QED
      BY <1>3, <2>5, <2>8, <2>9, <3>1
  <2>11. r \in [type : {"network"}, version : {4, 6}, base : 0 .. top, bits : 0 .. AddressBits]
    <3>1. r \in [type : {"network"}, version : {0, 4, 6}, base : Nat, bits : Bits]
      BY <2>2 DEF Networks
    <3>2. r.base \in 0 .. top
      BY <1>5, <2>5, <2>10
    <3> QED
      BY <2>6, <3>1, <3>2 DEF Bits
  <2>12. r \in CompilerTargets
    BY <2>5, <2>11 DEF CompilerTargets
  <2>13. SubnetOf(r, r)
    <3>1. r.bits <= r.bits
      BY <2>5, CompilerAssumption DEF Bits
    <3> QED
      BY <3>1, SubnetBlocks
  <2>14. RuleMatches(r, r)
    BY <2>5, <2>13 DEF RuleMatches
  <2> QED
    BY <2>12, <2>14
<1> QED
  BY <1>4, <1>7, <1>8, <1>9

-----------------------------------------------------------------------------
\* The policy a definition compiles to is the one the author meant.
LEMMA PolicyMeant ==
    ASSUME NEW roe \in Definitions, ValidDefinition(roe), Compiles(roe)
    PROVE  /\ Execution!ValidPolicy(CompiledPolicy(roe))
           /\ \A t \in CompilerTargets : t \in CompiledPolicy(roe).scope <=> Meant(roe, t)
<1> DEFINE policy == CompiledPolicy(roe)
           scope == {t \in CompilerTargets :
                     \E rule \in effective_scope(roe.allowed, roe.excluded) : RuleMatches(rule, t)}
           ceiling == intrusiveness_to_impact(roe.max_intrusiveness)
<1>1. policy = [valid_from |-> roe.valid_from, valid_until |-> roe.valid_until,
                max_actions |-> roe.max_actions, actions_used |-> 0,
                permitted |-> roe.techniques, approval_required |-> {},
                max_impact |-> ceiling, scope |-> scope, revoked |-> FALSE]
  BY DEF CompiledPolicy
<1>2. ceiling \in {"low", "standard", "high"}
  BY DefinitionTyped DEF Compiles, intrusiveness_to_impact
<1>3. \A t \in CompilerTargets : t \in scope <=> Meant(roe, t)
  BY ScopeMeant
<1>4. scope # {} /\ scope \subseteq CompilerTargets
  BY ScopeNamesTargets DEF Compiles
<1>5. /\ roe.valid_from \in Nat /\ roe.valid_until \in Nat /\ roe.max_actions \in Nat
      /\ roe.techniques \subseteq Techniques /\ roe.techniques # {}
      /\ roe.valid_from < roe.valid_until /\ roe.max_actions >= 1
  BY DefinitionTyped DEF ValidDefinition, ValidRoe
<1> HIDE DEF policy, scope, ceiling
<1>6. policy \in Execution!PolicyRecords
  BY <1>1, <1>2, <1>4, <1>5 DEF Execution!PolicyRecords, Execution!Impacts
<1>7. Execution!ValidPolicy(policy)
  BY <1>1, <1>4, <1>5, <1>6 DEF Execution!ValidPolicy
<1> QED
  BY <1>1, <1>3, <1>7 DEF policy

LEMMA ActionsMeant ==
    ASSUME NEW roe \in Definitions, ValidDefinition(roe), Compiles(roe),
           NEW technique, NEW impact \in Execution!Impacts, NEW now \in Nat, NEW target,
           Execution!evaluate_action(CompiledPolicy(roe), "active",
                [capability |-> technique, impact |-> impact, target |-> target, approved |-> TRUE],
                now) = "authorized"
    PROVE  /\ technique \in roe.techniques \ roe.prohibited
           /\ now \in roe.valid_from..roe.valid_until
           /\ roe.max_intrusiveness = "passive" => impact = "low"
           /\ roe.max_intrusiveness = "safe-active" => impact # "high"
<1> DEFINE policy == CompiledPolicy(roe)
           request == [capability |-> technique, impact |-> impact, target |-> target, approved |-> TRUE]
           ceiling == intrusiveness_to_impact(roe.max_intrusiveness)
<1>1. /\ policy.valid_from = roe.valid_from /\ policy.valid_until = roe.valid_until
      /\ policy.permitted = roe.techniques /\ policy.max_impact = ceiling
  BY DEF CompiledPolicy
<1>2. request.capability = technique /\ request.impact = impact
  OBVIOUS
<1> HIDE DEF policy, request
<1>3. Execution!evaluate_action(policy, "active", request, now) = "authorized"
  BY DEF policy, request
<1>4. /\ ~(now < policy.valid_from) /\ ~(now > policy.valid_until)
      /\ request.capability \in policy.permitted
      /\ ~(Execution!ImpactRank[request.impact] > Execution!ImpactRank[policy.max_impact])
  BY <1>3 DEF Execution!evaluate_action
<1>5. roe.valid_from \in Nat /\ roe.valid_until \in Nat
  BY DefinitionTyped
<1>6. now \in roe.valid_from..roe.valid_until
  BY <1>1, <1>4, <1>5
<1>7. technique \in roe.techniques \ roe.prohibited
  BY <1>1, <1>2, <1>4 DEF ValidDefinition, ValidRoe
<1>8. ~(Execution!ImpactRank[impact] > Execution!ImpactRank[ceiling])
  BY <1>1, <1>2, <1>4
<1>9. /\ Execution!ImpactRank["low"] = 0 /\ Execution!ImpactRank["standard"] = 1
      /\ Execution!ImpactRank["high"] = 2 /\ impact \in {"low", "standard", "high"}
  BY DEF Execution!ImpactRank, Execution!Impacts
<1>10. /\ roe.max_intrusiveness = "passive" => ceiling = "low"
       /\ roe.max_intrusiveness = "safe-active" => ceiling = "standard"
  BY DEF intrusiveness_to_impact
<1> HIDE DEF ceiling
<1>11. roe.max_intrusiveness = "passive" => impact = "low"
  BY <1>8, <1>9, <1>10
<1>12. roe.max_intrusiveness = "safe-active" => impact # "high"
  BY <1>8, <1>9, <1>10
<1> QED
  BY <1>6, <1>7, <1>11, <1>12

\* The fingerprint of the bundle is that of what was compiled, whatever was edited.
Bundled(bundle, roe) ==
    bundle = [engagement |-> bundle.engagement, policy |-> bundle.policy,
              policy_fingerprint |-> bundle.policy_fingerprint,
              bundle_fingerprint |-> Bundle(roe).bundle_fingerprint]

CompilerOK ==
    LET roe == compilation.roe
    IN  /\ compilation = [roe |-> roe, bundle |-> compilation.bundle, status |-> compilation.status]
        /\ roe \in Definitions
        /\ compilation.status \in {"compiled", "verified", "refused"} =>
            ValidDefinition(roe) /\ Compiles(roe) /\ Bundled(compilation.bundle[1], roe)
        /\ compilation.status = "verified" => compilation.bundle[1].policy = CompiledPolicy(roe)
        /\ compilation.status = "not compiled" => ~Compiles(roe)

LEMMA VerifiedPolicy ==
    ASSUME NEW roe, NEW b, Bundled(b, roe), BundleVerifies(b)
    PROVE  b.policy = CompiledPolicy(roe)
<1> DEFINE B == [engagement |-> roe, policy |-> CompiledPolicy(roe),
                 policy_fingerprint |-> CompiledPolicy(roe), bundle_fingerprint |-> <<>>]
<1>1. Bundle(roe).bundle_fingerprint = <<Payload(B)>>
  BY DEF Bundle, Seal
<1>2. Seal(b).bundle_fingerprint = <<Payload(b)>>
  BY DEF Bundled, Seal
<1>3. b.bundle_fingerprint = Bundle(roe).bundle_fingerprint
  BY DEF Bundled
<1>4. b.bundle_fingerprint = Seal(b).bundle_fingerprint
  BY DEF BundleVerifies
<1>5. Payload(b) = Payload(B)
  BY <1>1, <1>2, <1>3, <1>4
<1>6. Payload(B).policy = CompiledPolicy(roe)
  BY DEF Payload
<1>7. Payload(b).policy = b.policy
  BY DEF Bundled, Payload
<1> QED
  BY <1>5, <1>6, <1>7

LEMMA CompilerStarts == CompilerInit => CompilerOK
BY DEF CompilerInit, CompilerOK

LEMMA CompilerStep == CompilerOK /\ [CompilerNext]_compilation => CompilerOK'
<1> SUFFICES ASSUME CompilerOK, [CompilerNext]_compilation PROVE CompilerOK'
  OBVIOUS
<1> DEFINE roe == compilation.roe
           bundle == compilation.bundle
           status == compilation.status
<1>0. compilation = [roe |-> roe, bundle |-> bundle, status |-> status] /\ roe \in Definitions
  BY DEF CompilerOK
<1>1. CASE Compile
  <2>1. CASE ~ValidDefinition(roe)
    <3>1. compilation' = [roe |-> roe, bundle |-> bundle, status |-> "invalid"]
      BY <1>0, <1>1, <2>1 DEF Compile
    <3> QED
      BY <1>0, <3>1 DEF CompilerOK
  <2>2. CASE ValidDefinition(roe) /\ ~Compiles(roe)
    <3>1. compilation' = [roe |-> roe, bundle |-> bundle, status |-> "not compiled"]
      BY <1>0, <1>1, <2>2 DEF Compile
    <3> QED
      BY <1>0, <2>2, <3>1 DEF CompilerOK
  <2>3. CASE ValidDefinition(roe) /\ Compiles(roe)
    <3>1. compilation' = [roe |-> roe, bundle |-> <<Bundle(roe)>>, status |-> "compiled"]
      BY <1>0, <1>1, <2>3 DEF Compile
    <3>2. Bundled(Bundle(roe), roe)
      BY DEF Bundled, Bundle, Seal
    <3> QED
      BY <1>0, <2>3, <3>1, <3>2 DEF CompilerOK
  <2> QED
    BY <2>1, <2>2, <2>3
<1>2. CASE EditBundle
  <2>1. PICK parts \in SUBSET {"policy", "policy_fingerprint"} :
            compilation' = [compilation EXCEPT !.bundle =
                <<[part \in DOMAIN bundle[1] |->
                    IF part \in parts THEN [bundle[1].policy EXCEPT !.scope = CompilerTargets]
                    ELSE bundle[1][part]]>>]
    BY <1>2 DEF EditBundle
  <2> DEFINE edited == [part \in DOMAIN bundle[1] |->
                    IF part \in parts THEN [bundle[1].policy EXCEPT !.scope = CompilerTargets]
                    ELSE bundle[1][part]]
  <2>2. status = "compiled" /\ ValidDefinition(roe) /\ Compiles(roe) /\ Bundled(bundle[1], roe)
    BY <1>2 DEF EditBundle, CompilerOK
  <2>3. compilation' = [roe |-> roe, bundle |-> <<edited>>, status |-> "compiled"]
    BY <1>0, <2>1, <2>2
  <2>4. Bundled(edited, roe)
    <3>1. DOMAIN bundle[1] = {"engagement", "policy", "policy_fingerprint", "bundle_fingerprint"}
      BY <2>2 DEF Bundled
    <3>2. edited.bundle_fingerprint = Bundle(roe).bundle_fingerprint
      BY <2>2, <3>1 DEF Bundled
    <3> QED
      BY <3>1, <3>2 DEF Bundled
  <2> HIDE DEF edited
  <2> QED
    BY <1>0, <2>2, <2>3, <2>4 DEF CompilerOK
<1>3. CASE VerifyBundle
  <2>1. status = "compiled" /\ ValidDefinition(roe) /\ Compiles(roe) /\ Bundled(bundle[1], roe)
    BY <1>3 DEF VerifyBundle, CompilerOK
  <2>2. CASE BundleVerifies(bundle[1])
    <3>1. compilation' = [roe |-> roe, bundle |-> bundle, status |-> "verified"]
      BY <1>0, <1>3, <2>2 DEF VerifyBundle
    <3>2. bundle[1].policy = CompiledPolicy(roe)
      BY <2>1, <2>2, VerifiedPolicy
    <3> QED
      BY <1>0, <2>1, <3>1, <3>2 DEF CompilerOK
  <2>3. CASE ~BundleVerifies(bundle[1])
    <3>1. compilation' = [roe |-> roe, bundle |-> bundle, status |-> "refused"]
      BY <1>0, <1>3, <2>3 DEF VerifyBundle
    <3> QED
      BY <1>0, <2>1, <3>1 DEF CompilerOK
  <2> QED
    BY <2>2, <2>3
<1>4. CASE UNCHANGED compilation
  BY <1>4 DEF CompilerOK
<1> QED
  BY <1>1, <1>2, <1>3, <1>4 DEF CompilerNext

LEMMA CompilerExact == CompilerOK => CompiledPolicyIsExact
<1> SUFFICES ASSUME CompilerOK PROVE CompiledPolicyIsExact
  OBVIOUS
<1> DEFINE roe == compilation.roe
           policy == compilation.bundle[1].policy
<1>0. roe \in Definitions
  BY DEF CompilerOK
<1>1. ASSUME compilation.status = "verified"
      PROVE  /\ Execution!ValidPolicy(policy)
             /\ \A t \in CompilerTargets : t \in policy.scope <=> Meant(roe, t)
             /\ \A technique \in Techniques, impact \in Execution!Impacts, now \in 0..2 :
                    LET request == [capability |-> technique, impact |-> impact,
                                    target |-> CHOOSE t \in policy.scope : TRUE,
                                    approved |-> TRUE]
                    IN  Execution!evaluate_action(policy, "active", request, now) =
                            "authorized" =>
                        /\ technique \in roe.techniques \ roe.prohibited
                        /\ now \in roe.valid_from..roe.valid_until
                        /\ roe.max_intrusiveness = "passive" => impact = "low"
                        /\ roe.max_intrusiveness = "safe-active" => impact # "high"
  <2>1. ValidDefinition(roe) /\ Compiles(roe) /\ policy = CompiledPolicy(roe)
    BY <1>1 DEF CompilerOK
  <2>2. /\ Execution!ValidPolicy(policy)
        /\ \A t \in CompilerTargets : t \in policy.scope <=> Meant(roe, t)
    BY <1>0, <2>1, PolicyMeant
  <2>3. ASSUME NEW technique \in Techniques, NEW impact \in Execution!Impacts, NEW now \in 0..2
        PROVE  LET request == [capability |-> technique, impact |-> impact,
                               target |-> CHOOSE t \in policy.scope : TRUE, approved |-> TRUE]
               IN  Execution!evaluate_action(policy, "active", request, now) = "authorized" =>
                        /\ technique \in roe.techniques \ roe.prohibited
                        /\ now \in roe.valid_from..roe.valid_until
                        /\ roe.max_intrusiveness = "passive" => impact = "low"
                        /\ roe.max_intrusiveness = "safe-active" => impact # "high"
    <3> DEFINE target == CHOOSE t \in policy.scope : TRUE
    <3>1. now \in Nat
      OBVIOUS
    <3> HIDE DEF target
    <3>2. Execution!evaluate_action(CompiledPolicy(roe), "active",
            [capability |-> technique, impact |-> impact, target |-> target, approved |-> TRUE],
            now) = "authorized" =>
                        /\ technique \in roe.techniques \ roe.prohibited
                        /\ now \in roe.valid_from..roe.valid_until
                        /\ roe.max_intrusiveness = "passive" => impact = "low"
                        /\ roe.max_intrusiveness = "safe-active" => impact # "high"
      BY <1>0, <2>1, <3>1, ActionsMeant
    <3> QED
      BY <2>1, <3>2 DEF target
  <2> QED
    BY <2>2, <2>3
<1>2. ASSUME compilation.status = "not compiled"
      PROVE  \/ roe.max_intrusiveness = "destructive"
             \/ ~(roe.techniques \subseteq CapabilityNames)
             \/ \A t \in CompilerTargets : ~Meant(roe, t)
  <2>1. ~Compiles(roe)
    BY <1>2 DEF CompilerOK
  <2>2. intrusiveness_to_impact(roe.max_intrusiveness) = "none" => roe.max_intrusiveness = "destructive"
    BY <1>0, DefinitionTyped DEF intrusiveness_to_impact
  <2>3. effective_scope(roe.allowed, roe.excluded) = {} => \A t \in CompilerTargets : ~Meant(roe, t)
    BY <1>0, ScopeMeant
  <2> QED
    BY <2>1, <2>2, <2>3 DEF Compiles
<1> QED
  BY <1>1, <1>2 DEF CompiledPolicyIsExact

\* A bundle that verifies carries exactly the scope the author meant, for addresses of
\* any width, and authorises no action the rules of engagement do not.
THEOREM CompiledPolicySafe == CompilerSpec => []CompiledPolicyIsExact
<1>1. CompilerSpec => []CompilerOK
  BY CompilerStarts, CompilerStep, PTL DEF CompilerSpec
<1> QED
  BY <1>1, CompilerExact, PTL

=============================================================================
