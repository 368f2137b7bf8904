---------------------------- MODULE Records_proofs ----------------------------
(***************************************************************************)
(* Proofs about what is kept on disk: the workspace backups, the audit     *)
(* trails, the encrypted partition, the remediation store, the custody of  *)
(* evidence, the check packs, the files of the White Night commands and    *)
(* the asset inventory, each for every value of its constants.             *)
(***************************************************************************)
EXTENDS WorkspaceBackup, AuditTrail, SecureWorkspace, RemediationLifecycle,
        EvidenceCustody, CheckPacks, WhiteCommands, AssetInventory, Integers,
        WellFoundedInduction, SequenceTheorems, FiniteSetTheorems, TLAPS

-----------------------------------------------------------------------------
(***************************************************************************)
(* Backups.  The manifest of everything an archive is read from was put in *)
(* place by some backup, whichever archive is at the path by now, and an   *)
(* encrypted restore reads one private copy all the time.                  *)
(***************************************************************************)
MakerRecords ==
    [pc: {"idle", "hash", "done"}, key: Keys, listing: SUBSET BackupFiles,
     hashed: Snapshots, copied: Snapshots]

RestorerRecords ==
    [pc: {"idle", "decrypt", "verify", "load", "extract", "install", "done"}, key: Keys,
     private: Archives \cup {NoFile}, report: Snapshots \cup {NoFile},
     entries: Snapshots \cup {NoFile}, extracted: Snapshots \cup {NoFile}]

BackupTypeOK ==
    /\ tree \in [BackupFiles -> 0 .. FileVersions]
    /\ maker \in [Makers -> MakerRecords]
    /\ \A m \in Makers : \A f \in maker[m].listing : tree[f] > 0
    /\ archive \in Archives \cup {NoFile}
    /\ restorer \in [Restorers -> RestorerRecords]

Made(a) == a = NoFile \/ a.manifest \in manifestsMade

RestoreOK(x) ==
    /\ Made(x.private)
    /\ x.pc \in {"extract", "install"} => x.entries \in manifestsMade
    /\ x.pc = "install" => x.extracted = x.entries
    /\ x.key # Plain /\ x.pc \in {"load", "extract", "install"} =>
          x.report = x.private.manifest
    /\ x.key # Plain /\ x.pc \in {"extract", "install"} => x.entries = x.private.manifest

BackupsOK ==
    /\ BackupTypeOK
    /\ Made(archive)
    /\ \A r \in Restorers : RestoreOK(restorer[r])
    /\ RestoredTreeIsOneArchive

LEMMA EmptySnapshot == Empty \in Snapshots /\ IdleMaker \in MakerRecords /\ IdleRestorer \in RestorerRecords
<1>1. Empty \in [{} -> 1 .. FileVersions]
  BY DEF Empty
<1>2. Empty \in Snapshots
  BY <1>1 DEF Snapshots
<1> QED
  BY <1>2 DEF IdleMaker, IdleRestorer, MakerRecords, RestorerRecords, Keys

LEMMA ExtendSnapshot ==
    ASSUME NEW s \in Snapshots, NEW f \in BackupFiles, NEW v \in 1 .. FileVersions
    PROVE  Extend(s, f, v) \in Snapshots
<1>1. PICK F \in SUBSET BackupFiles : s \in [F -> 1 .. FileVersions]
  BY DEF Snapshots
<1>2. Extend(s, f, v) \in [F \cup {f} -> 1 .. FileVersions]
  BY <1>1 DEF Extend
<1>3. F \cup {f} \in SUBSET BackupFiles
  BY <1>1
<1> QED
  BY <1>2, <1>3 DEF Snapshots

LEMMA BackupsInit == BackupInit => BackupsOK
<1> SUFFICES ASSUME BackupInit PROVE BackupsOK
  OBVIOUS
<1>1. BackupTypeOK
  <2>1. tree \in [BackupFiles -> 0 .. FileVersions]
    BY BackupAssumption DEF BackupInit
  <2>2. maker \in [Makers -> MakerRecords] /\ restorer \in [Restorers -> RestorerRecords]
    BY EmptySnapshot DEF BackupInit
  <2>3. \A m \in Makers : maker[m].listing = {}
    BY DEF BackupInit, IdleMaker
  <2> QED
    BY <2>1, <2>2, <2>3 DEF BackupTypeOK, BackupInit
<1>2. ASSUME NEW r \in Restorers PROVE RestoreOK(restorer[r])
  BY DEF BackupInit, RestoreOK, IdleRestorer, Made
<1> QED
  BY <1>1, <1>2 DEF BackupsOK, BackupInit, Made, RestoredTreeIsOneArchive

\* A step of a call that makes a backup.
LEMMA MakerStepOK ==
    ASSUME BackupsOK, NEW m \in Makers, NEW record \in MakerRecords, MakerStep(m, record),
           \A f \in record.listing : tree[f] > 0,
           archive' \in Archives \cup {NoFile}, manifestsMade \subseteq manifestsMade', Made(archive)'
    PROVE  BackupsOK'
<1>1. /\ maker' = [maker EXCEPT ![m] = record]
      /\ tree' = tree /\ restorer' = restorer /\ restored' = restored
  BY DEF MakerStep
<1>2. BackupTypeOK
  BY DEF BackupsOK
<1>3. maker' \in [Makers -> MakerRecords] /\ maker'[m] = record
      /\ \A n \in Makers \ {m} : maker'[n] = maker[n]
  BY <1>1, <1>2 DEF BackupTypeOK
<1>4. BackupTypeOK'
  BY <1>1, <1>2, <1>3 DEF BackupTypeOK
<1>5. ASSUME NEW r \in Restorers PROVE RestoreOK(restorer[r])'
  BY <1>1 DEF BackupsOK, RestoreOK, Made
<1>6. RestoredTreeIsOneArchive'
  BY <1>1 DEF BackupsOK, RestoredTreeIsOneArchive
<1> QED
  BY <1>4, <1>5, <1>6 DEF BackupsOK

\* A step of a call that restores one.
LEMMA RestorerStepOK ==
    ASSUME BackupsOK, NEW r \in Restorers, NEW record \in RestorerRecords,
           RestorerStep(r, record), RestoreOK(record),
           restored' # NoFile =>
               \/ restored' = restored
               \/ /\ restored'.files \in manifestsMade
                  /\ restored'.key # Plain => restored'.report = restored'.files
    PROVE  BackupsOK'
<1>1. /\ restorer' = [restorer EXCEPT ![r] = record]
      /\ tree' = tree /\ maker' = maker /\ archive' = archive /\ manifestsMade' = manifestsMade
  BY DEF RestorerStep
<1>2. BackupTypeOK
  BY DEF BackupsOK
<1>3. restorer' \in [Restorers -> RestorerRecords] /\ restorer'[r] = record
      /\ \A s \in Restorers \ {r} : restorer'[s] = restorer[s]
  BY <1>1, <1>2 DEF BackupTypeOK
<1>4. BackupTypeOK'
  BY <1>1, <1>2, <1>3 DEF BackupTypeOK
<1>5. ASSUME NEW s \in Restorers PROVE RestoreOK(restorer[s])'
  <2>1. RestoreOK(restorer'[s])
    BY <1>3 DEF BackupsOK
  <2> QED
    BY <1>1, <2>1 DEF RestoreOK, Made
<1>6. RestoredTreeIsOneArchive'
  BY <1>1 DEF BackupsOK, RestoredTreeIsOneArchive
<1>7. Made(archive)'
  BY <1>1 DEF BackupsOK, Made
<1> QED
  BY <1>4, <1>5, <1>6, <1>7 DEF BackupsOK

LEMMA MakersStep ==
    ASSUME BackupsOK, NEW m \in Makers,
           \/ \E key \in Keys : BeginBackup(m, key)
           \/ \E f \in BackupFiles : HashFile(m, f) \/ CopyFile(m, f)
           \/ PutArchive(m)
           \/ BackupFails(m)
    PROVE  BackupsOK'
<1>1. BackupTypeOK /\ Made(archive) /\ maker[m] \in MakerRecords
      /\ (\A f \in maker[m].listing : tree[f] > 0)
  BY DEF BackupsOK, BackupTypeOK
<1>2. \A done \in {"idle", "hash", "done"} :
         [IdleMaker EXCEPT !.pc = done] \in MakerRecords
         /\ [IdleMaker EXCEPT !.pc = done].listing = {}
  BY EmptySnapshot DEF MakerRecords, IdleMaker
<1>3. ASSUME NEW key \in Keys, BeginBackup(m, key) PROVE BackupsOK'
  <2> DEFINE record == [IdleMaker EXCEPT !.pc = "hash", !.key = key,
                                         !.listing = {f \in BackupFiles : tree[f] > 0}]
  <2>1. record \in MakerRecords /\ record.listing = {f \in BackupFiles : tree[f] > 0}
    BY EmptySnapshot DEF MakerRecords, IdleMaker
  <2>2. MakerStep(m, record) /\ archive' = archive /\ manifestsMade' = manifestsMade
    BY <1>3 DEF BeginBackup
  <2> HIDE DEF record
  <2> QED
    BY <1>1, <2>1, <2>2, MakerStepOK DEF BackupTypeOK, Made
<1>4. ASSUME NEW f \in BackupFiles, HashFile(m, f) PROVE BackupsOK'
  <2> DEFINE record == [maker[m] EXCEPT !.hashed = Extend(@, f, tree[f])]
  <2>1. tree[f] \in 1 .. FileVersions
    BY <1>1, <1>4, BackupAssumption DEF HashFile, BackupTypeOK
  <2>2. maker[m].hashed \in Snapshots
    BY <1>1 DEF MakerRecords
  <2>3. Extend(maker[m].hashed, f, tree[f]) \in Snapshots
    BY <2>1, <2>2, ExtendSnapshot
  <2>4. record \in MakerRecords /\ record.listing = maker[m].listing
    BY <1>1, <2>3 DEF MakerRecords
  <2>5. MakerStep(m, record) /\ archive' = archive /\ manifestsMade' = manifestsMade
    BY <1>4 DEF HashFile
  <2> HIDE DEF record
  <2> QED
    BY <1>1, <2>4, <2>5, MakerStepOK DEF BackupTypeOK, Made
<1>5. ASSUME NEW f \in BackupFiles, CopyFile(m, f) PROVE BackupsOK'
  <2> DEFINE record == [maker[m] EXCEPT !.copied = Extend(@, f, tree[f])]
  <2>1. tree[f] \in 1 .. FileVersions
    BY <1>1, <1>5, BackupAssumption DEF CopyFile, BackupTypeOK
  <2>2. maker[m].copied \in Snapshots
    BY <1>1 DEF MakerRecords
  <2>3. Extend(maker[m].copied, f, tree[f]) \in Snapshots
    BY <2>1, <2>2, ExtendSnapshot
  <2>4. record \in MakerRecords /\ record.listing = maker[m].listing
    BY <1>1, <2>3 DEF MakerRecords
  <2>5. MakerStep(m, record) /\ archive' = archive /\ manifestsMade' = manifestsMade
    BY <1>5 DEF CopyFile
  <2> HIDE DEF record
  <2> QED
    BY <1>1, <2>4, <2>5, MakerStepOK DEF BackupTypeOK, Made
<1>6. CASE PutArchive(m)
  <2>1. /\ MakerStep(m, [IdleMaker EXCEPT !.pc = "done"])
        /\ archive' = [key |-> maker[m].key, manifest |-> maker[m].hashed,
                       data |-> maker[m].copied]
        /\ manifestsMade' = manifestsMade \cup {maker[m].hashed}
    BY <1>6 DEF PutArchive
  <2>2. archive' \in Archives /\ archive'.manifest = maker[m].hashed
    BY <1>1, <2>1 DEF MakerRecords, Archives
  <2>3. Made(archive)'
    BY <2>1, <2>2 DEF Made
  <2> QED
    BY <1>2, <2>1, <2>2, <2>3, MakerStepOK
<1>7. CASE BackupFails(m)
  <2>1. /\ MakerStep(m, [IdleMaker EXCEPT !.pc = "done"])
        /\ archive' = archive /\ manifestsMade' = manifestsMade
    BY <1>7 DEF BackupFails
  <2> QED
    BY <1>1, <1>2, <2>1, MakerStepOK DEF BackupTypeOK, Made
<1> QED
  BY <1>3, <1>4, <1>5, <1>6, <1>7

\* What an archive that verified says.
LEMMA SourceOK ==
    ASSUME BackupsOK, NEW r \in Restorers, Source(r) # NoFile
    PROVE  /\ Source(r) \in Archives /\ Source(r).manifest \in manifestsMade
           /\ Source(r).manifest \in Snapshots
           /\ restorer[r].key # Plain => Source(r) = restorer[r].private
<1>1. restorer[r] \in RestorerRecords /\ archive \in Archives \cup {NoFile}
  BY DEF BackupsOK, BackupTypeOK
<1>2. restorer[r].private \in Archives \cup {NoFile}
  BY <1>1 DEF RestorerRecords
<1>3. Made(archive) /\ Made(restorer[r].private)
  BY DEF BackupsOK, RestoreOK
<1>4. Source(r) \in Archives /\ Made(Source(r))
  BY <1>1, <1>2, <1>3 DEF Source
<1> QED
  BY <1>4 DEF Source, Made, Archives

LEMMA RestorersStep ==
    ASSUME BackupsOK, NEW r \in Restorers,
           \/ \E key \in Keys : BeginRestore(r, key)
           \/ DecryptArchive(r)
           \/ VerifyArchive(r)
           \/ LoadManifest(r)
           \/ Extract(r)
           \/ InstallTree(r)
           \/ RestoreFails(r)
    PROVE  BackupsOK'
<1> DEFINE x == restorer[r]
<1>1. /\ x \in RestorerRecords /\ RestoreOK(x) /\ Made(archive)
      /\ archive \in Archives \cup {NoFile}
  BY DEF BackupsOK, BackupTypeOK
<1>2. [IdleRestorer EXCEPT !.pc = "done"] \in RestorerRecords
      /\ RestoreOK([IdleRestorer EXCEPT !.pc = "done"])
  BY EmptySnapshot DEF RestorerRecords, IdleRestorer, RestoreOK, Made
<1>3. ASSUME NEW key \in Keys, BeginRestore(r, key) PROVE BackupsOK'
  <2> DEFINE record == [IdleRestorer EXCEPT !.pc = IF key = Plain THEN "verify" ELSE "decrypt",
                                            !.key = key]
  <2>1. record \in RestorerRecords /\ RestoreOK(record)
    BY EmptySnapshot DEF RestorerRecords, IdleRestorer, RestoreOK, Made
  <2>2. RestorerStep(r, record) /\ restored' = restored
    BY <1>3 DEF BeginRestore
  <2> HIDE DEF record
  <2> QED
    BY <2>1, <2>2, RestorerStepOK
<1>4. CASE DecryptArchive(r)
  <2> DEFINE opened == [archive EXCEPT !.key = Plain]
             record == [x EXCEPT !.pc = "verify", !.private = opened]
  <2>1. archive \in Archives /\ archive.manifest \in manifestsMade
    BY <1>1, <1>4 DEF DecryptArchive, Made
  <2>2. opened \in Archives /\ opened.manifest = archive.manifest
    BY <2>1 DEF Archives, Keys
  <2> HIDE DEF opened
  <2>3. record \in RestorerRecords
    BY <1>1, <2>2 DEF RestorerRecords
  <2>4. record.pc = "verify" /\ record.private = opened
    BY <1>1 DEF RestorerRecords
  <2>5. RestoreOK(record)
    BY <2>1, <2>2, <2>4 DEF RestoreOK, Made
  <2>6. RestorerStep(r, record) /\ restored' = restored
    BY <1>4 DEF DecryptArchive, opened
  <2> HIDE DEF record
  <2> QED
    BY <2>3, <2>5, <2>6, RestorerStepOK
<1>5. CASE VerifyArchive(r)
  <2> DEFINE record == [x EXCEPT !.pc = "load", !.report = Source(r).manifest]
  <2>1. Source(r).manifest \in Snapshots /\ (x.key # Plain => Source(r) = x.private)
    BY <1>5, SourceOK DEF VerifyArchive, Verified
  <2>2. /\ record \in RestorerRecords /\ record.pc = "load" /\ record.private = x.private
        /\ record.key = x.key /\ record.report = Source(r).manifest
    BY <1>1, <2>1 DEF RestorerRecords
  <2>3. RestorerStep(r, record) /\ restored' = restored
    BY <1>5 DEF VerifyArchive
  <2> HIDE DEF record
  <2>4. RestoreOK(record)
    BY <1>1, <2>1, <2>2 DEF RestoreOK
  <2> QED
    BY <2>2, <2>3, <2>4, RestorerStepOK
<1>6. CASE LoadManifest(r)
  <2> DEFINE record == [x EXCEPT !.pc = "extract", !.entries = Source(r).manifest]
  <2>1. /\ Source(r).manifest \in Snapshots /\ Source(r).manifest \in manifestsMade
        /\ (x.key # Plain => Source(r) = x.private)
    BY <1>6, SourceOK DEF LoadManifest, Verified
  <2>2. /\ record \in RestorerRecords /\ record.pc = "extract" /\ record.private = x.private
        /\ record.key = x.key /\ record.report = x.report
        /\ record.entries = Source(r).manifest
    BY <1>1, <2>1 DEF RestorerRecords
  <2>3. RestorerStep(r, record) /\ restored' = restored /\ x.pc = "load"
    BY <1>6 DEF LoadManifest
  <2> HIDE DEF record
  <2>4. RestoreOK(record)
    BY <1>1, <2>1, <2>2, <2>3 DEF RestoreOK
  <2> QED
    BY <2>2, <2>3, <2>4, RestorerStepOK
<1>7. CASE Extract(r)
  <2> DEFINE record == [x EXCEPT !.pc = "install", !.extracted = x.entries]
  <2>1. /\ record \in RestorerRecords /\ record.pc = "install" /\ record.private = x.private
        /\ record.key = x.key /\ record.report = x.report
        /\ record.entries = x.entries /\ record.extracted = x.entries
    BY <1>1 DEF RestorerRecords
  <2>2. RestorerStep(r, record) /\ restored' = restored /\ x.pc = "extract"
    BY <1>7 DEF Extract
  <2> HIDE DEF record
  <2>3. RestoreOK(record)
    BY <1>1, <2>1, <2>2 DEF RestoreOK
  <2> QED
    BY <2>1, <2>2, <2>3, RestorerStepOK
<1>8. CASE InstallTree(r)
  <2>1. /\ x.pc = "install" /\ RestorerStep(r, [IdleRestorer EXCEPT !.pc = "done"])
        /\ restored' = [files |-> x.extracted, key |-> x.key, report |-> x.report]
    BY <1>8 DEF InstallTree
  <2>2. /\ restored'.files \in manifestsMade
        /\ restored'.key # Plain => restored'.report = restored'.files
    BY <1>1, <2>1 DEF RestoreOK
  <2> QED
    BY <1>2, <2>1, <2>2, RestorerStepOK
<1>9. CASE RestoreFails(r)
  BY <1>2, <1>9, RestorerStepOK DEF RestoreFails
<1> QED
  BY <1>3, <1>4, <1>5, <1>6, <1>7, <1>8, <1>9

LEMMA BackupsStep == BackupsOK /\ [BackupNext]_backupVars => BackupsOK'
<1> SUFFICES ASSUME BackupsOK, [BackupNext]_backupVars PROVE BackupsOK'
  OBVIOUS
<1>1. CASE UNCHANGED backupVars
  BY <1>1 DEF backupVars, BackupsOK, BackupTypeOK, Made, RestoreOK, RestoredTreeIsOneArchive
<1>2. ASSUME NEW f \in BackupFiles, WriteFile(f) PROVE BackupsOK'
  <2>1. /\ tree[f] < FileVersions /\ tree' = [tree EXCEPT ![f] = @ + 1]
        /\ maker' = maker /\ archive' = archive /\ restorer' = restorer
        /\ restored' = restored /\ manifestsMade' = manifestsMade
    BY <1>2 DEF WriteFile
  <2>2. BackupTypeOK
    BY DEF BackupsOK
  <2>3. tree' \in [BackupFiles -> 0 .. FileVersions]
    BY <2>1, <2>2, BackupAssumption DEF BackupTypeOK
  <2>4. \A g \in BackupFiles : tree[g] > 0 => tree'[g] > 0
    BY <2>1, <2>2, BackupAssumption DEF BackupTypeOK
  <2>5. \A m \in Makers : maker[m].listing \subseteq BackupFiles
    BY <2>2 DEF BackupTypeOK, MakerRecords
  <2>6. BackupTypeOK'
    BY <2>1, <2>2, <2>3, <2>4, <2>5 DEF BackupTypeOK
  <2> QED
    BY <2>1, <2>6 DEF BackupsOK, Made, RestoreOK, RestoredTreeIsOneArchive
<1> QED
  BY <1>1, <1>2, MakersStep, RestorersStep DEF BackupNext

\* restore_workspace_backup leaves at the destination the whole of one archive
\* some backup put in place, although the path is read three times and the live
\* directory changes; an encrypted restore reports on that very archive.
THEOREM RestoreSafe == BackupSpec => []RestoredTreeIsOneArchive
<1>1. BackupsOK => RestoredTreeIsOneArchive
  BY DEF BackupsOK
<1> QED
  BY <1>1, BackupsInit, BackupsStep, PTL DEF BackupSpec

-----------------------------------------------------------------------------
(***************************************************************************)
(* Audit trails.  The file holds a prefix of what the memory holds, and    *)
(* every trail anywhere is one that its replay accepts.                    *)
(***************************************************************************)
AuditEvents == [id: EventIds, at: AuditTimes]

Stored(trails) ==
    /\ trails \in [Trails -> Seq(AuditEvents)]
    /\ \A t \in Trails : trails[t] # <<>> => ValidTrail(trails[t])

TrailOK(d) ==
    d = NoTrail \/ (d.trail \in Trails /\ d.events \in Seq(AuditEvents) /\ ValidTrail(d.events))

AuditOK ==
    /\ DOMAIN trailDraft = AuditWriters /\ trailDraft = [w \in AuditWriters |-> trailDraft[w]]
    /\ \A w \in AuditWriters : TrailOK(trailDraft[w])
    /\ Stored(auditMemory) /\ Stored(auditFile)
    /\ \A t \in Trails : IsPrefix(auditFile[t], auditMemory[t])

LEMMA PrefixIs ==
    ASSUME NEW S, NEW s \in Seq(S), NEW t \in Seq(S)
    PROVE  IsPrefix(s, t) <=> Len(s) <= Len(t) /\ \A i \in 1 .. Len(s) : s[i] = t[i]
<1>1. Len(s) \in Nat /\ Len(t) \in Nat
  OBVIOUS
<1>2. SubSeq(s, 1, Len(s)) = s
  OBVIOUS
<1>3. ASSUME Len(s) <= Len(t)
      PROVE  s = SubSeq(t, 1, Len(s)) <=> \A i \in 1 .. Len(s) : s[i] = t[i]
  <2> DEFINE u == SubSeq(t, 1, Len(s))
  <2>1. u \in Seq(S) /\ Len(u) = Len(s) /\ \A i \in 1 .. Len(s) : u[i] = t[i]
    BY <1>1, <1>3
  <2> HIDE DEF u
  <2>2. (\A i \in 1 .. Len(s) : s[i] = t[i]) => s = u
    BY <2>1, SeqEqual
  <2> QED
    BY <2>1, <2>2 DEF u
<1> QED
  BY <1>2, <1>3 DEF IsPrefix

LEMMA PrefixOfItself == ASSUME NEW S, NEW s \in Seq(S) PROVE IsPrefix(s, s)
BY PrefixIs

LEMMA PrefixOfPrefix ==
    ASSUME NEW S, NEW s \in Seq(S), NEW t \in Seq(S), NEW u \in Seq(S),
           IsPrefix(s, t), IsPrefix(t, u)
    PROVE  IsPrefix(s, u)
<1>1. /\ Len(s) \in Nat /\ Len(t) \in Nat /\ Len(u) \in Nat
      /\ Len(s) <= Len(t) /\ \A i \in 1 .. Len(s) : s[i] = t[i]
      /\ Len(t) <= Len(u) /\ \A i \in 1 .. Len(t) : t[i] = u[i]
  BY PrefixIs
<1>2. 1 .. Len(s) \subseteq 1 .. Len(t)
  BY <1>1
<1>3. Len(s) <= Len(u) /\ \A i \in 1 .. Len(s) : s[i] = u[i]
  BY <1>1, <1>2
<1> QED
  BY <1>3, PrefixIs

LEMMA NothingIsPrefix ==
    ASSUME NEW S, NEW s \in Seq(S), NEW t \in Seq(S), IsPrefix(s, <<>>)
    PROVE  IsPrefix(s, t)
<1>1. Len(s) \in Nat /\ Len(t) \in Nat /\ Len(<<>>) = 0
  OBVIOUS
<1>2. Len(s) <= Len(<<>>)
  BY DEF IsPrefix
<1>3. Len(s) = 0
  BY <1>1, <1>2
<1>4. Len(s) <= Len(t) /\ \A i \in 1 .. Len(s) : s[i] = t[i]
  BY <1>1, <1>3
<1> QED
  BY <1>4, PrefixIs

LEMMA AuditInits == AuditInit => AuditOK
<1> SUFFICES ASSUME AuditInit PROVE AuditOK
  OBVIOUS
<1>1. Stored(auditMemory) /\ Stored(auditFile)
  BY DEF AuditInit, Stored
<1>2. \A t \in Trails : IsPrefix(auditFile[t], auditMemory[t])
  BY <1>1, PrefixOfItself DEF AuditInit, Stored
<1> QED
  BY <1>1, <1>2 DEF AuditInit, AuditOK, TrailOK

\* The file's trails after a step: each an extension, and valid.
Kept == \A t \in Trails :
          /\ IsPrefix(auditFile[t], auditFile'[t])
          /\ auditFile'[t] # <<>> => ValidTrail(auditFile'[t])

LEMMA SameFileKept == ASSUME AuditOK, auditFile' = auditFile PROVE Kept
BY PrefixOfItself DEF AuditOK, Stored, Kept

LEMMA DraftsOK ==
    ASSUME AuditOK, NEW w \in AuditWriters, NEW d, TrailOK(d),
           trailDraft' = [trailDraft EXCEPT ![w] = d], UNCHANGED <<auditMemory, auditFile>>
    PROVE  AuditOK' /\ Kept
<1>1. /\ DOMAIN trailDraft' = AuditWriters
      /\ trailDraft' = [v \in AuditWriters |-> trailDraft'[v]]
      /\ trailDraft'[w] = d /\ \A v \in AuditWriters \ {w} : trailDraft'[v] = trailDraft[v]
  BY DEF AuditOK
<1>2. \A v \in AuditWriters : TrailOK(trailDraft'[v])
  BY <1>1 DEF AuditOK
<1>3. auditMemory' = auditMemory /\ auditFile' = auditFile
  OBVIOUS
<1>4. AuditOK'
  BY <1>1, <1>2, <1>3 DEF AuditOK, TrailOK, ValidTrail, Stored
<1> QED
  BY <1>3, <1>4, SameFileKept

LEMMA PersistOK ==
    ASSUME AuditOK, NEW w \in AuditWriters, trailDraft[w] # NoTrail,
           PersistTrails([auditMemory EXCEPT ![trailDraft[w].trail] = trailDraft[w].events]),
           \/ auditMemory[trailDraft[w].trail] = <<>>
           \/ IsPrefix(auditMemory[trailDraft[w].trail], trailDraft[w].events)
    PROVE  AuditOK' /\ Kept
<1> DEFINE name == trailDraft[w].trail
           new == trailDraft[w].events
           memory == [auditMemory EXCEPT ![name] = new]
<1>1. /\ name \in Trails /\ new \in Seq(AuditEvents) /\ ValidTrail(new)
      /\ Stored(auditMemory) /\ Stored(auditFile)
      /\ \A t \in Trails : IsPrefix(auditFile[t], auditMemory[t])
  BY DEF AuditOK, TrailOK
<1>2. auditMemory' = memory /\ auditFile' \in {memory, auditFile} /\ trailDraft' = trailDraft
  BY DEF PersistTrails
<1>3. IsPrefix(auditFile[name], new)
  <2>1. auditFile[name] \in Seq(AuditEvents) /\ auditMemory[name] \in Seq(AuditEvents)
        /\ IsPrefix(auditFile[name], auditMemory[name])
    BY <1>1 DEF Stored
  <2>2. CASE auditMemory[name] = <<>>
    BY <1>1, <2>1, <2>2, NothingIsPrefix
  <2>3. CASE IsPrefix(auditMemory[name], new)
    BY <1>1, <2>1, <2>3, PrefixOfPrefix
  <2> QED
    BY <2>2, <2>3
<1>4. memory[name] = new /\ \A t \in Trails \ {name} : memory[t] = auditMemory[t]
  BY <1>1 DEF Stored
<1>5. Stored(memory)
  <2>1. memory \in [Trails -> Seq(AuditEvents)]
    BY <1>1 DEF Stored
  <2>2. \A t \in Trails : memory[t] # <<>> => ValidTrail(memory[t])
    <3> HIDE DEF name, new, memory
    <3> QED
      BY <1>1, <1>4 DEF Stored
  <2> QED
    BY <2>1, <2>2 DEF Stored
<1> HIDE DEF name, new, memory
<1>6. \A t \in Trails : IsPrefix(auditFile[t], memory[t])
  BY <1>1, <1>3, <1>4
<1>7. \A t \in Trails : IsPrefix(memory[t], memory[t])
  BY <1>5, PrefixOfItself DEF Stored
<1>8. Stored(auditMemory') /\ Stored(auditFile')
  BY <1>1, <1>2, <1>5
<1>9. AuditOK'
  <2>1. Stored(auditMemory)' /\ Stored(auditFile)'
    BY <1>8 DEF Stored, ValidTrail
  <2>2. \A t \in Trails : IsPrefix(auditFile'[t], auditMemory'[t])
    BY <1>2, <1>6, <1>7
  <2>3. /\ DOMAIN trailDraft' = AuditWriters
        /\ trailDraft' = [v \in AuditWriters |-> trailDraft'[v]]
        /\ \A v \in AuditWriters : TrailOK(trailDraft[v])'
    BY <1>2 DEF AuditOK, TrailOK, ValidTrail
  <2> QED
    BY <2>1, <2>2, <2>3 DEF AuditOK
<1>10. Kept
  <2>1. CASE auditFile' = auditFile
    BY <2>1, SameFileKept
  <2>2. CASE auditFile' = memory
    BY <1>5, <1>6, <2>2 DEF Kept, Stored
  <2> QED
    BY <1>2, <2>1, <2>2
<1> QED
  BY <1>9, <1>10

LEMMA AuditSteps == AuditOK /\ [AuditNext]_auditVars => AuditOK' /\ Kept
<1> SUFFICES ASSUME AuditOK, [AuditNext]_auditVars PROVE AuditOK' /\ Kept
  OBVIOUS
<1>1. CASE UNCHANGED auditVars
  <2>1. trailDraft' = trailDraft /\ auditMemory' = auditMemory /\ auditFile' = auditFile
    BY <1>1 DEF auditVars
  <2>2. AuditOK'
    BY <2>1 DEF AuditOK, TrailOK, ValidTrail, Stored
  <2> QED
    BY <2>1, <2>2, SameFileKept
<1>2. ASSUME NEW w \in AuditWriters, NEW id \in EventIds, NEW at \in AuditTimes, NEW t \in Trails,
             CreateTrail(w, t, [id |-> id, at |-> at])
      PROVE  AuditOK' /\ Kept
  <2> DEFINE e == [id |-> id, at |-> at]
             d == [trail |-> t, events |-> <<e>>]
  <2>1. /\ ValidTrail(<<e>>) /\ trailDraft' = [trailDraft EXCEPT ![w] = d]
        /\ UNCHANGED <<auditMemory, auditFile>>
    BY <1>2 DEF CreateTrail, Drafts
  <2>2. e \in AuditEvents
    BY DEF AuditEvents
  <2>3. TrailOK(d)
    BY <2>1, <2>2 DEF TrailOK
  <2> HIDE DEF d
  <2> QED
    BY <2>1, <2>3, DraftsOK
<1>3. ASSUME NEW w \in AuditWriters, NEW id \in EventIds, NEW at \in AuditTimes,
             AppendEvent(w, [id |-> id, at |-> at])
      PROVE  AuditOK' /\ Kept
  <2> DEFINE e == [id |-> id, at |-> at]
             longer == Append(trailDraft[w].events, e)
             d == [trail |-> trailDraft[w].trail, events |-> longer]
  <2>1. /\ ValidTrail(longer) /\ trailDraft' = [trailDraft EXCEPT ![w] = d]
        /\ UNCHANGED <<auditMemory, auditFile>> /\ trailDraft[w] # NoTrail
    BY <1>3 DEF AppendEvent, Drafts
  <2>2. e \in AuditEvents
    BY DEF AuditEvents
  <2>3. trailDraft[w].trail \in Trails /\ trailDraft[w].events \in Seq(AuditEvents)
    BY <2>1 DEF AuditOK, TrailOK
  <2>4. longer \in Seq(AuditEvents)
    BY <2>2, <2>3
  <2> HIDE DEF longer
  <2>5. TrailOK(d)
    BY <2>1, <2>3, <2>4 DEF TrailOK
  <2> HIDE DEF d
  <2> QED
    BY <2>1, <2>5, DraftsOK
<1>4. ASSUME NEW w \in AuditWriters, NEW t \in Trails, ReadTrail(w, t) PROVE AuditOK' /\ Kept
  <2> DEFINE d == [trail |-> t, events |-> auditMemory[t]]
  <2>1. /\ auditMemory[t] # <<>> /\ trailDraft' = [trailDraft EXCEPT ![w] = d]
        /\ UNCHANGED <<auditMemory, auditFile>>
    BY <1>4 DEF ReadTrail
  <2>2. TrailOK(d)
    BY <2>1 DEF TrailOK, AuditOK, Stored
  <2> HIDE DEF d
  <2> QED
    BY <2>1, <2>2, DraftsOK
<1>5. ASSUME NEW w \in AuditWriters, StoreTrail(w) PROVE AuditOK' /\ Kept
  BY <1>5, PersistOK DEF StoreTrail
<1>6. ASSUME NEW w \in AuditWriters, AdvanceTrail(w) PROVE AuditOK' /\ Kept
  BY <1>6, PersistOK DEF AdvanceTrail, Extends
<1>7. CASE ReopenTrails
  <2>1. auditMemory' = auditFile /\ trailDraft' = trailDraft /\ auditFile' = auditFile
    BY <1>7 DEF ReopenTrails
  <2>2. Stored(auditFile)
    BY DEF AuditOK
  <2>3. \A t \in Trails : IsPrefix(auditFile[t], auditFile[t])
    BY <2>2, PrefixOfItself DEF Stored
  <2>4. AuditOK'
    BY <2>1, <2>2, <2>3 DEF AuditOK, TrailOK, ValidTrail, Stored
  <2> QED
    BY <2>1, <2>4, SameFileKept
<1> QED
  BY <1>1, <1>2, <1>3, <1>4, <1>5, <1>6, <1>7 DEF AuditNext

\* InMemoryAuditStore.advance and FileAuditStore._persist: whoever offers what, and
\* whichever writes fail, a trail in the file only gets longer and stays valid.
THEOREM TrailsSafe == AuditSpec => StoredTrailsOnlyExtend
<1>1. AuditOK /\ [AuditNext]_auditVars =>
         [\A t \in Trails :
            /\ IsPrefix(auditFile[t], auditFile'[t])
            /\ auditFile'[t] # <<>> => ValidTrail(auditFile'[t])]_auditVars
  BY AuditSteps, SMTT(30) DEF Kept
<1> QED
  BY <1>1, AuditInits, AuditSteps, PTL DEF AuditSpec, StoredTrailsOnlyExtend

-----------------------------------------------------------------------------
(***************************************************************************)
(* The encrypted partition.  A mapping is of a formatted partition, what   *)
(* is left of a plan is the end of it, and a plan that is still to format  *)
(* is for a partition without a signature.                                 *)
(***************************************************************************)
PlanNames == {"luks2-format", "luks2-open", "filesystem-create", "filesystem-mount",
              "filesystem-unmount", "luks2-close"}

LiveRecords ==
    [pc: {"idle", "confirm", "unlock", "mount", "provision", "running", "close"},
     plan: Seq(PlanNames), openedHere: BOOLEAN, foundMounted: BOOLEAN,
     result: {"none", "0", "3", "died"}]

\* The plan ends with luksOpen, with mounting or with luksClose.
PlanOK(x) ==
    /\ x.pc \in {"idle", "confirm", "running"} => x.plan = <<>>
    /\ x.pc = "unlock" => Len(x.plan) = 1 /\ x.plan[1] = "luks2-open"
    /\ x.pc = "mount" => Len(x.plan) = 1 /\ x.plan[1] = "filesystem-mount"
    /\ x.pc = "provision" =>
          /\ Len(x.plan) \in 1 .. 4
          /\ Len(x.plan) = 4 => /\ x.plan[1] = "luks2-format" /\ x.plan[2] = "luks2-open"
                                /\ x.plan[3] = "filesystem-create"
                                /\ x.plan[4] = "filesystem-mount"
          /\ Len(x.plan) = 3 => /\ x.plan[1] = "luks2-open" /\ x.plan[2] = "filesystem-create"
                                /\ x.plan[3] = "filesystem-mount"
          /\ Len(x.plan) = 2 => /\ x.plan[1] = "filesystem-create"
                                /\ x.plan[2] = "filesystem-mount"
          /\ Len(x.plan) = 1 => x.plan[1] = "filesystem-mount"
    /\ x.pc = "close" =>
          /\ Len(x.plan) \in 1 .. 2
          /\ Len(x.plan) = 2 => /\ x.plan[1] = "filesystem-unmount"
                                /\ x.plan[2] = "luks2-close"
          /\ Len(x.plan) = 1 => x.plan[1] = "luks2-close"

StorageOK ==
    /\ partition \in PartitionContents
    /\ mapper \in BOOLEAN /\ mounted \in BOOLEAN /\ overwritten = FALSE
    /\ mounted => mapper
    /\ mapper => partition.signature = "luks2"

SessionOK(x) ==
    /\ x \in LiveRecords /\ PlanOK(x)
    /\ x.pc = "provision" /\ Len(x.plan) = 4 => partition.signature = "none"
    /\ x.pc = "running" => mapper /\ mounted /\ (x.openedHere \/ x.foundMounted)
    /\ x.pc = "idle" /\ x.result = "0" /\ ~x.foundMounted => ~mapper /\ ~mounted

SecureOK == StorageOK /\ SessionOK(live)

LEMMA IdleSessions ==
    /\ IdleSession \in LiveRecords
    /\ \A x \in LiveRecords : \A result \in {"0", "3", "died"} :
          LET y == [IdleSession EXCEPT !.foundMounted = x.foundMounted, !.result = result] IN
          /\ y \in LiveRecords /\ y.pc = "idle" /\ y.plan = <<>> /\ y.result = result
          /\ y.foundMounted = x.foundMounted
<1>1. <<>> \in Seq(PlanNames)
  OBVIOUS
<1>2. IdleSession \in LiveRecords
  BY <1>1 DEF IdleSession, LiveRecords
<1>3. ASSUME NEW x \in LiveRecords, NEW result \in {"0", "3", "died"}
      PROVE  LET y == [IdleSession EXCEPT !.foundMounted = x.foundMounted, !.result = result] IN
             /\ y \in LiveRecords /\ y.pc = "idle" /\ y.plan = <<>> /\ y.result = result
             /\ y.foundMounted = x.foundMounted
  <2> DEFINE y == [IdleSession EXCEPT !.foundMounted = x.foundMounted, !.result = result]
  <2>1. x.foundMounted \in BOOLEAN
    BY DEF LiveRecords
  <2>2. y \in LiveRecords
    BY <1>2, <2>1 DEF LiveRecords
  <2>3. /\ y.pc = "idle" /\ y.plan = <<>> /\ y.result = result
        /\ y.foundMounted = x.foundMounted
    BY DEF IdleSession
  <2> QED
    BY <2>2, <2>3
<1> QED
  BY <1>2, <1>3

\* The plan that goes with each place of a session.
LEMMA NoPlan ==
    ASSUME NEW x, x.pc \in {"idle", "confirm", "running"}, x.plan = <<>>
    PROVE  PlanOK(x)
BY DEF PlanOK

LEMMA OpeningPlan ==
    ASSUME NEW x, Len(x.plan) = 1,
           \/ x.pc = "unlock" /\ x.plan[1] = "luks2-open"
           \/ x.pc = "mount" /\ x.plan[1] = "filesystem-mount"
    PROVE  PlanOK(x)
BY DEF PlanOK

LEMMA ProvisionPlan ==
    ASSUME NEW x, x.pc = "provision",
           \/ /\ Len(x.plan) = 4 /\ x.plan[1] = "luks2-format" /\ x.plan[2] = "luks2-open"
              /\ x.plan[3] = "filesystem-create" /\ x.plan[4] = "filesystem-mount"
           \/ /\ Len(x.plan) = 3 /\ x.plan[1] = "luks2-open"
              /\ x.plan[2] = "filesystem-create" /\ x.plan[3] = "filesystem-mount"
           \/ /\ Len(x.plan) = 2 /\ x.plan[1] = "filesystem-create"
              /\ x.plan[2] = "filesystem-mount"
           \/ Len(x.plan) = 1 /\ x.plan[1] = "filesystem-mount"
    PROVE  PlanOK(x)
BY DEF PlanOK

LEMMA ClosePlan ==
    ASSUME NEW x, x.pc = "close",
           \/ /\ Len(x.plan) = 2 /\ x.plan[1] = "filesystem-unmount"
              /\ x.plan[2] = "luks2-close"
           \/ Len(x.plan) = 1 /\ x.plan[1] = "luks2-close"
    PROVE  PlanOK(x)
BY DEF PlanOK

\* A session that did not end well, or that found the workspace mounted, promises
\* nothing of the mapping.
LEMMA EndOK ==
    ASSUME live \in LiveRecords, NEW result \in {"0", "3", "died"}, EndSession(result),
           result = "0" => live.foundMounted \/ (~mapper' /\ ~mounted')
    PROVE  SessionOK(live)'
<1> DEFINE y == [IdleSession EXCEPT !.foundMounted = live.foundMounted, !.result = result]
<1>1. live' = y
  BY SMTT(30) DEF EndSession, Ended
<1>2. /\ y \in LiveRecords /\ y.pc = "idle" /\ y.plan = <<>> /\ y.result = result
      /\ y.foundMounted = live.foundMounted
  BY IdleSessions
<1> HIDE DEF y
<1>3. PlanOK(y)
  BY <1>2 DEF PlanOK
<1>4. y.result = "0" /\ ~y.foundMounted => ~mapper' /\ ~mounted'
  BY <1>2
<1> QED
  BY <1>1, <1>2, <1>3, <1>4 DEF SessionOK, PlanOK

LEMMA SecureInits == SecureInit => SecureOK
<1> SUFFICES ASSUME SecureInit PROVE SecureOK
  OBVIOUS
<1>1. StorageOK
  BY SecureAssumption DEF SecureInit, StorageOK
<1>2. SessionOK(live)
  BY IdleSessions DEF SecureInit, SessionOK, PlanOK, IdleSession
<1> QED
  BY <1>1, <1>2 DEF SecureOK

\* The plans.
LEMMA PlansAre ==
    /\ \A s \in PlanNames : <<s>> \in Seq(PlanNames) /\ Len(<<s>>) = 1 /\ <<s>>[1] = s
    /\ LET p == <<"filesystem-unmount", "luks2-close">> IN
       p \in Seq(PlanNames) /\ Len(p) = 2 /\ p[1] = "filesystem-unmount" /\ p[2] = "luks2-close"
    /\ LET p == <<"luks2-format", "luks2-open", "filesystem-create", "filesystem-mount">> IN
       /\ p \in Seq(PlanNames) /\ Len(p) = 4 /\ p[1] = "luks2-format" /\ p[2] = "luks2-open"
       /\ p[3] = "filesystem-create" /\ p[4] = "filesystem-mount"
<1>1. /\ "luks2-format" \in PlanNames /\ "luks2-open" \in PlanNames
      /\ "filesystem-create" \in PlanNames /\ "filesystem-mount" \in PlanNames
      /\ "filesystem-unmount" \in PlanNames /\ "luks2-close" \in PlanNames
  BY DEF PlanNames
<1>2. \A s \in PlanNames : <<s>> \in Seq(PlanNames) /\ Len(<<s>>) = 1 /\ <<s>>[1] = s
  OBVIOUS
<1>3. <<"filesystem-unmount", "luks2-close">> \in Seq(PlanNames)
  BY <1>1
<1>4. <<"luks2-format", "luks2-open", "filesystem-create", "filesystem-mount">> \in Seq(PlanNames)
  BY <1>1
<1> QED
  BY <1>2, <1>3, <1>4

LEMMA PlanStepsAre ==
    /\ PlanSteps("uninitialized", "provision") =
          <<"luks2-format", "luks2-open", "filesystem-create", "filesystem-mount">>
    /\ PlanSteps("luks2-locked", "unlock") = <<"luks2-open">>
    /\ PlanSteps("luks2-open", "mount") = <<"filesystem-mount">>
    /\ PlanSteps("mounted", "safe-close") = <<"filesystem-unmount", "luks2-close">>
BY DEF PlanSteps

LEMMA StartOK == ASSUME SecureOK, StartSession PROVE SecureOK'
<1>1. StorageOK /\ live \in LiveRecords
  BY DEF SecureOK, SessionOK
<1>2. /\ partition' = partition /\ mapper' = mapper /\ mounted' = mounted
      /\ overwritten' = overwritten
  BY DEF StartSession, storage
<1>3. StorageOK'
  BY <1>1, <1>2 DEF StorageOK
<1>4. CASE live' = [IdleSession EXCEPT !.result = "3"]
  <2>1. live' \in LiveRecords
    BY <1>4, IdleSessions DEF LiveRecords
  <2>2. live'.pc = "idle" /\ live'.plan = <<>> /\ live'.result = "3"
    BY <1>4 DEF IdleSession
  <2>3. PlanOK(live')
    BY <2>2, NoPlan
  <2> QED
    BY <1>3, <2>1, <2>2, <2>3 DEF SessionOK, SecureOK
<1>5. CASE live' = [IdleSession EXCEPT !.pc = "confirm"]
  <2>1. live' \in LiveRecords
    BY <1>5, IdleSessions DEF LiveRecords
  <2>2. live'.pc = "confirm" /\ live'.plan = <<>>
    BY <1>5 DEF IdleSession
  <2>3. PlanOK(live')
    BY <2>2, NoPlan
  <2> QED
    BY <1>3, <2>1, <2>2, <2>3 DEF SessionOK, SecureOK
<1>6. CASE live' = [IdleSession EXCEPT !.pc = "unlock",
                                       !.plan = PlanSteps("luks2-locked", "unlock")]
  <2> DEFINE p == PlanSteps("luks2-locked", "unlock")
  <2>1. p \in Seq(PlanNames) /\ Len(p) = 1 /\ p[1] = "luks2-open"
    BY PlanStepsAre, PlansAre DEF PlanNames
  <2> HIDE DEF p
  <2>2. live' = [IdleSession EXCEPT !.pc = "unlock", !.plan = p]
    BY <1>6 DEF p
  <2>3. live' \in LiveRecords
    BY <2>1, <2>2, IdleSessions DEF LiveRecords
  <2>4. live'.pc = "unlock" /\ live'.plan = p
    BY <2>2 DEF IdleSession
  <2>5. PlanOK(live')
    BY <2>1, <2>4, OpeningPlan
  <2> QED
    BY <1>3, <2>3, <2>4, <2>5 DEF SessionOK, SecureOK
<1>7. CASE live' = [IdleSession EXCEPT !.pc = "running", !.foundMounted = TRUE]
           /\ ProbedState = "mounted"
  <2>1. mapper /\ mounted
    BY <1>1, <1>7 DEF ProbedState, StorageOK
  <2>2. live' \in LiveRecords
    BY <1>7, IdleSessions DEF LiveRecords
  <2>3. live'.pc = "running" /\ live'.plan = <<>> /\ live'.foundMounted
    BY <1>7 DEF IdleSession
  <2>4. PlanOK(live')
    BY <2>3, NoPlan
  <2> QED
    BY <1>3, <1>2, <2>1, <2>2, <2>3, <2>4 DEF SessionOK, SecureOK
<1> QED
  <2>1. ProbedState \in {"missing", "luks2-open", "error", "uninitialized", "luks2-locked", "mounted"}
    BY <1>1 DEF ProbedState, StorageOK
  <2>2. CASE ProbedState \in {"missing", "luks2-open", "error"}
    BY <1>4, <2>2 DEF StartSession
  <2>3. CASE ProbedState = "uninitialized"
    BY <1>5, <2>3 DEF StartSession
  <2>4. CASE ProbedState = "luks2-locked"
    BY <1>6, <2>4 DEF StartSession
  <2>5. CASE ProbedState = "mounted"
    BY <1>7, <2>5 DEF StartSession
  <2> QED
    BY <2>1, <2>2, <2>3, <2>4, <2>5

\* A step of the session that leaves the storage alone.
LEMMA SameStorage ==
    ASSUME SecureOK, UNCHANGED storage
    PROVE  /\ StorageOK'
           /\ partition' = partition /\ mapper' = mapper /\ mounted' = mounted
BY DEF SecureOK, StorageOK, storage

LEMMA ConfirmOK == ASSUME SecureOK, ConfirmProvisioning PROVE SecureOK'
<1>1. live \in LiveRecords /\ live.pc = "confirm" /\ UNCHANGED storage
  BY DEF SecureOK, SessionOK, ConfirmProvisioning
<1>2. CASE EndSession("3")
  BY <1>1, <1>2, SameStorage, EndOK DEF SecureOK
<1>3. CASE ~EndSession("3")
  <2> DEFINE p == PlanSteps("uninitialized", "provision")
  <2>1. /\ p \in Seq(PlanNames) /\ Len(p) = 4 /\ p[1] = "luks2-format" /\ p[2] = "luks2-open"
        /\ p[3] = "filesystem-create" /\ p[4] = "filesystem-mount"
    BY PlanStepsAre, PlansAre
  <2> HIDE DEF p
  <2>2. partition.signature = "none" /\ live' = [live EXCEPT !.pc = "provision", !.plan = p]
    BY <1>3 DEF ConfirmProvisioning, p
  <2>3. live' \in LiveRecords /\ live'.pc = "provision" /\ live'.plan = p
    BY <1>1, <2>1, <2>2 DEF LiveRecords
  <2>5. PlanOK(live')
    BY <2>1, <2>3, ProvisionPlan
  <2>4. SessionOK(live)'
    BY <1>1, <2>2, <2>3, <2>5, SameStorage DEF SessionOK
  <2> QED
    BY <1>1, <2>4, SameStorage DEF SecureOK
<1> QED
  BY <1>2, <1>3

LEMMA LeaveOK == ASSUME SecureOK, LeaveSession PROVE SecureOK'
<1>1. /\ live \in LiveRecords /\ live.pc = "running" /\ UNCHANGED storage
      /\ live.openedHere \/ live.foundMounted
  BY DEF SecureOK, SessionOK, LeaveSession
<1>2. CASE ~live.openedHere
  BY <1>1, <1>2, SameStorage, EndOK DEF SecureOK, LeaveSession
<1>3. CASE live.openedHere
  <2> DEFINE p == PlanSteps("mounted", "safe-close")
  <2>1. /\ p \in Seq(PlanNames) /\ Len(p) = 2 /\ p[1] = "filesystem-unmount"
        /\ p[2] = "luks2-close"
    BY PlanStepsAre, PlansAre
  <2> HIDE DEF p
  <2>2. live' = [live EXCEPT !.pc = "close", !.plan = p]
    BY <1>3 DEF LeaveSession, p
  <2>3. live' \in LiveRecords /\ live'.pc = "close" /\ live'.plan = p
    BY <1>1, <2>1, <2>2 DEF LiveRecords
  <2>5. PlanOK(live')
    BY <2>1, <2>3, ClosePlan
  <2>4. SessionOK(live)'
    BY <2>3, <2>5 DEF SessionOK
  <2> QED
    BY <1>1, <2>4, SameStorage DEF SecureOK
<1> QED
  BY <1>2, <1>3

\* What a command that succeeds leaves.
LEMMA CommandOK ==
    ASSUME SecureOK, NEW s \in PlanNames, CommandSucceeds(s),
           s = "luks2-format" => partition.signature = "none"
    PROVE  /\ StorageOK'
           /\ s = "filesystem-mount" => mapper' /\ mounted'
           /\ s = "luks2-close" => ~mapper' /\ ~mounted'
<1>1. StorageOK
  BY DEF SecureOK
<1>2. CASE s = "luks2-format"
  <2>1. /\ partition' = [signature |-> "luks2", filesystem |-> FALSE]
        /\ overwritten' = (overwritten \/ partition.signature # "none")
        /\ mapper' = mapper /\ mounted' = mounted
    BY <1>2 DEF CommandSucceeds
  <2>2. partition' \in PartitionContents /\ partition'.signature = "luks2"
    BY <2>1 DEF PartitionContents
  <2>3. overwritten' = FALSE
    BY <1>1, <1>2, <2>1 DEF StorageOK
  <2> QED
    BY <1>1, <1>2, <2>1, <2>2, <2>3 DEF StorageOK
<1>3. CASE s = "luks2-open"
  BY <1>1, <1>3 DEF CommandSucceeds, StorageOK
<1>4. CASE s = "filesystem-create"
  <2>1. /\ partition' = [partition EXCEPT !.filesystem = TRUE]
        /\ mapper' = mapper /\ mounted' = mounted /\ overwritten' = overwritten
    BY <1>4 DEF CommandSucceeds
  <2>2. partition' \in PartitionContents /\ partition'.signature = partition.signature
    BY <1>1, <2>1 DEF StorageOK, PartitionContents
  <2> QED
    BY <1>1, <1>4, <2>1, <2>2 DEF StorageOK
<1>5. CASE s = "filesystem-mount"
  BY <1>1, <1>5 DEF CommandSucceeds, StorageOK
<1>6. CASE s = "filesystem-unmount"
  BY <1>1, <1>6 DEF CommandSucceeds, StorageOK
<1>7. CASE s = "luks2-close"
  <2>1. /\ ~mounted /\ mapper' = FALSE /\ partition' = partition /\ mounted' = mounted
        /\ overwritten' = overwritten
    BY <1>7 DEF CommandSucceeds
  <2>2. StorageOK'
    BY <1>1, <2>1 DEF StorageOK
  <2>3. mounted' = FALSE
    BY <1>1, <2>1 DEF StorageOK
  <2> QED
    BY <1>7, <2>1, <2>2, <2>3
<1> QED
  BY <1>2, <1>3, <1>4, <1>5, <1>6, <1>7 DEF PlanNames

\* The command a plan has next, and the rest of it.
LEMMA PlanHead ==
    ASSUME NEW x \in LiveRecords, PlanOK(x), x.plan # <<>>
    PROVE  /\ Head(x.plan) \in PlanNames /\ Head(x.plan) = x.plan[1]
           /\ Len(x.plan) \in 1 .. 4
           /\ x.pc \in {"unlock", "mount", "provision", "close"}
           /\ Head(x.plan) = "luks2-format" => x.pc = "provision" /\ Len(x.plan) = 4
           /\ Len(x.plan) = 1 /\ x.pc \in {"mount", "provision"} =>
                 Head(x.plan) = "filesystem-mount"
           /\ Len(x.plan) = 1 /\ x.pc = "close" => Head(x.plan) = "luks2-close"
           /\ Len(x.plan) > 1 =>
                /\ Tail(x.plan) \in Seq(PlanNames) /\ Len(Tail(x.plan)) = Len(x.plan) - 1
                /\ \A i \in 1 .. (Len(x.plan) - 1) : Tail(x.plan)[i] = x.plan[i + 1]
<1>1. x.plan \in Seq(PlanNames) /\ x.pc \in {"idle", "confirm", "unlock", "mount", "provision",
                                              "running", "close"}
  BY DEF LiveRecords
<1>2. x.pc \in {"unlock", "mount", "provision", "close"} /\ Len(x.plan) \in 1 .. 4
  BY <1>1 DEF PlanOK
<1>3. Head(x.plan) = x.plan[1] /\ Head(x.plan) \in PlanNames
  BY <1>1
<1>4. Len(x.plan) > 1 =>
        /\ Tail(x.plan) \in Seq(PlanNames) /\ Len(Tail(x.plan)) = Len(x.plan) - 1
        /\ \A i \in 1 .. (Len(x.plan) - 1) : Tail(x.plan)[i] = x.plan[i + 1]
  BY <1>1
<1>5. x.plan[1] = "luks2-format" => x.pc = "provision" /\ Len(x.plan) = 4
  BY <1>2 DEF PlanOK
<1>6. /\ Len(x.plan) = 1 /\ x.pc \in {"mount", "provision"} => x.plan[1] = "filesystem-mount"
      /\ Len(x.plan) = 1 /\ x.pc = "close" => x.plan[1] = "luks2-close"
  BY DEF PlanOK
<1> QED
  BY <1>2, <1>3, <1>4, <1>5, <1>6

LEMMA PlanStepOK == ASSUME SecureOK, PlanStep PROVE SecureOK'
<1> DEFINE p == live.plan
<1>1. /\ live \in LiveRecords /\ PlanOK(live) /\ p # <<>> /\ CommandSucceeds(Head(p))
  BY DEF SecureOK, SessionOK, PlanStep
<1>2. /\ Head(p) \in PlanNames /\ Head(p) = p[1] /\ Len(p) \in 1 .. 4
      /\ live.pc \in {"unlock", "mount", "provision", "close"}
      /\ Head(p) = "luks2-format" => live.pc = "provision" /\ Len(p) = 4
  BY <1>1, PlanHead
<1>3. Head(p) = "luks2-format" => partition.signature = "none"
  BY <1>2 DEF SecureOK, SessionOK
<1>4. /\ StorageOK'
      /\ Head(p) = "filesystem-mount" => mapper' /\ mounted'
      /\ Head(p) = "luks2-close" => ~mapper' /\ ~mounted'
  BY <1>1, <1>2, <1>3, CommandOK
<1>5. CASE Len(p) > 1
  <2> DEFINE rest == Tail(p)
  <2>0. Len(p) = 2 \/ Len(p) = 3 \/ Len(p) = 4
    <3>1. \A n \in 1 .. 4 : n > 1 => n = 2 \/ n = 3 \/ n = 4
      OBVIOUS
    <3>2. Len(p) \in 1 .. 4
      BY <1>2
    <3> QED
      BY <1>5, <3>1, <3>2
  <2>1. /\ rest \in Seq(PlanNames) /\ Len(rest) = Len(p) - 1
        /\ \A i \in 1 .. (Len(p) - 1) : rest[i] = p[i + 1]
    BY <1>1, <1>5, PlanHead
  <2> HIDE DEF rest
  <2>2. live' = [live EXCEPT !.plan = rest]
    BY <1>1, <1>5 DEF PlanStep, rest
  <2>3. live' \in LiveRecords /\ live'.pc = live.pc /\ live'.plan = rest
    BY <1>1, <2>1, <2>2 DEF LiveRecords
  <2>4. Len(p) = 4 => rest[1] = p[2] /\ rest[2] = p[3] /\ rest[3] = p[4]
    BY <2>1
  <2>5. Len(p) = 3 => rest[1] = p[2] /\ rest[2] = p[3]
    BY <2>1
  <2>6. Len(p) = 2 => rest[1] = p[2]
    BY <2>1
  <2>7. live.pc \in {"provision", "close"}
    <3>1. live.pc \notin {"unlock", "mount"}
      BY <1>1, <2>0 DEF PlanOK
    <3> QED
      BY <1>2, <3>1
  <2>8. CASE live.pc = "provision"
    <3>1. Len(rest) \in 1 .. 3
      BY <1>2, <1>5, <2>1
    <3>2. PlanOK(live')
      <4>1. CASE Len(p) = 4
        <5>1. /\ Len(rest) = 3 /\ rest[1] = "luks2-open"
              /\ rest[2] = "filesystem-create" /\ rest[3] = "filesystem-mount"
          BY <1>1, <2>1, <2>4, <2>8, <4>1 DEF PlanOK
        <5> QED
          BY <2>3, <2>8, <5>1, ProvisionPlan
      <4>2. CASE Len(p) = 3
        <5>1. /\ Len(rest) = 2 /\ rest[1] = "filesystem-create"
              /\ rest[2] = "filesystem-mount"
          BY <1>1, <2>1, <2>5, <2>8, <4>2 DEF PlanOK
        <5> QED
          BY <2>3, <2>8, <5>1, ProvisionPlan
      <4>3. CASE Len(p) = 2
        <5>1. Len(rest) = 1 /\ rest[1] = "filesystem-mount"
          BY <1>1, <2>1, <2>6, <2>8, <4>3 DEF PlanOK
        <5> QED
          BY <2>3, <2>8, <5>1, ProvisionPlan
      <4> QED
        BY <2>0, <4>1, <4>2, <4>3
    <3>3. SessionOK(live)'
      BY <2>3, <2>8, <3>1, <3>2 DEF SessionOK
    <3> QED
      BY <1>4, <3>3 DEF SecureOK
  <2>9. CASE live.pc = "close"
    <3>1. Len(p) = 2 /\ p[2] = "luks2-close"
      BY <1>1, <1>5, <2>9 DEF PlanOK
    <3>2. PlanOK(live')
      <4>1. Len(rest) = 1 /\ rest[1] = "luks2-close"
        BY <2>1, <2>6, <3>1
      <4> QED
        BY <2>3, <2>9, <4>1, ClosePlan
    <3>3. SessionOK(live)'
      BY <2>3, <2>9, <3>2 DEF SessionOK
    <3> QED
      BY <1>4, <3>3 DEF SecureOK
  <2> QED
    BY <2>7, <2>8, <2>9
<1>6. CASE Len(p) = 1
  <2>1. live' = AfterPlan
    BY <1>6 DEF PlanStep
  <2>2. CASE live.pc = "unlock"
    <3> DEFINE m == PlanSteps("luks2-open", "mount")
    <3>1. m \in Seq(PlanNames) /\ Len(m) = 1 /\ m[1] = "filesystem-mount"
      BY PlanStepsAre, PlansAre DEF PlanNames
    <3> HIDE DEF m
    <3>2. live' = [live EXCEPT !.pc = "mount", !.plan = m]
      BY <2>1, <2>2 DEF AfterPlan, m
    <3>3. live' \in LiveRecords /\ live'.pc = "mount" /\ live'.plan = m
      BY <1>1, <3>1, <3>2 DEF LiveRecords
    <3>5. PlanOK(live')
      BY <3>1, <3>3, OpeningPlan
    <3>4. SessionOK(live)'
      BY <3>3, <3>5 DEF SessionOK
    <3> QED
      BY <1>4, <3>4 DEF SecureOK
  <2>3. CASE live.pc \in {"mount", "provision"}
    <3>1. live' = [live EXCEPT !.pc = "running", !.plan = <<>>, !.openedHere = TRUE]
      BY <2>1, <2>3 DEF AfterPlan
    <3>5. <<>> \in Seq(PlanNames)
      OBVIOUS
    <3>2. /\ live' \in LiveRecords /\ live'.pc = "running" /\ live'.plan = <<>>
          /\ live'.openedHere
      BY <1>1, <3>1, <3>5 DEF LiveRecords
    <3>3. mapper' /\ mounted'
      BY <1>1, <1>4, <1>6, <2>3, PlanHead
    <3>6. PlanOK(live')
      BY <3>2, NoPlan
    <3>4. SessionOK(live)'
      BY <3>2, <3>3, <3>6 DEF SessionOK
    <3> QED
      BY <1>4, <3>4 DEF SecureOK
  <2>4. CASE live.pc = "close"
    <3>1. EndSession("0")
      BY <2>1, <2>4 DEF AfterPlan, EndSession
    <3>2. ~mapper' /\ ~mounted'
      BY <1>1, <1>4, <1>6, <2>4, PlanHead
    <3> QED
      BY <1>1, <1>4, <3>1, <3>2, EndOK DEF SecureOK
  <2> QED
    BY <1>2, <2>2, <2>3, <2>4
<1> QED
  BY <1>2, <1>5, <1>6, SMTT(30)

LEMMA PlanFailsOK == ASSUME SecureOK, PlanFails PROVE SecureOK'
<1> DEFINE p == live.plan
<1>1. /\ live \in LiveRecords /\ PlanOK(live) /\ p # <<>> /\ EndSession("3") /\ StorageOK
  BY DEF SecureOK, SessionOK, PlanFails
<1>2. SessionOK(live)'
  BY <1>1, EndOK
<1>3. CASE UNCHANGED storage
  BY <1>2, <1>3, SameStorage DEF SecureOK
<1>4. CASE ~UNCHANGED storage
  <2>1. /\ Head(p) = "luks2-format"
        /\ partition' = [signature |-> "luks2", filesystem |-> FALSE]
        /\ overwritten' = (overwritten \/ partition.signature # "none")
        /\ mapper' = mapper /\ mounted' = mounted
    BY <1>4 DEF PlanFails
  <2>2. partition.signature = "none"
    BY <1>1, <2>1, PlanHead DEF SecureOK, SessionOK
  <2>3. partition' \in PartitionContents /\ partition'.signature = "luks2"
    BY <2>1 DEF PartitionContents
  <2>4. overwritten' = FALSE
    BY <1>1, <2>1, <2>2 DEF StorageOK
  <2> QED
    BY <1>1, <1>2, <2>1, <2>3, <2>4 DEF SecureOK, StorageOK
<1> QED
  BY <1>3, <1>4

LEMMA SecureSteps == SecureOK /\ [SecureNext]_secureVars => SecureOK'
<1> SUFFICES ASSUME SecureOK, [SecureNext]_secureVars PROVE SecureOK'
  OBVIOUS
<1>1. live \in LiveRecords /\ StorageOK
  BY DEF SecureOK, SessionOK
<1>2. CASE UNCHANGED secureVars
  BY <1>2 DEF secureVars, SecureOK, StorageOK, SessionOK, PlanOK
<1>3. CASE SessionDies
  BY <1>1, <1>3, SameStorage, EndOK DEF SessionDies, SecureOK
<1>4. CASE PowerLoss
  <2>1. StorageOK'
    BY <1>1, <1>4 DEF PowerLoss, StorageOK
  <2> QED
    BY <1>1, <1>4, <2>1, EndOK DEF PowerLoss, SecureOK
<1> QED
  BY <1>2, <1>3, <1>4, StartOK, ConfirmOK, PlanStepOK, PlanFailsOK, LeaveOK DEF SecureNext

\* run_secure_workspace_session and provision_workspace: a signature is never
\* overwritten, commands run only in the mounted encrypted workspace, and a session
\* that returned 0 leaves it locked unless it found it mounted.
THEOREM SecureSafe == SecureSpec => []SecureWorkspaceIsGuarded
<1>1. SecureOK => SecureWorkspaceIsGuarded
  BY DEF SecureOK, StorageOK, SessionOK, SecureWorkspaceIsGuarded
<1> QED
  BY <1>1, SecureInits, SecureSteps, PTL DEF SecureSpec

-----------------------------------------------------------------------------
(***************************************************************************)
(* Remediation.  The findings of the copy are as well backed as those of   *)
(* the file that they replace, and until a write of the engagement store   *)
(* fails its copy is its file.                                             *)
(***************************************************************************)
RetestStates == SuccessStates \cup NonSuccessStates

FindingRecords ==
    [status: {"open", "in-progress", "ready-for-retest", "accepted", "verified", "regressed"},
     validation: {NoFinding, "controlled"} \cup {r.binding : r \in WorkerResults},
     state: {NoFinding} \cup RetestStates,
     evidence: {NoFinding} \cup WorkerResults]

\* What RetestsAreBacked asks of the record of one finding.
BackedBy(f, x) ==
    x # NoFinding /\ x.evidence # NoFinding =>
        /\ evidenceWriteFailed \/ x.evidence \in evidenceFile
        /\ x.evidence.engagement = FindingEngagement[f]
        /\ x.validation = x.evidence.binding => x.state = x.evidence.state
        /\ x.status \in {"verified", "regressed"} => x.status = RetestStatus(x.state)

FindingsBacked(store) ==
    /\ store \in [FindingIds -> {NoFinding} \cup FindingRecords]
    /\ \A f \in FindingIds : BackedBy(f, store[f])

EvidenceOK ==
    /\ evidenceCopy \subseteq WorkerResults
    /\ evidenceFile \subseteq WorkerResults
    /\ evidenceWriteFailed \in BOOLEAN
    /\ evidenceWriteFailed \/ evidenceCopy = evidenceFile

RemediationOK == EvidenceOK /\ FindingsBacked(findingCopy) /\ FindingsBacked(findingFile)

LEMMA RemediationInits == RemediationInit => RemediationOK
<1> SUFFICES ASSUME RemediationInit PROVE RemediationOK
  OBVIOUS
<1>1. EvidenceOK
  BY DEF RemediationInit, EvidenceOK
<1>2. FindingsBacked([f \in FindingIds |-> NoFinding])
  BY DEF FindingsBacked, BackedBy
<1> QED
  BY <1>1, <1>2 DEF RemediationInit, RemediationOK

\* Storing a finding that is backed.
LEMMA StoringFinding ==
    ASSUME RemediationOK, NEW f \in FindingIds, NEW record \in FindingRecords,
           BackedBy(f, record), StoreFinding(f, record)
    PROVE  RemediationOK'
<1>1. /\ evidenceCopy' = evidenceCopy /\ evidenceFile' = evidenceFile
      /\ evidenceWriteFailed' = evidenceWriteFailed
      /\ findingCopy' = [findingCopy EXCEPT ![f] = record]
      /\ findingFile' \in {findingCopy', findingFile}
  BY DEF StoreFinding
<1>2. EvidenceOK'
  BY <1>1 DEF RemediationOK, EvidenceOK
<1> DEFINE store == [findingCopy EXCEPT ![f] = record]
<1>3. FindingsBacked(store)
  BY DEF RemediationOK, FindingsBacked
<1> HIDE DEF store
<1>4. FindingsBacked(findingCopy)'
  BY <1>1, <1>3 DEF FindingsBacked, BackedBy, store
<1>5. FindingsBacked(findingFile)'
  BY <1>1, <1>4 DEF FindingsBacked, BackedBy, RemediationOK
<1> QED
  BY <1>2, <1>4, <1>5 DEF RemediationOK

LEMMA RetestStatuses ==
    ASSUME NEW outcome
    PROVE  RetestStatus(outcome) \in {"verified", "regressed", "ready-for-retest"}
BY DEF RetestStatus

LEMMA RemediationSteps == RemediationOK /\ [RemediationNext]_remediationVars => RemediationOK'
<1> SUFFICES ASSUME RemediationOK, [RemediationNext]_remediationVars PROVE RemediationOK'
  OBVIOUS
<1> USE RemediationAssumption
<1>1. ASSUME NEW r \in WorkerResults, PersistLifecycle(r) PROVE RemediationOK'
  <2>1. /\ evidenceCopy' = evidenceCopy \cup {r}
        /\ findingCopy' = findingCopy /\ findingFile' = findingFile
        /\ \/ evidenceFile' = evidenceCopy' /\ evidenceWriteFailed' = evidenceWriteFailed
           \/ evidenceWriteFailed' = TRUE /\ evidenceFile' = evidenceFile
    BY <1>1 DEF PersistLifecycle
  <2>2. EvidenceOK'
    BY <2>1 DEF RemediationOK, EvidenceOK
  <2>3. evidenceWriteFailed' \/ (~evidenceWriteFailed /\ evidenceFile \subseteq evidenceFile')
    BY <2>1 DEF RemediationOK, EvidenceOK
  <2>4. FindingsBacked(findingCopy)'
    BY <2>1, <2>3 DEF RemediationOK, FindingsBacked, BackedBy
  <2>5. FindingsBacked(findingFile)'
    BY <2>1, <2>3 DEF RemediationOK, FindingsBacked, BackedBy
  <2> QED
    BY <2>2, <2>4, <2>5 DEF RemediationOK
<1>2. ASSUME NEW r \in WorkerResults, PersistAgain(r) PROVE RemediationOK'
  BY <1>2 DEF PersistAgain, RemediationOK, EvidenceOK, FindingsBacked, BackedBy
<1>3. ASSUME NEW f \in FindingIds, CreateFinding(f) PROVE RemediationOK'
  <2> DEFINE x == [status |-> "open", validation |-> NoFinding,
                   state |-> NoFinding, evidence |-> NoFinding]
  <2>1. x \in FindingRecords
    BY DEF FindingRecords
  <2>2. BackedBy(f, x)
    BY DEF BackedBy
  <2>3. StoreFinding(f, x)
    BY <1>3 DEF CreateFinding
  <2> HIDE DEF x
  <2> QED
    BY <2>1, <2>2, <2>3, StoringFinding
<1>4. ASSUME NEW f \in FindingIds, NEW status \in {"in-progress", "ready-for-retest", "accepted"},
             TransitionFinding(f, status)
      PROVE  RemediationOK'
  <2> DEFINE old == findingCopy[f]
             x == [old EXCEPT !.status = status]
  <2>1. old # NoFinding /\ StoreFinding(f, x)
    BY <1>4 DEF TransitionFinding
  <2>2. old \in FindingRecords /\ BackedBy(f, old)
    BY <2>1 DEF RemediationOK, FindingsBacked
  <2> HIDE DEF old
  <2>3. x \in FindingRecords /\ x.status = status
    BY <2>2 DEF FindingRecords
  <2>4. x.validation = old.validation /\ x.state = old.state /\ x.evidence = old.evidence
    BY <2>2 DEF FindingRecords
  <2> HIDE DEF x
  <2>5. BackedBy(f, x)
    BY <2>1, <2>2, <2>3, <2>4 DEF BackedBy
  <2> QED
    BY <2>1, <2>3, <2>5, StoringFinding
<1>5. ASSUME NEW f \in FindingIds, NEW outcome \in {"confirmed", "not-confirmed", "denied", "error"},
             RecordRetest(f, outcome)
      PROVE  RemediationOK'
  <2> DEFINE old == findingCopy[f]
             x == [old EXCEPT !.status = RetestStatus(outcome),
                              !.validation = "controlled", !.state = outcome]
  <2>1. old # NoFinding /\ StoreFinding(f, x)
    BY <1>5 DEF RecordRetest
  <2>2. old \in FindingRecords /\ BackedBy(f, old)
    BY <2>1 DEF RemediationOK, FindingsBacked
  <2> HIDE DEF old
  <2>3. outcome \in RetestStates
    BY DEF RetestStates, SuccessStates, NonSuccessStates
  <2>4. x \in FindingRecords
    BY <2>2, <2>3, RetestStatuses DEF FindingRecords
  <2>5. /\ x.status = RetestStatus(outcome) /\ x.validation = "controlled" /\ x.state = outcome
        /\ x.evidence = old.evidence
    BY <2>2 DEF FindingRecords
  <2>6. old.evidence = NoFinding \/ old.evidence \in WorkerResults
    BY <2>2 DEF FindingRecords
  <2> HIDE DEF x
  <2>7. BackedBy(f, x)
    BY <2>1, <2>2, <2>5, <2>6 DEF BackedBy
  <2> QED
    BY <2>1, <2>4, <2>7, StoringFinding
<1>6. ASSUME NEW f \in FindingIds, NEW r \in WorkerResults, RecordEvidenceRetest(f, r)
      PROVE  RemediationOK'
  <2> DEFINE x == [status |-> RetestStatus(r.state), validation |-> r.binding,
                   state |-> r.state, evidence |-> r]
  <2>1. /\ r \in evidenceCopy /\ r.engagement = FindingEngagement[f] /\ StoreFinding(f, x)
    BY <1>6 DEF RecordEvidenceRetest, EvidenceRetest, PersistedExactly
  <2>2. x \in FindingRecords
    BY RetestStatuses DEF FindingRecords, RetestStates
  <2>3. evidenceWriteFailed \/ r \in evidenceFile
    BY <2>1 DEF RemediationOK, EvidenceOK
  <2>4. BackedBy(f, x)
    BY <2>1, <2>3 DEF BackedBy
  <2> HIDE DEF x
  <2> QED
    BY <2>1, <2>2, <2>4, StoringFinding
<1>7. CASE RestartProcess
  BY <1>7 DEF RestartProcess, RemediationOK, EvidenceOK, FindingsBacked, BackedBy
<1>8. CASE UNCHANGED remediationVars
  BY <1>8 DEF remediationVars, RemediationOK, EvidenceOK, FindingsBacked, BackedBy
<1> QED
  BY <1>1, <1>2, <1>3, <1>4, <1>5, <1>6, <1>7, <1>8 DEF RemediationNext

\* record_persisted_validation_retest: a stored finding names only evidence that is
\* in the engagement file, of its own engagement, and says what that evidence says.
THEOREM RetestsSafe == RemediationSpec => []RetestsAreBacked
<1>1. RemediationOK => RetestsAreBacked
  BY DEF RemediationOK, FindingsBacked, BackedBy, RetestsAreBacked
<1> QED
  BY <1>1, RemediationInits, RemediationSteps, PTL DEF RemediationSpec

-----------------------------------------------------------------------------
(***************************************************************************)
(* Custody.  Every case is in the order of its times, and the case in the  *)
(* store object begins with the one in the file.                           *)
(***************************************************************************)
People == Custodians \cup {NoCase}

CustodyEvents ==
    [type: Origins \cup {"transferred", "exported"}, evidence: CaseEvidence \cup {NoCase},
     at: CaseTimes, actor: People, to: People]

InOrderOfTime(events) ==
    \A i \in 1 .. Len(events) : \A j \in 1 .. (i - 1) : events[j].at <= events[i].at

CaseOK(case) ==
    /\ case.events \in Seq(CustodyEvents)
    /\ Len(case.events) >= 1
    /\ InOrderOfTime(case.events)

CustodyOK ==
    /\ draft = [c \in Clients |-> draft[c]]
    /\ \A c \in Clients : draft[c] # NoCase => CaseOK(draft[c])
    /\ caseCopy # NoCase => CaseOK(caseCopy)
    /\ caseFile # NoCase =>
          /\ CaseOK(caseFile)
          /\ caseCopy # NoCase
          /\ IsPrefix(caseFile.events, caseCopy.events)

\* A finite set of indices that is not empty has its maximum in it.
LEMMA MaxOfNaturals ==
    ASSUME NEW n \in Nat, NEW S \in SUBSET (0 .. n), S # {}
    PROVE  Max(S) \in S /\ \A k \in S : k <= Max(S)
<1> DEFINE Above(k) == {j \in S : j > k}
           T == {Above(k) : k \in S}
<1>1. IsFiniteSet(S)
  <2>1. S \in SUBSET Nat /\ \A k \in S : k <= n
    OBVIOUS
  <2> QED
    BY <2>1, FS_BoundedSetOfNaturals
<1>2. T \subseteq FiniteSubsetsOf(S) /\ T # {}
  <2>1. \A k \in S : Above(k) \subseteq S /\ IsFiniteSet(Above(k))
    BY <1>1, FS_Subset
  <2> QED
    BY <2>1 DEF FiniteSubsetsOf
<1>3. PICK least \in T : \A other \in T : <<other, least>> \notin StrictSubsetOrdering(S)
  <2> HIDE DEF T
  <2> QED
    BY <1>2, WFMin, FS_StrictSubsetOrderingWellFounded
<1>4. PICK top \in S : least = Above(top)
  OBVIOUS
<1>5. \A k \in S : k <= top
  <2> SUFFICES ASSUME NEW k \in S, k > top PROVE FALSE
    OBVIOUS
  <2>1. Above(k) \in T /\ Above(k) \in SUBSET S /\ Above(top) \in SUBSET S
    OBVIOUS
  <2>2. k \in Above(top) /\ k \notin Above(k)
    OBVIOUS
  <2>3. ASSUME NEW j \in S, j > k PROVE j > top
    BY <2>3
  <2>4. Above(k) \subseteq Above(top)
    BY <2>3
  <2>5. <<Above(k), Above(top)>> \in StrictSubsetOrdering(S)
    BY <2>1, <2>2, <2>4 DEF StrictSubsetOrdering
  <2> QED
    BY <1>3, <1>4, <2>1, <2>5
<1> HIDE DEF T
<1>6. \E x \in S : \A y \in S : x >= y
  BY <1>5
<1>7. Max(S) \in S /\ \A y \in S : Max(S) >= y
  BY <1>6 DEF Max
<1> QED
  BY <1>7

\* A longer history names the same custodian at a time the shorter one has passed.
LEMMA LongerHistoryAgrees ==
    ASSUME NEW old, CaseOK(old), NEW new, CaseOK(new), IsPrefix(old.events, new.events),
           NEW e, NEW t \in CaseTimes, t < Last(old.events).at
    PROVE  CustodianAt(new, e, t) = CustodianAt(old, e, t)
<1> DEFINE n == Len(old.events)
           m == Len(new.events)
<1> USE CustodyAssumption
<1>1. /\ n \in Nat /\ n >= 1 /\ m \in Nat /\ n <= m
      /\ \A i \in 1 .. n : old.events[i] = new.events[i]
      /\ old.events \in Seq(CustodyEvents) /\ new.events \in Seq(CustodyEvents)
  BY PrefixIs DEF CaseOK
<1>2. DOMAIN old.events = 1 .. n /\ DOMAIN new.events = 1 .. m
  BY <1>1
<1>3. \A i \in 1 .. m : new.events[i] \in CustodyEvents
  BY <1>1
<1>4. \A i \in 1 .. m : new.events[i].at \in Nat
  BY <1>3 DEF CustodyEvents
<1>5. Last(old.events) = new.events[n]
  BY <1>1 DEF Last
<1>6. \A i \in 1 .. m : i > n => new.events[n].at <= new.events[i].at
  BY <1>1 DEF CaseOK, InOrderOfTime
<1>7. t \in Nat /\ t < new.events[n].at
  BY <1>5
<1> HIDE DEF n, m
<1>8. \A i \in 1 .. m : new.events[i].at <= t => i \in 1 .. n
  <2> SUFFICES ASSUME NEW i \in 1 .. m, new.events[i].at <= t, i > n PROVE FALSE
    BY <1>1
  <2>1. new.events[n].at <= new.events[i].at /\ n \in 1 .. m
    BY <1>1, <1>6
  <2>2. new.events[i].at \in Nat /\ new.events[n].at \in Nat
    BY <1>4, <2>1
  <2> QED
    BY <1>7, <2>1, <2>2
<1>9. UpTo(new.events, t) = UpTo(old.events, t) /\ UpTo(old.events, t) \subseteq 1 .. n
  <2>1. 1 .. n \subseteq 1 .. m
    BY <1>1
  <2> QED
    BY <1>1, <1>2, <1>8, <2>1 DEF UpTo
<1> DEFINE given == {i \in UpTo(old.events, t) : old.events[i].evidence = e}
<1>10. given = {i \in UpTo(new.events, t) : new.events[i].evidence = e}
  BY <1>1, <1>9
<1>11. given # {} => Max(given) \in 1 .. n
  <2>1. given \in SUBSET (0 .. n)
    BY <1>1, <1>9
  <2>2. given \subseteq 1 .. n
    BY <1>9
  <2> HIDE DEF given
  <2> QED
    BY <1>1, <2>1, <2>2, MaxOfNaturals
<1>12. CustodianAt(old, e, t) = IF given = {} THEN NoCase ELSE old.events[Max(given)].to
  BY DEF CustodianAt, HolderAmong
<1>13. CustodianAt(new, e, t) = IF given = {} THEN NoCase ELSE new.events[Max(given)].to
  BY <1>10 DEF CustodianAt, HolderAmong
<1> HIDE DEF given
<1> QED
  BY <1>1, <1>11, <1>12, <1>13

\* _validate_events: a case it accepts is in the order of its times.
LEMMA AcceptedCase ==
    ASSUME NEW case, case.events \in Seq(CustodyEvents), Len(case.events) >= 1, ValidCase(case)
    PROVE  CaseOK(case)
<1> DEFINE events == case.events
<1>1. ASSUME NEW i \in 1 .. Len(events), NEW j \in 1 .. (i - 1)
      PROVE  events[j].at <= events[i].at
  <2> DEFINE before == SubSeq(events, 1, i - 1)
  <2>0. ValidEvent(case, i)
    <3>1. i \in DOMAIN case.events
      OBVIOUS
    <3> QED
      BY <3>1 DEF ValidCase
  <2>1. \A k \in DOMAIN before : before[k].at <= events[i].at
    BY <2>0 DEF ValidEvent
  <2>2. \A k \in 1 .. (i - 1) : events[k] \in CustodyEvents
    OBVIOUS
  <2>3. before \in Seq(CustodyEvents) /\ Len(before) = i - 1 /\ before[j] = events[j]
    BY <2>2, SubSeqProperties
  <2> HIDE DEF before
  <2>4. j \in DOMAIN before
    BY <2>3
  <2> QED
    BY <2>1, <2>3, <2>4
<1> QED
  BY <1>1 DEF CaseOK, InOrderOfTime

LEMMA CustodyInits == CustodyInit => CustodyOK
BY DEF CustodyInit, CustodyOK

\* What a step may not do to the file: as PastCustodyIsSettled.
Settled ==
    caseFile # NoCase =>
        /\ caseFile' # NoCase
        /\ \A e \in DOMAIN caseFile.items, t \in CaseTimes :
            t < Last(caseFile.events).at =>
                CustodianAt(caseFile', e, t) = CustodianAt(caseFile, e, t)

LEMMA SameFileSettled == ASSUME caseFile' = caseFile PROVE Settled
BY DEF Settled

\* A client that drafts a case the code accepts.
LEMMA Drafting ==
    ASSUME CustodyOK, NEW c \in Clients, NEW case, Drafted(c, case),
           case.events \in Seq(CustodyEvents), Len(case.events) >= 1
    PROVE  CustodyOK' /\ Settled
<1>1. /\ draft' = [draft EXCEPT ![c] = case] /\ caseCopy' = caseCopy /\ caseFile' = caseFile
      /\ CaseOK(case)
  BY AcceptedCase DEF Drafted
<1>2. /\ draft' = [d \in Clients |-> draft'[d]]
      /\ draft'[c] = case /\ \A d \in Clients \ {c} : draft'[d] = draft[d]
  BY <1>1 DEF CustodyOK
<1>3. CustodyOK'
  BY <1>1, <1>2 DEF CustodyOK, CaseOK, InOrderOfTime
<1> QED
  BY <1>1, <1>3, SameFileSettled

\* A case drafted from one the client has: one event more.
LEMMA Extending ==
    ASSUME CustodyOK, NEW c \in Clients, draft[c] # NoCase, NEW event \in CustodyEvents, NEW items,
           Drafted(c, Extended(draft[c], event, items))
    PROVE  CustodyOK' /\ Settled
<1> DEFINE case == Extended(draft[c], event, items)
<1>1. draft[c].events \in Seq(CustodyEvents)
  BY DEF CustodyOK, CaseOK
<1>2. case.events = Append(draft[c].events, event)
  BY DEF Extended
<1>3. case.events \in Seq(CustodyEvents) /\ Len(case.events) >= 1
  BY <1>1, <1>2
<1> HIDE DEF case
<1> QED
  BY <1>3, Drafting DEF case

\* The store takes a case that begins with the one it has.
LEMMA Persisting ==
    ASSUME CustodyOK, NEW c \in Clients, draft[c] # NoCase, PersistCase(c),
           caseCopy = NoCase \/ IsPrefix(caseCopy.events, draft[c].events)
    PROVE  CustodyOK' /\ Settled
<1>1. draft' = draft /\ caseCopy' = draft[c] /\ caseFile' \in {draft[c], caseFile}
  BY DEF PersistCase
<1>2. CaseOK(draft[c])
  BY DEF CustodyOK
<1>3. caseFile # NoCase => CaseOK(caseFile) /\ IsPrefix(caseFile.events, draft[c].events)
  <2> SUFFICES ASSUME caseFile # NoCase
               PROVE  CaseOK(caseFile) /\ IsPrefix(caseFile.events, draft[c].events)
    OBVIOUS
  <2>1. /\ CaseOK(caseFile) /\ CaseOK(caseCopy) /\ caseCopy # NoCase
        /\ IsPrefix(caseFile.events, caseCopy.events)
    BY DEF CustodyOK
  <2> QED
    BY <1>2, <2>1, PrefixOfPrefix DEF CaseOK
<1>4. IsPrefix(draft[c].events, draft[c].events)
  BY <1>2, PrefixOfItself DEF CaseOK
<1>5. CustodyOK'
  BY <1>1, <1>2, <1>3, <1>4 DEF CustodyOK, CaseOK, InOrderOfTime
<1>6. Settled
  <2>1. CASE caseFile' = caseFile
    BY <2>1, SameFileSettled
  <2>2. CASE caseFile' = draft[c]
    BY <1>2, <1>3, <2>2, LongerHistoryAgrees DEF Settled
  <2> QED
    BY <1>1, <2>1, <2>2
<1> QED
  BY <1>5, <1>6

LEMMA EventsAre ==
    ASSUME NEW type \in Origins \cup {"transferred", "exported"},
           NEW e \in CaseEvidence \cup {NoCase}, NEW at \in CaseTimes,
           NEW actor \in People, NEW to \in People
    PROVE  Event(type, e, at, actor, to) \in CustodyEvents
BY DEF Event, CustodyEvents

LEMMA CustodySteps == CustodyOK /\ [CustodyNext]_custodyVars => CustodyOK' /\ Settled
<1> SUFFICES ASSUME CustodyOK, CustodyNext \/ UNCHANGED custodyVars
             PROVE  CustodyOK' /\ Settled
  OBVIOUS
<1>1. ASSUME NEW c \in Clients, NEW e \in CaseEvidence, NEW at \in CaseTimes,
             NEW level \in Levels, NEW actor \in Custodians, CreateCase(c, e, at, level, actor)
      PROVE  CustodyOK' /\ Settled
  <2> DEFINE event == Event("ingested", e, at, actor, actor)
             case == [items |-> [x \in {e} |-> Item(at, level, {})], events |-> <<event>>]
  <2>1. Drafted(c, case)
    BY <1>1 DEF CreateCase
  <2>2. event \in CustodyEvents
    BY EventsAre DEF Origins, People
  <2> HIDE DEF event
  <2>3. case.events \in Seq(CustodyEvents) /\ Len(case.events) >= 1
    BY <2>2
  <2> HIDE DEF case
  <2> QED
    BY <2>1, <2>3, Drafting
<1>2. ASSUME NEW c \in Clients, NEW e \in CaseEvidence, NEW at \in CaseTimes,
             NEW level \in Levels, NEW actor \in Custodians, NEW parents \in SUBSET CaseEvidence,
             AddRecord(c, e, at, level, parents, actor)
      PROVE  CustodyOK' /\ Settled
  <2> DEFINE type == IF parents = {} THEN "ingested" ELSE "derived"
             event == Event(type, e, at, actor, actor)
             items == [x \in DOMAIN draft[c].items \cup {e} |->
                          IF x = e THEN Item(at, level, parents) ELSE draft[c].items[x]]
  <2>1. draft[c] # NoCase /\ Drafted(c, Extended(draft[c], event, items))
    BY <1>2 DEF AddRecord
  <2>2. event \in CustodyEvents
    BY EventsAre DEF Origins, People
  <2> HIDE DEF event, items
  <2> QED
    BY <2>1, <2>2, Extending
<1>3. ASSUME NEW c \in Clients, NEW e \in CaseEvidence, NEW at \in CaseTimes,
             NEW actor \in Custodians, NEW to \in Custodians, Transfer(c, e, at, actor, to)
      PROVE  CustodyOK' /\ Settled
  <2> DEFINE event == Event("transferred", e, at, actor, to)
  <2>1. draft[c] # NoCase /\ Drafted(c, Extended(draft[c], event, draft[c].items))
    BY <1>3 DEF Transfer
  <2>2. event \in CustodyEvents
    BY EventsAre DEF People
  <2> HIDE DEF event
  <2> QED
    BY <2>1, <2>2, Extending
<1>4. ASSUME NEW c \in Clients, NEW at \in CaseTimes, Export(c, at)
      PROVE  CustodyOK' /\ Settled
  <2> DEFINE event == Event("exported", NoCase, at, NoCase, NoCase)
  <2>1. draft[c] # NoCase /\ Drafted(c, Extended(draft[c], event, draft[c].items))
    BY <1>4 DEF Export
  <2>2. event \in CustodyEvents
    BY EventsAre DEF People
  <2> HIDE DEF event
  <2> QED
    BY <2>1, <2>2, Extending
<1>5. ASSUME NEW c \in Clients, ReadCase(c) PROVE CustodyOK' /\ Settled
  <2>1. /\ caseCopy # NoCase /\ draft' = [draft EXCEPT ![c] = caseCopy]
        /\ caseCopy' = caseCopy /\ caseFile' = caseFile
    BY <1>5 DEF ReadCase
  <2>2. /\ draft' = [d \in Clients |-> draft'[d]]
        /\ draft'[c] = caseCopy /\ \A d \in Clients \ {c} : draft'[d] = draft[d]
    BY <2>1 DEF CustodyOK
  <2>3. CustodyOK'
    BY <2>1, <2>2 DEF CustodyOK, CaseOK, InOrderOfTime
  <2> QED
    BY <2>1, <2>3, SameFileSettled
<1>6. ASSUME NEW c \in Clients, StoreCreate(c) PROVE CustodyOK' /\ Settled
  BY <1>6, Persisting DEF StoreCreate
<1>7. ASSUME NEW c \in Clients, StoreAdvance(c) PROVE CustodyOK' /\ Settled
  BY <1>7, Persisting DEF StoreAdvance, AppendOnly
<1>8. CASE RestartStore
  <2>1. draft' = draft /\ caseCopy' = caseFile /\ caseFile' = caseFile
    BY <1>8 DEF RestartStore
  <2>2. caseFile # NoCase => IsPrefix(caseFile.events, caseFile.events)
    BY PrefixOfItself DEF CustodyOK, CaseOK
  <2>3. CustodyOK'
    BY <2>1, <2>2 DEF CustodyOK, CaseOK, InOrderOfTime
  <2> QED
    BY <2>1, <2>3, SameFileSettled
<1>9. CASE UNCHANGED custodyVars
  <2>1. draft' = draft /\ caseCopy' = caseCopy /\ caseFile' = caseFile
    BY <1>9 DEF custodyVars
  <2> QED
    BY <2>1, SameFileSettled DEF CustodyOK, CaseOK, InOrderOfTime
<1> QED
  BY <1>1, <1>2, <1>3, <1>4, <1>5, <1>6, <1>7, <1>8, <1>9 DEF CustodyNext

\* EvidenceCustodyCase and FileCustodyStore: who held an item at a time the stored
\* history has passed never changes again.
THEOREM CustodySettled == CustodySpec => PastCustodyIsSettled
<1>1. CustodyOK /\ [CustodyNext]_custodyVars =>
        [caseFile # NoCase =>
            /\ caseFile' # NoCase
            /\ \A e \in DOMAIN caseFile.items, t \in CaseTimes :
                t < Last(caseFile.events).at =>
                    CustodianAt(caseFile', e, t) = CustodianAt(caseFile, e, t)]_custodyVars
  BY CustodySteps DEF Settled
<1> QED
  BY <1>1, CustodyInits, CustodySteps, PTL DEF CustodySpec, PastCustodyIsSettled

-----------------------------------------------------------------------------
(***************************************************************************)
(* Check packs.  A job on its way to activate a version has its file in    *)
(* the store and remembers a state that was consistent when it was read;   *)
(* files of versions never go away, so it still is.                        *)
(***************************************************************************)
PackStates == [active: Versions \cup {NoPack}, history: Seq(Versions)]
Files == [Packs -> [Versions -> PackContents \cup {NoPack}]]

\* The state x of pack p agrees with these files.
StateOK(files, p, x) ==
    /\ x \in PackStates /\ Len(x.history) <= MaxHistory
    /\ x.active = NoPack => x.history = <<>>
    /\ x.active # NoPack => files[p][x.active] # NoPack
    /\ \A i \in 1 .. Len(x.history) : files[p][x.history[i]] # NoPack
    /\ \A i \in 1 .. (Len(x.history) - 1) : x.history[i] # x.history[i + 1]
    /\ x.history # <<>> => x.history[Len(x.history)] # x.active

SyncJobs ==
    [step: {"validate", "accept", "entry", "report", "store", "write", "state", "activate"},
     feed: Feeds, todo: Seq(Entries), sync: BOOLEAN, ok: BOOLEAN, seen: {NoPack} \cup PackStates]

SyncOK(files, j) ==
    LET e == Head(j.todo) IN
    /\ j \in SyncJobs
    /\ j.step \in {"store", "write", "state", "activate"} => j.todo # <<>>
    /\ j.step \in {"state", "activate"} => files[e.pack][e.version] # NoPack
    /\ j.step = "activate" => StateOK(files, e.pack, j.seen) /\ j.seen.active # e.version

RollbackOK(files, j) ==
    /\ j \in [step: {"rollback"}, pack: Packs, seen: PackStates]
    /\ j.seen.history # <<>>
    /\ StateOK(files, j.pack, j.seen)

JobOK(files, j) == j = Idle \/ SyncOK(files, j) \/ RollbackOK(files, j)

PacksOK ==
    /\ feed \in Feeds \cup {NoPack}
    /\ version \in Files
    /\ state \in [Packs -> PackStates]
    /\ \A p \in Packs : StateOK(version, p, state[p])
    /\ job = [c \in Commands |-> job[c]]
    /\ \A c \in Commands : JobOK(version, job[c])

\* No file of a version goes away.
Grown(files, more) ==
    \A p \in Packs, v \in Versions : files[p][v] # NoPack => more[p][v] # NoPack

LEMMA EntriesAre ==
    ASSUME NEW todo \in Seq(Entries), todo # <<>>
    PROVE  /\ Head(todo) \in Entries /\ Head(todo).pack \in Packs
           /\ Head(todo).version \in Versions /\ Head(todo).sha256 \in PackContents
           /\ Tail(todo) \in Seq(Entries)
<1>1. Head(todo) \in Entries /\ Tail(todo) \in Seq(Entries)
  OBVIOUS
<1> QED
  BY <1>1 DEF Entries

LEMMA StateStaysOK ==
    ASSUME NEW files, NEW more, Grown(files, more), NEW p \in Packs, NEW x, StateOK(files, p, x)
    PROVE  StateOK(more, p, x)
<1>1. x \in PackStates
  BY DEF StateOK
<1>2. x.active \in Versions \cup {NoPack} /\ x.history \in Seq(Versions)
  BY <1>1 DEF PackStates
<1>3. \A i \in 1 .. Len(x.history) : x.history[i] \in Versions
  BY <1>2
<1> QED
  BY <1>2, <1>3 DEF StateOK, Grown

LEMMA JobStaysOK ==
    ASSUME NEW files, NEW more, Grown(files, more), NEW j, JobOK(files, j)
    PROVE  JobOK(more, j)
<1>1. CASE j = Idle
  BY <1>1 DEF JobOK
<1>2. CASE RollbackOK(files, j)
  BY <1>2, StateStaysOK DEF JobOK, RollbackOK
<1>3. CASE SyncOK(files, j)
  <2>1. j \in SyncJobs /\ j.todo \in Seq(Entries)
    BY <1>3 DEF SyncOK, SyncJobs
  <2>2. j.todo # <<>> => Head(j.todo).pack \in Packs /\ Head(j.todo).version \in Versions
    BY <2>1, EntriesAre
  <2>3. j.step \in {"store", "write", "state", "activate"} => j.todo # <<>>
    BY <1>3 DEF SyncOK
  <2> DEFINE e == Head(j.todo)
  <2>4. j.step \in {"state", "activate"} => more[e.pack][e.version] # NoPack
    BY <1>3, <2>2, <2>3 DEF SyncOK, Grown
  <2>5. j.step = "activate" => StateOK(more, e.pack, j.seen) /\ j.seen.active # e.version
    BY <1>3, <2>2, <2>3, StateStaysOK DEF SyncOK
  <2> QED
    BY <2>1, <2>3, <2>4, <2>5 DEF JobOK, SyncOK
<1> QED
  BY <1>1, <1>2, <1>3 DEF JobOK

\* A step of the command c that leaves it with the job j.
LEMMA Working ==
    ASSUME PacksOK, NEW c \in Commands, NEW j, JobOK(version', j), job' = [job EXCEPT ![c] = j],
           Grown(version, version'), feed' \in Feeds \cup {NoPack}, version' \in Files,
           state' \in [Packs -> PackStates], \A p \in Packs : StateOK(version', p, state'[p])
    PROVE  PacksOK'
<1>1. /\ job' = [d \in Commands |-> job'[d]]
      /\ job'[c] = j /\ \A d \in Commands \ {c} : job'[d] = job[d]
  BY DEF PacksOK
<1>2. \A d \in Commands : JobOK(version', job'[d])
  BY <1>1, JobStaysOK DEF PacksOK
<1> QED
  BY <1>1, <1>2 DEF PacksOK

LEMMA WorkingOnly ==
    ASSUME PacksOK, NEW c \in Commands, NEW j, JobOK(version, j), job' = [job EXCEPT ![c] = j],
           feed' \in Feeds \cup {NoPack}, version' = version, state' = state
    PROVE  PacksOK'
BY Working DEF PacksOK, Grown

LEMMA Exiting ==
    ASSUME PacksOK, NEW c \in Commands, Exit(c),
           feed' \in Feeds \cup {NoPack}, version' = version, state' = state
    PROVE  PacksOK'
BY WorkingOnly DEF Exit, JobOK

\* A job at one of the steps of a synchronisation or an installation.
LEMMA SyncJob ==
    ASSUME PacksOK, NEW c \in Commands, Step(c) \notin {"idle", "rollback"}
    PROVE  SyncOK(version, job[c])
BY DEF PacksOK, JobOK, RollbackOK, Idle, Step

LEMMA JobOnTo ==
    ASSUME NEW j \in SyncJobs, NEW where \in {"accept", "entry", "report", "store", "write", "state"},
           NEW files, j.todo # <<>> \/ where \in {"accept", "entry", "report"},
           where = "state" => files[Head(j.todo).pack][Head(j.todo).version] # NoPack
    PROVE  JobOK(files, [j EXCEPT !.step = where])
<1> DEFINE k == [j EXCEPT !.step = where]
<1>1. k \in SyncJobs
  BY DEF SyncJobs
<1>2. k.step = where /\ k.todo = j.todo
  BY DEF SyncJobs
<1> HIDE DEF k
<1>3. SyncOK(files, k)
  BY <1>1, <1>2 DEF SyncOK
<1> QED
  BY <1>3 DEF JobOK, k

LEMMA JobNextEntry ==
    ASSUME NEW j \in SyncJobs, j.todo # <<>>, NEW files
    PROVE  /\ JobOK(files, [j EXCEPT !.step = "entry", !.todo = Tail(@)])
           /\ JobOK(files, [j EXCEPT !.step = "entry", !.todo = Tail(@), !.ok = FALSE])
<1> DEFINE k == [j EXCEPT !.step = "entry", !.todo = Tail(@)]
           l == [j EXCEPT !.step = "entry", !.todo = Tail(@), !.ok = FALSE]
<1>1. j.todo \in Seq(Entries)
  BY DEF SyncJobs
<1>2. Tail(j.todo) \in Seq(Entries)
  BY <1>1
<1>3. k \in SyncJobs /\ k.step = "entry"
  BY <1>2 DEF SyncJobs
<1>4. l \in SyncJobs /\ l.step = "entry"
  BY <1>2 DEF SyncJobs
<1> HIDE DEF k, l
<1>5. SyncOK(files, k) /\ SyncOK(files, l)
  BY <1>3, <1>4 DEF SyncOK
<1> QED
  BY <1>5 DEF JobOK, k, l

\* The ends of one entry.
LEMMA EntryEnds ==
    ASSUME PacksOK, NEW c \in Commands, job[c] \in SyncJobs, job[c].todo # <<>>,
           EntryDone(c) \/ EntryFails(c), Grown(version, version'),
           feed' = feed, version' \in Files,
           state' \in [Packs -> PackStates], \A p \in Packs : StateOK(version', p, state'[p])
    PROVE  PacksOK'
<1> DEFINE k == [job[c] EXCEPT !.step = "entry", !.todo = Tail(@)]
           l == [job[c] EXCEPT !.step = "entry", !.todo = Tail(@), !.ok = FALSE]
<1>1. JobOK(version', k) /\ JobOK(version', l) /\ JobOK(version', Idle)
  BY JobNextEntry DEF JobOK
<1>2. \/ job' = [job EXCEPT ![c] = k] \/ job' = [job EXCEPT ![c] = l]
      \/ job' = [job EXCEPT ![c] = Idle]
  BY DEF EntryDone, EntryFails, Exit
<1> HIDE DEF k, l
<1>3. feed' \in Feeds \cup {NoPack}
  BY DEF PacksOK
<1> QED
  BY <1>1, <1>2, <1>3, Working

LEMMA SameFiles ==
    ASSUME PacksOK, version' = version, state' = state
    PROVE  /\ Grown(version, version') /\ version' \in Files
           /\ state' \in [Packs -> PackStates] /\ \A p \in Packs : StateOK(version', p, state'[p])
BY DEF PacksOK, Grown

LEMMA PacksInits == PacksInit => PacksOK
<1> SUFFICES ASSUME PacksInit PROVE PacksOK
  OBVIOUS
<1> DEFINE x == [active |-> NoPack, history |-> <<>>]
<1>1. x \in PackStates /\ x.active = NoPack /\ x.history = <<>>
  <2>1. <<>> \in Seq(Versions)
    OBVIOUS
  <2> QED
    BY <2>1 DEF PackStates
<1>2. MaxHistory \in Nat
  BY FeedAssumption
<1>3. \A p \in Packs : state[p] = x
  BY DEF PacksInit
<1>4. state \in [Packs -> PackStates]
  BY <1>1 DEF PacksInit
<1>5. version \in Files
  BY DEF PacksInit, Files
<1> HIDE DEF x
<1>6. \A p \in Packs : StateOK(version, p, x)
  BY <1>1, <1>2 DEF StateOK
<1>7. /\ feed \in Feeds \cup {NoPack} /\ job = [c \in Commands |-> job[c]]
      /\ \A c \in Commands : JobOK(version, job[c])
  BY DEF PacksInit, JobOK
<1> QED
  BY <1>3, <1>4, <1>5, <1>6, <1>7 DEF PacksOK

LEMMA BeginOK ==
    ASSUME PacksOK, NEW c \in Commands, NEW f \in Feeds, NEW todo \in Seq(Entries),
           NEW sync \in BOOLEAN, Begin(c, f, todo, sync)
    PROVE  PacksOK'
<1> DEFINE j == [step |-> "validate", feed |-> f, todo |-> todo,
                 sync |-> sync, ok |-> TRUE, seen |-> NoPack]
<1>1. /\ job' = [job EXCEPT ![c] = j] /\ feed' = feed /\ version' = version /\ state' = state
  BY DEF Begin
<1>2. j \in SyncJobs /\ j.step = "validate"
  BY DEF SyncJobs
<1> HIDE DEF j
<1>3. JobOK(version, j)
  BY <1>2 DEF JobOK, SyncOK
<1> QED
  BY <1>1, <1>3, WorkingOnly DEF PacksOK

LEMMA StartingOK == ASSUME PacksOK, NEW c \in Commands, Start(c) PROVE PacksOK'
<1>1. ASSUME NEW f \in Feeds, BeginSync(c, f) PROVE PacksOK'
  BY <1>1, BeginOK, FeedAssumption DEF BeginSync
<1>2. ASSUME NEW f \in Feeds, NEW p \in Packs, BeginInstall(c, f, p) PROVE PacksOK'
  <2>1. f.packs \in Seq(Entries)
    BY FeedAssumption
  <2>2. ASSUME NEW i \in DOMAIN f.packs, Begin(c, f, <<f.packs[i]>>, FALSE) PROVE PacksOK'
    <3>1. f.packs[i] \in Entries
      BY <2>1
    <3>2. <<f.packs[i]>> \in Seq(Entries)
      BY <3>1
    <3> QED
      BY <2>2, <3>2, BeginOK
  <2>3. ASSUME Begin(c, f, <<>>, FALSE) PROVE PacksOK'
    <3>1. <<>> \in Seq(Entries)
      OBVIOUS
    <3> QED
      BY <2>3, <3>1, BeginOK
  <2> QED
    BY <1>2, <2>2, <2>3 DEF BeginInstall
<1>3. ASSUME NEW p \in Packs, RollbackRead(c, p) PROVE PacksOK'
  <2> DEFINE j == [step |-> "rollback", pack |-> p, seen |-> state[p]]
  <2>1. /\ job' = [job EXCEPT ![c] = j] /\ feed' = feed /\ version' = version /\ state' = state
        /\ state[p].history # <<>>
    BY <1>3 DEF RollbackRead
  <2>2. state[p] \in PackStates /\ StateOK(version, p, state[p])
    BY DEF PacksOK
  <2>3. RollbackOK(version, j)
    BY <2>1, <2>2 DEF RollbackOK
  <2> HIDE DEF j
  <2> QED
    BY <2>1, <2>3, WorkingOnly DEF PacksOK, JobOK
<1> QED
  BY <1>1, <1>2, <1>3 DEF Start

LEMMA FeedStepsOK ==
    ASSUME PacksOK, NEW c \in Commands, ValidateFeed(c) \/ AcceptFeed(c) PROVE PacksOK'
<1>1. Step(c) \in {"validate", "accept"}
  BY DEF ValidateFeed, AcceptFeed
<1>2. SyncOK(version, job[c])
  BY <1>1, SyncJob
<1>3. job[c] \in SyncJobs /\ job[c].feed \in Feeds
  BY <1>2 DEF SyncOK, SyncJobs
<1>4. version' = version /\ state' = state /\ feed' \in Feeds \cup {NoPack}
  BY <1>3 DEF ValidateFeed, AcceptFeed, PacksOK
<1>5. \A where \in {"accept", "entry"} : JobOK(version, [job[c] EXCEPT !.step = where])
  BY <1>3, JobOnTo
<1>6. CASE Exit(c)
  BY <1>4, <1>6, Exiting
<1>7. ASSUME NEW where \in {"accept", "entry"}, GoTo(c, where) PROVE PacksOK'
  <2> DEFINE j == [job[c] EXCEPT !.step = where]
  <2>1. job' = [job EXCEPT ![c] = j]
    BY <1>7 DEF GoTo
  <2>2. JobOK(version, j)
    BY <1>5
  <2> HIDE DEF j
  <2> QED
    BY <1>4, <2>1, <2>2, WorkingOnly
<1> QED
  BY <1>6, <1>7 DEF ValidateFeed, AcceptFeed

\* A job that goes on to another step and changes no file.
LEMMA GoingOn ==
    ASSUME PacksOK, NEW c \in Commands, job[c] \in SyncJobs,
           NEW where \in {"entry", "report", "store", "write", "state"}, GoTo(c, where),
           job[c].todo # <<>> \/ where \in {"entry", "report"},
           where = "state" => version[Entry(c).pack][Entry(c).version] # NoPack,
           UNCHANGED <<feed, version, state>>
    PROVE  PacksOK'
<1> DEFINE j == [job[c] EXCEPT !.step = where]
<1>1. job' = [job EXCEPT ![c] = j] /\ feed' = feed /\ version' = version /\ state' = state
  BY DEF GoTo
<1>2. JobOK(version, j)
  BY JobOnTo DEF Entry
<1> HIDE DEF j
<1> QED
  BY <1>1, <1>2, WorkingOnly DEF PacksOK

LEMMA EntryStepsOK ==
    ASSUME PacksOK, NEW c \in Commands,
           NextEntry(c) \/ Report(c) \/ Return(c) \/ StoreCheck(c) \/ StoreWrite(c)
    PROVE  PacksOK'
<1>1. Step(c) \in {"entry", "report", "store", "write"}
  BY DEF NextEntry, Report, Return, StoreCheck, StoreWrite
<1>2. SyncOK(version, job[c])
  BY <1>1, SyncJob
<1>3. /\ job[c] \in SyncJobs /\ job[c].todo \in Seq(Entries)
      /\ Step(c) \in {"store", "write"} => job[c].todo # <<>>
  BY <1>2 DEF SyncOK, SyncJobs, Step
<1>4. ASSUME job[c].todo # <<>>, EntryDone(c) \/ EntryFails(c), UNCHANGED <<feed, version, state>>
      PROVE  PacksOK'
  BY <1>3, <1>4, SameFiles, EntryEnds
<1>5. CASE NextEntry(c)
  <2>1. /\ job[c].todo # <<>> /\ UNCHANGED <<feed, version, state>>
        /\ EntryDone(c) \/ EntryFails(c) \/ GoTo(c, "store")
    BY <1>5 DEF NextEntry
  <2> QED
    BY <1>3, <1>4, <2>1, GoingOn
<1>6. CASE Report(c)
  BY <1>3, <1>6, GoingOn DEF Report
<1>7. CASE Return(c)
  BY <1>7, Exiting DEF Return, PacksOK
<1>8. CASE StoreCheck(c)
  <2>1. /\ Step(c) = "store" /\ UNCHANGED <<feed, version, state>>
        /\ \/ GoTo(c, "write") \/ EntryFails(c)
           \/ version[Entry(c).pack][Entry(c).version] # NoPack /\ GoTo(c, "state")
    BY <1>8 DEF StoreCheck
  <2> QED
    BY <1>3, <1>4, <2>1, GoingOn
<1>9. CASE StoreWrite(c)
  <2>1. Step(c) = "write" /\ job[c].todo # <<>> /\ feed' = feed /\ state' = state
    BY <1>3, <1>9 DEF StoreWrite
  <2>2. CASE EntryFails(c) /\ UNCHANGED version
    BY <1>4, <2>1, <2>2
  <2>3. CASE ~(EntryFails(c) /\ UNCHANGED version)
    <3> DEFINE e == Head(job[c].todo)
               j == [job[c] EXCEPT !.step = "state"]
    <3>1. /\ version' = [version EXCEPT ![e.pack][e.version] = e.sha256]
          /\ job' = [job EXCEPT ![c] = j]
      BY <1>9, <2>3 DEF StoreWrite, GoTo, Entry
    <3>2. e.pack \in Packs /\ e.version \in Versions /\ e.sha256 \in PackContents
      BY <1>3, <2>1, EntriesAre
    <3>3. e.sha256 # NoPack
      BY <3>2, FeedAssumption
    <3> HIDE DEF e
    <3>4. version \in Files
      BY DEF PacksOK
    <3>5. version' \in Files
      BY <3>1, <3>2, <3>4 DEF Files
    <3>6. /\ version'[e.pack][e.version] = e.sha256
          /\ \A p \in Packs, v \in Versions :
                <<p, v>> # <<e.pack, e.version>> => version'[p][v] = version[p][v]
      BY <3>1, <3>2, <3>4 DEF Files
    <3>7. Grown(version, version')
      BY <3>3, <3>6 DEF Grown
    <3>8. JobOK(version', j)
      BY <1>3, <2>1, <3>3, <3>6, JobOnTo DEF e
    <3> HIDE DEF j
    <3>9. \A p \in Packs : StateOK(version', p, state'[p])
      BY <2>1, <3>7, StateStaysOK DEF PacksOK
    <3>10. feed' \in Feeds \cup {NoPack} /\ state' \in [Packs -> PackStates]
      BY <2>1 DEF PacksOK
    <3> QED
      BY <3>1, <3>5, <3>7, <3>8, <3>9, <3>10, Working
  <2> QED
    BY <2>2, <2>3
<1> QED
  BY <1>5, <1>6, <1>7, <1>8, <1>9

\* The state of one pack is replaced.
LEMMA NewState ==
    ASSUME PacksOK, NEW p \in Packs, NEW x, StateOK(version, p, x),
           version' = version, state' = [state EXCEPT ![p] = x] \/ state' = state
    PROVE  /\ Grown(version, version') /\ version' \in Files
           /\ state' \in [Packs -> PackStates] /\ \A q \in Packs : StateOK(version', q, state'[q])
<1>1. x \in PackStates
  BY DEF StateOK
<1>2. /\ state \in [Packs -> PackStates] /\ \A q \in Packs : StateOK(version, q, state[q])
      /\ version \in Files
  BY DEF PacksOK
<1>3. Grown(version, version')
  BY DEF Grown
<1>4. state' \in [Packs -> PackStates]
  BY <1>1, <1>2
<1>5. \A q \in Packs : state'[q] = state[q] \/ (q = p /\ state'[q] = x)
  BY <1>2
<1> QED
  BY <1>2, <1>3, <1>4, <1>5

LEMMA ReadStateOK == ASSUME PacksOK, NEW c \in Commands, ReadState(c) PROVE PacksOK'
<1>1. Step(c) = "state" /\ UNCHANGED <<feed, version, state>>
  BY DEF ReadState
<1>2. SyncOK(version, job[c])
  BY <1>1, SyncJob
<1> DEFINE e == Head(job[c].todo)
<1>3. /\ job[c] \in SyncJobs /\ job[c].todo \in Seq(Entries) /\ job[c].todo # <<>>
      /\ version[e.pack][e.version] # NoPack
  BY <1>1, <1>2 DEF SyncOK, SyncJobs, Step
<1>4. e.pack \in Packs
  BY <1>3, EntriesAre
<1>5. CASE EntryDone(c)
  BY <1>1, <1>3, <1>5, SameFiles, EntryEnds
<1>6. CASE ~EntryDone(c)
  <2> DEFINE x == state[e.pack]
             j == [job[c] EXCEPT !.step = "activate", !.seen = x]
  <2>1. x.active # e.version /\ job' = [job EXCEPT ![c] = j]
    BY <1>6 DEF ReadState, Entry
  <2>2. x \in PackStates /\ StateOK(version, e.pack, x)
    BY <1>4 DEF PacksOK
  <2> HIDE DEF x
  <2>3. j \in SyncJobs
    BY <1>3, <2>2 DEF SyncJobs
  <2>4. j.step = "activate" /\ j.seen = x /\ j.todo = job[c].todo
    BY <1>3 DEF SyncJobs
  <2> HIDE DEF j
  <2>5. JobOK(version, j)
    BY <1>3, <2>1, <2>2, <2>3, <2>4 DEF JobOK, SyncOK
  <2> QED
    BY <1>1, <2>1, <2>5, WorkingOnly DEF PacksOK
<1> QED
  BY <1>5, <1>6

\* The version that is replaced goes to the history.
LEMMA ActivatedState ==
    ASSUME NEW files, NEW p \in Packs, NEW x, StateOK(files, p, x), NEW v \in Versions,
           files[p][v] # NoPack, x.active # v, Len(x.history) < MaxHistory
    PROVE  StateOK(files, p, [active  |-> v,
                              history |-> IF x.active = NoPack THEN x.history
                                          ELSE Append(x.history, x.active)])
<1> DEFINE h == IF x.active = NoPack THEN x.history ELSE Append(x.history, x.active)
           y == [active |-> v, history |-> h]
<1> USE FeedAssumption
<1>1. /\ x \in PackStates /\ x.history \in Seq(Versions) /\ x.active \in Versions \cup {NoPack}
      /\ Len(x.history) \in Nat
  BY DEF StateOK, PackStates
<1>2. v # NoPack
  OBVIOUS
<1>3. CASE x.active = NoPack
  <2>1. h = <<>>
    BY <1>3 DEF StateOK
  <2>2. <<>> \in Seq(Versions) /\ Len(<<>>) = 0
    OBVIOUS
  <2> HIDE DEF h
  <2>3. y \in PackStates /\ y.active = v /\ y.history = <<>>
    BY <2>1, <2>2 DEF PackStates
  <2> HIDE DEF y
  <2>4. StateOK(files, p, y)
    BY <1>2, <2>2, <2>3 DEF StateOK
  <2> QED
    BY <2>4 DEF y, h
<1>4. CASE x.active # NoPack
  <2> DEFINE n == Len(x.history)
  <2>1. h = Append(x.history, x.active) /\ x.active \in Versions
    BY <1>1, <1>4
  <2>2. /\ h \in Seq(Versions) /\ Len(h) = n + 1 /\ h[n + 1] = x.active
        /\ \A i \in 1 .. n : h[i] = x.history[i]
    BY <1>1, <2>1
  <2> HIDE DEF h
  <2>3. y \in PackStates /\ y.active = v /\ y.history = h
    BY <2>2 DEF PackStates
  <2> HIDE DEF y
  <2>4. /\ Len(h) <= MaxHistory
        /\ \A i \in 1 .. Len(h) : i \in 1 .. n \/ i = n + 1
    BY <1>1, <2>2
  <2>5. \A i \in 1 .. Len(h) : files[p][h[i]] # NoPack
    BY <1>4, <2>2, <2>4 DEF StateOK
  <2>6. \A i \in 1 .. (Len(h) - 1) : h[i] # h[i + 1]
    <3> SUFFICES ASSUME NEW i \in 1 .. n PROVE h[i] # h[i + 1]
      BY <1>1, <2>2
    <3>1. CASE i = n
      <4>1. x.history # <<>>
        BY <1>1, <3>1
      <4> QED
        BY <1>1, <2>2, <3>1, <4>1 DEF StateOK
    <3>2. CASE i # n
      <4>1. i \in 1 .. (n - 1) /\ i + 1 \in 1 .. n
        BY <1>1, <3>2
      <4> QED
        BY <2>2, <4>1 DEF StateOK
    <3> QED
      BY <3>1, <3>2
  <2>7. h[Len(h)] # v
    BY <2>2
  <2>8. StateOK(files, p, y)
    BY <1>2, <2>3, <2>4, <2>5, <2>6, <2>7 DEF StateOK
  <2> QED
    BY <2>8 DEF y, h
<1> QED
  BY <1>3, <1>4

LEMMA ActivateOK == ASSUME PacksOK, NEW c \in Commands, Activate(c) PROVE PacksOK'
<1> DEFINE e == Head(job[c].todo)
           x == job[c].seen
           y == [active  |-> e.version,
                 history |-> IF x.active = NoPack THEN x.history
                             ELSE Append(x.history, x.active)]
<1>1. /\ Step(c) = "activate" /\ Len(x.history) < MaxHistory
      /\ feed' = feed /\ version' = version
      /\ EntryDone(c) \/ EntryFails(c)
      /\ state' = [state EXCEPT ![e.pack] = y] \/ state' = state
  BY DEF Activate, Entry
<1>2. SyncOK(version, job[c])
  BY <1>1, SyncJob
<1>3. /\ job[c] \in SyncJobs /\ job[c].todo \in Seq(Entries) /\ job[c].todo # <<>>
      /\ version[e.pack][e.version] # NoPack
      /\ StateOK(version, e.pack, x) /\ x.active # e.version
  BY <1>1, <1>2 DEF SyncOK, SyncJobs, Step
<1>4. e.pack \in Packs /\ e.version \in Versions
  BY <1>3, EntriesAre
<1> HIDE DEF e, x
<1>5. StateOK(version, e.pack, y)
  BY <1>1, <1>3, <1>4, ActivatedState
<1> HIDE DEF y
<1> QED
  BY <1>1, <1>3, <1>4, <1>5, NewState, EntryEnds

\* The version before becomes the active one again.
LEMMA RolledBackState ==
    ASSUME NEW files, NEW p \in Packs, NEW x, StateOK(files, p, x), x.history # <<>>
    PROVE  StateOK(files, p, [active |-> Last(x.history), history |-> Front(x.history)])
<1> DEFINE n == Len(x.history)
           h == Front(x.history)
           y == [active |-> Last(x.history), history |-> h]
<1> USE FeedAssumption
<1>1. x.history \in Seq(Versions) /\ n \in Nat /\ n > 0
  BY DEF StateOK, PackStates
<1>2. Last(x.history) = x.history[n] /\ x.history[n] \in Versions
  BY <1>1 DEF Last
<1>3. /\ h \in Seq(Versions) /\ Len(h) = n - 1 /\ \A i \in 1 .. (n - 1) : h[i] = x.history[i]
  <2>1. \A i \in 1 .. (n - 1) : x.history[i] \in Versions
    BY <1>1
  <2>2. h = SubSeq(x.history, 1, n - 1)
    BY DEF Front
  <2> HIDE DEF h
  <2> QED
    BY <1>1, <2>1, <2>2, SubSeqProperties
<1> HIDE DEF h
<1>4. y \in PackStates /\ y.active = x.history[n] /\ y.history = h
  BY <1>2, <1>3 DEF PackStates
<1> HIDE DEF y
<1>5. y.active # NoPack
  BY <1>2, <1>4
<1>6. files[p][y.active] # NoPack
  BY <1>1, <1>4 DEF StateOK
<1>7. Len(h) <= MaxHistory
  BY <1>1, <1>3 DEF StateOK
<1>8. \A i \in 1 .. (n - 1) : i \in 1 .. n
  BY <1>1
<1>9. \A i \in 1 .. Len(h) : files[p][h[i]] # NoPack
  BY <1>3, <1>8 DEF StateOK
<1>10. \A i \in 1 .. (Len(h) - 1) : h[i] # h[i + 1]
  <2> SUFFICES ASSUME NEW i \in 1 .. (n - 2) PROVE h[i] # h[i + 1]
    BY <1>1, <1>3
  <2>1. i \in 1 .. (n - 1) /\ i + 1 \in 1 .. (n - 1)
    BY <1>1
  <2> QED
    BY <1>3, <2>1 DEF StateOK
<1>11. h # <<>> => h[Len(h)] # y.active
  <2> SUFFICES ASSUME h # <<>> PROVE h[n - 1] # x.history[n]
    BY <1>3, <1>4
  <2>1. n - 1 \in 1 .. (n - 1) /\ (n - 1) + 1 = n
    BY <1>1, <1>3
  <2> QED
    BY <1>3, <2>1 DEF StateOK
<1>12. StateOK(files, p, y)
  BY <1>4, <1>5, <1>6, <1>7, <1>9, <1>10, <1>11 DEF StateOK
<1> QED
  BY <1>12 DEF y, h

LEMMA RollbackWriteOK == ASSUME PacksOK, NEW c \in Commands, RollbackWrite(c) PROVE PacksOK'
<1> DEFINE p == job[c].pack
           x == job[c].seen
           y == [active |-> Last(x.history), history |-> Front(x.history)]
<1>1. /\ Step(c) = "rollback" /\ job' = [job EXCEPT ![c] = Idle]
      /\ feed' = feed /\ version' = version
      /\ state' = [state EXCEPT ![p] = y] \/ state' = state
  BY DEF RollbackWrite, Exit
<1>2. RollbackOK(version, job[c])
  BY <1>1 DEF PacksOK, JobOK, SyncOK, SyncJobs, Idle, Step
<1>3. p \in Packs /\ StateOK(version, p, x) /\ x.history # <<>>
  BY <1>2 DEF RollbackOK
<1> HIDE DEF p, x
<1>4. StateOK(version, p, y)
  BY <1>3, RolledBackState
<1> HIDE DEF y
<1>5. JobOK(version', Idle) /\ feed' \in Feeds \cup {NoPack}
  BY <1>1 DEF JobOK, PacksOK
<1> QED
  BY <1>1, <1>3, <1>4, <1>5, NewState, Working

LEMMA PacksSteps == PacksOK /\ [ConcurrentSync]_packVars => PacksOK'
<1> SUFFICES ASSUME PacksOK, [ConcurrentSync]_packVars PROVE PacksOK'
  OBVIOUS
<1>1. CASE UNCHANGED packVars
  <2>1. feed' = feed /\ version' = version /\ state' = state /\ job' = job
    BY <1>1 DEF packVars
  <2> QED
    BY <2>1 DEF PacksOK
<1>2. ASSUME NEW c \in Commands, Crash(c) PROVE PacksOK'
  BY <1>2, Exiting DEF Crash, PacksOK
<1> QED
  BY <1>1, <1>2, StartingOK, FeedStepsOK, EntryStepsOK, ReadStateOK, ActivateOK, RollbackWriteOK
     DEF ConcurrentSync, Continue

\* CheckPackStore: whatever fails, dies or overlaps, every version a state names is
\* in the store, and no version follows itself in a history.
THEOREM PacksSafe == ConcurrentPacksSpec => []PackStateIsConsistent
<1>1. PacksOK => PackStateIsConsistent
  <2> SUFFICES ASSUME PacksOK PROVE PackStateIsConsistent
    OBVIOUS
  <2>1. ASSUME NEW p \in Packs
        PROVE  /\ state[p].active \in Versions \cup {NoPack}
               /\ state[p].history \in Seq(Versions) /\ Len(state[p].history) \in Nat
               /\ StateOK(version, p, state[p])
    <3>1. state[p] \in PackStates /\ StateOK(version, p, state[p])
      BY DEF PacksOK
    <3> QED
      BY <3>1 DEF PackStates
  <2>2. PacksTypeOK
    BY <2>1 DEF PacksTypeOK, PacksOK, Files, StateOK
  <2>3. ASSUME NEW p \in Packs, NEW v \in {state[p].active} \cup ToSet(state[p].history), v # NoPack
        PROVE  version[p][v] # NoPack
    <3>1. CASE v = state[p].active
      BY <2>1, <2>3, <3>1 DEF StateOK
    <3>2. CASE v \in ToSet(state[p].history)
      <4>1. PICK i \in 1 .. Len(state[p].history) : v = state[p].history[i]
        BY <2>1, <3>2 DEF ToSet
      <4> QED
        BY <2>1, <4>1 DEF StateOK
    <3> QED
      BY <2>3, <3>1, <3>2
  <2>4. ASSUME NEW p \in Packs,
               NEW i \in 1 .. (Len(Append(state[p].history, state[p].active)) - 1)
        PROVE  Append(state[p].history, state[p].active)[i]
                   # Append(state[p].history, state[p].active)[i + 1]
    <3> DEFINE h == state[p].history
               n == Len(h)
               trail == Append(h, state[p].active)
    <3>1. h \in Seq(Versions \cup {NoPack}) /\ state[p].active \in Versions \cup {NoPack}
      BY <2>1
    <3>2. /\ n \in Nat /\ Len(trail) = n + 1 /\ trail[n + 1] = state[p].active
          /\ \A k \in 1 .. n : trail[k] = h[k]
      BY <3>1
    <3>3. StateOK(version, p, state[p]) /\ i \in 1 .. n
      BY <2>1, <3>2
    <3> HIDE DEF trail
    <3>4. CASE i = n
      <4>1. h # <<>>
        BY <3>1, <3>2, <3>3
      <4>2. h[n] # state[p].active
        BY <3>3, <4>1 DEF StateOK
      <4>3. trail[i] # trail[i + 1]
        BY <3>2, <3>3, <3>4, <4>2
      <4> QED
        BY <4>3 DEF trail
    <3>5. CASE i # n
      <4>1. i \in 1 .. (n - 1) /\ i + 1 \in 1 .. n
        BY <3>2, <3>3, <3>5
      <4>2. h[i] # h[i + 1]
        BY <3>3, <4>1 DEF StateOK
      <4>3. trail[i] # trail[i + 1]
        BY <3>2, <3>3, <4>1, <4>2
      <4> QED
        BY <4>3 DEF trail
    <3> QED
      BY <3>4, <3>5
  <2> QED
    BY <2>2, <2>3, <2>4 DEF PackStateIsConsistent, NamedVersionsAreStored, HistoryIsATrail
<1> QED
  BY <1>1, PacksInits, PacksSteps, PTL DEF ConcurrentPacksSpec

\* One command at a time: what validate and install_signed_pack have looked up is
\* still so when the file is replaced.
SerialOK ==
    /\ \A c, d \in Commands : job[c] # Idle /\ job[d] # Idle => c = d
    /\ \A c \in Commands :
        /\ Step(c) = "accept" => NotAReplay(job[c].feed)
        /\ Step(c) = "write" => version[Entry(c).pack][Entry(c).version] = NoPack

\* What a step of the command c leaves, and what it may not do to the files.
After(c) ==
    LET e == Head(job'[c].todo) IN
    /\ \A d \in Commands \ {c} : job'[d] = job[d]
    /\ job'[c].step = "accept" => feed' = feed /\ NotAReplay(job'[c].feed)
    /\ job'[c].step = "write" => version' = version /\ version[e.pack][e.version] = NoPack

NeverBack ==
    /\ \A p \in Packs, v \in Versions :
          version[p][v] # NoPack => version'[p][v] = version[p][v]
    /\ feed # NoPack => feed' = feed \/ feed'.time > feed.time

LEMMA SameRecords == ASSUME feed' = feed, version' = version PROVE NeverBack
BY DEF NeverBack

LEMMA AfterExit == ASSUME PacksOK, NEW c \in Commands, Exit(c) PROVE After(c)
<1>1. job'[c] = Idle /\ \A d \in Commands \ {c} : job'[d] = job[d]
  BY DEF Exit, PacksOK
<1> QED
  BY <1>1 DEF After, Idle

LEMMA AfterGoTo ==
    ASSUME PacksOK, NEW c \in Commands, job[c] \in SyncJobs, NEW where, GoTo(c, where)
    PROVE  /\ job'[c].step = where /\ job'[c].feed = job[c].feed /\ job'[c].todo = job[c].todo
           /\ \A d \in Commands \ {c} : job'[d] = job[d]
<1> DEFINE j == [job[c] EXCEPT !.step = where]
<1>1. j.step = where /\ j.feed = job[c].feed /\ j.todo = job[c].todo
  BY DEF SyncJobs
<1>2. job' = [job EXCEPT ![c] = j]
  BY DEF GoTo
<1> HIDE DEF j
<1>3. job'[c] = j /\ \A d \in Commands \ {c} : job'[d] = job[d]
  BY <1>2 DEF PacksOK
<1> QED
  BY <1>1, <1>3

LEMMA AfterEntry ==
    ASSUME PacksOK, NEW c \in Commands, job[c] \in SyncJobs, EntryDone(c) \/ EntryFails(c)
    PROVE  After(c)
<1> DEFINE j == [job[c] EXCEPT !.step = "entry", !.todo = Tail(@)]
           k == [job[c] EXCEPT !.step = "entry", !.todo = Tail(@), !.ok = FALSE]
<1>1. j.step = "entry" /\ k.step = "entry" /\ Idle.step = "idle"
  BY DEF SyncJobs, Idle
<1>2. \/ job' = [job EXCEPT ![c] = j] \/ job' = [job EXCEPT ![c] = k]
      \/ job' = [job EXCEPT ![c] = Idle]
  BY DEF EntryDone, EntryFails, Exit
<1> HIDE DEF j, k
<1>3. job'[c] \in {j, k, Idle} /\ \A d \in Commands \ {c} : job'[d] = job[d]
  BY <1>2 DEF PacksOK
<1>4. job'[c].step \in {"entry", "idle"}
  BY <1>1, <1>3
<1> QED
  BY <1>3, <1>4 DEF After

LEMMA AfterStart == ASSUME PacksOK, NEW c \in Commands, Start(c) PROVE After(c) /\ NeverBack
<1>1. feed' = feed /\ version' = version
  BY DEF Start, BeginSync, BeginInstall, Begin, RollbackRead
<1>2. ASSUME NEW f, NEW todo, NEW sync, Begin(c, f, todo, sync) PROVE After(c)
  <2> DEFINE j == [step |-> "validate", feed |-> f, todo |-> todo,
                   sync |-> sync, ok |-> TRUE, seen |-> NoPack]
  <2>1. job' = [job EXCEPT ![c] = j]
    BY <1>2 DEF Begin
  <2>2. j.step \notin {"accept", "write"}
    OBVIOUS
  <2> HIDE DEF j
  <2>3. job'[c] = j /\ \A d \in Commands \ {c} : job'[d] = job[d]
    BY <2>1 DEF PacksOK
  <2> QED
    BY <2>2, <2>3 DEF After
<1>3. ASSUME NEW p, RollbackRead(c, p) PROVE After(c)
  <2> DEFINE j == [step |-> "rollback", pack |-> p, seen |-> state[p]]
  <2>1. job' = [job EXCEPT ![c] = j]
    BY <1>3 DEF RollbackRead
  <2>2. j.step \notin {"accept", "write"}
    OBVIOUS
  <2> HIDE DEF j
  <2>3. job'[c] = j /\ \A d \in Commands \ {c} : job'[d] = job[d]
    BY <2>1 DEF PacksOK
  <2> QED
    BY <2>2, <2>3 DEF After
<1> QED
  BY <1>1, <1>2, <1>3, SameRecords DEF Start, BeginSync, BeginInstall

LEMMA AfterContinue ==
    ASSUME PacksOK, SerialOK, NEW c \in Commands, Continue(c)
    PROVE  After(c) /\ NeverBack
<1>1. ASSUME Step(c) \notin {"idle", "rollback"} PROVE SyncOK(version, job[c]) /\ job[c] \in SyncJobs
  BY <1>1, SyncJob DEF SyncOK
<1>2. CASE ValidateFeed(c)
  <2>1. /\ job[c] \in SyncJobs /\ feed' = feed /\ version' = version
        /\ Exit(c) \/ (NotAReplay(job[c].feed) /\ GoTo(c, "accept"))
    BY <1>1, <1>2 DEF ValidateFeed
  <2>2. CASE Exit(c)
    BY <2>1, <2>2, AfterExit, SameRecords
  <2>3. CASE NotAReplay(job[c].feed) /\ GoTo(c, "accept")
    <3>1. After(c)
      BY <2>1, <2>3, AfterGoTo DEF After
    <3> QED
      BY <2>1, <3>1, SameRecords
  <2> QED
    BY <2>1, <2>2, <2>3
<1>3. CASE AcceptFeed(c)
  <2>1. /\ job[c] \in SyncJobs /\ version' = version /\ NotAReplay(job[c].feed)
        /\ \/ feed' = job[c].feed /\ GoTo(c, "entry")
           \/ Exit(c) /\ feed' = feed
    BY <1>1, <1>3 DEF AcceptFeed, SerialOK
  <2>2. CASE Exit(c) /\ feed' = feed
    BY <2>1, <2>2, AfterExit, SameRecords
  <2>3. CASE feed' = job[c].feed /\ GoTo(c, "entry")
    <3>1. After(c)
      BY <2>1, <2>3, AfterGoTo DEF After
    <3>2. NeverBack
      BY <2>1, <2>3 DEF NeverBack, NotAReplay
    <3> QED
      BY <3>1, <3>2
  <2> QED
    BY <2>1, <2>2, <2>3
<1>4. CASE NextEntry(c) \/ Report(c)
  <2>1. /\ job[c] \in SyncJobs /\ feed' = feed /\ version' = version
        /\ EntryDone(c) \/ EntryFails(c) \/ GoTo(c, "store") \/ GoTo(c, "report")
    BY <1>1, <1>4 DEF NextEntry, Report
  <2>2. After(c)
    BY <2>1, AfterEntry, AfterGoTo DEF After
  <2> QED
    BY <2>1, <2>2, SameRecords
<1>5. CASE Return(c) \/ Crash(c)
  BY <1>5, AfterExit, SameRecords DEF Return, Crash
<1>6. CASE StoreCheck(c)
  <2>1. /\ job[c] \in SyncJobs /\ feed' = feed /\ version' = version
        /\ \/ version[Entry(c).pack][Entry(c).version] = NoPack /\ GoTo(c, "write")
           \/ EntryFails(c) \/ GoTo(c, "state")
    BY <1>1, <1>6 DEF StoreCheck
  <2>2. After(c)
    BY <2>1, AfterEntry, AfterGoTo DEF After, Entry
  <2> QED
    BY <2>1, <2>2, SameRecords
<1>7. CASE StoreWrite(c)
  <2> DEFINE e == Head(job[c].todo)
  <2>1. /\ SyncOK(version, job[c]) /\ Step(c) = "write" /\ feed' = feed
        /\ version[e.pack][e.version] = NoPack
    BY <1>1, <1>7 DEF StoreWrite, SerialOK, Entry
  <2>2. job[c] \in SyncJobs /\ job[c].todo \in Seq(Entries) /\ job[c].todo # <<>>
    BY <2>1 DEF SyncOK, SyncJobs, Step
  <2>3. e.pack \in Packs /\ e.version \in Versions
    BY <2>2, EntriesAre
  <2>4. After(c)
    BY <1>7, <2>2, AfterEntry, AfterGoTo DEF After, StoreWrite
  <2>5. version' = version \/ version' = [version EXCEPT ![e.pack][e.version] = e.sha256]
    BY <1>7 DEF StoreWrite, Entry
  <2> HIDE DEF e
  <2>6. \A p \in Packs, v \in Versions : version[p][v] # NoPack => version'[p][v] = version[p][v]
    BY <2>1, <2>3, <2>5 DEF PacksOK, Files
  <2> QED
    BY <2>1, <2>4, <2>6 DEF NeverBack
<1>8. CASE ReadState(c)
  <2>1. /\ job[c] \in SyncJobs /\ feed' = feed /\ version' = version
    BY <1>1, <1>8 DEF ReadState
  <2>2. CASE EntryDone(c)
    BY <2>1, <2>2, AfterEntry, SameRecords
  <2>3. CASE ~EntryDone(c)
    <3> DEFINE j == [job[c] EXCEPT !.step = "activate", !.seen = state[Entry(c).pack]]
    <3>1. job' = [job EXCEPT ![c] = j]
      BY <1>8, <2>3 DEF ReadState
    <3>2. j.step = "activate"
      BY <2>1 DEF SyncJobs
    <3> HIDE DEF j
    <3>3. job'[c] = j /\ \A d \in Commands \ {c} : job'[d] = job[d]
      BY <3>1 DEF PacksOK
    <3>4. After(c)
      BY <3>2, <3>3 DEF After
    <3> QED
      BY <2>1, <3>4, SameRecords
  <2> QED
    BY <2>2, <2>3
<1>9. CASE Activate(c)
  <2>1. /\ job[c] \in SyncJobs /\ feed' = feed /\ version' = version
        /\ EntryDone(c) \/ EntryFails(c)
    BY <1>1, <1>9 DEF Activate
  <2> QED
    BY <2>1, AfterEntry, SameRecords
<1>10. CASE RollbackWrite(c)
  BY <1>10, AfterExit, SameRecords DEF RollbackWrite
<1> QED
  BY <1>2, <1>3, <1>4, <1>5, <1>6, <1>7, <1>8, <1>9, <1>10 DEF Continue

LEMMA SerialSteps ==
    ASSUME PacksOK, SerialOK, [SerialSync]_packVars
    PROVE  PacksOK' /\ SerialOK' /\ (NeverBack \/ UNCHANGED packVars)
<1>1. PacksOK'
  BY PacksSteps DEF SerialSync, ConcurrentSync
<1>2. CASE UNCHANGED packVars
  <2>1. feed' = feed /\ version' = version /\ state' = state /\ job' = job
    BY <1>2 DEF packVars
  <2> QED
    BY <1>1, <1>2, <2>1 DEF SerialOK, Step, Entry, NotAReplay
<1>3. ASSUME NEW c \in Commands, ((\A d \in Commands : job[d] = Idle) /\ Start(c)) \/ Continue(c)
      PROVE  SerialOK' /\ NeverBack
  <2>1. After(c) /\ NeverBack
    BY <1>3, AfterStart, AfterContinue
  <2>2. \A d \in Commands \ {c} : job[d] = Idle
    <3>1. CASE Continue(c)
      <4>1. job[c] # Idle
        BY <3>1 DEF Continue, ValidateFeed, AcceptFeed, NextEntry, Report, Return, StoreCheck,
           StoreWrite, ReadState, Activate, RollbackWrite, Crash, Step, Idle
      <4> QED
        BY <4>1 DEF SerialOK
    <3> QED
      BY <1>3, <3>1
  <2>3. \A d \in Commands \ {c} : job'[d] = Idle
    BY <2>1, <2>2 DEF After
  <2>4. SerialOK'
    BY <2>1, <2>3 DEF SerialOK, After, Step, Entry, NotAReplay, Idle
  <2> QED
    BY <2>1, <2>4
<1> QED
  BY <1>1, <1>2, <1>3 DEF SerialSync

\* CheckFeedStateStore and CheckPackStore, one command after the other: a stored
\* version keeps its content, and only a later manifest replaces the accepted one.
THEOREM PacksNeverGoBack == SerialPacksSpec => PackRecordsNeverGoBack
<1>1. PacksInit => SerialOK
  BY DEF PacksInit, SerialOK, Step, Idle
<1>2. PacksOK /\ SerialOK /\ [SerialSync]_packVars => PacksOK' /\ SerialOK'
  BY SerialSteps
<1>3. PacksOK /\ SerialOK /\ [SerialSync]_packVars =>
        [\A p \in Packs, v \in Versions :
            version[p][v] # NoPack => version'[p][v] = version[p][v]]_packVars
  BY SerialSteps DEF NeverBack
<1>4. PacksOK /\ SerialOK /\ [SerialSync]_packVars =>
        [feed # NoPack => feed' = feed \/ feed'.time > feed.time]_packVars
  BY SerialSteps DEF NeverBack
<1> QED
  BY <1>1, <1>2, <1>3, <1>4, PacksInits, PTL
     DEF SerialPacksSpec, PackRecordsNeverGoBack, VersionsAreImmutable, FeedNeverGoesBack

-----------------------------------------------------------------------------
(***************************************************************************)
(* Synchronisations.  What a synchronisation has behind it matches the     *)
(* feed, as long as nothing failed: what is still to do is a suffix of the *)
(* feed, and no other command comes in between.                            *)
(***************************************************************************)
\* An entry of a feed is active, in its content.
Matches(e) == state[e.pack].active = e.version /\ version[e.pack][e.version] = e.sha256

\* What a synchronisation that has not failed so far has behind it matches the feed;
\* the rest is still to do, and the file of the entry it is at is the advertised one.
SyncedSoFar(j) ==
    LET n == Len(j.feed.packs) - Len(j.todo) IN
    j.step \notin {"idle", "rollback"} /\ j.sync /\ j.ok =>
        /\ Len(j.todo) <= Len(j.feed.packs)
        /\ \A i \in 1 .. Len(j.todo) : j.todo[i] = j.feed.packs[n + i]
        /\ \A i \in 1 .. n : Matches(j.feed.packs[i])
        /\ j.step \in {"state", "activate"} =>
              version[Head(j.todo).pack][Head(j.todo).version] = Head(j.todo).sha256
        /\ j.step = "report" => j.todo = <<>>

\* One entry further: the suffix of a feed that is still to do.
LEMMA NextSuffix ==
    ASSUME NEW packs \in Seq(Entries), NEW todo \in Seq(Entries), todo # <<>>,
           Len(todo) <= Len(packs),
           \A i \in 1 .. Len(todo) : todo[i] = packs[Len(packs) - Len(todo) + i]
    PROVE  /\ Tail(todo) \in Seq(Entries)
           /\ Len(Tail(todo)) <= Len(packs)
           /\ Len(packs) - Len(Tail(todo)) = Len(packs) - Len(todo) + 1
           /\ Len(packs) - Len(todo) + 1 \in 1 .. Len(packs)
           /\ Head(todo) = packs[Len(packs) - Len(todo) + 1]
           /\ \A i \in 1 .. Len(Tail(todo)) :
                 Tail(todo)[i] = packs[Len(packs) - Len(Tail(todo)) + i]
<1>1. /\ Len(packs) \in Nat /\ Len(todo) \in Nat /\ Len(todo) >= 1
      /\ Tail(todo) \in Seq(Entries) /\ Len(Tail(todo)) = Len(todo) - 1
      /\ Head(todo) = todo[1] /\ \A i \in 1 .. Len(Tail(todo)) : Tail(todo)[i] = todo[i + 1]
  OBVIOUS
<1>2. 1 \in 1 .. Len(todo) /\ Head(todo) = packs[Len(packs) - Len(todo) + 1]
  BY <1>1
<1>3. ASSUME NEW i \in 1 .. Len(Tail(todo))
      PROVE  Tail(todo)[i] = packs[Len(packs) - Len(Tail(todo)) + i]
  <2>1. i + 1 \in 1 .. Len(todo) /\ Tail(todo)[i] = todo[i + 1]
    BY <1>1
  <2>2. Len(packs) - Len(todo) + (i + 1) = Len(packs) - Len(Tail(todo)) + i
    BY <1>1
  <2> QED
    BY <2>1, <2>2
<1> QED
  BY <1>1, <1>2, <1>3

\* What SyncedSoFar asks of the job of a synchronisation.
LEMMA FeedsAre ==
    ASSUME NEW j \in SyncJobs
    PROVE  /\ j.feed.packs \in Seq(Entries) /\ j.todo \in Seq(Entries)
           /\ \A i \in DOMAIN j.feed.packs : j.feed.packs[i].pack \in Packs
                                             /\ j.feed.packs[i].version \in Versions
           /\ \A i, k \in DOMAIN j.feed.packs :
                 j.feed.packs[i].pack = j.feed.packs[k].pack => i = k
<1>1. j.feed \in Feeds /\ j.todo \in Seq(Entries)
  BY DEF SyncJobs
<1>2. j.feed.packs \in Seq(Entries)
  BY <1>1, FeedAssumption
<1>3. \A i \in DOMAIN j.feed.packs : j.feed.packs[i] \in Entries
  BY <1>2
<1> QED
  BY <1>1, <1>2, <1>3, FeedAssumption DEF Entries

\* A step that changes no file, goes on with the same entries, and does not claim more.
LEMMA SyncedMoves ==
    ASSUME NEW j \in SyncJobs, SyncedSoFar(j), NEW k, version' = version, state' = state,
           j.step \notin {"idle", "rollback"},
           k.feed = j.feed, k.todo = j.todo, k.sync = j.sync, k.ok = j.ok,
           k.step \in {"state", "activate"} =>
              version[Head(j.todo).pack][Head(j.todo).version] = Head(j.todo).sha256,
           k.step = "report" => j.todo = <<>>
    PROVE  SyncedSoFar(k)'
<1>1. \A e : Matches(e) => Matches(e)'
  BY DEF Matches
<1> QED
  BY <1>1 DEF SyncedSoFar

\* The same for a step that writes a file of the entry the job is at.
LEMMA SyncedWrites ==
    ASSUME NEW j \in SyncJobs, SyncedSoFar(j), NEW k, state' = state,
           j.step \notin {"idle", "rollback"}, j.todo # <<>>,
           k.feed = j.feed, k.todo = j.todo, k.sync = j.sync, k.ok = j.ok, k.step = "state",
           version'[Head(j.todo).pack][Head(j.todo).version] = Head(j.todo).sha256,
           \A p \in Packs \ {Head(j.todo).pack} : version'[p] = version[p]
    PROVE  SyncedSoFar(k)'
<1> SUFFICES ASSUME j.sync, j.ok PROVE SyncedSoFar(k)'
  BY DEF SyncedSoFar
<1> DEFINE packs == j.feed.packs
           todo == j.todo
           n == Len(packs) - Len(todo)
<1>1. packs \in Seq(Entries) /\ todo \in Seq(Entries)
  BY FeedsAre
<1>2. /\ Len(todo) <= Len(packs)
      /\ \A i \in 1 .. Len(todo) : todo[i] = packs[n + i]
      /\ \A i \in 1 .. n : Matches(packs[i])
  BY DEF SyncedSoFar
<1>3. n + 1 \in 1 .. Len(packs) /\ Head(todo) = packs[n + 1]
  BY <1>1, <1>2, NextSuffix
<1>4. Len(packs) \in Nat /\ Len(todo) \in Nat /\ n \in Int /\ DOMAIN packs = 1 .. Len(packs)
  BY <1>1
<1>5. ASSUME NEW i \in 1 .. n PROVE Matches(packs[i])'
  <2>1. i \in DOMAIN packs /\ n + 1 \in DOMAIN packs /\ i # n + 1
    <3> HIDE DEF packs, todo, n
    <3> QED
      BY <1>3, <1>4
  <2>2. packs[i].pack \in Packs /\ packs[i].pack # packs[n + 1].pack
    BY <2>1, FeedsAre
  <2>3. Matches(packs[i]) /\ packs[i].pack \in Packs \ {Head(todo).pack}
    BY <1>2, <1>3, <2>2
  <2> HIDE DEF packs, n
  <2> QED
    BY <2>3 DEF Matches
<1>6. k.feed.packs = packs /\ k.todo = todo /\ n = Len(packs) - Len(todo)
  OBVIOUS
<1> HIDE DEF packs, todo, n
<1> QED
  BY <1>2, <1>5, <1>6, ZenonT(60) DEF SyncedSoFar, todo

\* An entry that is done, its pack being the only one whose files have changed.
LEMMA SyncedNext ==
    ASSUME NEW j \in SyncJobs, SyncedSoFar(j), j.step \notin {"idle", "rollback"}, j.todo # <<>>,
           NEW k, k.feed = j.feed, k.todo = Tail(j.todo), k.sync = j.sync, k.ok = j.ok,
           k.step = "entry", j.sync /\ j.ok => Matches(Head(j.todo))',
           \A p \in Packs \ {Head(j.todo).pack} : state'[p] = state[p] /\ version'[p] = version[p]
    PROVE  SyncedSoFar(k)'
<1> SUFFICES ASSUME j.sync, j.ok PROVE SyncedSoFar(k)'
  BY DEF SyncedSoFar
<1> DEFINE packs == j.feed.packs
           n == Len(packs) - Len(j.todo)
<1>1. packs \in Seq(Entries) /\ j.todo \in Seq(Entries)
  BY FeedsAre
<1>2. /\ Len(j.todo) <= Len(packs)
      /\ \A i \in 1 .. Len(j.todo) : j.todo[i] = packs[Len(packs) - Len(j.todo) + i]
      /\ \A i \in 1 .. n : Matches(packs[i])
  BY DEF SyncedSoFar
<1>3. /\ Len(Tail(j.todo)) <= Len(packs)
      /\ Len(packs) - Len(Tail(j.todo)) = n + 1
      /\ n + 1 \in 1 .. Len(packs)
      /\ Head(j.todo) = packs[n + 1]
      /\ \A i \in 1 .. Len(Tail(j.todo)) :
            Tail(j.todo)[i] = packs[Len(packs) - Len(Tail(j.todo)) + i]
  BY <1>1, <1>2, NextSuffix
<1>4. Len(packs) \in Nat /\ Len(j.todo) \in Nat /\ n \in Int /\ DOMAIN packs = 1 .. Len(packs)
  BY <1>1
<1>5. ASSUME NEW i \in 1 .. (n + 1) PROVE Matches(packs[i])'
  <2>1. CASE i = n + 1
    BY <1>3, <2>1
  <2>2. CASE i # n + 1
    <3>1. i \in 1 .. n /\ i \in DOMAIN packs /\ n + 1 \in DOMAIN packs
      <4> HIDE DEF packs, n
      <4> QED
        BY <1>3, <1>4, <2>2
    <3>2. packs[i].pack \in Packs /\ packs[i].pack # packs[n + 1].pack
      BY <3>1, <2>2, FeedsAre
    <3>3. Matches(packs[i]) /\ packs[i].pack \in Packs \ {Head(j.todo).pack}
      BY <1>2, <1>3, <3>1, <3>2
    <3> HIDE DEF packs, n
    <3> QED
      BY <3>3 DEF Matches
  <2> QED
    BY <2>1, <2>2
<1>6. /\ k.feed.packs = packs /\ k.todo = Tail(j.todo)
      /\ k.step \notin {"state", "activate", "report"}
  OBVIOUS
<1> HIDE DEF packs, n
<1>7. \A i \in 1 .. (Len(packs) - Len(Tail(j.todo))) : Matches(packs[i])'
  BY <1>3, <1>5
<1> QED
  <2> DEFINE t == Tail(j.todo)
  <2>1. /\ Len(t) <= Len(packs) /\ k.todo = t
        /\ \A i \in 1 .. Len(t) : t[i] = packs[Len(packs) - Len(t) + i]
        /\ \A i \in 1 .. (Len(packs) - Len(t)) : Matches(packs[i])'
    BY <1>3, <1>6, <1>7
  <2> HIDE DEF t
  <2> QED
    BY <1>6, <2>1 DEF SyncedSoFar


\* The steps of the command c.
LEMMA SyncedBegins ==
    ASSUME PacksOK, NEW c \in Commands, Start(c) PROVE SyncedSoFar(job[c])'
<1>1. ASSUME NEW f \in Feeds, NEW todo, NEW sync \in BOOLEAN, Begin(c, f, todo, sync),
             sync => todo = f.packs
      PROVE  SyncedSoFar(job[c])'
  <2> DEFINE j == [step |-> "validate", feed |-> f, todo |-> todo,
                   sync |-> sync, ok |-> TRUE, seen |-> NoPack]
  <2>1. job'[c] = j
    BY <1>1 DEF Begin, PacksOK
  <2>2. f.packs \in Seq(Entries) /\ Len(f.packs) \in Nat
    BY FeedAssumption
  <2>3. j.feed = f /\ j.todo = todo /\ j.sync = sync /\ j.step = "validate"
    OBVIOUS
  <2> HIDE DEF j
  <2>4. ASSUME j.sync
        PROVE  /\ Len(j.todo) <= Len(j.feed.packs)
               /\ \A i \in 1 .. Len(j.todo) : j.todo[i] = j.feed.packs[Len(j.feed.packs) - Len(j.todo) + i]
               /\ \A i \in 1 .. (Len(j.feed.packs) - Len(j.todo)) : FALSE
    <3>1. j.todo = f.packs /\ j.feed.packs = f.packs
      BY <1>1, <2>3, <2>4
    <3> DEFINE m == Len(f.packs)
    <3>2. m \in Nat
      BY <2>2
    <3> HIDE DEF m
    <3>3. m <= m /\ m - m = 0 /\ (\A i \in 1 .. m : m - m + i = i) /\ \A i \in 1 .. (m - m) : FALSE
      BY <3>2
    <3> QED
      BY <3>1, <3>3 DEF m
  <2> QED
    BY <2>1, <2>3, <2>4 DEF SyncedSoFar
<1>2. ASSUME NEW p \in Packs, RollbackRead(c, p) PROVE SyncedSoFar(job[c])'
  <2> DEFINE j == [step |-> "rollback", pack |-> p, seen |-> state[p]]
  <2>1. job'[c] = j
    BY <1>2 DEF RollbackRead, PacksOK
  <2> QED
    BY <2>1 DEF SyncedSoFar
<1> QED
  BY <1>1, <1>2 DEF Start, BeginSync, BeginInstall

LEMMA SyncedExit ==
    ASSUME PacksOK, NEW c \in Commands, Exit(c) PROVE SyncedSoFar(job[c])'
<1>1. job'[c] = Idle
  BY DEF Exit, PacksOK
<1> QED
  BY <1>1 DEF SyncedSoFar, Idle

LEMMA SyncedFails ==
    ASSUME PacksOK, NEW c \in Commands, job[c] \in SyncJobs, EntryFails(c)
    PROVE  SyncedSoFar(job[c])'
<1>1. CASE Exit(c)
  BY <1>1, SyncedExit
<1>2. CASE ~Exit(c)
  <2> DEFINE k == [job[c] EXCEPT !.step = "entry", !.todo = Tail(@), !.ok = FALSE]
  <2>1. job' = [job EXCEPT ![c] = k]
    BY <1>2 DEF EntryFails
  <2>2. job'[c] = k /\ k.ok = FALSE
    BY <2>1 DEF PacksOK, SyncJobs
  <2> QED
    BY <2>2 DEF SyncedSoFar
<1> QED
  BY <1>1, <1>2

LEMMA SyncedGoes ==
    ASSUME PacksOK, NEW c \in Commands, job[c] \in SyncJobs, SyncedSoFar(job[c]),
           NEW where, GoTo(c, where), version' = version, state' = state,
           where \in {"state", "activate"} =>
              version[Entry(c).pack][Entry(c).version] = Entry(c).sha256,
           where = "report" => job[c].todo = <<>>
    PROVE  SyncedSoFar(job[c])'
<1> DEFINE k == [job[c] EXCEPT !.step = where]
<1>1. job' = [job EXCEPT ![c] = k]
  BY DEF GoTo
<1>2. job'[c] = k
  BY <1>1 DEF PacksOK
<1>3. k.step = where /\ k.feed = job[c].feed /\ k.todo = job[c].todo
      /\ k.sync = job[c].sync /\ k.ok = job[c].ok
  BY DEF SyncJobs
<1>4. job[c].step \notin {"idle", "rollback"}
  BY DEF SyncJobs
<1> HIDE DEF k
<1> QED
  BY <1>2, <1>3, <1>4, SyncedMoves DEF Entry

LEMMA SyncedDone ==
    ASSUME PacksOK, NEW c \in Commands, job[c] \in SyncJobs, SyncedSoFar(job[c]),
           job[c].todo # <<>>, EntryDone(c), NEW e, e = Entry(c),
           job[c].sync /\ job[c].ok =>
               state'[e.pack].active = e.version /\ version'[e.pack][e.version] = e.sha256,
           \A p \in Packs \ {e.pack} : state'[p] = state[p] /\ version'[p] = version[p]
    PROVE  SyncedSoFar(job[c])'
<1> DEFINE k == [job[c] EXCEPT !.step = "entry", !.todo = Tail(@)]
<1>1. job' = [job EXCEPT ![c] = k]
  BY DEF EntryDone
<1>2. job'[c] = k
  BY <1>1 DEF PacksOK
<1>3. k.step = "entry" /\ k.feed = job[c].feed /\ k.todo = Tail(job[c].todo)
      /\ k.sync = job[c].sync /\ k.ok = job[c].ok
  BY DEF SyncJobs
<1>4. job[c].step \notin {"idle", "rollback"}
  BY DEF SyncJobs
<1>5. job[c].sync /\ job[c].ok => Matches(e)'
  BY DEF Matches
<1> HIDE DEF k
<1> QED
  BY <1>2, <1>3, <1>4, <1>5, SyncedNext DEF Entry

LEMMA SyncedStep ==
    ASSUME PacksOK, NEW c \in Commands, SyncedSoFar(job[c]), Continue(c)
    PROVE  SyncedSoFar(job[c])'
<1>1. CASE Exit(c)
  BY <1>1, SyncedExit
<1>2. CASE Step(c) \in {"idle", "rollback"}
  BY <1>1, <1>2 DEF Continue, ValidateFeed, AcceptFeed, NextEntry, Report, Return, StoreCheck,
     StoreWrite, ReadState, Activate, RollbackWrite, Crash
<1> SUFFICES ASSUME Step(c) \notin {"idle", "rollback"} PROVE SyncedSoFar(job[c])'
  BY <1>2
<1>3. SyncOK(version, job[c])
  BY SyncJob
<1>4. job[c] \in SyncJobs /\ job[c].todo \in Seq(Entries)
  BY <1>3 DEF SyncOK, SyncJobs
<1>5. Step(c) \in {"store", "write", "state", "activate"} => job[c].todo # <<>>
  BY <1>3 DEF SyncOK, Step
<1>6. job[c].todo # <<>> => Entry(c).pack \in Packs /\ Entry(c).version \in Versions
  BY <1>4, EntriesAre DEF Entry
<1>7. job[c].sync /\ job[c].ok /\ Step(c) \in {"state", "activate"} =>
         version[Entry(c).pack][Entry(c).version] = Entry(c).sha256
  BY <1>4 DEF SyncedSoFar, Step, Entry, SyncJobs
<1>8. CASE EntryFails(c)
  BY <1>4, <1>8, SyncedFails
<1>9. CASE ValidateFeed(c) \/ AcceptFeed(c) \/ Report(c) \/ Return(c) \/ RollbackWrite(c) \/ Crash(c)
  BY <1>1, <1>4, <1>9, SyncedGoes DEF ValidateFeed, AcceptFeed, Report, Return, RollbackWrite, Crash, Step
<1>10. CASE NextEntry(c)
  <2>1. job[c].todo # <<>> /\ version' = version /\ state' = state
    BY <1>10 DEF NextEntry
  <2>2. CASE state[Entry(c).pack].active = Entry(c).version
             /\ version[Entry(c).pack][Entry(c).version] = Entry(c).sha256 /\ EntryDone(c)
    BY <2>1, <2>2, <1>4, SyncedDone
  <2>3. CASE GoTo(c, "store")
    BY <2>1, <2>3, <1>4, SyncedGoes
  <2> QED
    BY <2>2, <2>3, <1>8, <1>10 DEF NextEntry
<1>11. CASE StoreCheck(c)
  <2>1. version' = version /\ state' = state
    BY <1>11 DEF StoreCheck
  <2>2. CASE GoTo(c, "write")
    BY <2>1, <2>2, <1>4, SyncedGoes
  <2>3. CASE GoTo(c, "state") /\ version[Entry(c).pack][Entry(c).version] = Entry(c).sha256
    BY <2>1, <2>3, <1>4, SyncedGoes, SMTT(30)
  <2> QED
    BY <2>2, <2>3, <1>8, <1>11 DEF StoreCheck
<1>12. CASE StoreWrite(c)
  <2> SUFFICES ASSUME GoTo(c, "state"),
                      version' = [version EXCEPT ![Entry(c).pack][Entry(c).version] = Entry(c).sha256]
               PROVE  SyncedSoFar(job[c])'
    BY <1>8, <1>12 DEF StoreWrite
  <2>1. job[c].todo # <<>> /\ state' = state
    BY <1>5, <1>12 DEF StoreWrite
  <2>2. /\ version'[Entry(c).pack][Entry(c).version] = Entry(c).sha256
        /\ \A p \in Packs \ {Entry(c).pack} : version'[p] = version[p]
    BY <2>1, <1>6 DEF PacksOK, Files
  <2> DEFINE k == [job[c] EXCEPT !.step = "state"]
  <2>3. job'[c] = k
    BY DEF GoTo, PacksOK
  <2>4. k.step = "state" /\ k.feed = job[c].feed /\ k.todo = job[c].todo
        /\ k.sync = job[c].sync /\ k.ok = job[c].ok /\ job[c].step \notin {"idle", "rollback"}
    BY <1>4 DEF SyncJobs
  <2> HIDE DEF k
  <2> QED
    BY <2>1, <2>2, <2>3, <2>4, <1>4, SyncedWrites DEF Entry
<1>13. CASE ReadState(c)
  <2>1. job[c].todo # <<>> /\ version' = version /\ state' = state /\ Step(c) = "state"
    BY <1>5, <1>13 DEF ReadState
  <2>2. CASE state[Entry(c).pack].active = Entry(c).version /\ EntryDone(c)
    BY <2>1, <2>2, <1>4, <1>7, SyncedDone
  <2>3. CASE job' = [job EXCEPT ![c].step = "activate", ![c].seen = state[Entry(c).pack]]
    <3> DEFINE k == [job[c] EXCEPT !.step = "activate", !.seen = state[Entry(c).pack]]
    <3>1. job'[c] = k
      BY <2>3 DEF PacksOK
    <3>2. k.step = "activate" /\ k.feed = job[c].feed /\ k.todo = job[c].todo
          /\ k.sync = job[c].sync /\ k.ok = job[c].ok /\ job[c].step \notin {"idle", "rollback"}
      BY <1>4 DEF SyncJobs
    <3> HIDE DEF k
    <3>3. CASE job[c].sync /\ job[c].ok
      BY <2>1, <3>1, <3>2, <3>3, <1>4, <1>7, SyncedMoves DEF Entry
    <3>4. CASE ~(job[c].sync /\ job[c].ok)
      BY <3>1, <3>2, <3>4 DEF SyncedSoFar
    <3> QED
      BY <3>3, <3>4
  <2> QED
    BY <2>2, <2>3, <1>13 DEF ReadState
<1>14. CASE Activate(c)
  <2> SUFFICES ASSUME EntryDone(c),
                      state' = [state EXCEPT ![Entry(c).pack] =
                                   [active  |-> Entry(c).version,
                                    history |-> IF job[c].seen.active = NoPack THEN job[c].seen.history
                                        ELSE Append(job[c].seen.history, job[c].seen.active)]]
               PROVE  SyncedSoFar(job[c])'
    BY <1>8, <1>14 DEF Activate
  <2>1. job[c].todo # <<>> /\ version' = version /\ Step(c) = "activate"
    BY <1>5, <1>14 DEF Activate
  <2>2. /\ state'[Entry(c).pack].active = Entry(c).version
        /\ \A p \in Packs \ {Entry(c).pack} : state'[p] = state[p]
    BY <2>1, <1>6 DEF PacksOK
  <2> QED
    BY <2>1, <2>2, <1>4, <1>7, SyncedDone
<1> QED
  BY <1>9, <1>10, <1>11, <1>12, <1>13, <1>14 DEF Continue

\* sync_check_feed, one command after the other: when it reports no failure, every
\* pack the feed advertises is active in the advertised content.
THEOREM SyncsMatch == SerialPacksSpec => []SyncedPacksMatchTheFeed
<1> DEFINE SyncedOK == \A c \in Commands : SyncedSoFar(job[c])
<1>1. PacksInit => SerialOK /\ SyncedOK
  BY DEF PacksInit, SerialOK, Step, Idle, SyncedSoFar
<1>2. ASSUME PacksOK, SerialOK, SyncedOK, [SerialSync]_packVars PROVE SyncedOK'
  <2>1. CASE UNCHANGED packVars
    BY <1>2, <2>1 DEF packVars, SyncedSoFar, Matches
  <2>2. ASSUME NEW c \in Commands, ((\A d \in Commands : job[d] = Idle) /\ Start(c)) \/ Continue(c)
        PROVE  SyncedOK'
    <3>1. SyncedSoFar(job[c])'
      BY <1>2, <2>2, SyncedBegins, SyncedStep
    <3>2. ASSUME NEW d \in Commands \ {c} PROVE SyncedSoFar(job[d])'
      <4>1. job'[d] = job[d]
        BY <1>2, <2>2, AfterStart, AfterContinue DEF After
      <4>2. job[d] = Idle
        <5>1. CASE Continue(c)
          <6>1. job[c] # Idle
            BY <5>1 DEF Continue, ValidateFeed, AcceptFeed, NextEntry, Report, Return, StoreCheck,
               StoreWrite, ReadState, Activate, RollbackWrite, Crash, Step, Idle
          <6> QED
            BY <6>1, <1>2 DEF SerialOK
        <5> QED
          BY <2>2, <5>1
      <4> QED
        BY <4>1, <4>2 DEF SyncedSoFar, Idle
    <3> QED
      BY <3>1, <3>2
  <2> QED
    BY <1>2, <2>1, <2>2, SMTT(30) DEF SerialSync
<1>3. PacksOK /\ SyncedOK => SyncedPacksMatchTheFeed
  <2> SUFFICES ASSUME PacksOK, SyncedOK, NEW c \in Commands, Step(c) = "report", job[c].sync, job[c].ok,
                      NEW i \in DOMAIN job[c].feed.packs
               PROVE  Matches(job[c].feed.packs[i])
    BY DEF SyncedPacksMatchTheFeed, Matches
  <2>1. job[c] \in SyncJobs
    BY SyncJob DEF SyncOK
  <2>2. job[c].feed.packs \in Seq(Entries)
    BY <2>1, FeedsAre
  <2>3. job[c].todo = <<>> /\ \A n \in 1 .. (Len(job[c].feed.packs) - Len(job[c].todo)) :
                                 Matches(job[c].feed.packs[n])
    BY DEF SyncedSoFar, Step
  <2>4. Len(job[c].todo) = 0 /\ i \in 1 .. (Len(job[c].feed.packs) - 0)
    BY <2>2, <2>3
  <2> QED
    BY <2>3, <2>4
<1> HIDE DEF SyncedOK
<1>4. PacksOK /\ SerialOK /\ [SerialSync]_packVars => PacksOK' /\ SerialOK'
  BY SerialSteps
<1> QED
  BY <1>1, <1>2, <1>3, <1>4, PacksInits, PTL DEF SerialPacksSpec

-----------------------------------------------------------------------------
(***************************************************************************)
(* White Night commands.  Every event in a chain belongs to the command    *)
(* that made it.  What a command has read kept the events of the commands  *)
(* that ended before it began, and a file that is being written was        *)
(* emptied by a command that its writer overlaps.                          *)
(***************************************************************************)
WhiteSteps == {"none", "reading", "made", "writing", "printing", "done", "error"}
WhiteOps == {"none", "create", "advance", "export", "inspect"}
Texts == [is : {"absent", "broken", "whole"}, chain : Seq(WhiteRuns)]
RunRecords ==
    [op : WhiteOps, at : WhiteSteps, input : WhitePaths, outputs : Seq(WhitePaths),
     chain : Seq(WhiteRuns), wrote : SUBSET WhitePaths, before : SUBSET WhiteRuns]

WhiteTypeOK ==
    /\ disk \in [WhitePaths -> Texts]
    /\ run \in [WhiteRuns -> RunRecords]

Fresh == {"none", "reading"}
Making == {"made", "writing"}
Over == {"done", "error"}

\* Where the command w is tells what it carries, x being its record.
WhiteCommandOK(w, x) ==
    /\ \A v \in x.before : run[v].at \in Over
    /\ x.at = "none" => x.before = {} /\ x.op = "none"
    /\ x.at \in Fresh => x.wrote = {}
    /\ x.at # "none" => x.op # "none"
    /\ x.op \in {"advance", "export"} => x.input = "artifact"
    /\ x.at = "reading" => x.op # "create"
    /\ x.at \in Making => x.op \in {"create", "advance", "export"} /\ x.chain # <<>> /\ Last(x.chain) = w
    /\ x.at = "writing" => x.outputs # <<>>
    /\ x.op # "export" => \A i \in DOMAIN x.outputs : x.outputs[i] # "bundle"

\* The events of a chain are of commands that have made them, each once, and
\* none of a command that had ended when the one of an earlier event began.
ChainOK(chain, r) ==
    /\ \A i, j \in DOMAIN chain : chain[i] = chain[j] => i = j
    /\ \A i \in DOMAIN chain : r[chain[i]].at \notin Fresh
    /\ \A i, j \in DOMAIN chain : i < j => chain[j] \notin r[chain[i]].before

\* Two commands of which neither had ended when the other began; the event of w is
\* in the chain, or there is another writer to explain that.
Met(v, w, r) == v # w /\ v \notin r[w].before /\ w \notin r[v].before
Displaced(w, r) ==
    \E v \in WhiteRuns \ {w} : "artifact" \in r[v].wrote /\ (Met(v, w, r) \/ r[v].op = "create")
Keeps(chain, w, r) == (\E i \in DOMAIN chain : chain[i] = w) \/ Displaced(w, r)

\* What is in a file.
FileOK(path) ==
    /\ ChainOK(disk[path].chain, run)
    /\ disk[path].is = "absent" => \A w \in WhiteRuns : path \notin run[w].wrote
    /\ disk[path].is = "broken" =>
          \/ \E w \in WhiteRuns : run[w].at = "writing" /\ Head(run[w].outputs) = path
          \/ \E w \in WhiteRuns : run[w].at = "error"
          \/ \E v, w \in WhiteRuns : Met(v, w, run) /\ path \in run[v].wrote \cap run[w].wrote
ArtifactOK ==
    disk["artifact"].is = "whole" =>
        \A w \in WhiteRuns : "artifact" \in run[w].wrote => Keeps(disk["artifact"].chain, w, run)
BundleOK ==
    disk["bundle"].is = "whole" =>
        disk["bundle"].chain # <<>> /\ run[Last(disk["bundle"].chain)].op = "export"

\* What a command that ended before this one began has left in what it read.
ReadOK(x) ==
    x.at \in Making /\ x.op # "create" =>
        \A w \in x.before : "artifact" \in run[w].wrote => Keeps(x.chain, w, run)

\* A file that is not empty while a command writes it was written by another one.
WritingOK(w) ==
    LET path == Head(run[w].outputs) IN
    run[w].at = "writing" =>
        /\ disk[path].is # "absent"
        /\ disk[path].chain # <<>> =>
              \E v \in WhiteRuns : Met(v, w, run) /\ path \in run[v].wrote

WhiteOK ==
    /\ WhiteTypeOK
    /\ \A path \in WhitePaths : FileOK(path)
    /\ \A w \in WhiteRuns :
          WhiteCommandOK(w, run[w]) /\ ChainOK(run[w].chain, run) /\ ReadOK(run[w]) /\ WritingOK(w)
    /\ ArtifactOK /\ BundleOK

\* The step of the command w leaves the others alone, and what it has once chosen
\* or done.
Moves(w) ==
    /\ run' \in [WhiteRuns -> RunRecords]
    /\ \A v \in WhiteRuns \ {w} : run'[v] = run[v]
    /\ run[w].wrote \subseteq run'[w].wrote
    /\ run[w].at \notin Over
    /\ run[w].at \notin Fresh => run'[w].at \notin Fresh
    /\ run[w].at # "none" => run'[w].before = run[w].before /\ run'[w].op = run[w].op

LEMMA ChainMoves ==
    ASSUME NEW w \in WhiteRuns, Moves(w), NEW c \in Seq(WhiteRuns), ChainOK(c, run)
    PROVE  ChainOK(c, run')
<1>1. \A i \in DOMAIN c : c[i] \in WhiteRuns
  OBVIOUS
<1>2. \A v \in WhiteRuns : run[v].at \notin Fresh =>
         run'[v].at \notin Fresh /\ run'[v].before = run[v].before
  BY DEF Moves, Fresh
<1> QED
  BY <1>1, <1>2 DEF ChainOK

LEMMA MetMoves ==
    ASSUME NEW w \in WhiteRuns, Moves(w), NEW u \in WhiteRuns, NEW v \in WhiteRuns,
           run[u].at # "none", run[v].at # "none", Met(u, v, run)
    PROVE  Met(u, v, run')
BY DEF Moves, Met

LEMMA KeepsMoves ==
    ASSUME WhiteOK, NEW w \in WhiteRuns, Moves(w), NEW v \in WhiteRuns,
           run[v].at # "none", NEW c, Keeps(c, v, run)
    PROVE  Keeps(c, v, run')
<1>1. CASE \E i \in DOMAIN c : c[i] = v
  BY <1>1 DEF Keeps
<1>2. ASSUME NEW u \in WhiteRuns \ {v}, "artifact" \in run[u].wrote,
             Met(u, v, run) \/ run[u].op = "create"
      PROVE  Displaced(v, run')
  <2>1. run[u].at # "none"
    BY <1>2 DEF WhiteOK, WhiteCommandOK, Fresh
  <2>2. "artifact" \in run'[u].wrote /\ run'[u].op = run[u].op
    BY <1>2, <2>1 DEF Moves
  <2> QED
    BY <1>2, <2>1, <2>2, MetMoves DEF Displaced
<1> QED
  BY <1>1, <1>2 DEF Keeps, Displaced

\* The others' part of the invariant after a step of w.
LEMMA OthersMove ==
    ASSUME WhiteOK, NEW w \in WhiteRuns, Moves(w), NEW v \in WhiteRuns \ {w}
    PROVE  /\ WhiteCommandOK(v, run[v])'
           /\ ChainOK(run[v].chain, run)'
<1>1. run'[v] = run[v] /\ run[v] \in RunRecords /\ run'[w] \in RunRecords
  BY DEF Moves, WhiteOK, WhiteTypeOK
<1>2. ChainOK(run[v].chain, run')
  BY <1>1, ChainMoves DEF WhiteOK, RunRecords
<1>3. WhiteCommandOK(v, run[v]) /\ run[v].before \subseteq WhiteRuns
  BY <1>1 DEF WhiteOK, RunRecords
<1>4. \A u \in run[v].before : run'[u].at \in Over
  BY <1>3 DEF WhiteCommandOK, Moves
<1> QED
  BY <1>1, <1>2, <1>3, <1>4 DEF WhiteCommandOK

\* What a command has read is still so after a step of w that wrote nothing new,
\* or that came from a command that had not ended.
LEMMA ReadsMove ==
    ASSUME WhiteOK, NEW w \in WhiteRuns, Moves(w), NEW v \in WhiteRuns \ {w}
    PROVE  ReadOK(run[v])'
<1>1. run'[v] = run[v] /\ run[v] \in RunRecords
  BY DEF Moves, WhiteOK, WhiteTypeOK
<1>2. \A u \in run[v].before : u \in WhiteRuns /\ run[u].at \in Over /\ u # w /\ run'[u] = run[u]
  BY <1>1 DEF Moves, WhiteOK, WhiteCommandOK, RunRecords
<1> SUFFICES ASSUME run[v].at \in Making, run[v].op # "create", NEW u \in run[v].before,
                    "artifact" \in run[u].wrote
             PROVE  Keeps(run[v].chain, u, run')
  BY <1>1, <1>2 DEF ReadOK
<1>3. Keeps(run[v].chain, u, run)
  BY DEF WhiteOK, ReadOK
<1>4. u \in WhiteRuns /\ run[u].at # "none"
  BY <1>2 DEF Over
<1> QED
  BY <1>3, <1>4, KeepsMoves

\* A file that the step of w does not touch.
LEMMA FileStays ==
    ASSUME WhiteOK, NEW w \in WhiteRuns, Moves(w), NEW path \in WhitePaths,
           disk'[path] = disk[path], path \in run'[w].wrote => path \in run[w].wrote,
           run[w].at = "writing" /\ Head(run[w].outputs) = path => run'[w].at = "error"
    PROVE  FileOK(path)'
<1>1. disk[path].chain \in Seq(WhiteRuns) /\ FileOK(path)
  BY DEF WhiteOK, WhiteTypeOK, Texts
<1>2. ChainOK(disk[path].chain, run')
  BY <1>1, ChainMoves DEF FileOK
<1>3. ASSUME NEW v \in WhiteRuns, run[v].at = "writing", Head(run[v].outputs) = path
      PROVE  \/ run'[v].at = "writing" /\ Head(run'[v].outputs) = path
             \/ run'[v].at = "error"
  BY <1>3 DEF Moves
<1>4. ASSUME NEW v \in WhiteRuns, run[v].at = "error" PROVE run'[v].at = "error"
  BY <1>4 DEF Moves, Over
<1>5. ASSUME NEW u \in WhiteRuns, NEW v \in WhiteRuns, Met(u, v, run),
             path \in run[u].wrote \cap run[v].wrote
      PROVE  Met(u, v, run') /\ path \in run'[u].wrote \cap run'[v].wrote
  <2>1. run[u].at # "none" /\ run[v].at # "none"
    BY <1>5 DEF WhiteOK, WhiteCommandOK, Fresh
  <2> QED
    BY <1>5, <2>1, MetMoves DEF Moves
<1>6. \A v \in WhiteRuns : path \in run'[v].wrote => path \in run[v].wrote
  BY DEF Moves
<1>7. disk'[path].is = "broken" =>
          \/ \E v \in WhiteRuns : run'[v].at = "writing" /\ Head(run'[v].outputs) = path
          \/ \E v \in WhiteRuns : run'[v].at = "error"
          \/ \E u, v \in WhiteRuns : Met(u, v, run') /\ path \in run'[u].wrote \cap run'[v].wrote
  BY <1>1, <1>3, <1>4, <1>5 DEF FileOK
<1> QED
  BY <1>1, <1>2, <1>6, <1>7 DEF FileOK

LEMMA ArtifactStays ==
    ASSUME WhiteOK, NEW w \in WhiteRuns, Moves(w), disk'["artifact"] = disk["artifact"],
           "artifact" \in run'[w].wrote => "artifact" \in run[w].wrote
    PROVE  ArtifactOK'
<1> SUFFICES ASSUME disk["artifact"].is = "whole", NEW v \in WhiteRuns, "artifact" \in run'[v].wrote
             PROVE  Keeps(disk["artifact"].chain, v, run')
  BY DEF ArtifactOK
<1>1. "artifact" \in run[v].wrote
  BY DEF Moves
<1>2. Keeps(disk["artifact"].chain, v, run) /\ run[v].at # "none"
  BY <1>1 DEF WhiteOK, ArtifactOK, WhiteCommandOK, Fresh
<1> QED
  BY <1>2, KeepsMoves

LEMMA BundleStays ==
    ASSUME WhiteOK, NEW w \in WhiteRuns, Moves(w), disk'["bundle"] = disk["bundle"]
    PROVE  BundleOK'
<1> SUFFICES ASSUME disk["bundle"].is = "whole"
             PROVE  disk["bundle"].chain # <<>> /\ run'[Last(disk["bundle"].chain)].op = "export"
  BY DEF BundleOK
<1>1. disk["bundle"].chain # <<>> /\ disk["bundle"].chain \in Seq(WhiteRuns)
      /\ run[Last(disk["bundle"].chain)].op = "export"
  BY DEF WhiteOK, WhiteTypeOK, Texts, BundleOK, WhitePaths
<1>2. Last(disk["bundle"].chain) \in WhiteRuns
  BY <1>1 DEF Last
<1>3. \A v \in WhiteRuns : run[v].op = "export" => run'[v].op = "export"
  BY DEF WhiteOK, Moves, WhiteCommandOK
<1> QED
  BY <1>1, <1>2, <1>3

LEMMA WritingStays ==
    ASSUME WhiteOK, NEW w \in WhiteRuns, Moves(w), NEW v \in WhiteRuns \ {w},
           run[v].at = "writing" =>
               disk'[Head(run[v].outputs)] = disk[Head(run[v].outputs)]
    PROVE  WritingOK(v)'
<1>1. run'[v] = run[v]
  BY DEF Moves
<1> SUFFICES ASSUME run[v].at = "writing" PROVE WritingOK(v)'
  BY <1>1 DEF WritingOK
<1>2. ASSUME NEW u \in WhiteRuns, NEW path, Met(u, v, run), path \in run[u].wrote
      PROVE  Met(u, v, run') /\ path \in run'[u].wrote
  <2>1. run[u].at # "none" /\ run[v].at # "none"
    BY <1>2 DEF WhiteOK, WhiteCommandOK, Fresh
  <2> QED
    BY <1>2, <2>1, MetMoves DEF Moves
<1>3. WritingOK(v)
  BY DEF WhiteOK
<1> QED
  BY <1>1, <1>2, <1>3 DEF WritingOK

\* A step that writes nothing and ends no writing but with an error.
LEMMA QuietStep ==
    ASSUME WhiteOK, NEW w \in WhiteRuns, Moves(w), disk' = disk,
           run'[w].wrote = run[w].wrote, run'[w].at # "writing",
           run[w].at = "writing" => run'[w].at = "error",
           WhiteCommandOK(w, run[w])', ChainOK(run[w].chain, run)', ReadOK(run[w])'
    PROVE  WhiteOK'
<1>1. WhiteTypeOK'
  BY DEF WhiteOK, WhiteTypeOK, Moves
<1>2. \A path \in WhitePaths : FileOK(path)'
  BY FileStays
<1>3. ArtifactOK' /\ BundleOK'
  BY ArtifactStays, BundleStays
<1>4. \A v \in WhiteRuns : WritingOK(v)'
  BY WritingStays DEF WritingOK
<1> QED
  BY <1>1, <1>2, <1>3, <1>4, OthersMove, ReadsMove DEF WhiteOK

LEMMA BeginStep == ASSUME WhiteOK, NEW w \in WhiteRuns, BeginCommand(w) PROVE WhiteOK'
<1> PICK op \in {"create", "advance", "export", "inspect"}, input \in WhitePaths :
      \E outputs \in Outputs(op) :
        /\ input = "bundle" => op = "inspect"
        /\ run' = [run EXCEPT ![w] = [@ EXCEPT
                !.op = op, !.input = input, !.outputs = outputs, !.before = EndedRuns,
                !.at = IF op = "create" THEN "made" ELSE "reading",
                !.chain = IF op = "create" THEN <<w>> ELSE <<>>]]
  BY DEF BeginCommand
<1> PICK outputs \in Outputs(op) :
      /\ input = "bundle" => op = "inspect"
      /\ run' = [run EXCEPT ![w] = [@ EXCEPT
              !.op = op, !.input = input, !.outputs = outputs, !.before = EndedRuns,
              !.at = IF op = "create" THEN "made" ELSE "reading",
              !.chain = IF op = "create" THEN <<w>> ELSE <<>>]]
  OBVIOUS
<1> DEFINE x == [run[w] EXCEPT
              !.op = op, !.input = input, !.outputs = outputs, !.before = EndedRuns,
              !.at = IF op = "create" THEN "made" ELSE "reading",
              !.chain = IF op = "create" THEN <<w>> ELSE <<>>]
<1>1. run[w].at = "none" /\ disk' = disk
  BY DEF BeginCommand
<1>2. run[w] \in RunRecords /\ WhiteCommandOK(w, run[w])
  BY DEF WhiteOK, WhiteTypeOK
<1>3. outputs \in Seq(WhitePaths) /\ (op # "export" => \A i \in DOMAIN outputs : outputs[i] # "bundle")
  <2>1. <<>> \in Seq(WhitePaths) /\ <<"artifact">> \in Seq(WhitePaths)
        /\ <<"bundle">> \in Seq(WhitePaths) /\ <<"artifact", "bundle">> \in Seq(WhitePaths)
    BY DEF WhitePaths
  <2>2. outputs \in {<<>>, <<"artifact">>, <<"bundle">>, <<"artifact", "bundle">>}
    BY DEF Outputs
  <2>3. op # "export" => outputs \in {<<>>, <<"artifact">>}
    BY DEF Outputs
  <2>4. \A s \in {<<>>, <<"artifact">>} : \A i \in DOMAIN s : s[i] # "bundle"
    OBVIOUS
  <2> QED
    BY <2>1, <2>2, <2>3, <2>4
<1>4. /\ x \in RunRecords /\ x.op = op /\ x.input = input /\ x.outputs = outputs
      /\ x.before = EndedRuns /\ x.wrote = run[w].wrote
      /\ x.at = (IF op = "create" THEN "made" ELSE "reading")
      /\ x.chain = (IF op = "create" THEN <<w>> ELSE <<>>)
  <2>1. EndedRuns \in SUBSET WhiteRuns
    BY DEF EndedRuns
  <2>2. (IF op = "create" THEN <<w>> ELSE <<>>) \in Seq(WhiteRuns)
    OBVIOUS
  <2> QED
    BY <1>2, <1>3, <2>1, <2>2 DEF RunRecords, WhiteOps, WhiteSteps
<1> HIDE DEF x
<1>5. run' = [run EXCEPT ![w] = x]
  BY DEF x
<1>6. run' \in [WhiteRuns -> RunRecords] /\ run'[w] = x /\ \A v \in WhiteRuns \ {w} : run'[v] = run[v]
  BY <1>4, <1>5 DEF WhiteOK, WhiteTypeOK
<1>7. Moves(w)
  BY <1>1, <1>4, <1>6 DEF Moves, Over, Fresh
<1>8. x.wrote = {}
  BY <1>1, <1>2, <1>4 DEF WhiteCommandOK, Fresh
<1>9. \A v \in EndedRuns : run'[v].at \in Over
  BY <1>1, <1>6 DEF EndedRuns, Over
<1>10. WhiteCommandOK(w, run[w])'
  <2>1. op = "create" => x.chain # <<>> /\ Last(x.chain) = w
    BY <1>4 DEF Last
  <2>2. op \in {"advance", "export"} => input = "artifact"
    BY DEF WhitePaths
  <2>3. x.at \in {"made", "reading"} /\ (x.at = "made" <=> op = "create")
    BY <1>4
  <2>4. \A v \in x.before : run'[v].at \in Over
    BY <1>4, <1>9
  <2>5. /\ x.at # "none" /\ x.at # "writing" /\ x.op # "none"
        /\ x.op \in {"advance", "export"} => x.input = "artifact"
        /\ x.at = "reading" => x.op # "create"
        /\ x.at \in Making => x.op = "create" /\ x.chain # <<>> /\ Last(x.chain) = w
    BY <2>1, <2>2, <2>3, <1>4 DEF Making
  <2>6. x.op # "export" => \A i \in DOMAIN x.outputs : x.outputs[i] # "bundle"
    BY <1>3, <1>4
  <2> QED
    BY <2>4, <2>5, <2>6, <1>6, <1>8 DEF WhiteCommandOK
<1>11. ChainOK(run[w].chain, run)'
  <2>1. CASE op = "create"
    <3>1. x.chain = <<w>> /\ x.at = "made"
      BY <1>4, <2>1
    <3> QED
      BY <3>1, <1>6 DEF ChainOK, Fresh
  <2>2. CASE op # "create"
    BY <2>2, <1>4, <1>6 DEF ChainOK
  <2> QED
    BY <2>1, <2>2
<1>12. ReadOK(run[w])'
  BY <1>4, <1>6 DEF ReadOK, Making
<1> QED
  BY <1>1, <1>4, <1>6, <1>7, <1>10, <1>11, <1>12, QuietStep

\* A command that comes to its end, or prints, carries nothing any more.
LEMMA RestStep ==
    ASSUME WhiteOK, NEW w \in WhiteRuns, NEW at \in {"done", "error"}, disk' = disk,
           run' = [run EXCEPT ![w].at = at], run[w].at \notin Over \cup {"none"},
           run[w].at = "writing" => at = "error"
    PROVE  WhiteOK'
<1> DEFINE x == [run[w] EXCEPT !.at = at]
<1>1. run[w] \in RunRecords /\ WhiteCommandOK(w, run[w]) /\ ChainOK(run[w].chain, run)
  BY DEF WhiteOK, WhiteTypeOK
<1>2. /\ x \in RunRecords /\ x.at = at /\ x.op = run[w].op /\ x.input = run[w].input
      /\ x.outputs = run[w].outputs /\ x.before = run[w].before /\ x.wrote = run[w].wrote
      /\ x.chain = run[w].chain
  BY <1>1 DEF RunRecords, WhiteSteps
<1>3. run' = [run EXCEPT ![w] = x]
  OBVIOUS
<1> HIDE DEF x
<1>4. run' \in [WhiteRuns -> RunRecords] /\ run'[w] = x /\ \A v \in WhiteRuns \ {w} : run'[v] = run[v]
  BY <1>2, <1>3 DEF WhiteOK, WhiteTypeOK
<1>5. Moves(w)
  BY <1>2, <1>4 DEF Moves, Over, Fresh
<1>6. WhiteCommandOK(w, run[w])'
  <2>1. \A v \in x.before : run'[v].at \in Over
    <3>1. x.before \subseteq WhiteRuns /\ \A v \in x.before : run[v].at \in Over
      BY <1>1, <1>2 DEF WhiteCommandOK, RunRecords
    <3> QED
      BY <3>1, <1>2, <1>4 DEF Over
  <2> QED
    BY <2>1, <1>1, <1>2, <1>4 DEF WhiteCommandOK, Making, Fresh, Over
<1>7. ChainOK(run[w].chain, run)'
  BY <1>1, <1>2, <1>4, <1>5, ChainMoves DEF RunRecords
<1>8. ReadOK(run[w])'
  BY <1>2, <1>4 DEF ReadOK, Making
<1> QED
  BY <1>2, <1>4, <1>5, <1>6, <1>7, <1>8, QuietStep

\* A run that is added to a chain comes last.
LEMMA LongerChain ==
    ASSUME NEW chain \in Seq(WhiteRuns), NEW w \in WhiteRuns
    PROVE  /\ Append(chain, w) \in Seq(WhiteRuns)
           /\ Len(Append(chain, w)) = Len(chain) + 1 /\ Append(chain, w)[Len(chain) + 1] = w
           /\ \A i \in 1 .. Len(chain) : Append(chain, w)[i] = chain[i]
BY AppendProperties

LEMMA ReadStep == ASSUME WhiteOK, NEW w \in WhiteRuns, ReadArtifact(w) PROVE WhiteOK'
<1> DEFINE text == disk[run[w].input]
           at == IF run[w].op = "inspect" THEN "printing" ELSE "made"
           chain == IF run[w].op = "inspect" THEN text.chain ELSE Append(text.chain, w)
           x == [run[w] EXCEPT !.at = at, !.chain = chain]
<1>1. run[w] \in RunRecords /\ WhiteCommandOK(w, run[w]) /\ run[w].at = "reading" /\ disk' = disk
  BY DEF WhiteOK, WhiteTypeOK, ReadArtifact
<1>2. CASE run' = [run EXCEPT ![w].at = "error"]
  BY <1>1, <1>2, RestStep DEF Over
<1>3. ASSUME text.is = "whole", run' = [run EXCEPT ![w].at = at, ![w].chain = chain]
      PROVE  WhiteOK'
  <2>1. /\ run[w].input \in WhitePaths /\ text \in Texts /\ text.chain \in Seq(WhiteRuns)
        /\ ChainOK(text.chain, run)
    BY <1>1 DEF WhiteOK, WhiteTypeOK, RunRecords, Texts, FileOK
  <2>2. chain \in Seq(WhiteRuns)
    BY <2>1
  <2>3. run' = [run EXCEPT ![w] = x]
    BY <1>3
  <2> HIDE DEF chain
  <2>4. /\ x \in RunRecords /\ x.at = at /\ x.op = run[w].op /\ x.input = run[w].input
        /\ x.outputs = run[w].outputs /\ x.before = run[w].before /\ x.wrote = run[w].wrote
        /\ x.chain = chain
    BY <1>1, <2>2 DEF RunRecords, WhiteSteps
  <2> HIDE DEF x, at
  <2>5. run' \in [WhiteRuns -> RunRecords] /\ run'[w] = x /\ \A v \in WhiteRuns \ {w} : run'[v] = run[v]
    BY <2>3, <2>4 DEF WhiteOK, WhiteTypeOK
  <2>6. at \in {"printing", "made"} /\ (at = "made" <=> run[w].op # "inspect")
    BY DEF at
  <2>7. Moves(w)
    BY <1>1, <2>4, <2>5, <2>6 DEF Moves, Over, Fresh
  <2> DEFINE n == Len(text.chain)
  <2>8. at = "made" => /\ chain \in Seq(WhiteRuns) /\ Len(chain) = n + 1 /\ chain[n + 1] = w
                       /\ \A i \in 1 .. n : chain[i] = text.chain[i]
    <3>1. at = "made" => chain = Append(text.chain, w)
      BY <2>6 DEF chain
    <3> HIDE DEF text
    <3> QED
      BY <2>1, <3>1, LongerChain
  <2>9. ChainOK(text.chain, run')
    BY <2>1, <2>7, ChainMoves
  <2>10. n \in Nat /\ DOMAIN text.chain = 1 .. n /\ \A i \in 1 .. n : text.chain[i] \in WhiteRuns
    BY <2>1
  <2>11. WhiteCommandOK(w, run[w])'
    <3>1. x.before \subseteq WhiteRuns /\ \A v \in x.before : run'[v].at \in Over
      <4>1. x.before \subseteq WhiteRuns /\ \A v \in x.before : run[v].at \in Over
        BY <1>1, <2>4 DEF WhiteCommandOK, RunRecords
      <4> QED
        BY <4>1, <1>1, <2>5 DEF Over
    <3>2. at = "made" => chain # <<>> /\ Last(chain) = w
      BY <2>8, <2>10, SMTT(30) DEF Last
    <3>3. at = "made" => run[w].op \in {"create", "advance", "export"}
      BY <1>1, <2>6 DEF WhiteCommandOK, RunRecords, WhiteOps
    <3> QED
      BY <3>1, <3>2, <3>3, <1>1, <2>4, <2>5, <2>6 DEF WhiteCommandOK, Making, Fresh, Over
  <2>12. ChainOK(chain, run')
    <3>1. CASE at = "made"
      <4>1. \A i \in 1 .. n : text.chain[i] # w
        BY <1>1, <2>1, <2>10 DEF ChainOK, Fresh
      <4>2. \A v \in WhiteRuns : w \notin run'[v].before
        <5>1. \A v \in WhiteRuns : w \notin run[v].before
          BY <1>1 DEF WhiteOK, WhiteCommandOK, Over
        <5> QED
          BY <5>1, <2>4, <2>5
      <4>3. DOMAIN chain = 1 .. (n + 1)
        BY <2>8, <3>1, <2>10
      <4>4. run'[w].at \notin Fresh
        BY <3>1, <2>4, <2>5 DEF Fresh
      <4>5. ASSUME NEW i \in 1 .. (n + 1), NEW j \in 1 .. (n + 1)
            PROVE  /\ chain[i] = chain[j] => i = j
                   /\ run'[chain[i]].at \notin Fresh
                   /\ i < j => chain[j] \notin run'[chain[i]].before
        <5>1. CASE i \in 1 .. n /\ j \in 1 .. n
          BY <5>1, <2>8, <2>9, <2>10, <3>1 DEF ChainOK
        <5>2. CASE i \in 1 .. n /\ j = n + 1
          BY <5>2, <2>8, <2>9, <2>10, <3>1, <4>1, <4>2 DEF ChainOK
        <5>3. CASE i = n + 1 /\ j \in 1 .. n
          <6>1. ~(i < j) /\ i # j
            BY <5>3, <2>10
          <6>2. chain[i] = w /\ chain[j] # w
            BY <5>3, <2>8, <3>1, <4>1, <2>10
          <6> QED
            BY <6>1, <6>2, <4>4
        <5>4. CASE i = n + 1 /\ j = n + 1
          <6>1. ~(i < j) /\ i = j
            BY <5>4, <2>10
          <6>2. chain[i] = w
            BY <5>4, <2>8, <3>1, <2>10
          <6> QED
            BY <6>1, <6>2, <4>4
        <5>5. (i \in 1 .. n \/ i = n + 1) /\ (j \in 1 .. n \/ j = n + 1)
          <6>1. n \in Nat
            BY <2>10
          <6> HIDE DEF n
          <6> QED
            BY <6>1
        <5> HIDE DEF n
        <5> QED
          BY <5>1, <5>2, <5>3, <5>4, <5>5
      <4> QED
        BY <4>3, <4>5 DEF ChainOK
    <3>2. CASE at = "printing"
      BY <2>6, <2>9, <3>2 DEF chain
    <3> QED
      BY <2>6, <3>1, <3>2
  <2>13. ReadOK(run[w])'
    <3> SUFFICES ASSUME at = "made", x.op # "create", NEW v \in x.before, "artifact" \in run'[v].wrote
                 PROVE  Keeps(chain, v, run')
      BY <2>4, <2>5, <2>6 DEF ReadOK, Making
    <3>1. v \in WhiteRuns /\ run[v].at \in Over /\ run'[v] = run[v]
      BY <1>1, <2>4, <2>5 DEF WhiteCommandOK, RunRecords, Over
    <3>2. run[w].input = "artifact"
      BY <1>1, <2>4, <2>6 DEF WhiteCommandOK, RunRecords, WhiteOps
    <3>3. Keeps(text.chain, v, run)
      BY <1>3, <3>1, <3>2 DEF WhiteOK, ArtifactOK
    <3>4. Keeps(text.chain, v, run')
      BY <3>1, <3>3, <2>7, KeepsMoves DEF Over
    <3> QED
      BY <3>4, <2>8, <2>10 DEF Keeps
  <2> QED
    BY <1>1, <2>4, <2>5, <2>6, <2>7, <2>11, <2>12, <2>13, QuietStep
<1> QED
  BY <1>2, <1>3 DEF ReadArtifact


\* A step that replaces one file.
LEMMA OpenStep ==
    ASSUME WhiteOK, NEW w \in WhiteRuns, run[w].at = "made", run[w].outputs # <<>>,
           disk' = [disk EXCEPT ![Head(run[w].outputs)] = Broken],
           run' = [run EXCEPT ![w].at = "writing"]
    PROVE  WhiteOK'
<1> DEFINE p == Head(run[w].outputs)
           x == [run[w] EXCEPT !.at = "writing"]
<1>1. run[w] \in RunRecords /\ WhiteCommandOK(w, run[w]) /\ ChainOK(run[w].chain, run) /\ ReadOK(run[w])
  BY DEF WhiteOK, WhiteTypeOK
<1>2. p \in WhitePaths
  BY <1>1 DEF RunRecords
<1>3. /\ x \in RunRecords /\ x.at = "writing" /\ x.op = run[w].op /\ x.input = run[w].input
      /\ x.outputs = run[w].outputs /\ x.before = run[w].before /\ x.wrote = run[w].wrote
      /\ x.chain = run[w].chain
  BY <1>1 DEF RunRecords, WhiteSteps
<1>4. run' = [run EXCEPT ![w] = x]
  OBVIOUS
<1> HIDE DEF x
<1>5. run' \in [WhiteRuns -> RunRecords] /\ run'[w] = x /\ \A v \in WhiteRuns \ {w} : run'[v] = run[v]
  BY <1>3, <1>4 DEF WhiteOK, WhiteTypeOK
<1>6. Moves(w)
  BY <1>3, <1>5 DEF Moves, Over, Fresh
<1>7. Broken \in Texts /\ Broken.is = "broken" /\ Broken.chain = <<>>
  BY DEF Broken, Texts
<1>8. /\ disk' \in [WhitePaths -> Texts] /\ disk'[p] = Broken
      /\ \A path \in WhitePaths \ {p} : disk'[path] = disk[path]
  BY <1>2, <1>7 DEF WhiteOK, WhiteTypeOK
<1>9. \A v \in x.before : v \in WhiteRuns /\ v # w /\ run'[v] = run[v] /\ run[v].at \in Over
  BY <1>1, <1>3, <1>5 DEF WhiteCommandOK, RunRecords, Over
<1> HIDE DEF p
<1>10. WhiteCommandOK(w, run[w])'
  <2>1. \A v \in x.before : run'[v].at \in Over
    BY <1>9
  <2> QED
    BY <2>1, <1>1, <1>3, <1>5 DEF WhiteCommandOK, Making, Fresh
<1>11. ChainOK(run[w].chain, run)'
  BY <1>1, <1>3, <1>5, <1>6, ChainMoves DEF RunRecords
<1>12. ReadOK(run[w])'
  <2> SUFFICES ASSUME x.op # "create", NEW v \in x.before, "artifact" \in run[v].wrote
               PROVE  Keeps(x.chain, v, run')
    BY <1>5, <1>9 DEF ReadOK
  <2>1. Keeps(x.chain, v, run) /\ v \in WhiteRuns /\ run[v].at # "none"
    BY <1>1, <1>3, <1>9 DEF ReadOK, Making, Over
  <2> QED
    BY <2>1, <1>6, KeepsMoves
<1>13. ASSUME NEW path \in WhitePaths PROVE FileOK(path)'
  <2>1. CASE path = p
    <3>1. ChainOK(<<>>, run')
      BY DEF ChainOK
    <3>2. run'[w].at = "writing" /\ Head(run'[w].outputs) = p
      BY <1>3, <1>5 DEF p
    <3> QED
      BY <2>1, <3>1, <3>2, <1>7, <1>8 DEF FileOK
  <2>2. CASE path # p
    BY <2>2, <1>3, <1>5, <1>6, <1>8, FileStays
  <2> QED
    BY <2>1, <2>2
<1>14. ArtifactOK'
  <2>1. CASE p = "artifact"
    BY <2>1, <1>7, <1>8 DEF ArtifactOK
  <2>2. CASE p # "artifact"
    BY <2>2, <1>3, <1>5, <1>6, <1>8, ArtifactStays DEF WhitePaths
  <2> QED
    BY <2>1, <2>2
<1>15. BundleOK'
  <2>1. CASE p = "bundle"
    BY <2>1, <1>7, <1>8 DEF BundleOK
  <2>2. CASE p # "bundle"
    BY <2>2, <1>6, <1>8, BundleStays DEF WhitePaths
  <2> QED
    BY <2>1, <2>2
<1>16. ASSUME NEW v \in WhiteRuns PROVE WritingOK(v)'
  <2>1. run[v].at = "writing" => Head(run[v].outputs) \in WhitePaths
    <3> HAVE run[v].at = "writing"
    <3>1. run[v].outputs # <<>> /\ run[v].outputs \in Seq(WhitePaths)
      BY DEF WhiteOK, WhiteCommandOK, WhiteTypeOK, RunRecords
    <3> QED
      BY <3>1
  <2>2. CASE run'[v].at = "writing" /\ Head(run'[v].outputs) = p
    BY <2>2, <1>7, <1>8 DEF WritingOK
  <2>3. CASE v # w /\ Head(run[v].outputs) # p
    BY <2>1, <2>3, <1>6, <1>8, WritingStays
  <2>4. CASE run'[v].at # "writing"
    BY <2>4 DEF WritingOK
  <2> QED
    BY <2>2, <2>3, <2>4, <1>3, <1>5 DEF p
<1> QED
  BY <1>5, <1>6, <1>8, <1>10, <1>11, <1>12, <1>13, <1>14, <1>15, <1>16, OthersMove, ReadsMove
     DEF WhiteOK, WhiteTypeOK

LEMMA WriteStep == ASSUME WhiteOK, NEW w \in WhiteRuns, WriteOutput(w) PROVE WhiteOK'
<1> DEFINE p == Head(run[w].outputs)
           x == [run[w] EXCEPT !.at = "made", !.outputs = Tail(@), !.wrote = @ \cup {p}]
<1>1. /\ run[w] \in RunRecords /\ WhiteCommandOK(w, run[w]) /\ ChainOK(run[w].chain, run)
      /\ ReadOK(run[w]) /\ WritingOK(w)
  BY DEF WhiteOK, WhiteTypeOK
<1>2. run[w].at = "writing" /\ run[w].outputs # <<>> /\ run[w].outputs \in Seq(WhitePaths)
  BY <1>1 DEF WriteOutput, WhiteCommandOK, RunRecords
<1>3. p \in WhitePaths /\ Tail(run[w].outputs) \in Seq(WhitePaths)
  BY <1>2
<1>4. /\ x \in RunRecords /\ x.at = "made" /\ x.op = run[w].op /\ x.input = run[w].input
      /\ x.outputs = Tail(run[w].outputs) /\ x.before = run[w].before
      /\ x.wrote = run[w].wrote \cup {p} /\ x.chain = run[w].chain
  BY <1>1, <1>3 DEF RunRecords, WhiteSteps
<1>5. run' = [run EXCEPT ![w] = x]
  BY DEF WriteOutput
<1> HIDE DEF x
<1>6. run' \in [WhiteRuns -> RunRecords] /\ run'[w] = x /\ \A v \in WhiteRuns \ {w} : run'[v] = run[v]
  BY <1>4, <1>5 DEF WhiteOK, WhiteTypeOK
<1>7. Moves(w)
  BY <1>2, <1>4, <1>6 DEF Moves, Over, Fresh
<1> DEFINE c == run[w].chain
<1>8. /\ c \in Seq(WhiteRuns) /\ c # <<>> /\ Last(c) = w
      /\ run[w].op \in {"create", "advance", "export"}
  BY <1>1, <1>2 DEF WhiteCommandOK, RunRecords, Making
<1>9. Len(c) \in Nat /\ Len(c) >= 1 /\ Len(c) \in DOMAIN c /\ c[Len(c)] = w
  BY <1>8 DEF Last
<1>10. PICK text : /\ disk' = [disk EXCEPT ![p] = text]
                   /\ \/ text = Whole(c)
                      \/ Len(disk[p].chain) >= Len(c) /\ text = [disk[p] EXCEPT !.is = "broken"]
  BY DEF WriteOutput
<1>11. disk[p] \in Texts /\ disk[p].chain \in Seq(WhiteRuns) /\ ChainOK(disk[p].chain, run)
  BY <1>3 DEF WhiteOK, WhiteTypeOK, Texts, FileOK
<1>12. /\ text \in Texts
       /\ \/ text.is = "whole" /\ text.chain = c
          \/ text.is = "broken" /\ text.chain = disk[p].chain /\ disk[p].chain # <<>>
  <2>1. CASE text = Whole(c)
    BY <2>1, <1>8 DEF Whole, Texts
  <2>2. CASE Len(disk[p].chain) >= Len(c) /\ text = [disk[p] EXCEPT !.is = "broken"]
    <3>1. text \in Texts /\ text.is = "broken" /\ text.chain = disk[p].chain
      BY <2>2, <1>11 DEF Texts
    <3>2. disk[p].chain # <<>>
      BY <2>2, <1>9, <1>11
    <3> QED
      BY <3>1, <3>2
  <2> QED
    BY <1>10, <2>1, <2>2
<1>13. /\ disk' \in [WhitePaths -> Texts] /\ disk'[p] = text
       /\ \A path \in WhitePaths \ {p} : disk'[path] = disk[path]
  BY <1>3, <1>10, <1>12 DEF WhiteOK, WhiteTypeOK
<1>14. \A v \in x.before : v \in WhiteRuns /\ v # w /\ run'[v] = run[v] /\ run[v].at \in Over
  BY <1>1, <1>2, <1>4, <1>6 DEF WhiteCommandOK, RunRecords, Over
<1>15. \A v \in WhiteRuns : w \notin run[v].before
  BY <1>2 DEF WhiteOK, WhiteCommandOK, Over
<1>16. ChainOK(c, run')
  BY <1>1, <1>7, <1>8, ChainMoves
<1>17. \A v \in WhiteRuns : run[v].at # "none" => run'[v].before = run[v].before
  BY <1>7 DEF Moves
<1> HIDE DEF p
<1>18. WhiteCommandOK(w, run[w])'
  <2>1. \A v \in x.before : run'[v].at \in Over
    BY <1>14
  <2>2. x.op # "export" => \A i \in DOMAIN x.outputs : x.outputs[i] # "bundle"
    <3> SUFFICES ASSUME x.op # "export", NEW i \in DOMAIN Tail(run[w].outputs)
                 PROVE  Tail(run[w].outputs)[i] # "bundle"
      BY <1>4
    <3>1. i + 1 \in DOMAIN run[w].outputs /\ Tail(run[w].outputs)[i] = run[w].outputs[i + 1]
      BY <1>2
    <3> QED
      BY <3>1, <1>1, <1>4 DEF WhiteCommandOK
  <2> QED
    BY <2>1, <2>2, <1>1, <1>2, <1>4, <1>6 DEF WhiteCommandOK, Making, Fresh
<1>19. ReadOK(run[w])'
  <2> SUFFICES ASSUME x.op # "create", NEW v \in x.before, "artifact" \in run[v].wrote
               PROVE  Keeps(x.chain, v, run')
    BY <1>6, <1>14 DEF ReadOK
  <2>1. Keeps(x.chain, v, run) /\ v \in WhiteRuns /\ run[v].at # "none"
    BY <1>1, <1>2, <1>4, <1>14 DEF ReadOK, Making, Over
  <2> QED
    BY <2>1, <1>7, KeepsMoves
<1>20. ASSUME NEW path \in WhitePaths PROVE FileOK(path)'
  <2>1. CASE path = p
    <3>1. ChainOK(text.chain, run')
      BY <1>7, <1>11, <1>12, <1>16, ChainMoves
    <3>2. ASSUME text.is = "broken"
          PROVE  \E u, v \in WhiteRuns : Met(u, v, run') /\ path \in run'[u].wrote \cap run'[v].wrote
      <4>1. PICK v \in WhiteRuns : Met(v, w, run) /\ p \in run[v].wrote
        BY <3>2, <1>1, <1>2, <1>12 DEF WritingOK, p
      <4>2. run[v].at # "none"
        BY <4>1 DEF WhiteOK, WhiteCommandOK, Fresh
      <4>3. Met(v, w, run')
        BY <4>1, <4>2, <1>2, <1>7, MetMoves
      <4>4. p \in run'[v].wrote /\ p \in run'[w].wrote
        BY <4>1, <1>4, <1>6 DEF Met
      <4> QED
        BY <2>1, <4>3, <4>4
    <3> QED
      BY <2>1, <3>1, <3>2, <1>12, <1>13 DEF FileOK
  <2>2. CASE path # p
    BY <2>2, <1>4, <1>6, <1>7, <1>13, FileStays DEF p
  <2> QED
    BY <2>1, <2>2
<1>21. ArtifactOK'
  <2>1. CASE p = "artifact"
    <3> SUFFICES ASSUME text.is = "whole", NEW v \in WhiteRuns, "artifact" \in run'[v].wrote
                 PROVE  Keeps(c, v, run')
      BY <2>1, <1>12, <1>13 DEF ArtifactOK
    <3>1. CASE v = w
      BY <3>1, <1>9 DEF Keeps
    <3>2. CASE v # w /\ v \in run[w].before /\ run[w].op # "create"
      <4>1. Keeps(c, v, run) /\ run[v].at # "none"
        BY <3>2, <1>1, <1>2, <1>4, <1>6, <1>14 DEF ReadOK, Making, Over
      <4> QED
        BY <4>1, <1>7, KeepsMoves
    <3>3. CASE v # w /\ (v \notin run[w].before \/ run[w].op = "create")
      <4>1. "artifact" \in run'[w].wrote /\ run'[w].op = run[w].op
        BY <2>1, <1>4, <1>6
      <4>2. Met(w, v, run') \/ run'[w].op = "create"
        BY <3>3, <4>1, <1>4, <1>6, <1>15 DEF Met
      <4> QED
        BY <3>3, <4>1, <4>2 DEF Keeps, Displaced
    <3> QED
      BY <3>1, <3>2, <3>3
  <2>2. CASE p # "artifact"
    BY <2>2, <1>4, <1>6, <1>7, <1>13, ArtifactStays DEF WhitePaths
  <2> QED
    BY <2>1, <2>2
<1>22. BundleOK'
  <2>1. CASE p = "bundle"
    <3>1. run[w].op = "export"
      BY <2>1, <1>1, <1>2 DEF WhiteCommandOK, p
    <3> QED
      BY <2>1, <3>1, <1>4, <1>6, <1>8, <1>12, <1>13 DEF BundleOK
  <2>2. CASE p # "bundle"
    BY <2>2, <1>7, <1>13, BundleStays DEF WhitePaths
  <2> QED
    BY <2>1, <2>2
<1>23. ASSUME NEW v \in WhiteRuns PROVE WritingOK(v)'
  <2>1. run[v].at = "writing" => Head(run[v].outputs) \in WhitePaths
    <3> HAVE run[v].at = "writing"
    <3>1. run[v].outputs # <<>> /\ run[v].outputs \in Seq(WhitePaths)
      BY DEF WhiteOK, WhiteCommandOK, WhiteTypeOK, RunRecords
    <3> QED
      BY <3>1
  <2>2. CASE v # w /\ run[v].at = "writing" /\ Head(run[v].outputs) = p
    <3>1. w \notin run'[v].before /\ v \notin run'[w].before
      BY <2>2, <1>4, <1>6, <1>14, <1>15 DEF Over
    <3>2. Met(w, v, run') /\ p \in run'[w].wrote
      BY <2>2, <3>1, <1>4, <1>6 DEF Met
    <3>3. disk'[p].is # "absent"
      BY <1>12, <1>13
    <3> QED
      BY <2>2, <3>2, <3>3, <1>6 DEF WritingOK
  <2>3. CASE v # w /\ Head(run[v].outputs) # p
    BY <2>1, <2>3, <1>7, <1>13, WritingStays
  <2>4. CASE run'[v].at # "writing"
    BY <2>4 DEF WritingOK
  <2> QED
    BY <2>2, <2>3, <2>4, <1>4, <1>6
<1>24. ChainOK(run[w].chain, run)'
  BY <1>4, <1>6, <1>16
<1> QED
  BY <1>6, <1>7, <1>13, <1>18, <1>19, <1>20, <1>21, <1>22, <1>23, <1>24, OthersMove, ReadsMove
     DEF WhiteOK, WhiteTypeOK

LEMMA WhiteInits == WhiteInit => WhiteOK
<1> SUFFICES ASSUME WhiteInit PROVE WhiteOK
  OBVIOUS
<1>1. <<>> \in Seq(WhiteRuns) /\ <<>> \in Seq(WhitePaths)
  OBVIOUS
<1> DEFINE x == [op |-> "none", at |-> "none", input |-> "artifact", outputs |-> <<>>,
                 chain |-> <<>>, wrote |-> {}, before |-> {}]
<1>2. x \in RunRecords
  BY <1>1 DEF RunRecords, WhiteOps, WhiteSteps, WhitePaths
<1>3. Absent \in Texts /\ Absent.is = "absent" /\ Absent.chain = <<>>
  BY <1>1 DEF Absent, Texts
<1>4. /\ x.at = "none" /\ x.op = "none" /\ x.outputs = <<>> /\ x.chain = <<>>
      /\ x.wrote = {} /\ x.before = {}
  OBVIOUS
<1> HIDE DEF x
<1>5. run = [w \in WhiteRuns |-> x] /\ disk = [path \in WhitePaths |-> Absent]
  BY DEF WhiteInit, x
<1>6. (\A w \in WhiteRuns : run[w] = x) /\ (\A path \in WhitePaths : disk[path] = Absent)
  BY <1>5
<1>7. WhiteTypeOK
  BY <1>2, <1>3, <1>5 DEF WhiteTypeOK
<1>8. ChainOK(<<>>, run)
  BY DEF ChainOK
<1>9. \A path \in WhitePaths : FileOK(path)
  BY <1>3, <1>4, <1>6, <1>8 DEF FileOK
<1>10. ASSUME NEW w \in WhiteRuns
       PROVE  WhiteCommandOK(w, run[w]) /\ ChainOK(run[w].chain, run) /\ ReadOK(run[w]) /\ WritingOK(w)
  BY <1>4, <1>6, <1>8 DEF WhiteCommandOK, ReadOK, WritingOK, Making, Fresh
<1>11. ArtifactOK /\ BundleOK
  BY <1>3, <1>6 DEF ArtifactOK, BundleOK, WhitePaths
<1> QED
  BY <1>7, <1>9, <1>10, <1>11 DEF WhiteOK

LEMMA WhiteNexts == WhiteOK /\ [WhiteNext]_whiteVars => WhiteOK'
<1> SUFFICES ASSUME WhiteOK, [WhiteNext]_whiteVars PROVE WhiteOK'
  OBVIOUS
<1>1. CASE UNCHANGED whiteVars
  BY <1>1 DEF whiteVars, WhiteOK, WhiteTypeOK, FileOK, WhiteCommandOK, ReadOK, WritingOK, ArtifactOK, BundleOK
<1>2. ASSUME NEW w \in WhiteRuns, BeginCommand(w) PROVE WhiteOK'
  BY <1>2, BeginStep
<1>3. ASSUME NEW w \in WhiteRuns, ReadArtifact(w) PROVE WhiteOK'
  BY <1>3, ReadStep
<1>4. ASSUME NEW w \in WhiteRuns, OpenOutput(w) PROVE WhiteOK'
  <2>1. CASE run' = [run EXCEPT ![w].at = "error"] /\ disk' = disk
    BY <2>1, <1>4, RestStep DEF OpenOutput, Over
  <2> QED
    BY <2>1, <1>4, OpenStep DEF OpenOutput
<1>5. ASSUME NEW w \in WhiteRuns, WriteOutput(w) PROVE WhiteOK'
  BY <1>5, WriteStep
<1>6. ASSUME NEW w \in WhiteRuns, WriteOutputFails(w) PROVE WhiteOK'
  BY <1>6, RestStep DEF WriteOutputFails, Over
<1>7. ASSUME NEW w \in WhiteRuns, PrintResult(w) PROVE WhiteOK'
  BY <1>7, RestStep DEF PrintResult, Over
<1> QED
  BY <1>1, <1>2, <1>3, <1>4, <1>5, <1>6, <1>7 DEF WhiteNext

\* white_cli.py: an event is lost, and a file broken, only where commands overlapped,
\* one failed, or the artifact was made anew; for any number of commands.
THEOREM LoneEventsSafe == WhiteSpec => []LoneCommandsKeepTheirEvents
<1>1. WhiteOK => LoneCommandsKeepTheirEvents
  <2> SUFFICES ASSUME WhiteOK PROVE LoneCommandsKeepTheirEvents
    OBVIOUS
  <2>1. \A v, w : Overlap(v, w) <=> Met(v, w, run)
    BY DEF Overlap, Met
  <2>2. ASSUME NEW w \in WhiteRuns, run[w].at = "done", "artifact" \in run[w].wrote,
               disk["artifact"].is = "whole"
        PROVE  \/ w \in ToSet(disk["artifact"].chain)
               \/ \E v \in WhiteRuns \ {w} :
                    "artifact" \in run[v].wrote /\ (Overlap(v, w) \/ run[v].op = "create")
    BY <2>1, <2>2 DEF WhiteOK, ArtifactOK, Keeps, Displaced, ToSet
  <2>3. ASSUME NEW w \in WhiteRuns, NEW path \in WhitePaths, run[w].at = "done",
               path \in run[w].wrote, disk[path].is # "whole"
        PROVE  \E v \in WhiteRuns \ {w} :
                    path \in run[v].wrote \/ run[v].at = "writing" \/ run[v].at = "error"
    <3>1. disk[path].is = "broken"
      BY <2>3 DEF WhiteOK, FileOK, WhiteTypeOK, Texts
    <3>2. \/ \E v \in WhiteRuns : run[v].at = "writing"
          \/ \E v \in WhiteRuns : run[v].at = "error"
          \/ \E u, v \in WhiteRuns : u # v /\ path \in run[u].wrote \cap run[v].wrote
      BY <3>1 DEF WhiteOK, FileOK, Met
    <3> QED
      BY <2>3, <3>2
  <2>4. ASSUME NEW path \in WhitePaths
        PROVE  /\ IsInjective(disk[path].chain)
               /\ \A i, j \in DOMAIN disk[path].chain : i < j =>
                     disk[path].chain[j] \notin run[disk[path].chain[i]].before
               /\ disk[path].is = "broken" =>
                    \/ \E w \in WhiteRuns : run[w].at \in {"writing", "error"}
                    \/ \E v, w \in WhiteRuns :
                        Overlap(v, w) /\ path \in run[v].wrote \cap run[w].wrote
    <3>1. FileOK(path)
      BY DEF WhiteOK
    <3>2. ChainOK(disk[path].chain, run)
      BY <3>1 DEF FileOK
    <3>3. IsInjective(disk[path].chain)
      BY <3>2 DEF ChainOK, IsInjective
    <3>4. \A i, j \in DOMAIN disk[path].chain : i < j =>
                     disk[path].chain[j] \notin run[disk[path].chain[i]].before
      BY <3>2 DEF ChainOK
    <3> QED
      BY <3>1, <3>3, <3>4, <2>1 DEF FileOK
  <2>5. disk["bundle"].is = "whole" => run[Last(disk["bundle"].chain)].op = "export"
    BY DEF WhiteOK, BundleOK
  <2> QED
    BY <2>2, <2>3, <2>4, <2>5 DEF LoneCommandsKeepTheirEvents
<1> QED
  BY <1>1, WhiteInits, WhiteNexts, PTL DEF WhiteSpec

-----------------------------------------------------------------------------
(***************************************************************************)
(* Induction and recursion. The natural numbers are well-founded           *)
(* (WellFoundedInduction): from that come induction over a set of numbers  *)
(* and the existence of the functions the models define by recursion.      *)
(***************************************************************************)
\* A set of numbers that holds 0 and the successor of each of its members holds them all.
LEMMA Induction ==
    ASSUME NEW T, 0 \in T, \A n \in Nat : n \in T => n + 1 \in T
    PROVE  Nat \subseteq T
<1> DEFINE R == Nat \ T
<1> SUFFICES ASSUME R # {} PROVE FALSE
  OBVIOUS
<1>1. PICK x \in R : \A y \in R : ~(<<y, x>> \in OpToRel(<, Nat))
  BY NatLessThanWellFounded, WFMin
<1>2. \A y \in R : ~(y < x)
  BY <1>1 DEF OpToRel
<1>3. x # 0 /\ x - 1 \in Nat /\ x - 1 < x /\ (x - 1) + 1 = x
  OBVIOUS
<1> QED
  BY <1>2, <1>3

\* f starts with base and goes on by G.
Follows(f, n, base, G) == f[0] = base /\ \A i \in 1 .. n : f[i] = G[i][f[i - 1]]

\* A function on 0 .. n may be defined by recursion.
LEMMA Recursion ==
    ASSUME NEW n \in Nat, NEW V, NEW base \in V, NEW G \in [1 .. n -> [V -> V]]
    PROVE  \E f \in [0 .. n -> V] : Follows(f, n, base, G)
<1> USE DEF Follows
<1> DEFINE Good(f, m) == Follows(f, m, base, G)
           T == {m \in Nat : m <= n => \E f \in [0 .. m -> V] : Good(f, m)}
<1>1. 0 \in T
  <2> DEFINE f == [i \in 0 .. 0 |-> base]
  <2>1. f \in [0 .. 0 -> V] /\ Good(f, 0)
    OBVIOUS
  <2> QED
    BY <2>1
<1>2. ASSUME NEW m \in Nat, m \in T PROVE m + 1 \in T
  <2> SUFFICES ASSUME m + 1 <= n PROVE \E f \in [0 .. (m + 1) -> V] : Good(f, m + 1)
    OBVIOUS
  <2>1. PICK f \in [0 .. m -> V] : Good(f, m)
    BY <1>2
  <2> DEFINE g == [i \in 0 .. (m + 1) |-> IF i = m + 1 THEN G[m + 1][f[m]] ELSE f[i]]
  <2>2. G[m + 1][f[m]] \in V
    BY <2>1
  <2>3. g \in [0 .. (m + 1) -> V] /\ g[0] = base
    BY <2>1, <2>2
  <2>4. ASSUME NEW i \in 1 .. (m + 1) PROVE g[i] = G[i][g[i - 1]]
    <3>1. CASE i = m + 1
      <4>1. g[i - 1] = f[m]
        BY <3>1
      <4> QED
        BY <3>1, <4>1
    <3>2. CASE i # m + 1
      <4>1. i \in 1 .. m /\ g[i] = f[i] /\ g[i - 1] = f[i - 1]
        BY <3>2
      <4> QED
        BY <2>1, <4>1
    <3> QED
      BY <3>1, <3>2
  <2> QED
    BY <2>3, <2>4
<1>3. n \in T
  <2> HIDE DEF T
  <2> QED BY <1>1, <1>2, Induction
<1> QED
  BY <1>3

SameUpTo(s, t, m) == \A i \in 1 .. m : s[i] = t[i]


-----------------------------------------------------------------------------
(***************************************************************************)
(* The asset inventory. While no update overlaps another or dies between   *)
(* its two files, the journal tells the services of assets.json, and what  *)
(* the one update underway has merged is what its changes make of the      *)
(* journal.                                                                *)
(***************************************************************************)
Services == [Ports -> ServiceNames \cup {NoAsset}]
Assets == [services : Services, responsive : BOOLEAN \cup {NoAsset}]
Inventories == [Addresses -> Assets \cup {NoAsset}]
ChangeTypes == {"new-asset", "port-opened", "service-changed", "port-closed",
                "host-responsive", "host-unresponsive"}
Changes == [address : Addresses, type : ChangeTypes, port : Ports \cup {NoAsset},
            after : ServiceNames \cup {NoAsset}]
Accounts == [Addresses -> Services \cup {NoAsset}]

\* What the changes of an inventory speak of: its assets and their services.
ServicesOf(inventory) ==
    [a \in Addresses |-> IF inventory[a] = NoAsset THEN NoAsset ELSE inventory[a].services]

LEMMA NoAssetIsNone == /\ NoAsset \notin Assets /\ NoAsset \notin Services
                       /\ NoAsset \notin Ports /\ NoAsset \notin ServiceNames
                       /\ "closed" \notin ServiceNames
BY InventoryAssumption DEF Assets, Services

LEMMA ChangeTyped ==
    ASSUME NEW a \in Addresses, NEW type \in ChangeTypes, NEW p \in Ports \cup {NoAsset},
           NEW after \in ServiceNames \cup {NoAsset}
    PROVE  /\ Change(a, type, p, after) \in Changes
           /\ Change(a, type, p, after).address = a
           /\ Change(a, type, p, after).type = type
           /\ Change(a, type, p, after).port = p
           /\ Change(a, type, p, after).after = after
BY DEF Change, Changes

\* The changes tell how an asset came from what it was to what it is.
Tells(asset, changes, after) ==
    /\ after = NoAsset <=> asset = NoAsset /\ ~\E c \in changes : c.type = "new-asset"
    /\ after # NoAsset =>
          \A p \in Ports :
              /\ \A c \in changes : c.port = p => c.after = after.services[p]
              /\ (\A c \in changes : c.port # p) => after.services[p] = OldServices(asset)[p]

\* The change of one port, as a scan states it.
LEMMA PortChangeTells ==
    ASSUME NEW a \in Addresses, NEW p \in Ports, NEW old \in ServiceNames \cup {NoAsset}, NEW seen
    PROVE  /\ ScannedService(old, seen) \in ServiceNames \cup {NoAsset}
           /\ PortChange(a, old, p, seen) \subseteq Changes
           /\ \A c \in PortChange(a, old, p, seen) :
                 /\ c.address = a /\ c.port = p /\ c.type # "new-asset"
                 /\ c.after = ScannedService(old, seen)
           /\ PortChange(a, old, p, seen) = {} => ScannedService(old, seen) = old
<1> DEFINE changes == PortChange(a, old, p, seen)
           service == ScannedService(old, seen)
<1>2. CASE seen \in ServiceNames /\ old = NoAsset
  <2>1. seen # "closed" /\ service = seen
    BY <1>2, NoAssetIsNone DEF ScannedService, IsOpen
  <2>2. changes = {Change(a, "port-opened", p, seen)}
    BY <1>2, <2>1 DEF PortChange, IsOpen
  <2>3. "port-opened" \in ChangeTypes /\ "port-opened" # "new-asset"
    BY DEF ChangeTypes
  <2> HIDE DEF changes, service
  <2>4. changes \subseteq Changes /\ \A c \in changes : c.address = a /\ c.port = p /\ c.type = "port-opened" /\ c.after = seen
    BY <1>2, <2>2, <2>3, ChangeTyped
  <2> QED
    BY <1>2, <2>1, <2>2, <2>3, <2>4 DEF changes, service
<1>3. CASE seen \in ServiceNames /\ old # NoAsset /\ old # seen
  <2>1. seen # "closed" /\ service = seen
    BY <1>3, NoAssetIsNone DEF ScannedService, IsOpen
  <2>2. changes = {Change(a, "service-changed", p, seen)}
    BY <1>3, <2>1 DEF PortChange, IsOpen
  <2>3. "service-changed" \in ChangeTypes /\ "service-changed" # "new-asset"
    BY DEF ChangeTypes
  <2> HIDE DEF changes, service
  <2>4. changes \subseteq Changes /\ \A c \in changes : c.address = a /\ c.port = p /\ c.type = "service-changed" /\ c.after = seen
    BY <1>3, <2>2, <2>3, ChangeTyped
  <2> QED
    BY <1>3, <2>1, <2>2, <2>3, <2>4 DEF changes, service
<1>4. CASE seen \in ServiceNames /\ old # NoAsset /\ old = seen
  <2>1. seen # "closed" /\ service = old
    BY <1>4, NoAssetIsNone DEF ScannedService, IsOpen
  <2>2. changes = {}
    BY <1>4, <2>1 DEF PortChange, IsOpen
  <2> QED
    BY <2>1, <2>2
<1>5. CASE seen = "closed" /\ old # NoAsset
  <2>1. seen \notin ServiceNames /\ service = NoAsset
    BY <1>5, NoAssetIsNone DEF ScannedService, IsOpen
  <2>2. changes = {Change(a, "port-closed", p, NoAsset)}
    BY <1>5, <2>1 DEF PortChange, IsOpen
  <2>3. "port-closed" \in ChangeTypes /\ "port-closed" # "new-asset"
    BY DEF ChangeTypes
  <2> HIDE DEF changes, service
  <2>4. changes \subseteq Changes /\ \A c \in changes : c.address = a /\ c.port = p /\ c.type = "port-closed" /\ c.after = NoAsset
    BY <2>2, <2>3, ChangeTyped
  <2> QED
    BY <2>1, <2>2, <2>3, <2>4 DEF changes, service
<1>6. CASE seen = "closed" /\ old = NoAsset
  <2>1. seen \notin ServiceNames /\ service = NoAsset
    BY <1>6, NoAssetIsNone DEF ScannedService, IsOpen
  <2>2. changes = {}
    BY <1>6, <2>1 DEF PortChange, IsOpen
  <2> QED
    BY <1>6, <2>1, <2>2
<1>7. CASE seen \notin ServiceNames /\ seen # "closed"
  <2>1. service = old /\ changes = {}
    BY <1>7 DEF ScannedService, PortChange, IsOpen
  <2> QED
    BY <2>1
<1> QED
  BY <1>2, <1>3, <1>4, <1>5, <1>6, <1>7

LEMMA OldServicesTyped == ASSUME NEW asset \in Assets \cup {NoAsset} PROVE OldServices(asset) \in Services
BY DEF OldServices, NoServices, Assets, Services

LEMMA ScanTells ==
    ASSUME NEW a \in Addresses, NEW asset \in Assets \cup {NoAsset}, NEW report
    PROVE  /\ ScannedAsset(asset, a, report) \in Assets \cup {NoAsset}
           /\ ScanChanges(asset, a, report) \subseteq Changes
           /\ \A c \in ScanChanges(asset, a, report) : c.address = a
           /\ Tells(asset, ScanChanges(asset, a, report), ScannedAsset(asset, a, report))
<1> DEFINE old == OldServices(asset)
           ports == UNION {PortChange(a, old[p], p, report[a][p]) : p \in Ports}
           after == ScannedAsset(asset, a, report)
           changes == ScanChanges(asset, a, report)
           new == Change(a, "new-asset", NoAsset, NoAsset)
<1>1. old \in Services /\ \A p \in Ports : old[p] \in ServiceNames \cup {NoAsset}
  BY OldServicesTyped DEF Services
<1>2. CASE asset = NoAsset /\ ~Responds(report, a)
  <2>1. after = NoAsset /\ changes = {}
    BY <1>2 DEF ScannedAsset, ScanChanges
  <2> QED
    BY <1>2, <2>1 DEF Tells
<1>3. CASE ~(asset = NoAsset /\ ~Responds(report, a))
  <2>1. after = [services |-> [p \in Ports |-> ScannedService(old[p], report[a][p])],
                 responsive |-> IF asset = NoAsset THEN NoAsset ELSE asset.responsive]
    BY <1>3 DEF ScannedAsset
  <2>2. changes = (IF asset = NoAsset THEN {new} ELSE {}) \cup ports
    BY <1>3 DEF ScanChanges
  <2>3. after \in Assets
    <3>1. (IF asset = NoAsset THEN NoAsset ELSE asset.responsive) \in BOOLEAN \cup {NoAsset}
      BY DEF Assets
    <3>2. [p \in Ports |-> ScannedService(old[p], report[a][p])] \in Services
      BY <1>1, PortChangeTells DEF Services
    <3> QED
      BY <2>1, <3>1, <3>2 DEF Assets
  <2>4. \A p \in Ports : after.services[p] = ScannedService(old[p], report[a][p])
    BY <2>1
  <2>5. ASSUME NEW c \in ports
        PROVE  \E p \in Ports : /\ c \in PortChange(a, old[p], p, report[a][p])
                                /\ c \in Changes /\ c.address = a /\ c.port = p
                                /\ c.type # "new-asset" /\ c.after = after.services[p]
    <3>1. PICK p \in Ports : c \in PortChange(a, old[p], p, report[a][p])
      OBVIOUS
    <3> QED
      BY <1>1, <2>4, <3>1, PortChangeTells
  <2>6. new \in Changes /\ new.address = a /\ new.type = "new-asset" /\ new.port = NoAsset
    <3>1. "new-asset" \in ChangeTypes
      BY DEF ChangeTypes
    <3> QED
      BY <3>1, ChangeTyped
  <2>7. changes \subseteq Changes /\ \A c \in changes : c.address = a
    BY <2>2, <2>5, <2>6
  <2>8. (\E c \in changes : c.type = "new-asset") <=> asset = NoAsset
    BY <2>2, <2>5, <2>6
  <2>9. ASSUME NEW p \in Ports
        PROVE  /\ \A c \in changes : c.port = p => c.after = after.services[p]
               /\ (\A c \in changes : c.port # p) => after.services[p] = old[p]
    <3>1. ASSUME NEW c \in changes, c.port = p PROVE c.after = after.services[p]
      <4>1. c \in ports
        BY <2>2, <2>6, <3>1, NoAssetIsNone
      <4> QED
        BY <2>5, <3>1, <4>1
    <3>2. ASSUME \A c \in changes : c.port # p PROVE after.services[p] = old[p]
      <4>1. PortChange(a, old[p], p, report[a][p]) = {}
        <5> SUFFICES ASSUME NEW c \in PortChange(a, old[p], p, report[a][p]) PROVE FALSE
          OBVIOUS
        <5>1. c.port = p
          BY <1>1, PortChangeTells
        <5>2. c \in changes
          BY <2>2
        <5> QED
          BY <3>2, <5>1, <5>2
      <4> QED
        BY <1>1, <2>4, <4>1, PortChangeTells
    <3> QED
      BY <3>1, <3>2
  <2>10. after # NoAsset
    BY <2>3, NoAssetIsNone
  <2> HIDE DEF after, changes, ports, old
  <2>11. Tells(asset, changes, after)
    BY <2>8, <2>9, <2>10 DEF Tells, old
  <2> QED
    BY <2>3, <2>7, <2>11 DEF after, changes
<1> QED
  BY <1>2, <1>3

LEMMA DiscoveryTells ==
    ASSUME NEW a \in Addresses, NEW asset \in Assets \cup {NoAsset}, NEW report, report[a] \in BOOLEAN
    PROVE  /\ DiscoveredAsset(asset, a, report) \in Assets \cup {NoAsset}
           /\ DiscoveryChanges(asset, a, report) \subseteq Changes
           /\ \A c \in DiscoveryChanges(asset, a, report) : c.address = a
           /\ Tells(asset, DiscoveryChanges(asset, a, report), DiscoveredAsset(asset, a, report))
<1> DEFINE after == DiscoveredAsset(asset, a, report)
           changes == DiscoveryChanges(asset, a, report)
<1>1. CASE asset = NoAsset /\ ~report[a]
  <2>1. after = NoAsset /\ changes = {}
    BY <1>1 DEF DiscoveredAsset, DiscoveryChanges
  <2> QED
    BY <1>1, <2>1 DEF Tells
<1>2. CASE asset = NoAsset /\ report[a]
  <2>1. after = [services |-> NoServices, responsive |-> TRUE]
    BY <1>2 DEF DiscoveredAsset
  <2>2. changes = {Change(a, "new-asset", NoAsset, NoAsset)}
    BY <1>2 DEF DiscoveryChanges
  <2>3. NoServices \in Services
    BY DEF NoServices, Services
  <2>4. after \in Assets
    BY <2>1, <2>3 DEF Assets
  <2>5. after.services = OldServices(asset)
    BY <1>2, <2>1 DEF OldServices
  <2>6. changes \subseteq Changes /\ \A c \in changes : c.address = a /\ c.port = NoAsset /\ c.type = "new-asset"
    <3>1. "new-asset" \in ChangeTypes
      BY DEF ChangeTypes
    <3> QED
      BY <2>2, <3>1, ChangeTyped
  <2>7. \E c \in changes : c.type = "new-asset"
    BY <2>2, <2>6
  <2> HIDE DEF after, changes
  <2>8. Tells(asset, changes, after)
    BY <2>4, <2>5, <2>6, <2>7, NoAssetIsNone DEF Tells
  <2> QED
    BY <2>4, <2>6, <2>8 DEF after, changes
<1>3. CASE asset # NoAsset
  <2>1. asset \in Assets /\ after = [asset EXCEPT !.responsive = report[a]]
    BY <1>3 DEF DiscoveredAsset
  <2>2. after \in Assets /\ after.services = asset.services
    BY <2>1 DEF Assets
  <2>3. after.services = OldServices(asset)
    BY <1>3, <2>2 DEF OldServices
  <2>4. changes \subseteq {Change(a, "host-responsive", NoAsset, NoAsset),
                           Change(a, "host-unresponsive", NoAsset, NoAsset)}
    BY <1>3 DEF DiscoveryChanges
  <2>5. changes \subseteq Changes /\ \A c \in changes : c.address = a /\ c.port = NoAsset
    <3>1. "host-responsive" \in ChangeTypes /\ "host-unresponsive" \in ChangeTypes
      BY DEF ChangeTypes
    <3> QED
      BY <2>4, <3>1, ChangeTyped
  <2> HIDE DEF after, changes
  <2>6. Tells(asset, changes, after)
    BY <1>3, <2>2, <2>3, <2>5, NoAssetIsNone DEF Tells
  <2> QED
    BY <2>2, <2>5, <2>6 DEF after, changes
<1> QED
  BY <1>1, <1>2, <1>3

\* What a reader who knew this of an address knows of it after some changes to it.
AccountAfter(known, mine) ==
    IF known = NoAsset /\ ~\E c \in mine : c.type = "new-asset" THEN NoAsset
    ELSE [p \in Ports |->
            IF \E c \in mine : c.port = p
            THEN (CHOOSE c \in mine : c.port = p).after
            ELSE (IF known = NoAsset THEN NoServices ELSE known)[p]]

\* What the reader of the journal knows of one address, after a report of it.
LEMMA RetoldAsset ==
    ASSUME NEW asset \in Assets \cup {NoAsset}, NEW after \in Assets \cup {NoAsset}, NEW known,
           NEW mine,
           known = (IF asset = NoAsset THEN NoAsset ELSE asset.services),
           Tells(asset, mine, after)
    PROVE  AccountAfter(known, mine) = IF after = NoAsset THEN NoAsset ELSE after.services
<1> DEFINE told == [p \in Ports |->
                    IF \E c \in mine : c.port = p
                    THEN (CHOOSE c \in mine : c.port = p).after
                    ELSE (IF known = NoAsset THEN NoServices ELSE known)[p]]
<1>1. known = NoAsset <=> asset = NoAsset
  BY NoAssetIsNone DEF Assets
<1>2. (IF known = NoAsset THEN NoServices ELSE known) = OldServices(asset)
  BY <1>1 DEF OldServices
<1>3. CASE after = NoAsset
  BY <1>1, <1>3 DEF Tells, AccountAfter
<1>4. CASE after # NoAsset
  <2>1. ASSUME NEW p \in Ports PROVE told[p] = after.services[p]
    <3>1. CASE \E c \in mine : c.port = p
      <4>1. (CHOOSE c \in mine : c.port = p) \in mine /\ (CHOOSE c \in mine : c.port = p).port = p
        BY <3>1
      <4>2. told[p] = (CHOOSE c \in mine : c.port = p).after
        BY <3>1
      <4> QED
        BY <1>4, <4>1, <4>2 DEF Tells
    <3>2. CASE ~\E c \in mine : c.port = p
      <4>1. told[p] = OldServices(asset)[p]
        BY <1>2, <3>2
      <4> QED
        BY <1>4, <3>2, <4>1 DEF Tells
    <3> QED
      BY <3>1, <3>2
  <2>2. after.services \in Services
    BY <1>4 DEF Assets
  <2>3. told = after.services
    BY <2>1, <2>2 DEF Services
  <2>4. ~(known = NoAsset /\ ~\E c \in mine : c.type = "new-asset")
    BY <1>1, <1>4 DEF Tells
  <2> QED
    BY <1>4, <2>3, <2>4 DEF AccountAfter
<1> QED
  BY <1>3, <1>4

LEMMA RetoldReport ==
    ASSUME NEW inventory \in Inventories, NEW kind, NEW report, DOMAIN report \subseteq Addresses,
           kind = "scan" \/ \A a \in DOMAIN report : report[a] \in BOOLEAN
    PROVE  /\ AfterReport(inventory, kind, report) \in Inventories
           /\ ReportChanges(inventory, kind, report) \subseteq Changes
           /\ Retold(ServicesOf(inventory), ReportChanges(inventory, kind, report))
                = ServicesOf(AfterReport(inventory, kind, report))
<1> DEFINE mine(a) == IF kind = "scan" THEN ScanChanges(inventory[a], a, report)
                      ELSE DiscoveryChanges(inventory[a], a, report)
           after == AfterReport(inventory, kind, report)
           changes == ReportChanges(inventory, kind, report)
           known == ServicesOf(inventory)
<1>1. \A a \in Addresses : inventory[a] \in Assets \cup {NoAsset}
  BY DEF Inventories
<1>2. ASSUME NEW a \in DOMAIN report
      PROVE  /\ after[a] \in Assets \cup {NoAsset} /\ mine(a) \subseteq Changes
             /\ \A c \in mine(a) : c.address = a
             /\ Tells(inventory[a], mine(a), after[a])
  <2>1. a \in Addresses
    OBVIOUS
  <2>2. CASE kind = "scan"
    <3>1. after[a] = ScannedAsset(inventory[a], a, report) /\ mine(a) = ScanChanges(inventory[a], a, report)
      BY <2>1, <2>2 DEF AfterReport
    <3> HIDE DEF mine, after
    <3> QED
      BY <1>1, <2>1, <3>1, ScanTells
  <2>3. CASE kind # "scan"
    <3>1. after[a] = DiscoveredAsset(inventory[a], a, report) /\ mine(a) = DiscoveryChanges(inventory[a], a, report)
      BY <2>1, <2>3 DEF AfterReport
    <3>2. report[a] \in BOOLEAN
      BY <2>3
    <3> HIDE DEF mine, after
    <3> QED
      BY <1>1, <2>1, <3>1, <3>2, DiscoveryTells
  <2> QED
    BY <2>2, <2>3
<1>3. changes = UNION {mine(a) : a \in DOMAIN report}
  BY DEF ReportChanges
<1>4. \A a \in Addresses : a \notin DOMAIN report => after[a] = inventory[a]
  BY DEF AfterReport
<1>5. after = [a \in Addresses |-> after[a]]
  BY DEF AfterReport
<1> HIDE DEF mine, after, changes
<1>6. after \in Inventories
  <2>1. \A a \in Addresses : after[a] \in Assets \cup {NoAsset}
    BY <1>1, <1>2, <1>4
  <2> QED
    BY <1>5, <2>1 DEF Inventories
<1>7. changes \subseteq Changes
  BY <1>2, <1>3
<1>8. ASSUME NEW a \in Addresses
      PROVE  Tells(inventory[a], {c \in changes : c.address = a}, after[a])
  <2>1. CASE a \in DOMAIN report
    <3>1. {c \in changes : c.address = a} = mine(a)
      BY <1>2, <1>3, <2>1
    <3> QED
      BY <1>2, <2>1, <3>1
  <2>2. CASE a \notin DOMAIN report
    <3>1. {c \in changes : c.address = a} = {}
      BY <1>2, <1>3, <2>2
    <3>2. after[a] = inventory[a]
      BY <1>4, <2>2
    <3>3. inventory[a] # NoAsset => inventory[a].services = OldServices(inventory[a])
      BY DEF OldServices
    <3>4. Tells(inventory[a], {}, inventory[a])
      BY <3>3 DEF Tells
    <3> QED
      BY <3>1, <3>2, <3>4
  <2> QED
    BY <2>1, <2>2
<1>9. ASSUME NEW a \in Addresses PROVE Retold(known, changes)[a] = ServicesOf(after)[a]
  <2> DEFINE those == {c \in changes : c.address = a}
  <2>1. known[a] = (IF inventory[a] = NoAsset THEN NoAsset ELSE inventory[a].services)
    BY DEF ServicesOf
  <2>2. Retold(known, changes)[a] = AccountAfter(known[a], those)
    BY DEF Retold, AccountAfter
  <2>3. inventory[a] \in Assets \cup {NoAsset} /\ after[a] \in Assets \cup {NoAsset}
    BY <1>6 DEF Inventories
  <2>4. Tells(inventory[a], those, after[a])
    BY <1>8
  <2>5. ServicesOf(after)[a] = IF after[a] = NoAsset THEN NoAsset ELSE after[a].services
    BY DEF ServicesOf
  <2> HIDE DEF known, those
  <2> QED
    BY <2>1, <2>2, <2>3, <2>4, <2>5, RetoldAsset
<1>10. Retold(known, changes) = ServicesOf(after)
  <2>1. Retold(known, changes) = [a \in Addresses |-> Retold(known, changes)[a]]
    BY DEF Retold
  <2>2. ServicesOf(after) = [a \in Addresses |-> ServicesOf(after)[a]]
    BY DEF ServicesOf
  <2> HIDE DEF known
  <2> QED
    BY <1>9, <2>1, <2>2
<1> QED
  BY <1>6, <1>7, <1>10 DEF after, changes

LEMMA RetoldTyped ==
    ASSUME NEW known \in Accounts, NEW changes, changes \subseteq Changes
    PROVE  Retold(known, changes) \in Accounts
<1>1. ASSUME NEW a \in Addresses PROVE Retold(known, changes)[a] \in Services \cup {NoAsset}
  <2> DEFINE those == {c \in changes : c.address = a}
             was == IF known[a] = NoAsset THEN NoServices ELSE known[a]
             told == [p \in Ports |-> IF \E c \in those : c.port = p
                                      THEN (CHOOSE c \in those : c.port = p).after ELSE was[p]]
  <2>1. was \in Services
    BY DEF Accounts, NoServices, Services
  <2>2. ASSUME NEW p \in Ports PROVE told[p] \in ServiceNames \cup {NoAsset}
    <3>1. CASE \E c \in those : c.port = p
      <4>1. (CHOOSE c \in those : c.port = p) \in Changes
        BY <3>1
      <4> QED
        BY <3>1, <4>1 DEF Changes
    <3>2. CASE ~\E c \in those : c.port = p
      BY <2>1, <3>2 DEF Services
    <3> QED
      BY <3>1, <3>2
  <2>3. told \in Services
    BY <2>2 DEF Services
  <2>4. Retold(known, changes)[a] \in {told, NoAsset}
    BY DEF Retold
  <2> QED
    BY <2>3, <2>4
<1> QED
  BY <1>1 DEF Retold, Accounts

LEMMA NothingRetold == ASSUME NEW known \in Accounts PROVE Retold(known, {}) = known
<1>1. ASSUME NEW a \in Addresses PROVE Retold(known, {})[a] = known[a]
  <2>1. CASE known[a] = NoAsset
    BY <2>1 DEF Retold
  <2>2. CASE known[a] # NoAsset
    <3>1. known[a] \in Services
      BY <2>2 DEF Accounts
    <3>2. Retold(known, {})[a] = [p \in Ports |-> known[a][p]]
      BY <2>2 DEF Retold
    <3> QED
      BY <3>1, <3>2 DEF Services
  <2> QED
    BY <2>1, <2>2
<1>2. Retold(known, {}) = [a \in Addresses |-> Retold(known, {})[a]]
  BY DEF Retold
<1> QED
  BY <1>1, <1>2 DEF Accounts

\* f is the recursion of Told over the first m entries of s.
ToldUpTo(f, s, m) == f[0] = EmptyInventory /\ \A n \in 1 .. m : f[n] = Retold(f[n - 1], s[n])
ToldBy(s) ==
    LET told[n \in 0 .. Len(s)] ==
            IF n = 0 THEN EmptyInventory ELSE Retold(told[n - 1], s[n])
    IN  told[Len(s)]

LEMMA ToldExists ==
    ASSUME NEW m \in Nat, NEW s \in [1 .. m -> SUBSET Changes]
    PROVE  \E f \in [0 .. m -> Accounts] : ToldUpTo(f, s, m)
<1> DEFINE G == [n \in 1 .. m |-> [v \in Accounts |-> Retold(v, s[n])]]
<1>1. ASSUME NEW n \in 1 .. m, NEW v \in Accounts
      PROVE  G[n][v] = Retold(v, s[n]) /\ G[n][v] \in Accounts
  <2>1. s[n] \subseteq Changes
    OBVIOUS
  <2> QED
    BY <2>1, RetoldTyped
<1>2. G \in [1 .. m -> [Accounts -> Accounts]]
  BY <1>1
<1>3. EmptyInventory \in Accounts
  BY DEF EmptyInventory, Accounts
<1> HIDE DEF G
<1>4. PICK f \in [0 .. m -> Accounts] : Follows(f, m, EmptyInventory, G)
  BY <1>2, <1>3, Recursion
<1>5. ASSUME NEW n \in 1 .. m PROVE f[n] = Retold(f[n - 1], s[n])
  <2>1. f[n - 1] \in Accounts
    BY <1>4
  <2> QED
    BY <1>1, <1>4, <2>1 DEF Follows
<1> QED
  BY <1>4, <1>5 DEF ToldUpTo, Follows

LEMMA ToldAgree ==
    ASSUME NEW m \in Nat, NEW s, NEW t, NEW f, NEW g, SameUpTo(s, t, m),
           ToldUpTo(f, s, m), ToldUpTo(g, t, m)
    PROVE  \A n \in 0 .. m : f[n] = g[n]
<1> DEFINE T == {n \in Nat : n <= m => f[n] = g[n]}
<1>1. 0 \in T
  BY DEF ToldUpTo
<1>2. ASSUME NEW n \in Nat, n \in T PROVE n + 1 \in T
  <2> SUFFICES ASSUME n + 1 <= m PROVE f[n + 1] = g[n + 1]
    OBVIOUS
  <2>1. f[n] = g[n]
    BY <1>2
  <2>2. (n + 1) - 1 = n /\ n + 1 \in 1 .. m
    OBVIOUS
  <2>3. f[n + 1] = Retold(f[n], s[n + 1]) /\ g[n + 1] = Retold(g[n], t[n + 1])
    BY <2>2 DEF ToldUpTo
  <2>4. s[n + 1] = t[n + 1]
    BY <2>2 DEF SameUpTo
  <2> QED
    BY <2>1, <2>3, <2>4
<1>3. Nat \subseteq T
  <2> HIDE DEF T
  <2> QED BY <1>1, <1>2, Induction
<1> QED
  BY <1>3

LEMMA ToldSteps ==
    ASSUME NEW s \in Seq(SUBSET Changes)
    PROVE  \E f \in [0 .. Len(s) -> Accounts] : ToldBy(s) = f[Len(s)] /\ ToldUpTo(f, s, Len(s))
<1> DEFINE P(f) == f = [n \in 0 .. Len(s) |->
                            IF n = 0 THEN EmptyInventory ELSE Retold(f[n - 1], s[n])]
           told == CHOOSE f : P(f)
<1>1. ToldBy(s) = told[Len(s)]
  BY DEF ToldBy
<1>2. Len(s) \in Nat /\ s \in [1 .. Len(s) -> SUBSET Changes]
  OBVIOUS
<1>3. PICK f \in [0 .. Len(s) -> Accounts] : ToldUpTo(f, s, Len(s))
  BY <1>2, ToldExists
<1>4. \E h : P(h)
  <2>1. ASSUME NEW n \in 0 .. Len(s)
        PROVE  f[n] = IF n = 0 THEN EmptyInventory ELSE Retold(f[n - 1], s[n])
    <3>1. CASE n = 0
      BY <1>3, <3>1 DEF ToldUpTo
    <3>2. CASE n # 0
      <4>1. n \in 1 .. Len(s)
        BY <1>2, <3>2
      <4> QED
        BY <1>3, <3>2, <4>1 DEF ToldUpTo
    <3> QED
      BY <3>1, <3>2
  <2> QED
    BY <1>3, <2>1
<1>5. P(told)
  <2> HIDE DEF P
  <2> QED BY <1>4
<1> HIDE DEF told
<1>6. ToldUpTo(told, s, Len(s)) /\ told = [n \in 0 .. Len(s) |-> told[n]]
  <2>1. told = [n \in 0 .. Len(s) |-> told[n]]
    BY <1>5
  <2>2. told[0] = EmptyInventory
    BY <1>2, <1>5
  <2>3. ASSUME NEW n \in 1 .. Len(s) PROVE told[n] = Retold(told[n - 1], s[n])
    <3>1. n \in 0 .. Len(s) /\ n # 0
      BY <1>2
    <3> QED
      BY <1>5, <3>1
  <2> QED
    BY <2>1, <2>2, <2>3 DEF ToldUpTo
<1>7. ASSUME NEW m \in 0 .. Len(s) PROVE told[m] = f[m]
  <2>1. PICK k \in Nat : k = Len(s)
    BY <1>2
  <2>2. ToldUpTo(told, s, k) /\ ToldUpTo(f, s, k) /\ m \in 0 .. k
    BY <1>3, <1>6, <2>1
  <2>3. SameUpTo(s, s, k)
    BY DEF SameUpTo
  <2> HIDE DEF P
  <2> QED
    BY <2>2, <2>3, ToldAgree
<1>8. told = f
  <2> HIDE DEF P
  <2> QED BY <1>3, <1>6, <1>7
<1> QED
  BY <1>1, <1>3, <1>8

LEMMA ToldEmpty == ToldBy(<<>>) = EmptyInventory
<1>1. <<>> \in Seq(SUBSET Changes) /\ Len(<<>>) = 0
  OBVIOUS
<1>2. PICK f \in [0 .. Len(<<>>) -> Accounts] :
            ToldBy(<<>>) = f[Len(<<>>)] /\ ToldUpTo(f, <<>>, Len(<<>>))
  BY <1>1, ToldSteps
<1> QED
  BY <1>1, <1>2 DEF ToldUpTo

LEMMA ToldAppend ==
    ASSUME NEW s \in Seq(SUBSET Changes), NEW e \in SUBSET Changes
    PROVE  ToldBy(Append(s, e)) = Retold(ToldBy(s), e) /\ ToldBy(s) \in Accounts
<1>1. PICK t \in Seq(SUBSET Changes), k \in Nat :
            t = Append(s, e) /\ k = Len(s) /\ Len(t) = k + 1 /\ t[k + 1] = e /\ SameUpTo(s, t, k)
  <2>1. Append(s, e) \in Seq(SUBSET Changes) /\ Len(s) \in Nat /\ Len(Append(s, e)) = Len(s) + 1
        /\ Append(s, e)[Len(s) + 1] = e /\ \A i \in 1 .. Len(s) : s[i] = Append(s, e)[i]
    OBVIOUS
  <2> QED
    BY <2>1 DEF SameUpTo
<1>2. PICK f \in [0 .. k -> Accounts] : ToldBy(s) = f[k] /\ ToldUpTo(f, s, k)
  BY <1>1, ToldSteps
<1>3. PICK g \in [0 .. Len(t) -> Accounts] : ToldBy(t) = g[Len(t)] /\ ToldUpTo(g, t, Len(t))
  BY ToldSteps
<1>4. f[k] = g[k]
  <2>1. ToldUpTo(g, t, k)
    <3>1. \A n \in 1 .. k : n \in 1 .. Len(t)
      BY <1>1
    <3> QED
      BY <1>3, <3>1 DEF ToldUpTo
  <2>2. k \in 0 .. k
    BY <1>1
  <2>3. \A n \in 0 .. k : f[n] = g[n]
    BY <1>1, <1>2, <2>1, ToldAgree
  <2> QED
    BY <2>2, <2>3
<1>5. g[k + 1] = Retold(g[k], t[k + 1])
  <2>1. k + 1 \in 1 .. k + 1 /\ (k + 1) - 1 = k
    BY <1>1
  <2> QED
    BY <1>1, <1>3, <2>1 DEF ToldUpTo
<1>6. f[k] \in Accounts
  BY <1>1, <1>2
<1> QED
  BY <1>1, <1>2, <1>3, <1>4, <1>5, <1>6

Current == IF assetsPath = 0 THEN EmptyInventory ELSE object[assetsPath]
UpdateSteps == {"idle", "open", "write", "rename", "append", "done"}
UpdateRecords == [pc : UpdateSteps, open : Objects \cup {0}, inventory : Inventories,
                  changes : SUBSET Changes]

FilesOK ==
    /\ object \in [Objects -> Inventories \cup {Damaged}]
    /\ assetsPath \in Objects \cup {0} /\ temporaryPath \in Objects \cup {0}
    /\ journal \in Seq(SUBSET Changes)
    /\ assetsPath # 0 => object[assetsPath] \in Inventories
    /\ temporaryPath # 0 => temporaryPath # assetsPath

\* The only update underway owns the temporary file from its open to its rename, and
\* what it has yet to write is what its changes make of the journal.
UpdateOK(u) ==
    /\ update[u].pc # "write" => update[u].open = 0
    /\ update[u].pc \notin {"idle", "done"} =>
          ServicesOf(update[u].inventory) = Retold(ToldBy(journal), update[u].changes)
    /\ update[u].pc = "write" => /\ temporaryPath # 0 /\ update[u].open = temporaryPath
                                 /\ object[temporaryPath] = Damaged
    /\ update[u].pc = "rename" => /\ temporaryPath # 0
                                  /\ object[temporaryPath] = update[u].inventory
    /\ update[u].pc = "append" => assetsPath # 0 /\ Current = update[u].inventory

Undisturbed ==
    /\ update \in [Updates -> UpdateRecords]
    /\ FilesOK
    /\ \A u, v \in Underway : u = v
    /\ \A u \in Updates : UpdateOK(u)
    /\ (\A u \in Updates : update[u].pc # "append") => ServicesOf(Current) = ToldBy(journal)

InventoryOK == disturbed \in BOOLEAN /\ (disturbed \/ Undisturbed)

LEMMA ObjectsTyped == 1 \in Objects /\ 2 \in Objects /\ Objects \subseteq Nat \ {0}
<1>1. Cardinality(Updates) \in Nat
  BY InventoryAssumption, FS_CardinalityType
<1> QED
  BY <1>1 DEF Objects

LEMMA EmptyTyped == /\ EmptyInventory \in Inventories /\ IdleUpdate \in UpdateRecords
                    /\ ServicesOf(EmptyInventory) = EmptyInventory
                    /\ IdleUpdate.pc = "idle" /\ IdleUpdate.open = 0
                    /\ [IdleUpdate EXCEPT !.pc = "done"] \in UpdateRecords
                    /\ [IdleUpdate EXCEPT !.pc = "done"].pc = "done"
                    /\ [IdleUpdate EXCEPT !.pc = "done"].open = 0
<1>1. EmptyInventory \in Inventories
  BY DEF EmptyInventory, Inventories
<1>2. ServicesOf(EmptyInventory) = EmptyInventory
  BY DEF EmptyInventory, ServicesOf
<1>3. IdleUpdate \in UpdateRecords
  BY <1>1 DEF IdleUpdate, UpdateRecords, UpdateSteps
<1>4. [IdleUpdate EXCEPT !.pc = "done"] \in UpdateRecords
  BY <1>3 DEF UpdateRecords, UpdateSteps
<1> QED
  BY <1>1, <1>2, <1>3, <1>4 DEF IdleUpdate, UpdateRecords

LEMMA InventoryInitOK == ASSUME InventoryInit PROVE InventoryOK
<1> USE DEF InventoryInit
<1>1. update \in [Updates -> UpdateRecords]
  BY EmptyTyped
<1>2. FilesOK
  <2>1. <<>> \in Seq(SUBSET Changes)
    OBVIOUS
  <2> QED
    BY <2>1, EmptyTyped DEF FilesOK
<1>3. \A u \in Updates : update[u].pc = "idle" /\ update[u].open = 0
  BY EmptyTyped
<1>4. Underway = {}
  BY <1>3 DEF Underway
<1>5. \A u \in Updates : UpdateOK(u)
  BY <1>3 DEF UpdateOK
<1>6. ServicesOf(Current) = ToldBy(journal)
  BY EmptyTyped, ToldEmpty DEF Current
<1> QED
  BY <1>1, <1>2, <1>4, <1>5, <1>6 DEF InventoryOK, Undisturbed

\* An update's step to r, with the others at rest.
LEMMA OneUpdate ==
    ASSUME update \in [Updates -> UpdateRecords], NEW u \in Updates, NEW r \in UpdateRecords,
           update' = [update EXCEPT ![u] = r], \A v \in Underway : v = u
    PROVE  /\ update' \in [Updates -> UpdateRecords] /\ update'[u] = r
           /\ \A v \in Updates : v # u => update'[v] = update[v]
           /\ \A v \in Updates : v # u => update'[v].pc \in {"idle", "done"}
           /\ \A v, w \in Underway' : v = w
BY DEF Underway

\* One at rest asks nothing of the files.
LEMMA AtRest ==
    ASSUME \A v \in Updates : UpdateOK(v), NEW u \in Updates,
           \A v \in Updates : v # u => update'[v] = update[v] /\ update'[v].pc \in {"idle", "done"}
    PROVE  \A v \in Updates : v # u => UpdateOK(v)'
BY DEF UpdateOK

LEMMA LoadInventoryOK ==
    ASSUME InventoryOK, NEW u \in Updates, NEW kind, NEW report, DOMAIN report \subseteq Addresses,
           kind = "scan" \/ \A a \in DOMAIN report : report[a] \in BOOLEAN,
           LoadInventory(u, kind, report)
    PROVE  InventoryOK'
<1>1. disturbed' = (disturbed \/ Underway # {}) /\ disturbed' \in BOOLEAN
  BY DEF InventoryOK, LoadInventory
<1>2. CASE disturbed'
  BY <1>1, <1>2 DEF InventoryOK
<1>3. CASE ~disturbed'
  <2>1. Undisturbed /\ Underway = {}
    BY <1>1, <1>3 DEF InventoryOK
  <2>2. \A v \in Updates : update[v].pc \in {"idle", "done"}
    BY <2>1 DEF Underway
  <2>3. Current \in Inventories
    BY <2>1, EmptyTyped DEF Undisturbed, FilesOK, Current
  <2> DEFINE inventory == AfterReport(Current, kind, report)
             changes == ReportChanges(Current, kind, report)
             loaded == [pc |-> "open", open |-> 0, inventory |-> inventory, changes |-> changes]
             ended == [IdleUpdate EXCEPT !.pc = "done"]
             next == IF ~Parses(Current) THEN ended ELSE loaded
  <2>4. /\ inventory \in Inventories /\ changes \subseteq Changes
        /\ Retold(ServicesOf(Current), changes) = ServicesOf(inventory)
    BY <2>3, RetoldReport
  <2>5. ServicesOf(Current) = ToldBy(journal)
    BY <2>1, <2>2 DEF Undisturbed
  <2>6. update' = [update EXCEPT ![u] = next]
    BY DEF LoadInventory, UpdateStep, Current
  <2>7. UNCHANGED <<object, assetsPath, temporaryPath, journal>>
    BY DEF LoadInventory
  <2> HIDE DEF inventory, changes
  <2>8. loaded \in UpdateRecords /\ ended \in UpdateRecords
    BY <2>4, EmptyTyped DEF UpdateRecords, UpdateSteps
  <2>9. /\ next \in UpdateRecords /\ next.open = 0 /\ next.pc \in {"open", "done"}
        /\ next.pc = "open" => next.inventory = inventory /\ next.changes = changes
    BY <2>8, EmptyTyped
  <2> HIDE DEF next
  <2>10. /\ update' \in [Updates -> UpdateRecords] /\ update'[u] = next
         /\ \A v \in Updates : v # u => update'[v] = update[v] /\ update'[v].pc \in {"idle", "done"}
         /\ \A v, w \in Underway' : v = w
    BY <2>1, <2>6, <2>9, OneUpdate DEF Undisturbed
  <2>11. FilesOK'
    BY <2>1, <2>7 DEF Undisturbed, FilesOK
  <2>12. \A v \in Updates : UpdateOK(v)'
    <3>1. \A v \in Updates : v # u => UpdateOK(v)'
      BY <2>1, <2>10, AtRest DEF Undisturbed
    <3>2. UpdateOK(u)'
      BY <2>4, <2>5, <2>7, <2>9, <2>10 DEF UpdateOK
    <3> QED
      BY <3>1, <3>2
  <2>13. ServicesOf(Current)' = ToldBy(journal)'
    BY <2>5, <2>7 DEF Current
  <2> QED
    BY <1>1, <2>10, <2>11, <2>12, <2>13 DEF InventoryOK, Undisturbed
<1> QED
  BY <1>2, <1>3

LEMMA TemporaryIsFree ==
    ASSUME Undisturbed, NEW u \in Updates, update[u].pc = "open"
    PROVE  TemporaryObject \in Objects /\ TemporaryObject # assetsPath
<1>1. CASE temporaryPath # 0
  BY <1>1 DEF TemporaryObject, Undisturbed, FilesOK
<1>2. CASE temporaryPath = 0
  <2>1. \A v \in Underway : update[v].open = 0
    BY <1>2 DEF Undisturbed, UpdateOK, Underway
  <2>2. InUse \subseteq {assetsPath, 0}
    BY <2>1 DEF InUse
  <2>3. \E o \in Objects : o \notin InUse
    BY <2>2, ObjectsTyped
  <2>4. TemporaryObject \in Objects /\ TemporaryObject \notin InUse
    BY <1>2, <2>3 DEF TemporaryObject
  <2> QED
    BY <2>4 DEF InUse
<1> QED
  BY <1>1, <1>2

LEMMA OpenTemporaryOK == ASSUME InventoryOK, NEW u \in Updates, OpenTemporary(u) PROVE InventoryOK'
<1>1. disturbed' = disturbed /\ update[u].pc = "open"
  BY DEF OpenTemporary
<1>2. CASE disturbed
  BY <1>1, <1>2 DEF InventoryOK
<1>3. CASE ~disturbed
  <2>1. Undisturbed
    BY <1>3 DEF InventoryOK
  <2> DEFINE o == TemporaryObject
             next == [update[u] EXCEPT !.pc = "write", !.open = o]
  <2>2. o \in Objects /\ o # assetsPath /\ o # 0
    BY <1>1, <2>1, TemporaryIsFree, ObjectsTyped
  <2>3. /\ update' = [update EXCEPT ![u] = next] /\ object' = [object EXCEPT ![o] = Damaged]
        /\ temporaryPath' = o /\ UNCHANGED <<assetsPath, journal>>
    BY DEF OpenTemporary, UpdateStep
  <2>4. update[u] \in UpdateRecords /\ \A v \in Underway : v = u
    BY <1>1, <2>1 DEF Undisturbed, Underway
  <2> HIDE DEF o
  <2>5. /\ next \in UpdateRecords /\ next.pc = "write" /\ next.open = o
        /\ next.inventory = update[u].inventory /\ next.changes = update[u].changes
    BY <2>2, <2>4 DEF UpdateRecords, UpdateSteps
  <2> HIDE DEF next
  <2>6. /\ update' \in [Updates -> UpdateRecords] /\ update'[u] = next
        /\ \A v \in Updates : v # u => update'[v] = update[v] /\ update'[v].pc \in {"idle", "done"}
        /\ \A v, w \in Underway' : v = w
    BY <2>1, <2>3, <2>4, <2>5, OneUpdate DEF Undisturbed
  <2>7. /\ object' \in [Objects -> Inventories \cup {Damaged}] /\ object'[o] = Damaged
        /\ \A x \in Objects : x # o => object'[x] = object[x]
    BY <2>1, <2>2, <2>3 DEF Undisturbed, FilesOK
  <2>8. FilesOK'
    BY <2>1, <2>2, <2>3, <2>7 DEF Undisturbed, FilesOK
  <2>9. Current' = Current
    BY <2>1, <2>2, <2>3, <2>7 DEF Undisturbed, FilesOK, Current
  <2>10. \A v \in Updates : UpdateOK(v)'
    <3>1. \A v \in Updates : v # u => UpdateOK(v)'
      BY <2>1, <2>6, AtRest DEF Undisturbed
    <3>2. ServicesOf(update[u].inventory) = Retold(ToldBy(journal), update[u].changes)
      BY <1>1, <2>1 DEF Undisturbed, UpdateOK
    <3>3. UpdateOK(u)'
      BY <2>2, <2>3, <2>5, <2>6, <2>7, <3>2 DEF UpdateOK
    <3> QED
      BY <3>1, <3>3
  <2>11. ServicesOf(Current)' = ToldBy(journal)'
    <3>1. \A v \in Updates : update[v].pc # "append"
      BY <1>1, <2>4 DEF Underway
    <3>2. ServicesOf(Current) = ToldBy(journal)
      BY <2>1, <3>1 DEF Undisturbed
    <3> QED
      BY <2>3, <2>9, <3>2
  <2>12. disturbed' \in BOOLEAN
    BY <1>1 DEF InventoryOK
  <2> QED
    BY <2>6, <2>8, <2>10, <2>11, <2>12 DEF InventoryOK, Undisturbed
<1> QED
  BY <1>2, <1>3

LEMMA WriteTemporaryOK == ASSUME InventoryOK, NEW u \in Updates, WriteTemporary(u) PROVE InventoryOK'
<1>1. disturbed' = disturbed /\ update[u].pc = "write"
  BY DEF WriteTemporary
<1>2. CASE disturbed
  BY <1>1, <1>2 DEF InventoryOK
<1>3. CASE ~disturbed
  <2>1. Undisturbed
    BY <1>3 DEF InventoryOK
  <2> DEFINE next == [update[u] EXCEPT !.pc = "rename", !.open = 0]
  <2>2. /\ temporaryPath # 0 /\ update[u].open = temporaryPath /\ object[temporaryPath] = Damaged
        /\ ServicesOf(update[u].inventory) = Retold(ToldBy(journal), update[u].changes)
        /\ temporaryPath \in Objects /\ temporaryPath # assetsPath
    BY <1>1, <2>1 DEF Undisturbed, UpdateOK, FilesOK
  <2>3. /\ update' = [update EXCEPT ![u] = next]
        /\ object' = [object EXCEPT ![temporaryPath] = update[u].inventory]
        /\ UNCHANGED <<assetsPath, temporaryPath, journal>>
    BY <2>2 DEF WriteTemporary, UpdateStep
  <2>4. update[u] \in UpdateRecords /\ update[u].inventory \in Inventories /\ \A v \in Underway : v = u
    BY <1>1, <2>1 DEF Undisturbed, Underway, UpdateRecords
  <2>5. /\ next \in UpdateRecords /\ next.pc = "rename" /\ next.open = 0
        /\ next.inventory = update[u].inventory /\ next.changes = update[u].changes
    BY <2>4 DEF UpdateRecords, UpdateSteps
  <2> HIDE DEF next
  <2>6. /\ update' \in [Updates -> UpdateRecords] /\ update'[u] = next
        /\ \A v \in Updates : v # u => update'[v] = update[v] /\ update'[v].pc \in {"idle", "done"}
        /\ \A v, w \in Underway' : v = w
    BY <2>1, <2>3, <2>4, <2>5, OneUpdate DEF Undisturbed
  <2>7. /\ object' \in [Objects -> Inventories \cup {Damaged}]
        /\ object'[temporaryPath] = update[u].inventory
        /\ \A x \in Objects : x # temporaryPath => object'[x] = object[x]
    BY <2>1, <2>2, <2>3, <2>4 DEF Undisturbed, FilesOK
  <2>8. FilesOK'
    BY <2>1, <2>2, <2>3, <2>7 DEF Undisturbed, FilesOK
  <2>9. Current' = Current
    BY <2>1, <2>2, <2>3, <2>7 DEF Undisturbed, FilesOK, Current
  <2>10. \A v \in Updates : UpdateOK(v)'
    <3>1. \A v \in Updates : v # u => UpdateOK(v)'
      BY <2>1, <2>6, AtRest DEF Undisturbed
    <3>2. UpdateOK(u)'
      BY <2>2, <2>3, <2>5, <2>6, <2>7 DEF UpdateOK
    <3> QED
      BY <3>1, <3>2
  <2>11. ServicesOf(Current)' = ToldBy(journal)'
    <3>1. \A v \in Updates : update[v].pc # "append"
      BY <1>1, <2>4 DEF Underway
    <3>2. ServicesOf(Current) = ToldBy(journal)
      BY <2>1, <3>1 DEF Undisturbed
    <3> QED
      BY <2>3, <2>9, <3>2
  <2>12. disturbed' \in BOOLEAN
    BY <1>1 DEF InventoryOK
  <2> QED
    BY <2>6, <2>8, <2>10, <2>11, <2>12 DEF InventoryOK, Undisturbed
<1> QED
  BY <1>2, <1>3

LEMMA RenameTemporaryOK == ASSUME InventoryOK, NEW u \in Updates, RenameTemporary(u) PROVE InventoryOK'
<1>1. disturbed' = disturbed /\ update[u].pc = "rename"
  BY DEF RenameTemporary
<1>2. CASE disturbed
  BY <1>1, <1>2 DEF InventoryOK
<1>3. CASE ~disturbed
  <2>1. Undisturbed
    BY <1>3 DEF InventoryOK
  <2> DEFINE next == [update[u] EXCEPT !.pc = "append"]
  <2>2. /\ temporaryPath # 0 /\ update[u].open = 0 /\ object[temporaryPath] = update[u].inventory
        /\ ServicesOf(update[u].inventory) = Retold(ToldBy(journal), update[u].changes)
        /\ temporaryPath \in Objects
    BY <1>1, <2>1 DEF Undisturbed, UpdateOK, FilesOK
  <2>3. /\ update' = [update EXCEPT ![u] = next] /\ assetsPath' = temporaryPath /\ temporaryPath' = 0
        /\ UNCHANGED <<object, journal>>
    BY <2>2 DEF RenameTemporary, UpdateStep
  <2>4. update[u] \in UpdateRecords /\ update[u].inventory \in Inventories /\ \A v \in Underway : v = u
    BY <1>1, <2>1 DEF Undisturbed, Underway, UpdateRecords
  <2>5. /\ next \in UpdateRecords /\ next.pc = "append" /\ next.open = 0
        /\ next.inventory = update[u].inventory /\ next.changes = update[u].changes
    BY <2>2, <2>4 DEF UpdateRecords, UpdateSteps
  <2> HIDE DEF next
  <2>6. /\ update' \in [Updates -> UpdateRecords] /\ update'[u] = next
        /\ \A v \in Updates : v # u => update'[v] = update[v] /\ update'[v].pc \in {"idle", "done"}
        /\ \A v, w \in Underway' : v = w
    BY <2>1, <2>3, <2>4, <2>5, OneUpdate DEF Undisturbed
  <2>7. FilesOK'
    BY <2>1, <2>2, <2>3, <2>4 DEF Undisturbed, FilesOK
  <2>8. Current' = update[u].inventory
    BY <2>2, <2>3 DEF Current
  <2>9. \A v \in Updates : UpdateOK(v)'
    <3>1. \A v \in Updates : v # u => UpdateOK(v)'
      BY <2>1, <2>6, AtRest DEF Undisturbed
    <3>2. UpdateOK(u)'
      BY <2>2, <2>3, <2>5, <2>6, <2>8 DEF UpdateOK
    <3> QED
      BY <3>1, <3>2
  <2>10. update'[u].pc = "append"
    BY <2>5, <2>6
  <2>11. disturbed' \in BOOLEAN
    BY <1>1 DEF InventoryOK
  <2> QED
    BY <2>6, <2>7, <2>9, <2>10, <2>11 DEF InventoryOK, Undisturbed
<1> QED
  BY <1>2, <1>3

LEMMA AppendChangesOK == ASSUME InventoryOK, NEW u \in Updates, AppendChanges(u) PROVE InventoryOK'
<1>1. disturbed' = disturbed /\ update[u].pc = "append"
  BY DEF AppendChanges
<1>2. CASE disturbed
  BY <1>1, <1>2 DEF InventoryOK
<1>3. CASE ~disturbed
  <2>1. Undisturbed
    BY <1>3 DEF InventoryOK
  <2> DEFINE next == [IdleUpdate EXCEPT !.pc = "done"]
  <2>2. /\ Current = update[u].inventory
        /\ ServicesOf(update[u].inventory) = Retold(ToldBy(journal), update[u].changes)
    BY <1>1, <2>1 DEF Undisturbed, UpdateOK
  <2>3. /\ update' = [update EXCEPT ![u] = next] /\ UNCHANGED <<object, assetsPath, temporaryPath>>
        /\ journal' = IF update[u].changes = {} THEN journal ELSE Append(journal, update[u].changes)
    BY DEF AppendChanges, UpdateStep
  <2>4. update[u] \in UpdateRecords /\ update[u].changes \in SUBSET Changes /\ \A v \in Underway : v = u
    BY <1>1, <2>1 DEF Undisturbed, Underway, UpdateRecords
  <2>5. next \in UpdateRecords /\ next.pc = "done" /\ next.open = 0
    BY EmptyTyped
  <2> HIDE DEF next
  <2>6. /\ update' \in [Updates -> UpdateRecords] /\ update'[u] = next
        /\ \A v \in Updates : v # u => update'[v] = update[v] /\ update'[v].pc \in {"idle", "done"}
        /\ \A v, w \in Underway' : v = w
    BY <2>1, <2>3, <2>4, <2>5, OneUpdate DEF Undisturbed
  <2>7. journal \in Seq(SUBSET Changes) /\ journal' \in Seq(SUBSET Changes)
    BY <2>1, <2>3, <2>4 DEF Undisturbed, FilesOK
  <2>8. ToldBy(journal') = Retold(ToldBy(journal), update[u].changes)
    <3>1. CASE update[u].changes = {}
      <4>1. journal' = journal
        BY <2>3, <3>1
      <4>2. ToldBy(journal) \in Accounts
        BY <2>4, <2>7, ToldAppend
      <4>3. Retold(ToldBy(journal), {}) = ToldBy(journal)
        BY <4>2, NothingRetold
      <4> QED
        BY <3>1, <4>1, <4>3
    <3>2. CASE update[u].changes # {}
      <4>1. journal' = Append(journal, update[u].changes)
        BY <2>3, <3>2
      <4> QED
        BY <2>4, <2>7, <4>1, ToldAppend
    <3> QED
      BY <3>1, <3>2
  <2>9. FilesOK'
    BY <2>1, <2>3, <2>7 DEF Undisturbed, FilesOK
  <2>10. Current' = Current
    BY <2>3 DEF Current
  <2>11. \A v \in Updates : UpdateOK(v)'
    <3>1. \A v \in Updates : v # u => UpdateOK(v)'
      <4> SUFFICES ASSUME NEW v \in Updates, v # u PROVE UpdateOK(v)'
        OBVIOUS
      <4>1. update'[v].pc \in {"idle", "done"} /\ update'[v] = update[v] /\ UpdateOK(v)
        BY <2>1, <2>6 DEF Undisturbed
      <4> QED
        BY <4>1 DEF UpdateOK
    <3>2. UpdateOK(u)'
      BY <2>5, <2>6 DEF UpdateOK
    <3> QED
      BY <3>1, <3>2
  <2>12. ServicesOf(Current)' = ToldBy(journal)'
    BY <2>2, <2>8, <2>10
  <2>13. disturbed' \in BOOLEAN
    BY <1>1 DEF InventoryOK
  <2> QED
    BY <2>6, <2>9, <2>11, <2>12, <2>13 DEF InventoryOK, Undisturbed
<1> QED
  BY <1>2, <1>3

LEMMA UpdateDiesOK == ASSUME InventoryOK, NEW u \in Updates, UpdateDies(u) PROVE InventoryOK'
<1>1. disturbed' = (disturbed \/ update[u].pc = "append") /\ disturbed' \in BOOLEAN /\ u \in Underway
  BY DEF UpdateDies, InventoryOK
<1>2. CASE disturbed'
  BY <1>1, <1>2 DEF InventoryOK
<1>3. CASE ~disturbed'
  <2>1. Undisturbed /\ update[u].pc # "append"
    BY <1>1, <1>3 DEF InventoryOK
  <2> DEFINE next == [IdleUpdate EXCEPT !.pc = "done"]
  <2>2. /\ update' = [update EXCEPT ![u] = next]
        /\ UNCHANGED <<object, assetsPath, temporaryPath, journal>>
    BY DEF UpdateDies, UpdateStep
  <2>3. next \in UpdateRecords /\ next.pc = "done" /\ next.open = 0
    BY EmptyTyped
  <2> HIDE DEF next
  <2>4. \A v \in Underway : v = u
    BY <1>1, <2>1 DEF Undisturbed
  <2>5. /\ update' \in [Updates -> UpdateRecords] /\ update'[u] = next
        /\ \A v \in Updates : v # u => update'[v] = update[v] /\ update'[v].pc \in {"idle", "done"}
        /\ \A v, w \in Underway' : v = w
    BY <2>1, <2>2, <2>3, <2>4, OneUpdate DEF Undisturbed
  <2>6. FilesOK'
    BY <2>1, <2>2 DEF Undisturbed, FilesOK
  <2>7. \A v \in Updates : UpdateOK(v)'
    <3>1. \A v \in Updates : v # u => UpdateOK(v)'
      BY <2>1, <2>5, AtRest DEF Undisturbed
    <3>2. UpdateOK(u)'
      BY <2>3, <2>5 DEF UpdateOK
    <3> QED
      BY <3>1, <3>2
  <2>8. ServicesOf(Current)' = ToldBy(journal)'
    <3>1. \A v \in Updates : update[v].pc # "append"
      BY <2>1, <2>4 DEF Underway
    <3>2. ServicesOf(Current) = ToldBy(journal)
      BY <2>1, <3>1 DEF Undisturbed
    <3> QED
      BY <2>2, <3>2 DEF Current
  <2> QED
    BY <1>1, <2>5, <2>6, <2>7, <2>8 DEF InventoryOK, Undisturbed
<1> QED
  BY <1>2, <1>3

LEMMA InventoryStep == ASSUME InventoryOK, [InventoryNext]_inventoryVars PROVE InventoryOK'
<1>1. CASE UNCHANGED inventoryVars
  BY <1>1 DEF inventoryVars, InventoryOK, Undisturbed, FilesOK, UpdateOK, Underway, Current
<1>2. CASE InventoryNext
  <2>1. PICK u \in Updates :
            \/ \E report \in ScanReports : LoadInventory(u, "scan", report)
            \/ \E report \in DiscoveryReports : LoadInventory(u, "discovery", report)
            \/ OpenTemporary(u) \/ WriteTemporary(u) \/ RenameTemporary(u)
            \/ AppendChanges(u) \/ UpdateDies(u)
    BY <1>2 DEF InventoryNext
  <2>2. ASSUME NEW report \in ScanReports, LoadInventory(u, "scan", report) PROVE InventoryOK'
    <3>1. DOMAIN report \subseteq Addresses
      BY InventoryAssumption
    <3> QED
      BY <2>2, <3>1, LoadInventoryOK
  <2>3. ASSUME NEW report \in DiscoveryReports, LoadInventory(u, "discovery", report) PROVE InventoryOK'
    <3>1. DOMAIN report \subseteq Addresses /\ \A a \in DOMAIN report : report[a] \in BOOLEAN
      BY InventoryAssumption
    <3> QED
      BY <2>3, <3>1, LoadInventoryOK
  <2> QED
    BY <2>1, <2>2, <2>3, OpenTemporaryOK, WriteTemporaryOK, RenameTemporaryOK, AppendChangesOK,
       UpdateDiesOK
<1> QED
  BY <1>1, <1>2

\* Replaying changes.jsonl gives the assets and services of assets.json whenever no
\* update is half done, none overlapped another and none died between the two files; for
\* any addresses, ports, services, reports and number of updates, with updates dying
\* at any other step (asset_inventory.py apply_scan_report and
\* apply_discovery_report, asset_inventory_store.py save and append_change_events).
THEOREM JournalSafe == InventorySpec => []JournalExplainsInventory
<1>1. InventoryInit => InventoryOK
  BY InventoryInitOK
<1>2. InventoryOK /\ [InventoryNext]_inventoryVars => InventoryOK'
  BY InventoryStep
<1>3. InventoryOK => JournalExplainsInventory
  <2> SUFFICES ASSUME InventoryOK, ~disturbed, Underway = {} PROVE ServicesOf(Current) = Told
    BY DEF JournalExplainsInventory, ServicesOf, Current
  <2>1. \A u \in Updates : update[u].pc # "append"
    BY DEF Underway
  <2>2. ServicesOf(Current) = ToldBy(journal)
    BY <2>1 DEF InventoryOK, Undisturbed
  <2> QED
    BY <2>2 DEF Told, ToldBy
<1> QED
  BY <1>1, <1>2, <1>3, PTL DEF InventorySpec

=============================================================================
