--------------------------- MODULE WorkspaceBackup ---------------------------
(***************************************************************************)
(* Backup and restore of a workspace directory (workspace_recovery.py).    *)
(*                                                                         *)
(* A backup is made from a live directory: its files are hashed one by one *)
(* into a manifest, then read again one by one into an archive, which is   *)
(* put at the destination by one rename.  Whether the destination is free  *)
(* is asked only at the start, so a second backup may replace an archive.  *)
(* A plain restore opens the archive three times: to verify it, to load    *)
(* its manifest, and to extract it.  An encrypted one decrypts it once     *)
(* into a private copy and restores that.                                  *)
(*                                                                         *)
(* A file's content is a version number, and a digest stands for the       *)
(* content it was computed from.  Archives are only what the code writes.  *)
(***************************************************************************)
EXTENDS Naturals, FiniteSets

CONSTANTS
    BackupFiles,        \* paths of the workspace
    FileVersions,       \* bound: how often a file is written
    Makers,             \* calls of create_(encrypted_)workspace_backup
    Restorers,          \* calls of restore_(encrypted_)workspace_backup
    Passphrases,        \* of encrypted backups
    Plain,              \* the "passphrase" of a plain backup
    NoFile              \* nothing at a path

ASSUME BackupAssumption ==
    /\ FileVersions \in Nat
    /\ Plain \notin Passphrases

VARIABLES
    tree,               \* tree[f]: the version of f, 0 before it is made
    maker,              \* maker[m]: a call that makes a backup
    archive,            \* the file at the destination of the backups
    restorer,           \* restorer[r]: a call that restores
    restored,           \* the directory at the destination of the restores
    manifestsMade       \* history: the manifest of every archive put in place

backupVars == <<tree, maker, archive, restorer, restored, manifestsMade>>

Keys == Passphrases \cup {Plain}
Empty == [f \in {} |-> 0]
Snapshots == UNION {[F -> 1..FileVersions] : F \in SUBSET BackupFiles}
Archives == [key: Keys, manifest: Snapshots, data: Snapshots]

IdleMaker == [pc |-> "idle", key |-> Plain, listing |-> {}, hashed |-> Empty, copied |-> Empty]
IdleRestorer == [pc |-> "idle", key |-> Plain, private |-> NoFile,
                 report |-> NoFile, entries |-> NoFile, extracted |-> NoFile]

BackupInit ==
    /\ tree = [f \in BackupFiles |-> 0]
    /\ maker = [m \in Makers |-> IdleMaker]
    /\ archive = NoFile
    /\ restorer = [r \in Restorers |-> IdleRestorer]
    /\ restored = NoFile
    /\ manifestsMade = {}

\* Other commands keep working in the directory while it is backed up.
WriteFile(f) ==
    /\ tree[f] < FileVersions
    /\ tree' = [tree EXCEPT ![f] = @ + 1]
    /\ UNCHANGED <<maker, archive, restorer, restored, manifestsMade>>

-----------------------------------------------------------------------------
Extend(snapshot, f, version) == [g \in DOMAIN snapshot \cup {f} |->
                                    IF g = f THEN version ELSE snapshot[g]]

MakerStep(m, record) ==
    /\ maker' = [maker EXCEPT ![m] = record]
    /\ UNCHANGED <<tree, restorer, restored>>

\* The destination is free and the directory is listed.
BeginBackup(m, key) ==
    /\ maker[m].pc = "idle"
    /\ archive = NoFile
    /\ MakerStep(m, [IdleMaker EXCEPT !.pc = "hash", !.key = key,
                                      !.listing = {f \in BackupFiles : tree[f] > 0}])
    /\ UNCHANGED <<archive, manifestsMade>>

HashFile(m, f) ==
    /\ maker[m].pc = "hash"
    /\ f \in maker[m].listing \ DOMAIN maker[m].hashed
    /\ MakerStep(m, [maker[m] EXCEPT !.hashed = Extend(@, f, tree[f])])
    /\ UNCHANGED <<archive, manifestsMade>>

CopyFile(m, f) ==
    /\ maker[m].pc = "hash"
    /\ DOMAIN maker[m].hashed = maker[m].listing
    /\ f \in DOMAIN maker[m].hashed \ DOMAIN maker[m].copied
    /\ MakerStep(m, [maker[m] EXCEPT !.copied = Extend(@, f, tree[f])])
    /\ UNCHANGED <<archive, manifestsMade>>

\* os.replace: an archive made meanwhile by another call is replaced.  An
\* encrypted backup is a plain one made in a private directory, then sealed.
PutArchive(m) ==
    /\ maker[m].pc = "hash"
    /\ DOMAIN maker[m].copied = maker[m].listing
    /\ archive' = [key |-> maker[m].key, manifest |-> maker[m].hashed, data |-> maker[m].copied]
    /\ manifestsMade' = manifestsMade \cup {maker[m].hashed}
    /\ MakerStep(m, [IdleMaker EXCEPT !.pc = "done"])

\* A failed call, or one whose process dies, leaves at most a temporary file.
BackupFails(m) ==
    /\ maker[m].pc = "hash"
    /\ MakerStep(m, [IdleMaker EXCEPT !.pc = "done"])
    /\ UNCHANGED <<archive, manifestsMade>>

-----------------------------------------------------------------------------
\* _load_verified_manifest: the same paths, and every file has its digest.
Verified(a, key) == a # NoFile /\ a.key = key /\ a.data = a.manifest

RestorerStep(r, record) ==
    /\ restorer' = [restorer EXCEPT ![r] = record]
    /\ UNCHANGED <<tree, maker, archive, manifestsMade>>

BeginRestore(r, key) ==
    /\ restorer[r].pc = "idle"
    /\ restored = NoFile
    /\ RestorerStep(r, [IdleRestorer EXCEPT !.pc = IF key = Plain THEN "verify" ELSE "decrypt",
                                            !.key = key])
    /\ UNCHANGED restored

\* _decrypt_and_verify_workspace_backup: authenticated decryption succeeds with
\* the passphrase of the backup; what it yields is private to this call.
DecryptArchive(r) ==
    /\ restorer[r].pc = "decrypt"
    /\ archive # NoFile /\ restorer[r].key = archive.key /\ archive.key # Plain
    /\ RestorerStep(r, [restorer[r] EXCEPT !.pc = "verify",
                                           !.private = [archive EXCEPT !.key = Plain]])
    /\ UNCHANGED restored

\* The archive a plain restore works on: the private copy, or the file at the
\* path, whichever that is by now.
Source(r) == IF restorer[r].key = Plain THEN archive ELSE restorer[r].private

VerifyArchive(r) ==
    /\ restorer[r].pc = "verify"
    /\ Verified(Source(r), Plain)
    /\ RestorerStep(r, [restorer[r] EXCEPT !.pc = "load", !.report = Source(r).manifest])
    /\ UNCHANGED restored

LoadManifest(r) ==
    /\ restorer[r].pc = "load"
    /\ Verified(Source(r), Plain)
    /\ RestorerStep(r, [restorer[r] EXCEPT !.pc = "extract", !.entries = Source(r).manifest])
    /\ UNCHANGED restored

\* Mutant: an extracted file is not compared with its entry.
ExtractUnchecked(r) ==
    /\ restorer[r].pc = "extract"
    /\ Source(r) # NoFile /\ Source(r).key = Plain
    /\ DOMAIN restorer[r].entries \subseteq DOMAIN Source(r).data
    /\ RestorerStep(r, [restorer[r] EXCEPT
            !.pc = "install", !.extracted = [f \in DOMAIN restorer[r].entries |-> Source(r).data[f]]])
    /\ UNCHANGED restored

\* Every entry is read from the archive into a temporary directory and compared
\* with its digest.
Extract(r) ==
    /\ restorer[r].pc = "extract"
    /\ Source(r) # NoFile /\ Source(r).key = Plain
    /\ DOMAIN restorer[r].entries \subseteq DOMAIN Source(r).data
    /\ \A f \in DOMAIN restorer[r].entries : Source(r).data[f] = restorer[r].entries[f]
    /\ RestorerStep(r, [restorer[r] EXCEPT !.pc = "install", !.extracted = restorer[r].entries])
    /\ UNCHANGED restored

\* The temporary directory is renamed: impossible onto a directory with files.
InstallTree(r) ==
    /\ restorer[r].pc = "install"
    /\ restored # NoFile => restored.files = Empty
    /\ restored' = [files |-> restorer[r].extracted, key |-> restorer[r].key,
                    report |-> restorer[r].report]
    /\ RestorerStep(r, [IdleRestorer EXCEPT !.pc = "done"])

\* A check that fails, or the death of the process: the destination is as it was.
RestoreFails(r) ==
    /\ restorer[r].pc \in {"decrypt", "verify", "load", "extract", "install"}
    /\ RestorerStep(r, [IdleRestorer EXCEPT !.pc = "done"])
    /\ UNCHANGED restored

BackupNext ==
    \/ \E f \in BackupFiles : WriteFile(f)
    \/ \E m \in Makers :
        \/ \E key \in Keys : BeginBackup(m, key)
        \/ \E f \in BackupFiles : HashFile(m, f) \/ CopyFile(m, f)
        \/ PutArchive(m)
        \/ BackupFails(m)
    \/ \E r \in Restorers :
        \/ \E key \in Keys : BeginRestore(r, key)
        \/ DecryptArchive(r)
        \/ VerifyArchive(r)
        \/ LoadManifest(r)
        \/ Extract(r)
        \/ InstallTree(r)
        \/ RestoreFails(r)

BackupSpec == BackupInit /\ [][BackupNext]_backupVars

-----------------------------------------------------------------------------
\* What restore_workspace_backup leaves at the destination is the whole of one
\* archive that some backup put in place, although the archive at the path may be
\* replaced between the three times it is opened and although files of the live
\* directory changed between hashing and copying; and the report an encrypted
\* restore returns describes that very archive.
RestoredTreeIsOneArchive ==
    restored # NoFile =>
        /\ restored.files \in manifestsMade
        /\ restored.key # Plain => restored.report = restored.files

=============================================================================
