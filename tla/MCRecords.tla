------------------------------ MODULE MCRecords ------------------------------
(***************************************************************************)
(* What is kept on disk, part by part: the local workspace, its backups,   *)
(* the installed check packs, the asset inventory, the remediation store   *)
(* with the validation evidence, the case files, the audit trails and the  *)
(* encrypted partition.  The parts share no state, so a behaviour has one  *)
(* of them (focus) take all the steps.                                     *)
(*                                                                         *)
(* Check packs are there twice: two commands that overlap, on one pack,    *)
(* and one command after the other, on two packs.  The feed has four       *)
(* generations: the third has the second's timestamp and other contents,   *)
(* the fourth goes back to an old version with another content.            *)
(***************************************************************************)
EXTENDS Workspace, WorkspaceBackup, CheckPacks, AssetInventory, RemediationLifecycle,
        EvidenceCustody, AuditTrail, SecureWorkspace

CONSTANTS scan, host, c1, p, q, v1, v2, x, y, a1, a2, p1, p2, f1, e1, e2, b1, b2, b3

\* The workspace: one policy of two actions, bundles of at most two records,
\* without metadata or from an engagement that was active.
MCPolicies ==
    {[valid_from |-> 0, valid_until |-> 1, max_actions |-> 2, actions_used |-> 0,
      permitted |-> {scan}, approval_required |-> {}, max_impact |-> "standard",
      scope |-> {host}, revoked |-> FALSE]}

MCRequests ==
    {[capability |-> scan, target |-> host, impact |-> "low", approved |-> FALSE]}

MCEnvelopes ==
    [status: {None, "active"}, records: [Evidence -> Contents \cup {None}]]

\* The feeds.
FeedEntry(pack, ver, sha) == [pack |-> pack, version |-> ver, sha256 |-> sha]

TwoPackFeeds ==
    {[time |-> 1, packs |-> <<FeedEntry(p, v1, x), FeedEntry(q, v1, x)>>],
     [time |-> 2, packs |-> <<FeedEntry(p, v2, x), FeedEntry(q, v1, x)>>],
     [time |-> 2, packs |-> <<FeedEntry(p, v2, y)>>],
     [time |-> 3, packs |-> <<FeedEntry(p, v1, y), FeedEntry(q, v2, y)>>]}

OnePackFeeds ==
    {[time |-> 1, packs |-> <<FeedEntry(p, v1, x)>>],
     [time |-> 2, packs |-> <<FeedEntry(p, v2, x)>>],
     [time |-> 3, packs |-> <<FeedEntry(p, v1, y)>>]}

\* Reports of two addresses with two ports.
OnPorts(first, second) == (p1 :> first @@ p2 :> second)

MCScanReports ==
    {(a1 :> OnPorts("ssh", NoAsset)),
     (a1 :> OnPorts("http", "filtered")),
     (a1 :> OnPorts("closed", "ssh") @@ a2 :> OnPorts("http", "http")),
     (a1 :> OnPorts("filtered", "closed"))}

MCDiscoveryReports ==
    {(a1 :> TRUE @@ a2 :> FALSE), (a1 :> FALSE), (a2 :> TRUE)}

\* Validation results: confirmed or not, of another engagement, without
\* evidence, of a binding that is no longer reviewed.
ResultOf(binding, verdict, engagement, evidence) ==
    [binding |-> binding, state |-> verdict, engagement |-> engagement, evidence |-> evidence]

MCWorkerResults ==
    {ResultOf(b1, "not-confirmed", e1, TRUE), ResultOf(b2, "not-confirmed", e2, TRUE),
     ResultOf(b1, "timed-out", e1, FALSE), ResultOf(b3, "not-confirmed", e1, TRUE),
     ResultOf(b1, "error", e1, TRUE)}

MCFindingEngagement == (f1 :> e1)

\* Every partition; a file system shows only inside an encrypted one.
MCPartitions == {part \in PartitionContents : part.filesystem => part.signature = "luks2"}

-----------------------------------------------------------------------------
VARIABLES focus, serialFeed, serialVersion, serialState, serialJob

serialVars == <<serialFeed, serialVersion, serialState, serialJob>>

Serial == INSTANCE CheckPacks WITH
    Commands <- {c1}, Packs <- {p, q}, Feeds <- TwoPackFeeds,
    feed <- serialFeed, version <- serialVersion, state <- serialState, job <- serialJob

RecordsInit ==
    /\ focus \in {"workspace", "backup", "packs", "serial packs", "inventory",
                  "remediation", "custody", "audit", "partition"}
    /\ Init /\ BackupInit /\ PacksInit /\ Serial!PacksInit /\ InventoryInit
    /\ RemediationInit /\ CustodyInit /\ AuditInit
    /\ SecureInit
    /\ focus # "partition" => partition = CHOOSE part \in Partitions : TRUE

RecordsNext ==
    /\ UNCHANGED focus
    /\ \/ focus = "workspace" /\ SerialNext /\
          UNCHANGED <<backupVars, packVars, serialVars, inventoryVars, remediationVars,
                      custodyVars, auditVars, secureVars>>
       \/ focus = "backup" /\ BackupNext /\
          UNCHANGED <<vars, packVars, serialVars, inventoryVars, remediationVars,
                      custodyVars, auditVars, secureVars>>
       \/ focus = "packs" /\ ConcurrentSync /\
          UNCHANGED <<vars, backupVars, serialVars, inventoryVars, remediationVars,
                      custodyVars, auditVars, secureVars>>
       \/ focus = "serial packs" /\ Serial!SerialSync /\
          UNCHANGED <<vars, backupVars, packVars, inventoryVars, remediationVars,
                      custodyVars, auditVars, secureVars>>
       \/ focus = "inventory" /\ InventoryNext /\
          UNCHANGED <<vars, backupVars, packVars, serialVars, remediationVars,
                      custodyVars, auditVars, secureVars>>
       \/ focus = "remediation" /\ RemediationNext /\
          UNCHANGED <<vars, backupVars, packVars, serialVars, inventoryVars,
                      custodyVars, auditVars, secureVars>>
       \/ focus = "custody" /\ CustodyNext /\
          UNCHANGED <<vars, backupVars, packVars, serialVars, inventoryVars,
                      remediationVars, auditVars, secureVars>>
       \/ focus = "audit" /\ AuditNext /\
          UNCHANGED <<vars, backupVars, packVars, serialVars, inventoryVars,
                      remediationVars, custodyVars, secureVars>>
       \/ focus = "partition" /\ SecureNext /\
          UNCHANGED <<vars, backupVars, packVars, serialVars, inventoryVars,
                      remediationVars, custodyVars, auditVars>>

RecordsSpec ==
    RecordsInit /\ [][RecordsNext]_<<focus, vars, backupVars, packVars, serialVars,
        inventoryVars, remediationVars, custodyVars, auditVars, secureVars>>

\* One command after the other: a synchronisation that reports success has
\* installed what the feed says, a stored version keeps its content and the feed
\* state only moves to later manifests (sync_check_packs, CheckPackManager,
\* CheckPackStore, CheckFeedStateStore).
SerialPacksAreRight == []Serial!SyncedPacksMatchTheFeed /\ Serial!PackRecordsNeverGoBack

=============================================================================
