---------------------------- MODULE AssetInventory ----------------------------
(***************************************************************************)
(* The asset inventory (asset_inventory.py), its files                     *)
(* (asset_inventory_store.py) and the scan and discovery commands that     *)
(* update it with --update-inventory (red_cli.py).                         *)
(*                                                                         *)
(* An update loads assets.json, merges its report into that copy, writes   *)
(* the result to the fixed path assets.json.tmp, renames it over           *)
(* assets.json, and last appends the changes to changes.jsonl.  Nothing is *)
(* locked, so files are modelled as the paths and the file objects behind  *)
(* them: opening the temporary path for writing empties the object another *)
(* update may just be about to rename, and goes on writing to it after.    *)
(*                                                                         *)
(* An asset is its services by port and what discovery last said of it.    *)
(***************************************************************************)
EXTENDS Naturals, FiniteSets, SequencesExt

CONSTANTS
    Addresses, Ports, ServiceNames,
    Updates,            \* calls of a command with --update-inventory
    ScanReports,        \* Addresses -> Ports -> a service name, "closed", "filtered"
                        \* or NoAsset (not requested); no entry: address not scanned
    DiscoveryReports,   \* Addresses -> BOOLEAN, for the addresses probed
    UpdatesAtOnce,      \* how many updates may overlap
    NoAsset, Damaged       \* no asset, service or object; an object with no whole JSON

VARIABLES
    update,             \* update[u]: a command
    object,             \* object[o]: what a file object holds
    assetsPath,         \* the object at assets.json, 0 for none
    temporaryPath,      \* the object at assets.json.tmp, 0 for none
    journal,            \* changes.jsonl
    disturbed           \* history: some update died or overlapped another

inventoryVars == <<update, object, assetsPath, temporaryPath, journal, disturbed>>

ASSUME InventoryAssumption ==
    /\ {NoAsset, Damaged, "closed", "filtered"} \cap ServiceNames = {}
    /\ NoAsset \notin Ports
    /\ NoAsset \notin [Ports -> ServiceNames \cup {NoAsset}]
    /\ NoAsset \notin [services : [Ports -> ServiceNames \cup {NoAsset}],
                       responsive : BOOLEAN \cup {NoAsset}]
    /\ IsFiniteSet(Updates) /\ UpdatesAtOnce \in Nat
    /\ \A r \in ScanReports : DOMAIN r \subseteq Addresses
    /\ \A r \in DiscoveryReports : DOMAIN r \subseteq Addresses /\ r \in [DOMAIN r -> BOOLEAN]

\* One at each path and one open in each update; a freed one is used again.
Objects == 1..(2 + Cardinality(Updates))
NoServices == [p \in Ports |-> NoAsset]
EmptyInventory == [a \in Addresses |-> NoAsset]

IdleUpdate == [pc |-> "idle", open |-> 0, inventory |-> EmptyInventory, changes |-> {}]

InventoryInit ==
    /\ update = [u \in Updates |-> IdleUpdate]
    /\ object = [o \in Objects |-> EmptyInventory]
    /\ assetsPath = 0
    /\ temporaryPath = 0
    /\ journal = <<>>
    /\ disturbed = FALSE

Underway == {u \in Updates : update[u].pc \notin {"idle", "done"}}

-----------------------------------------------------------------------------
Change(a, type, p, after) == [address |-> a, type |-> type, port |-> p, after |-> after]

\* The changes of a scan to the asset at a: a new asset, then port by port.  A
\* port that is filtered, or was not asked for, keeps its old service.
IsOpen(state) == state \in ServiceNames
Responds(report, a) == \E p \in Ports : IsOpen(report[a][p])
OldServices(asset) == IF asset = NoAsset THEN NoServices ELSE asset.services

ScannedService(old, state) ==
    CASE IsOpen(state)      -> state
      [] state = "closed"   -> NoAsset
      [] OTHER              -> old

PortChange(a, old, p, state) ==
    CASE IsOpen(state) /\ old = NoAsset
            -> {Change(a, "port-opened", p, state)}
      [] IsOpen(state) /\ old # NoAsset /\ old # state
            -> {Change(a, "service-changed", p, state)}
      [] state = "closed" /\ old # NoAsset
            -> {Change(a, "port-closed", p, NoAsset)}
      [] OTHER -> {}

\* apply_scan_report
ScannedAsset(asset, a, report) ==
    IF asset = NoAsset /\ ~Responds(report, a) THEN NoAsset
    ELSE [services |-> [p \in Ports |-> ScannedService(OldServices(asset)[p], report[a][p])],
          responsive |-> IF asset = NoAsset THEN NoAsset ELSE asset.responsive]

ScanChanges(asset, a, report) ==
    IF asset = NoAsset /\ ~Responds(report, a) THEN {}
    ELSE (IF asset = NoAsset THEN {Change(a, "new-asset", NoAsset, NoAsset)} ELSE {})
            \cup UNION {PortChange(a, OldServices(asset)[p], p, report[a][p]) : p \in Ports}

\* Mutant: a responding host is recorded without the services it had.
DiscoveredAssetAnew(asset, a, report) ==
    CASE asset = NoAsset /\ ~report[a] -> NoAsset
      [] OTHER -> [services |-> NoServices, responsive |-> report[a]]

\* apply_discovery_report
DiscoveredAsset(asset, a, report) ==
    CASE asset = NoAsset /\ ~report[a] -> NoAsset
      [] asset = NoAsset /\ report[a]  -> [services |-> NoServices, responsive |-> TRUE]
      [] OTHER -> [asset EXCEPT !.responsive = report[a]]

DiscoveryChanges(asset, a, report) ==
    IF asset = NoAsset
    THEN IF report[a] THEN {Change(a, "new-asset", NoAsset, NoAsset)} ELSE {}
    ELSE CASE asset.responsive = ~report[a] /\ report[a]
                -> {Change(a, "host-responsive", NoAsset, NoAsset)}
           [] asset.responsive = ~report[a] /\ ~report[a]
                -> {Change(a, "host-unresponsive", NoAsset, NoAsset)}
           [] OTHER -> {}

AfterReport(inventory, kind, report) ==
    [a \in Addresses |->
        CASE a \notin DOMAIN report -> inventory[a]
          [] a \in DOMAIN report /\ kind = "scan" -> ScannedAsset(inventory[a], a, report)
          [] OTHER -> DiscoveredAsset(inventory[a], a, report)]

ReportChanges(inventory, kind, report) ==
    UNION {IF kind = "scan" THEN ScanChanges(inventory[a], a, report)
           ELSE DiscoveryChanges(inventory[a], a, report) : a \in DOMAIN report}

-----------------------------------------------------------------------------
\* The object an update writes: the one at the temporary path, emptied, or a new
\* one that neither a path nor another update refers to.
InUse == {assetsPath} \cup {update[u].open : u \in Underway}
TemporaryObject == IF temporaryPath # 0 THEN temporaryPath
                   ELSE CHOOSE o \in Objects : o \notin InUse

UpdateStep(u, record) == update' = [update EXCEPT ![u] = record]

\* _parse_inventory takes what save wrote, and nothing less.
Parses(content) == content # Damaged

\* load and apply; a file that does not parse ends the command.
LoadInventory(u, kind, report) ==
    /\ update[u].pc = "idle"
    /\ Cardinality(Underway) < UpdatesAtOnce
    /\ LET inventory == IF assetsPath = 0 THEN EmptyInventory ELSE object[assetsPath]
       IN  UpdateStep(u, IF ~Parses(inventory) THEN [IdleUpdate EXCEPT !.pc = "done"]
                         ELSE [pc |-> "open", open |-> 0,
                               inventory |-> AfterReport(inventory, kind, report),
                               changes |-> ReportChanges(inventory, kind, report)])
    /\ disturbed' = (disturbed \/ Underway # {})
    /\ UNCHANGED <<object, assetsPath, temporaryPath, journal>>

\* save, first half: open("w") creates the temporary file or empties it.
OpenTemporary(u) ==
    /\ update[u].pc = "open"
    /\ object' = [object EXCEPT ![TemporaryObject] = Damaged]
    /\ temporaryPath' = TemporaryObject
    /\ UpdateStep(u, [update[u] EXCEPT !.pc = "write", !.open = TemporaryObject])
    /\ UNCHANGED <<assetsPath, journal, disturbed>>

\* The JSON is written from the start of the object and the object closed.  Over
\* another update's JSON the result is whole only when it is at least as long.
WriteTemporary(u) ==
    /\ update[u].pc = "write"
    /\ \E content \in {update[u].inventory}
                        \cup (IF object[update[u].open] = Damaged THEN {} ELSE {Damaged}) :
            object' = [object EXCEPT ![update[u].open] = content]
    /\ UpdateStep(u, [update[u] EXCEPT !.pc = "rename", !.open = 0])
    /\ UNCHANGED <<assetsPath, temporaryPath, journal, disturbed>>

\* temporary.replace; it raises when another update has renamed the file already.
RenameTemporary(u) ==
    /\ update[u].pc = "rename"
    /\ IF temporaryPath = 0
       THEN /\ UpdateStep(u, [IdleUpdate EXCEPT !.pc = "done"])
            /\ UNCHANGED <<assetsPath, temporaryPath>>
       ELSE /\ UpdateStep(u, [update[u] EXCEPT !.pc = "append"])
            /\ assetsPath' = temporaryPath
            /\ temporaryPath' = 0
    /\ UNCHANGED <<object, journal, disturbed>>

\* append_change_events
AppendChanges(u) ==
    /\ update[u].pc = "append"
    /\ journal' = IF update[u].changes = {} THEN journal ELSE Append(journal, update[u].changes)
    /\ UpdateStep(u, [IdleUpdate EXCEPT !.pc = "done"])
    /\ UNCHANGED <<object, assetsPath, temporaryPath, disturbed>>

\* The command dies.  Only between the rename and the append does that leave the
\* two files apart.
UpdateDies(u) ==
    /\ u \in Underway
    /\ UpdateStep(u, [IdleUpdate EXCEPT !.pc = "done"])
    /\ disturbed' = (disturbed \/ update[u].pc = "append")
    /\ UNCHANGED <<object, assetsPath, temporaryPath, journal>>

InventoryNext ==
    \E u \in Updates :
        \/ \E report \in ScanReports : LoadInventory(u, "scan", report)
        \/ \E report \in DiscoveryReports : LoadInventory(u, "discovery", report)
        \/ OpenTemporary(u)
        \/ WriteTemporary(u)
        \/ RenameTemporary(u)
        \/ AppendChanges(u)
        \/ UpdateDies(u)

InventorySpec == InventoryInit /\ [][InventoryNext]_inventoryVars

-----------------------------------------------------------------------------
\* The services and assets a reader of changes.jsonl alone arrives at.
Retold(known, changes) ==
    [a \in Addresses |->
        LET mine == {c \in changes : c.address = a}
            was == IF known[a] = NoAsset THEN NoServices ELSE known[a]
        IN  IF known[a] = NoAsset /\ ~\E c \in mine : c.type = "new-asset" THEN NoAsset
            ELSE [p \in Ports |->
                    IF \E c \in mine : c.port = p
                    THEN (CHOOSE c \in mine : c.port = p).after ELSE was[p]]]

Told ==
    LET told[n \in 0 .. Len(journal)] ==
            IF n = 0 THEN EmptyInventory ELSE Retold(told[n - 1], journal[n])
    IN  told[Len(journal)]

\* changes.jsonl tells how assets.json came to be: replaying its events gives
\* the assets and services of the inventory, whenever no update is half done, none
\* died between the two files and no two overlapped.  An update that died earlier,
\* with the temporary file half written, does no harm.
JournalExplainsInventory ==
    ~disturbed /\ Underway = {} =>
        LET inventory == IF assetsPath = 0 THEN EmptyInventory ELSE object[assetsPath]
        IN  [a \in Addresses |-> IF inventory[a] = NoAsset THEN NoAsset ELSE inventory[a].services]
                = Told

\* "Load and atomically persist the NightRecon asset inventory": what is at
\* assets.json is always one whole inventory.
InventoryIsReadable == assetsPath # 0 => Parses(object[assetsPath])

=============================================================================
