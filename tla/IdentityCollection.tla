------------------------- MODULE IdentityCollection -------------------------
(***************************************************************************)
(* Live identity collection: red_identity_live_cli.main and                *)
(* collect_authorized_identity_intelligence over the Active Directory and  *)
(* Entra providers.                                                        *)
(*                                                                         *)
(* A directory answers in pages.  The provider reads pages until nothing   *)
(* is left or a ceiling (requests, entries, memberships, relationships,    *)
(* objects whose members or owners are read, time) is met, and reports     *)
(* whether it was cut short (truncated).  Then it derives relationships    *)
(* from what it has.                                                       *)
(*                                                                         *)
(* An item of a directory has an id, a kind, the ids of its members and    *)
(* the relationships it names; a well-known privileged group names the     *)
(* role its SID stands for.  Attribute parsing and natural keys are left   *)
(* out, with the marks of attributes that cannot be read.                  *)
(***************************************************************************)
EXTENDS Naturals, FiniteSetsExt, SequencesExt

CONSTANTS
    ObjectIds,          \* names of objects
    AdUsers, AdGroups,  \* what the two searches of a domain return, in order
    EntraTenants,       \* tenants: the four base collections of each, in order
    EntraMembers,       \* EntraMembers[g]: the ids a group's member pages list
    EntraOwners,        \* EntraOwners[o]: the ids an object's owner pages list
    EntraRoles,         \* role definitions
    EntraAssignments,   \* role assignments: [principal, role]
    MaxDirectoryPages,           \* AD max_pages and Entra max_requests
    PageSize,           \* bound: items of a page
    MaxCollectionPages, \* Entra max_pages_per_collection
    MaxEntries, MaxMemberships,     \* of the request
    MaxRelationships,
    MaxMemberReads, MaxOwnerReads, MaxRoleDefinitions, MaxTrusts,
    OwnDomain           \* the trust partner that is the domain itself

ReferenceKinds == {"role", "manages", "primary", "delegates"}

DirectoryItems ==
    [id : ObjectIds, kind : {"user", "group", "trust", "application", "service"},
     members : Seq(ObjectIds), refs : SUBSET [rel : ReferenceKinds, to : ObjectIds]]

\* A directory has one object of a name; Entra's provider raises where it sees two.
Directory(items) ==
    /\ items \subseteq DirectoryItems
    /\ \A x, y \in items : x.id = y.id => x = y
    /\ \A x \in items : IsFiniteSet(x.refs)

ASSUME IdentityAssumption ==
    /\ {MaxDirectoryPages, PageSize, MaxCollectionPages, MaxEntries, MaxMemberships,
        MaxRelationships, MaxMemberReads, MaxOwnerReads, MaxRoleDefinitions} \subseteq Nat \ {0}
    /\ MaxTrusts \in Nat
    /\ {AdUsers, AdGroups} \subseteq Seq(DirectoryItems)
    /\ Directory(Range(AdUsers) \cup Range(AdGroups))
    /\ \A tenant \in EntraTenants :
        /\ tenant \in Seq(Seq(DirectoryItems)) /\ tenant # <<>>
        /\ Directory(UNION {Range(tenant[i]) : i \in DOMAIN tenant})
        /\ \A i \in DOMAIN tenant : \A item \in Range(tenant[i]) :
            /\ item.kind # "trust"
            /\ item.kind = "group" => EntraMembers[item.id] \in Seq(ObjectIds)
            /\ item.kind \in {"application", "service"} => EntraOwners[item.id] \in Seq(ObjectIds)
    /\ EntraRoles \in Seq(Range(EntraRoles))
    /\ EntraAssignments \in Seq(Range(EntraAssignments))

VARIABLES
    collection,         \* the run of the provider
    identityReport      \* what the command stored: nothing, or its summary

identityVars == <<collection, identityReport>>

Nothing == "nothing"

Summary(st) ==
    [truncated |-> st.truncated, requests |-> st.requests,
     entries |-> {st.entries[i].id : i \in DOMAIN st.entries},
     memberships |-> st.memberships, relationships |-> st.relationships]

Started(provider, phases) ==
    [provider |-> provider, source |-> phases, at |-> "search", phases |-> phases,
     left |-> Head(phases).items, pages |-> 0, requests |-> 0, late |-> FALSE,
     entries |-> <<>>, memberships |-> {}, relationships |-> {}, roles |-> {}, trusts |-> {},
     full |-> FALSE, truncated |-> FALSE]

NoSummary == [truncated |-> TRUE, requests |-> 0, entries |-> {}, memberships |-> {},
              relationships |-> {}]

Search(items) == [reads |-> "entries", of |-> Nothing, items |-> items]

\* The action is charged before the provider is called; a denied one ends here.
IdentityInit ==
    /\ collection \in
        {Started("ad", <<Search(AdUsers), Search(AdGroups)>>)} \cup
        {Started("entra", [i \in DOMAIN tenant |-> Search(tenant[i])]) : tenant \in EntraTenants}
    /\ identityReport = NoSummary

\* What a step, taken for one item after the other, makes of a collection.
After(step(_, _), st, items) ==
    LET after[n \in 0 .. Len(items)] == IF n = 0 THEN st ELSE step(after[n - 1], items[n])
    IN  after[Len(items)]

Ids(st) == {st.entries[i].id : i \in DOMAIN st.entries}
Truncated(st) == [st EXCEPT !.truncated = TRUE]

\* The time ceiling may pass between any two steps.
ProviderIsLate ==
    /\ collection.at = "search" /\ ~collection.late
    /\ collection' = [collection EXCEPT !.late = TRUE]
    /\ UNCHANGED identityReport

-----------------------------------------------------------------------------
(* Active Directory.                                                       *)

\* The group as it is kept when only some of its members still fit.
Cut(item, room) ==
    [item EXCEPT !.members = SubSeq(@, 1, Min({Len(@), room}))]

MembershipsOf(item) == {<<item.members[i], item.id>> : i \in DOMAIN item.members}

Kept(st, item) ==
    [st EXCEPT !.entries = Append(@, item), !.memberships = @ \cup MembershipsOf(item)]

AdFull(st) ==
    Len(st.entries) >= MaxEntries \/ Cardinality(st.memberships) >= MaxMemberships

\* Mutant: members that do not fit are dropped without a word.
AdItemQuiet(st, item) ==
    LET room == MaxMemberships - Cardinality(st.memberships)
    IN  IF st.full \/ item.id \in Ids(st) \/ item.kind = "trust" THEN st ELSE Kept(st, Cut(item, room))

\* One raw entry of a page; full says that the page's loop was left.
AdItem(st, item) ==
    LET room == MaxMemberships - Cardinality(st.memberships)
        kept == Kept(st, Cut(item, room))
        marked == IF Len(item.members) > room THEN Truncated(kept) ELSE kept
        noRoom == Len(st.entries) >= MaxEntries \/ (item.members # <<>> /\ room <= 0)
    IN  IF st.full \/ (item.kind # "trust" /\ item.id \in Ids(st)) THEN st
        ELSE IF item.kind = "trust"
        THEN IF Cardinality(st.trusts) >= MaxTrusts
             THEN Truncated(st)
             ELSE [st EXCEPT !.trusts = @ \cup {item.id}]
        ELSE IF noRoom
        THEN [Truncated(st) EXCEPT !.full = TRUE]
        ELSE [marked EXCEPT !.full = marked.truncated /\ AdFull(marked)]

AdRead(st, items) == After(AdItem, st, items)

\* The next search, or the end of the reading.
AdNextSearch(st) ==
    LET ends == \/ Len(st.phases) = 1
                \/ st.truncated /\ (AdFull(st) \/ st.requests >= MaxDirectoryPages \/ st.late)
    IN  IF ends
        THEN [st EXCEPT !.at = "derive", !.phases = <<>>, !.left = <<>>]
        ELSE [st EXCEPT !.phases = Tail(@), !.left = Head(Tail(st.phases)).items]

\* The checks before a page.
AdCeiling ==
    /\ collection.provider = "ad" /\ collection.at = "search"
    /\ \/ Len(collection.entries) >= MaxEntries
       \/ collection.requests >= MaxDirectoryPages
       \/ collection.late
    /\ collection' = AdNextSearch(Truncated(collection))
    /\ UNCHANGED identityReport

\* search_page, its entries, and the checks after it.  The page as a whole may be
\* marked: for a referral, or for a group whose members came as a range.
AdPage(n, referral) ==
    LET st == collection
        page == SubSeq(st.left, 1, n)
        rest == SubSeq(st.left, n + 1, Len(st.left))
        read == AdRead([st EXCEPT !.requests = @ + 1, !.left = rest, !.full = FALSE,
                               !.truncated = @ \/ referral], page)
        stops == read.truncated /\ (AdFull(read) \/ read.requests >= MaxDirectoryPages)
    IN  /\ st.provider = "ad" /\ st.at = "search"
        /\ Len(st.entries) < MaxEntries /\ st.requests < MaxDirectoryPages /\ ~st.late
        /\ n <= Len(st.left) /\ (n = 0 => st.left = <<>>)
        /\ collection' = IF stops \/ rest = <<>> THEN AdNextSearch(read) ELSE read
        /\ UNCHANGED identityReport

\* A relationship, or a membership, is added once, while there is room for it.
Related(st, relation) ==
    IF relation \in st.relationships THEN st
    ELSE IF Cardinality(st.relationships) >= MaxRelationships THEN Truncated(st)
    ELSE [st EXCEPT !.relationships = @ \cup {relation}]

Joined(st, membership) ==
    IF membership \in st.memberships THEN st
    ELSE IF Cardinality(st.memberships) >= MaxMemberships THEN Truncated(st)
    ELSE [st EXCEPT !.memberships = @ \cup {membership}]

\* Role, managedBy, primary group and constrained delegation of one entry: an end
\* that was not collected, or is the entry itself, is left out and reported.  A
\* role is no entry: it comes with its group.
References(pass) ==
    SetToSeq({[of |-> pass.item.id, rel |-> ref.rel, to |-> ref.to]
              : ref \in {r \in pass.item.refs : r.rel = pass.rel}})

AdReference(st, ref) ==
    IF ref.rel = "role" THEN Related(st, <<ref.of, ref.rel, ref.to>>)
    ELSE CASE ref.to \notin Ids(st) -> Truncated(st)
           [] ref.to \in Ids(st) /\ ref.rel = "primary" -> Joined(st, <<ref.of, ref.to>>)
           [] OTHER -> IF ref.to = ref.of THEN Truncated(st)
                       ELSE Related(st, <<ref.of, ref.rel, ref.to>>)

AdEntry(st, pass) == After(AdReference, st, References(pass))

\* A trust with the domain itself is left out and reported.
AdTrust(st, partner) ==
    IF partner = OwnDomain THEN Truncated(st) ELSE Related(st, <<"domain", "trust", partner>>)

\* The entries are gone through for the role and the manager of each, then for
\* their primary groups, then for their delegations.
Passes(entries) ==
    LET For(rel) == [i \in DOMAIN entries |-> [rel |-> rel, item |-> entries[i]]]
        groups == [i \in 1 .. 2 * Len(entries) |->
                      [rel |-> IF i % 2 = 1 THEN "role" ELSE "manages",
                       item |-> entries[(i + 1) \div 2]]]
    IN  groups \o For("primary") \o For("delegates")

\* Everything derived after the reading: entry by entry, and last the trusts.
AdEntries(st) == After(AdEntry, st, Passes(st.entries))
AdTrusts(st) == After(AdTrust, st, SetToSeq(st.trusts))
AdDerived(st) == AdTrusts(AdEntries(st))

DeriveAd ==
    /\ collection.provider = "ad" /\ collection.at = "derive"
    /\ collection' = [AdDerived(collection) EXCEPT !.at = "collected"]
    /\ UNCHANGED identityReport

-----------------------------------------------------------------------------
(* Entra.                                                                  *)

\* budget_available
EntraBudget(st) == st.requests < MaxDirectoryPages /\ ~st.late

EntraItem(st, item) ==
    LET kept == IF item.id \in Ids(st) THEN st ELSE Kept(st, [item EXCEPT !.members = <<>>])
    IN  CASE st.full -> st
          [] ~st.full /\ Len(kept.entries) >= MaxEntries -> [Truncated(kept) EXCEPT !.full = TRUE]
          [] OTHER -> kept

EntraMember(st, group, id) ==
    IF id \notin Ids(st) THEN Truncated(st) ELSE Joined(st, <<id, group>>)

EntraOwner(st, object, id) ==
    IF id \notin Ids(st) THEN Truncated(st) ELSE Related(st, <<id, "owns", object>>)

EntraRole(st, role) ==
    IF role \notin st.roles /\ Cardinality(st.roles) >= MaxRoleDefinitions
    THEN Truncated(st)
    ELSE [st EXCEPT !.roles = @ \cup {role}]

EntraAssignment(st, item) ==
    IF item.principal \notin Ids(st) \/ item.role \notin st.roles
    THEN Truncated(st)
    ELSE Related(st, <<item.principal, "role", item.role>>)

\* The handler of the collection being read.
EntraHandled(st, item) ==
    LET phase == Head(st.phases)
    IN  CASE phase.reads = "entries"     -> EntraItem(st, item)
          [] phase.reads = "members"     -> EntraMember(st, phase.of, item)
          [] phase.reads = "owners"      -> EntraOwner(st, phase.of, item)
          [] phase.reads = "roles"       -> EntraRole(st, item)
          [] phase.reads = "assignments" -> EntraAssignment(st, item)

EntraRead(st, items) == After(EntraHandled, st, items)

OfKind(st, kinds) ==
    LET of[n \in 0 .. Len(st.entries)] ==
            IF n = 0 THEN <<>>
            ELSE IF st.entries[n].kind \in kinds THEN Append(of[n - 1], st.entries[n])
            ELSE of[n - 1]
    IN  of[Len(st.entries)]

Reads(what, ids, items) ==
    [i \in DOMAIN ids |-> [reads |-> what, of |-> ids[i].id, items |-> items[ids[i].id]]]

AtMost(n, s) == SubSeq(s, 1, Min({n, Len(s)}))

\* The reads that follow the base collections: none once entries are full.
EntraFollowing(st) ==
    LET groups == OfKind(st, {"group"})
        owned == OfKind(st, {"application", "service"})
    IN  IF st.full THEN <<>>
        ELSE Reads("members", AtMost(MaxMemberReads, groups), EntraMembers)
             \o Reads("owners", AtMost(MaxOwnerReads, owned), EntraOwners)
             \o <<[reads |-> "roles", of |-> Nothing, items |-> EntraRoles],
                  [reads |-> "assignments", of |-> Nothing, items |-> EntraAssignments]>>

\* What the reads that follow leave out, or may.  Groups always do: their
\* member listing may omit service principals.
EntraOmits(st) ==
    /\ ~st.full
    /\ OfKind(st, {"group"}) # <<>> \/ Len(OfKind(st, {"application", "service"})) > MaxOwnerReads

\* The next collection: a base one, the first that follows, or none.
EntraNextRead(st) ==
    LET base == Head(st.phases).reads = "entries"
        rest == IF base /\ st.full THEN <<>> ELSE Tail(st.phases)
        lastBase == base /\ rest = <<>>
        phases == IF lastBase THEN EntraFollowing(st) ELSE rest
        next == [st EXCEPT !.phases = phases, !.pages = 0,
                           !.truncated = @ \/ (lastBase /\ EntraOmits(st))]
    IN  IF phases = <<>>
        THEN [next EXCEPT !.at = "collected", !.left = <<>>]
        ELSE [next EXCEPT !.left = Head(phases).items]

\* A collection that is not read, or not to its end.
EntraCeiling ==
    /\ collection.provider = "entra" /\ collection.at = "search"
    /\ ~EntraBudget(collection) \/ collection.pages >= MaxCollectionPages
    /\ collection' = EntraNextRead(Truncated(collection))
    /\ UNCHANGED identityReport

\* get_page and its items.
EntraPage(n) ==
    LET st == collection
        rest == SubSeq(st.left, n + 1, Len(st.left))
        read == EntraRead([st EXCEPT !.requests = @ + 1, !.pages = @ + 1, !.left = rest],
                          SubSeq(st.left, 1, n))
    IN  /\ st.provider = "entra" /\ st.at = "search"
        /\ EntraBudget(st) /\ st.pages < MaxCollectionPages
        /\ n <= Len(st.left) /\ (n = 0 => st.left = <<>>)
        /\ collection' = IF rest = <<>> \/ (Head(st.phases).reads = "entries" /\ read.full)
                         THEN EntraNextRead(read) ELSE read
        /\ UNCHANGED identityReport

-----------------------------------------------------------------------------
\* The transport raises: the charged action has no evidence.
ProviderFails ==
    /\ collection.at = "search"
    /\ collection' = [collection EXCEPT !.at = "failed"]
    /\ UNCHANGED identityReport

\* The limits are checked again, the evidence is merged into the workspace
\* and the summary stored.
StoreCollection ==
    LET st == collection
    IN  /\ st.at = "collected"
        /\ IF Len(st.entries) > MaxEntries \/ Cardinality(st.memberships) > MaxMemberships
           THEN /\ collection' = [st EXCEPT !.at = "failed"]
                /\ UNCHANGED identityReport
           ELSE /\ collection' = [st EXCEPT !.at = "stored"]
                /\ identityReport' = Summary(st)

IdentityNext ==
    \/ ProviderIsLate
    \/ AdCeiling
    \/ \E n \in 0 .. PageSize, referral \in BOOLEAN : AdPage(n, referral)
    \/ DeriveAd
    \/ EntraCeiling
    \/ \E n \in 0 .. PageSize : EntraPage(n)
    \/ ProviderFails
    \/ StoreCollection

IdentitySpec == IdentityInit /\ [][IdentityNext]_identityVars

-----------------------------------------------------------------------------
(* The whole directory.                                                    *)
Everything(st) == UNION {Range(st.source[i].items) : i \in DOMAIN st.source}
Items(st) == {item \in Everything(st) : item.kind # "trust"}

AllMemberships(st) ==
    IF st.provider = "ad"
    THEN UNION {MembershipsOf(item)
                \cup {<<item.id, ref.to>> : ref \in {r \in item.refs : r.rel = "primary"}}
                : item \in Items(st)}
    ELSE UNION {{<<m, item.id>> : m \in Range(EntraMembers[item.id])}
                : item \in {i \in Items(st) : i.kind = "group"}}

NamedRelationships(st) ==
    UNION {{<<item.id, ref.rel, ref.to>> : ref \in {r \in item.refs : r.rel # "primary"}}
           : item \in Items(st)}

TrustRelationships(st) == {<<"domain", "trust", t.id>> : t \in Everything(st) \ Items(st)}

OwnerRelationships(st) ==
    UNION {{<<owner, "owns", item.id>> : owner \in Range(EntraOwners[item.id])}
           : item \in {i \in Items(st) : i.kind \in {"application", "service"}}}

RoleRelationships == {<<a.principal, "role", a.role>> : a \in Range(EntraAssignments)}

AllRelationships(st) ==
    IF st.provider = "ad" THEN NamedRelationships(st) \cup TrustRelationships(st)
    ELSE OwnerRelationships(st) \cup RoleRelationships

(* A summary that does not say truncated is about the whole directory:     *)
(* whichever ceiling a page meets, and wherever in the reading it does,    *)
(* the omission is reported; and no ceiling is overrun                     *)
(* (mark_truncated and the breaks of the two collect loops).               *)
CompleteMeansComplete ==
    /\ collection.requests <= MaxDirectoryPages
    /\ Cardinality(identityReport.entries) <= MaxEntries
    /\ Cardinality(identityReport.memberships) <= MaxMemberships
    /\ Cardinality(identityReport.relationships) <= MaxRelationships
    /\ ~identityReport.truncated =>
        /\ identityReport.entries = {item.id : item \in Items(collection)}
        /\ identityReport.memberships = AllMemberships(collection)
        /\ identityReport.relationships = AllRelationships(collection)
=============================================================================
