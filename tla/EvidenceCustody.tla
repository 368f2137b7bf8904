--------------------------- MODULE EvidenceCustody ---------------------------
(***************************************************************************)
(* Chain of custody of the White Night evidence (evidence_custody.py): one *)
(* EvidenceCustodyCase, worked on by clients, and the FileCustodyStore     *)
(* that keeps it.                                                          *)
(*                                                                         *)
(* A case is immutable.  Each operation builds a longer case, and building *)
(* one replays its whole history and may refuse it.  A client works on the *)
(* case it last read or built and offers it to the store, which accepts    *)
(* only an extension of the case it has.  Times are what callers pass as   *)
(* occurred_at; nothing reads a clock.  The store changes its copy first   *)
(* and then replaces the file, which may fail.                             *)
(*                                                                         *)
(* Fingerprints are taken to be injective, so an equal chain is an equal   *)
(* sequence of events.                                                     *)
(***************************************************************************)
EXTENDS Naturals, FiniteSetsExt, SequencesExt

CONSTANTS
    CaseEvidence,       \* evidence identifiers
    Custodians,
    CaseTimes,          \* times an operation may be given
    Levels, PolicyLevel,\* ranks of classifications, and the engagement's floor
    RetentionTime,      \* retention_days of the policy
    ExportAllowed,      \* export_allowed of the policy
    MaxCustodyEvents,   \* bound: events of a case
    Clients,            \* holders of a case object
    NoCase              \* no case, and no custodian

ASSUME CustodyAssumption ==
    /\ CaseTimes \subseteq Nat /\ Levels \subseteq Nat /\ PolicyLevel \in Levels
    /\ RetentionTime \in Nat \ {0}
    /\ ExportAllowed \in BOOLEAN
    /\ MaxCustodyEvents \in Nat

VARIABLES
    draft,              \* draft[c]: the case client c has read or built
    caseCopy,           \* the case in the store object
    caseFile            \* the case in the store's file

custodyVars == <<draft, caseCopy, caseFile>>

CustodyInit ==
    /\ draft = [c \in Clients |-> NoCase]
    /\ caseCopy = NoCase
    /\ caseFile = NoCase

-----------------------------------------------------------------------------
Event(type, e, at, actor, to) ==
    [type |-> type, evidence |-> e, at |-> at, actor |-> actor, to |-> to]

Origins == {"ingested", "derived"}

\* The last custodian that an event at one of these indices gave e to.
HolderAmong(events, indices, e) ==
    LET given == {i \in indices : events[i].evidence = e}
    IN  IF given = {} THEN NoCase ELSE events[Max(given)].to

Holder(events, e) == HolderAmong(events, DOMAIN events, e)

\* current_custodian with its cutoff.
UpTo(events, at) == {i \in DOMAIN events : events[i].at <= at}
CustodianAt(case, e, at) == HolderAmong(case.events, UpTo(case.events, at), e)

\* One event against the history before it.
ValidEvent(case, i) ==
    LET event == case.events[i]
        before == SubSeq(case.events, 1, i - 1)
        e == event.evidence
    IN  /\ \A j \in DOMAIN before : before[j].at <= event.at
        /\ event.type \in Origins =>
            /\ Holder(before, e) = NoCase
            /\ e \in DOMAIN case.items
            /\ case.items[e].from = event.at
            /\ (event.type = "derived") = (case.items[e].parents # {})
            /\ \A p \in case.items[e].parents : Holder(before, p) # NoCase
        /\ event.type = "transferred" =>
            /\ Holder(before, e) = event.actor
            /\ event.actor # NoCase
            /\ event.to # event.actor

\* EvidenceCustodyCase.__post_init__ and _validate_events.
ValidCase(case) ==
    /\ \A e \in DOMAIN case.items :
        /\ case.items[e].level >= PolicyLevel
        /\ case.items[e].parents \subseteq DOMAIN case.items \ {e}
    /\ \A i \in DOMAIN case.events : ValidEvent(case, i)
    /\ {case.events[i].evidence : i \in {j \in DOMAIN case.events :
            case.events[j].type \in Origins}} = DOMAIN case.items

-----------------------------------------------------------------------------
Extended(case, event, items) == [items |-> items, events |-> Append(case.events, event)]

Drafted(c, case) ==
    /\ ValidCase(case)
    /\ Len(case.events) <= MaxCustodyEvents
    /\ draft' = [draft EXCEPT ![c] = case]
    /\ UNCHANGED <<caseCopy, caseFile>>

Item(at, level, parents) == [from |-> at, level |-> level, parents |-> parents]

\* EvidenceCustodyCase.create
CreateCase(c, e, at, level, custodian) ==
    /\ draft[c] = NoCase
    /\ Drafted(c, [items |-> [x \in {e} |-> Item(at, level, {})],
                   events |-> <<Event("ingested", e, at, custodian, custodian)>>])

\* add_record
AddRecord(c, e, at, level, parents, custodian) ==
    /\ draft[c] # NoCase
    /\ e \notin DOMAIN draft[c].items
    /\ parents \subseteq DOMAIN draft[c].items
    /\ level >= PolicyLevel
    /\ Drafted(c, Extended(draft[c],
            Event(IF parents = {} THEN "ingested" ELSE "derived", e, at, custodian, custodian),
            [x \in DOMAIN draft[c].items \cup {e} |->
                IF x = e THEN Item(at, level, parents) ELSE draft[c].items[x]]))

\* transfer: only by the custodian at that time.
Transfer(c, e, at, actor, to) ==
    /\ draft[c] # NoCase
    /\ e \in DOMAIN draft[c].items
    /\ CustodianAt(draft[c], e, at) = actor
    /\ to # actor
    /\ Drafted(c, Extended(draft[c], Event("transferred", e, at, actor, to), draft[c].items))

\* retention_status and _assert_exportable
Exportable(case, at) ==
    /\ ExportAllowed
    /\ \A e \in DOMAIN case.items : at < case.items[e].from + RetentionTime

\* export: the event is part of the case in the bundle; storing it is another call.
\* Who exports is recorded and never looked at.
Export(c, at) ==
    /\ draft[c] # NoCase
    /\ Exportable(draft[c], at)
    /\ Drafted(c, Extended(draft[c], Event("exported", NoCase, at, NoCase, NoCase), draft[c].items))

-----------------------------------------------------------------------------
\* FileCustodyStore: reading, creating and advancing.
ReadCase(c) ==
    /\ caseCopy # NoCase
    /\ draft' = [draft EXCEPT ![c] = caseCopy]
    /\ UNCHANGED <<caseCopy, caseFile>>

PersistCase(c) ==
    /\ caseCopy' = draft[c]
    /\ caseFile' \in {draft[c], caseFile}
    /\ UNCHANGED draft

StoreCreate(c) ==
    /\ draft[c] # NoCase
    /\ caseCopy = NoCase
    /\ PersistCase(c)

\* Mutant: the history offered need not begin with the one stored.
AppendOnlyByLength(old, new) == Len(new.events) > Len(old.events)

\* advance: no item changed or removed, and the old history is a prefix.
AppendOnly(old, new) ==
    /\ \A e \in DOMAIN old.items : e \in DOMAIN new.items /\ new.items[e] = old.items[e]
    /\ IsPrefix(old.events, new.events)

\* An equal case is accepted too, and writes nothing.
StoreAdvance(c) ==
    /\ NoCase \notin {draft[c], caseCopy}
    /\ draft[c] # caseCopy
    /\ AppendOnly(caseCopy, draft[c])
    /\ PersistCase(c)

\* The store's process dies and the file is loaded again; clients keep their cases.
RestartStore ==
    /\ caseCopy' = caseFile
    /\ UNCHANGED <<draft, caseFile>>

CustodyNext ==
    \/ \E c \in Clients :
        \/ \E at \in CaseTimes, actor \in Custodians :
            \/ \E e \in CaseEvidence, level \in Levels :
                \/ CreateCase(c, e, at, level, actor)
                \/ \E parents \in SUBSET CaseEvidence : AddRecord(c, e, at, level, parents, actor)
            \/ \E e \in CaseEvidence, to \in Custodians : Transfer(c, e, at, actor, to)
        \/ \E at \in CaseTimes : Export(c, at)
        \/ ReadCase(c)
        \/ StoreCreate(c)
        \/ StoreAdvance(c)
    \/ RestartStore

CustodySpec == CustodyInit /\ [][CustodyNext]_custodyVars

-----------------------------------------------------------------------------
\* Who held an evidence item at a time the file's history has passed is settled:
\* whatever clients build from older copies, whatever writes fail and however
\* often the store restarts, current_custodian(at=t) on the stored case answers
\* the same from then on (transfer, _validate_events, advance).
PastCustodyIsSettled ==
    [][caseFile # NoCase =>
        /\ caseFile' # NoCase
        /\ \A e \in DOMAIN caseFile.items, t \in CaseTimes :
            t < Last(caseFile.events).at =>
                CustodianAt(caseFile', e, t) = CustodianAt(caseFile, e, t)]_custodyVars

=============================================================================
