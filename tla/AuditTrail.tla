----------------------------- MODULE AuditTrail -----------------------------
(***************************************************************************)
(* The White Night audit trails (audit_log.py) and the FileAuditStore that *)
(* keeps them all in one file.                                             *)
(*                                                                         *)
(* A trail is immutable: append builds a longer one, and building one      *)
(* replays its events.  Writers work on the trail they last built or read  *)
(* and offer it to the store, which takes only an extension of what its    *)
(* memory has.  The store changes its memory first and then replaces the   *)
(* file; when the replacement fails, memory stays ahead of the file until  *)
(* the next write of any trail, or until the store is opened again.        *)
(*                                                                         *)
(* Fingerprints are taken to be injective.                                 *)
(***************************************************************************)
EXTENDS Naturals, SequencesExt

CONSTANTS
    Trails,             \* trail identifiers
    EventIds,
    AuditTimes,         \* times an event may be given
    AuditWriters        \* holders of a trail object

ASSUME AuditAssumption == AuditTimes \subseteq Nat

VARIABLES
    trailDraft,         \* trailDraft[w]: the trail writer w has, and its events
    auditMemory,        \* the store's trails: their events
    auditFile           \* the trails in the store's file

auditVars == <<trailDraft, auditMemory, auditFile>>

NoTrail == [trail |-> "none", events |-> <<>>]

AuditInit ==
    /\ trailDraft = [w \in AuditWriters |-> NoTrail]
    /\ auditMemory = [t \in Trails |-> <<>>]
    /\ auditFile = [t \in Trails |-> <<>>]

\* AuditTrail.__post_init__: the replay.
ValidTrail(events) ==
    /\ events # <<>>
    /\ \A i, j \in DOMAIN events : i < j =>
        /\ events[i].id # events[j].id
        /\ events[i].at <= events[j].at

Drafts(w, t, events) ==
    /\ ValidTrail(events)
    /\ trailDraft' = [trailDraft EXCEPT ![w] = [trail |-> t, events |-> events]]
    /\ UNCHANGED <<auditMemory, auditFile>>

\* AuditTrail.create
CreateTrail(w, t, event) == Drafts(w, t, <<event>>)

\* AuditTrail.append
AppendEvent(w, event) ==
    /\ trailDraft[w] # NoTrail
    /\ Drafts(w, trailDraft[w].trail, Append(trailDraft[w].events, event))

ReadTrail(w, t) ==
    /\ auditMemory[t] # <<>>
    /\ trailDraft' = [trailDraft EXCEPT ![w] = [trail |-> t, events |-> auditMemory[t]]]
    /\ UNCHANGED <<auditMemory, auditFile>>

\* _persist writes every trail of the memory, or nothing.
PersistTrails(memory) ==
    /\ auditMemory' = memory
    /\ auditFile' \in {memory, auditFile}
    /\ UNCHANGED trailDraft

\* FileAuditStore.create: an existing equal trail is accepted and not written.
StoreTrail(w) ==
    LET d == trailDraft[w]
    IN  /\ d # NoTrail
        /\ auditMemory[d.trail] = <<>>
        /\ PersistTrails([auditMemory EXCEPT ![d.trail] = d.events])

\* Mutant: a longer history is taken for an extension.
ExtendsByLength(old, new) == Len(old) <= Len(new)

Extends(old, new) == IsPrefix(old, new)

\* FileAuditStore.advance: an equal trail is accepted and not written.
AdvanceTrail(w) ==
    LET d == trailDraft[w]
    IN  /\ d # NoTrail
        /\ auditMemory[d.trail] \notin {<<>>, d.events}
        /\ Extends(auditMemory[d.trail], d.events)
        /\ PersistTrails([auditMemory EXCEPT ![d.trail] = d.events])

\* The store is opened again and loads the file.
ReopenTrails ==
    /\ auditMemory' = auditFile
    /\ UNCHANGED <<trailDraft, auditFile>>

AuditNext ==
    \/ \E w \in AuditWriters :
        \/ \E id \in EventIds, at \in AuditTimes :
            LET event == [id |-> id, at |-> at]
            IN  \/ \E t \in Trails : CreateTrail(w, t, event)
                \/ AppendEvent(w, event)
        \/ \E t \in Trails : ReadTrail(w, t)
        \/ StoreTrail(w)
        \/ AdvanceTrail(w)
    \/ ReopenTrails

AuditSpec == AuditInit /\ [][AuditNext]_auditVars

-----------------------------------------------------------------------------
\* Every trail in the file only ever gets longer and stays one the loader
\* accepts, whichever writers offer stale trails, whichever writes fail, and
\* however a failed write of one trail is carried out by a later write of
\* another (InMemoryAuditStore.advance, FileAuditStore._persist, _load).
StoredTrailsOnlyExtend ==
    [][\A t \in Trails :
        /\ IsPrefix(auditFile[t], auditFile'[t])
        /\ auditFile'[t] # <<>> => ValidTrail(auditFile'[t])]_auditVars
=============================================================================
