------------------------------ MODULE CheckPacks ------------------------------
(***************************************************************************)
(* The managed check-pack lifecycle: replay protection for signed feeds    *)
(* (check_feed_state.py), the local store of signed pack versions          *)
(* (check_pack_store.py) and the synchronisation that drives both          *)
(* (check_pack_manager.py).                                                *)
(*                                                                         *)
(* Everything is a file that is read, and replaced atomically: one per     *)
(* pack version, one state file per pack, one for the feed.  Nothing locks *)
(* them, so each read and each replacement is a step of its own; a         *)
(* replacement may fail and the command may die between any two.           *)
(*                                                                         *)
(* Signatures are checked before a feed or a pack enters this model; a     *)
(* pack's content stands for its SHA-256.                                  *)
(***************************************************************************)
EXTENDS Naturals, Sequences, FiniteSets, SequencesExt

CONSTANTS
    Commands,       \* concurrent invocations of the command line
    Packs,          \* pack identifiers
    Versions,       \* version names
    PackContents,       \* signed contents
    Feeds,          \* signed manifests, [time, packs] with distinct packs
    MaxHistory,     \* bound on the length of a history
    NoPack            \* absent

Entries == [pack: Packs, version: Versions, sha256: PackContents]

ASSUME FeedAssumption ==
    /\ \A f \in Feeds :
          /\ f.time \in Nat
          /\ f.packs \in Seq(Entries)
          /\ \A i, j \in DOMAIN f.packs : f.packs[i].pack = f.packs[j].pack => i = j
    /\ MaxHistory \in Nat
    /\ NoPack \notin Versions \cup PackContents

VARIABLES
    feed,           \* the accepted generation, [time, digest] as the manifest
    version,        \* version[p][v]: content of the file of p's version v
    state,          \* state[p]: active version and history of p
    job             \* job[c]: what the command c is doing

packVars == <<feed, version, state, job>>

Idle == [step |-> "idle"]
Step(c) == job[c].step
Entry(c) == Head(job[c].todo)

PacksInit ==
    /\ feed = NoPack
    /\ version = [p \in Packs |-> [v \in Versions |-> NoPack]]
    /\ state = [p \in Packs |-> [active |-> NoPack, history |-> <<>>]]
    /\ job = [c \in Commands |-> Idle]

GoTo(c, where) == job' = [job EXCEPT ![c].step = where]
Exit(c) == job' = [job EXCEPT ![c] = Idle]

\* A synchronisation notes the failure of one pack and goes on with the next;
\* the installation of one pack raises.
EntryFails(c) ==
    IF job[c].sync
    THEN job' = [job EXCEPT ![c].step = "entry", ![c].todo = Tail(@), ![c].ok = FALSE]
    ELSE Exit(c)
EntryDone(c) == job' = [job EXCEPT ![c].step = "entry", ![c].todo = Tail(@)]

-----------------------------------------------------------------------------
\* sync_check_feed takes every pack of a verified manifest, install_pack_from_feed
\* the one that was named, if the feed advertises it.
Begin(c, f, todo, sync) ==
    /\ job[c] = Idle
    /\ job' = [job EXCEPT ![c] = [step |-> "validate", feed |-> f, todo |-> todo,
                                  sync |-> sync, ok |-> TRUE, seen |-> NoPack]]
    /\ UNCHANGED <<feed, version, state>>

BeginSync(c, f) == Begin(c, f, f.packs, TRUE)
BeginInstall(c, f, p) ==
    \/ \E i \in DOMAIN f.packs : f.packs[i].pack = p /\ Begin(c, f, <<f.packs[i]>>, FALSE)
    \/ (\A i \in DOMAIN f.packs : f.packs[i].pack # p) /\ Begin(c, f, <<>>, FALSE)

\* validate: not older, and not another manifest of the same instant.
NotAReplay(f) == feed = NoPack \/ f.time > feed.time \/ f = feed

ValidateFeed(c) ==
    /\ Step(c) = "validate"
    /\ IF NotAReplay(job[c].feed) THEN GoTo(c, "accept") ELSE Exit(c)
    /\ UNCHANGED <<feed, version, state>>

\* The rest of accept: the file is read once more and replaced unless it already
\* holds this generation.
AcceptFeed(c) ==
    /\ Step(c) = "accept"
    /\ \/ feed' = job[c].feed /\ GoTo(c, "entry")
       \/ feed # job[c].feed /\ Exit(c) /\ UNCHANGED feed
    /\ UNCHANGED <<version, state>>

\* The next pack.  A synchronisation only checks the file of an active version;
\* otherwise the artifact is fetched, which may fail.
NextEntry(c) ==
    /\ Step(c) = "entry"
    /\ job[c].todo # <<>>
    /\ IF job[c].sync /\ state[Entry(c).pack].active = Entry(c).version
       THEN IF version[Entry(c).pack][Entry(c).version] = Entry(c).sha256
            THEN EntryDone(c) ELSE EntryFails(c)
       ELSE GoTo(c, "store") \/ EntryFails(c)
    /\ UNCHANGED <<feed, version, state>>

Report(c) ==
    /\ Step(c) = "entry"
    /\ job[c].todo = <<>>
    /\ GoTo(c, "report")
    /\ UNCHANGED <<feed, version, state>>

Return(c) ==
    /\ Step(c) = "report"
    /\ Exit(c)
    /\ UNCHANGED <<feed, version, state>>

\* Mutant: the file of a version is rewritten.
StoreCheckOverwrite(c) ==
    /\ Step(c) = "store"
    /\ GoTo(c, "write")
    /\ UNCHANGED <<feed, version, state>>

\* install_signed_pack: a stored version is immutable ...
StoreCheck(c) ==
    /\ Step(c) = "store"
    /\ LET stored == version[Entry(c).pack][Entry(c).version] IN
       IF stored = NoPack THEN GoTo(c, "write")
       ELSE IF stored = Entry(c).sha256 THEN GoTo(c, "state")
       ELSE EntryFails(c)
    /\ UNCHANGED <<feed, version, state>>

\* Mutant: the state names the version before its file is there.
StoreWriteLater(c) ==
    /\ Step(c) = "write"
    /\ GoTo(c, "state")
    /\ UNCHANGED <<feed, version, state>>

\* ... a new one is written before the state names it ...
StoreWrite(c) ==
    /\ Step(c) = "write"
    /\ \/ /\ version' = [version EXCEPT ![Entry(c).pack][Entry(c).version] = Entry(c).sha256]
          /\ GoTo(c, "state")
       \/ EntryFails(c) /\ UNCHANGED version
    /\ UNCHANGED <<feed, state>>

ReadState(c) ==
    /\ Step(c) = "state"
    /\ IF state[Entry(c).pack].active = Entry(c).version
       THEN EntryDone(c)
       ELSE job' = [job EXCEPT ![c].step = "activate", ![c].seen = state[Entry(c).pack]]
    /\ UNCHANGED <<feed, version, state>>

\* ... and the version it replaces is remembered.
Activate(c) ==
    LET seen == job[c].seen IN
    /\ Step(c) = "activate"
    /\ Len(seen.history) < MaxHistory
    /\ \/ /\ state' = [state EXCEPT ![Entry(c).pack] =
               [active  |-> Entry(c).version,
                history |-> IF seen.active = NoPack THEN seen.history
                            ELSE Append(seen.history, seen.active)]]
          /\ EntryDone(c)
       \/ EntryFails(c) /\ UNCHANGED state
    /\ UNCHANGED <<feed, version>>

\* rollback_verified: the previous version is read and verified, then made
\* active.  A file that is missing or no longer verifies is refused.
RollbackRead(c, p) ==
    /\ job[c] = Idle
    /\ state[p].history # <<>>
    /\ version[p][Last(state[p].history)] # NoPack
    /\ job' = [job EXCEPT ![c] = [step |-> "rollback", pack |-> p, seen |-> state[p]]]
    /\ UNCHANGED <<feed, version, state>>

RollbackWrite(c) ==
    /\ Step(c) = "rollback"
    /\ \/ state' = [state EXCEPT ![job[c].pack] =
            [active |-> Last(job[c].seen.history), history |-> Front(job[c].seen.history)]]
       \/ UNCHANGED state
    /\ Exit(c)
    /\ UNCHANGED <<feed, version>>

Crash(c) ==
    /\ job[c] # Idle
    /\ Exit(c)
    /\ UNCHANGED <<feed, version, state>>

Start(c) ==
    \/ \E f \in Feeds : BeginSync(c, f) \/ \E p \in Packs : BeginInstall(c, f, p)
    \/ \E p \in Packs : RollbackRead(c, p)

Continue(c) ==
    \/ ValidateFeed(c) \/ AcceptFeed(c) \/ NextEntry(c) \/ Report(c) \/ Return(c)
    \/ StoreCheck(c) \/ StoreWrite(c) \/ ReadState(c) \/ Activate(c)
    \/ RollbackWrite(c) \/ Crash(c)

\* One command at a time, and commands that overlap.
SerialSync ==
    \E c \in Commands : ((\A d \in Commands : job[d] = Idle) /\ Start(c)) \/ Continue(c)
ConcurrentSync == \E c \in Commands : Start(c) \/ Continue(c)

SerialPacksSpec == PacksInit /\ [][SerialSync]_packVars
ConcurrentPacksSpec == PacksInit /\ [][ConcurrentSync]_packVars

-----------------------------------------------------------------------------
\* Types.
PacksTypeOK ==
    /\ feed \in Feeds \cup {NoPack}
    /\ version \in [Packs -> [Versions -> PackContents \cup {NoPack}]]
    /\ \A p \in Packs :
          /\ state[p].active \in Versions \cup {NoPack}
          /\ state[p].history \in Seq(Versions)
          /\ Len(state[p].history) <= MaxHistory
          /\ state[p].active = NoPack => state[p].history = <<>>

\* The version a state names, and every version it could be rolled back to, is
\* on disk: whatever fails, dies or overlaps between the two files, which stay
\* well formed.
NamedVersionsAreStored ==
    /\ PacksTypeOK
    /\ \A p \in Packs : \A v \in {state[p].active} \cup ToSet(state[p].history) :
          v # NoPack => version[p][v] # NoPack

\* A rollback changes the version: the history never repeats a version next to
\* itself nor ends with the active one, also when two commands overlap.
HistoryIsATrail ==
    \A p \in Packs :
        LET trail == Append(state[p].history, state[p].active) IN
        \A i \in 1 .. (Len(trail) - 1) : trail[i] # trail[i + 1]

\* A stored version never changes or goes away.
VersionsAreImmutable ==
    [][\A p \in Packs, v \in Versions :
         version[p][v] # NoPack => version'[p][v] = version[p][v]]_packVars

\* The accepted generation never goes back, and never becomes another manifest
\* of the same instant.
FeedNeverGoesBack ==
    [][feed # NoPack => feed' = feed \/ feed'.time > feed.time]_packVars

\* A synchronisation that reports no failure leaves every advertised pack active
\* in exactly the advertised content.
SyncedPacksMatchTheFeed ==
    \A c \in Commands :
        Step(c) = "report" /\ job[c].sync /\ job[c].ok =>
            \A i \in DOMAIN job[c].feed.packs :
                LET e == job[c].feed.packs[i] IN
                state[e.pack].active = e.version /\ version[e.pack][e.version] = e.sha256

\* The files of a pack agree with each other, whatever fails or overlaps.
PackStateIsConsistent == NamedVersionsAreStored /\ HistoryIsATrail

\* Neither a stored version nor the accepted feed is ever taken back.
PackRecordsNeverGoBack == VersionsAreImmutable /\ FeedNeverGoesBack

=============================================================================
