--------------------------- MODULE ObjectiveQueue ---------------------------
(***************************************************************************)
(* The objective controller of tools/task_automation: one approved         *)
(* objective in the ObjectiveQueue, controllers that run it                *)
(* (ObjectiveService.run) and the remote repository behind the             *)
(* GitHubGateway.                                                          *)
(*                                                                         *)
(* A run holds the record its last queue transaction returned, and every   *)
(* update is refused unless that record is still the queue's, its lease is *)
(* running and the deadline has not passed.  Before each remote call the   *)
(* run stores an intent.  Calls take time, may fail, and may do their work *)
(* and lose the answer; a run may die anywhere.  A run that finds an       *)
(* intent it did not store blocks the objective.                           *)
(*                                                                         *)
(* Signatures, digests, file contents and the event chain are left out: a  *)
(* commit is its batch and the lease generation that made it.  Tokens and  *)
(* cost are reserved with the attempt and bounded the same way, so         *)
(* MaxAttempts stands for the three limits.                                *)
(***************************************************************************)
EXTENDS Naturals, FiniteSetsExt, SequencesExt

CONSTANTS
    Controllers,        \* processes that call run
    MaxBatches,         \* limits.max_batches
    MaxRepairs,         \* limits.max_repairs_per_batch
    MaxAttempts,        \* limits.max_attempts
    MaxPolls,           \* polls of the merge gate; 60 in the code
    LeaseTime,          \* lease_seconds
    Deadline,           \* deadline of the record
    MaxTime,            \* bound: the last tick of the clock
    ReleaseAuthorized   \* release_authorized of the approval

ASSUME ObjectiveAssumption ==
    /\ {MaxBatches, MaxAttempts, MaxPolls, LeaseTime, Deadline} \subseteq Nat \ {0}
    /\ MaxRepairs \in Nat /\ MaxTime \in Nat
    /\ ReleaseAuthorized \in BOOLEAN

VARIABLES
    objective,          \* the record of the objective in the queue
    service,            \* service[c]: where the run of controller c is, and its record
    remote,             \* the objective branch, the merge and the release
    workerCalls,        \* calls of the planning and implementation worker
    objectiveTime       \* the clock

objectiveVars == <<objective, service, remote, workerCalls, objectiveTime>>

NoOne == "nobody"
Terminal == {"completed", "failed", "blocked"}

\* The record enqueue stores.
Enqueued ==
    [state |-> "pending", version |-> 0, batch |-> 0, repairs |-> 0, attempts |-> 0,
     owner |-> NoOne, generation |-> 0, until |-> 0, intent |-> "none",
     plan |-> 0, commits |-> <<>>, merged |-> FALSE, released |-> FALSE]

\* A controller with no run; of a run: where it is, the record and the plan it
\* holds, the repairs of the batch and the polls of the merge gate.
Idle == [at |-> "idle", rec |-> Enqueued, plan |-> 0, tries |-> 0, polls |-> 0]

ObjectiveInit ==
    /\ objective = Enqueued
    /\ service = [c \in Controllers |-> Idle]
    /\ remote = [branch |-> <<>>, merged |-> FALSE, release |-> "none"]
    /\ workerCalls = 0
    /\ objectiveTime = 0

ObjectiveTick ==
    /\ objectiveTime < MaxTime
    /\ objectiveTime' = objectiveTime + 1
    /\ UNCHANGED <<objective, service, remote, workerCalls>>

-----------------------------------------------------------------------------
(* The queue's transactions.                                               *)

\* ObjectiveQueue.expire: the record it leaves.
Expired(r, now) ==
    LET uncertain == r.intent # "none" /\ 0 < r.until /\ r.until <= now
    IN  IF r.state \notin Terminal /\ (now >= Deadline \/ uncertain)
        THEN [r EXCEPT !.state = "blocked", !.version = @ + 1]
        ELSE r

Claimable(r, now) ==
    /\ r.state \notin Terminal
    /\ now < Deadline
    /\ r.until <= now

\* A new lease, with the next generation.
Leased(r, c, now) ==
    [r EXCEPT !.owner = c,
              !.generation = @ + 1,
              !.until = Min({now + LeaseTime, Deadline}),
              !.state = IF @ = "pending" THEN "admitted" ELSE @,
              !.version = @ + 1]

\* ObjectiveQueue.claim: the record it leaves.
Claimed(r, c, now) ==
    IF r.intent # "none"
    THEN [r EXCEPT !.state = "blocked", !.version = @ + 1]
    ELSE Leased(r, c, now)

Edges(state) ==
    CASE state = "admitted"   -> {"running", "blocked", "failed"}
      [] state = "running"    -> {"running", "validating", "blocked", "failed"}
      [] state = "validating" -> {"validating", "running", "repairing", "blocked",
                                  "failed", "completed"}
      [] state = "repairing"  -> {"repairing", "validating", "blocked", "failed"}
      [] OTHER                -> {}

\* ObjectiveQueue.update accepts new from a run that holds the record h.
Accepts(r, h, new, now) ==
    /\ r.state \notin Terminal
    /\ r.owner = h.owner /\ r.generation = h.generation /\ r.version = h.version
    /\ now < r.until
    /\ now < Deadline
    /\ r.attempts <= new.attempts /\ new.attempts <= MaxAttempts
    /\ r.batch <= new.batch /\ new.batch <= MaxBatches
    /\ new.repairs <= MaxRepairs
    /\ new.state \in Edges(r.state)
    /\ new.until <= Deadline

Held(c) == service[c].rec

\* A run that stores an intent before a call, or the result after it.  new is
\* the record with its changes; then is where the run goes on.
Update(c, new, then) ==
    /\ Accepts(objective, Held(c), new, objectiveTime)
    /\ objective' = [new EXCEPT !.version = @ + 1]
    /\ service' = [service EXCEPT ![c] =
                      [then EXCEPT !.rec = [new EXCEPT !.version = @ + 1]]]

\* _blocked: the objective is blocked with its intent kept, or, when the
\* lease is lost, expired if it may be.
Blocked(c) ==
    LET new == [Held(c) EXCEPT !.state = "blocked"]
    IN  /\ objective' = IF Accepts(objective, Held(c), new, objectiveTime)
                        THEN [new EXCEPT !.version = @ + 1]
                        ELSE Expired(objective, objectiveTime)
        /\ service' = [service EXCEPT ![c] = Idle]

\* The recovery poll.
Expire ==
    /\ objective' = Expired(objective, objectiveTime)
    /\ objective' # objective
    /\ UNCHANGED <<service, remote, workerCalls, objectiveTime>>

-----------------------------------------------------------------------------
(* ObjectiveService.run.                                                   *)

At(c, place) == service[c].at = place

ServiceGoes(c, place) == [service[c] EXCEPT !.at = place]

\* A queue update of the run, refused when it is stale.
Transaction(c, place, new, next) ==
    /\ At(c, place)
    /\ \/ Update(c, new, next)
       \/ /\ ~Accepts(objective, Held(c), new, objectiveTime)
          /\ Blocked(c)
    /\ UNCHANGED <<remote, workerCalls, objectiveTime>>

StartRun(c) ==
    /\ At(c, "idle")
    /\ objective' = Expired(objective, objectiveTime)
    /\ service' = [service EXCEPT ![c] =
                      IF objective'.state = "blocked" THEN Idle ELSE [Idle EXCEPT !.at = "claim"]]
    /\ UNCHANGED <<remote, workerCalls, objectiveTime>>

\* The claim, refused while another lease runs.
Claim(c) ==
    /\ At(c, "claim")
    /\ IF Claimable(objective, objectiveTime)
       THEN /\ objective' = Claimed(objective, c, objectiveTime)
            /\ service' = [service EXCEPT ![c] =
                    IF objective'.state = "blocked"
                    THEN Idle
                    ELSE [Idle EXCEPT !.at = "start", !.rec = objective']]
       ELSE /\ service' = [service EXCEPT ![c] = Idle]
            /\ UNCHANGED objective
    /\ UNCHANGED <<remote, workerCalls, objectiveTime>>

\* The gates before any work, then the first update.  A run that finds
\* published batches goes on with their plan if the branch still ends with
\* the last of them; one that finds none starts again, with a plan the
\* caller gives or asks for.
Start(c) ==
    LET h == Held(c)
        resumes == h.commits # <<>>
    IN  /\ At(c, "start")
        /\ IF h.merged \/ (resumes /\ remote.branch # h.commits)
           THEN Blocked(c) /\ UNCHANGED <<remote, workerCalls, objectiveTime>>
           ELSE \E given \in 0 .. MaxBatches :
                   /\ resumes => given = 0
                   /\ Transaction(c, "start", [h EXCEPT !.state = "running"],
                        [ServiceGoes(c, IF resumes \/ given > 0 THEN "freeze" ELSE "budget")
                            EXCEPT !.plan = IF resumes THEN h.plan ELSE given])

\* reserve_attempt, before the planning call and before each implementation.
Reserved(h) == [h EXCEPT !.attempts = @ + 1]

ReservePlanning(c) == Transaction(c, "budget", Reserved(Held(c)), ServiceGoes(c, "plan intent"))

PlanningIntent(c) ==
    Transaction(c, "plan intent", [Held(c) EXCEPT !.intent = "planning"], ServiceGoes(c, "plan"))

\* worker.plan and validate_plan; the plan is in the run until it is frozen.
AskForPlan(c) ==
    /\ At(c, "plan")
    /\ workerCalls' = workerCalls + 1
    /\ \/ \E n \in 1 .. MaxBatches :
            /\ service' = [service EXCEPT ![c].at = "freeze", ![c].plan = n]
            /\ UNCHANGED objective
       \/ Blocked(c)
    /\ UNCHANGED <<remote, objectiveTime>>

FreezePlan(c) ==
    Transaction(c, "freeze", [Held(c) EXCEPT !.plan = service[c].plan, !.intent = "none"],
                ServiceGoes(c, "batch"))

\* The next batch, or the acceptance of the whole objective.
ReserveImplementation(c) ==
    /\ At(c, "batch")
    /\ Held(c).batch < Held(c).plan
    /\ Transaction(c, "batch", Reserved(Held(c)), ServiceGoes(c, "implement intent"))

ImplementationIntent(c) ==
    Transaction(c, "implement intent", [Held(c) EXCEPT !.intent = "implementation"],
                ServiceGoes(c, "implement"))

Implement(c) ==
    /\ At(c, "implement")
    /\ workerCalls' = workerCalls + 1
    /\ \/ service' = [service EXCEPT ![c].at = "candidate"] /\ UNCHANGED objective
       \/ Blocked(c)
    /\ UNCHANGED <<remote, objectiveTime>>

FreezeCandidate(c) ==
    Transaction(c, "candidate", [Held(c) EXCEPT !.state = "validating",
                                    !.repairs = service[c].tries, !.intent = "validation"],
                ServiceGoes(c, "validate"))

\* The verdict verify_receipt and the scope check give on a candidate.
Verdicts == {"passed", "failed", "refused"}

Validate(c) ==
    /\ At(c, "validate")
    /\ \E verdict \in Verdicts :
        \/ /\ verdict = "passed"
           /\ service' = [service EXCEPT ![c].at = "publish intent"]
           /\ UNCHANGED objective
        \/ /\ verdict = "failed"
           /\ service[c].tries < MaxRepairs
           /\ service' = [service EXCEPT ![c].at = "repair"]
           /\ UNCHANGED objective
        \/ /\ verdict = "failed" => service[c].tries >= MaxRepairs
           /\ verdict # "passed"
           /\ Blocked(c)
    /\ UNCHANGED <<remote, workerCalls, objectiveTime>>

RequestRepair(c) ==
    Transaction(c, "repair", [Held(c) EXCEPT !.state = "repairing", !.repairs = service[c].tries + 1],
                [ServiceGoes(c, "batch") EXCEPT !.tries = @ + 1])

PublicationIntent(c) ==
    Transaction(c, "publish intent", [Held(c) EXCEPT !.intent = "commit_push"], ServiceGoes(c, "push"))

\* GitHubGateway.commit_push: the branch moves if it still is where the run
\* left it.  The call may fail before or after it moved.
CommitPush(c) ==
    LET h == Held(c)
        commit == [batch |-> h.batch + 1, generation |-> h.generation]
        moved == [remote EXCEPT !.branch = Append(@, commit)]
    IN  /\ At(c, "push")
        /\ \/ /\ remote.branch = h.commits
              /\ remote' = moved
              /\ \/ /\ service' = [service EXCEPT ![c].at = "pushed"]
                    /\ UNCHANGED objective
                 \/ Blocked(c)
           \/ Blocked(c) /\ UNCHANGED remote
        /\ UNCHANGED <<workerCalls, objectiveTime>>

BatchPublished(c) ==
    LET h == Held(c)
        commit == [batch |-> h.batch + 1, generation |-> h.generation]
    IN  Transaction(c, "pushed",
            [h EXCEPT !.state = "running", !.intent = "none", !.batch = @ + 1, !.repairs = 0,
                      !.commits = Append(@, commit)],
            [ServiceGoes(c, "batch") EXCEPT !.tries = 0])

StartAcceptance(c) ==
    /\ At(c, "batch")
    /\ Held(c).batch >= Held(c).plan
    /\ Transaction(c, "batch", [Held(c) EXCEPT !.state = "validating", !.intent = "acceptance"],
                   ServiceGoes(c, "accept"))

Accept(c) ==
    /\ At(c, "accept")
    /\ \/ service' = [service EXCEPT ![c].at = "merge intent"] /\ UNCHANGED objective
       \/ Blocked(c)
    /\ UNCHANGED <<remote, workerCalls, objectiveTime>>

MergeIntent(c) ==
    Transaction(c, "merge intent", [Held(c) EXCEPT !.intent = "merge"], ServiceGoes(c, "merge"))

\* GitHubGateway.merge, and the polls of the required checks.
Merge(c) ==
    LET h == Held(c)
    IN  /\ At(c, "merge")
        /\ \/ /\ remote.branch = h.commits
              /\ ~remote.merged
              /\ remote' = [remote EXCEPT !.merged = TRUE]
              /\ \/ service' = [service EXCEPT ![c].at = "merged"] /\ UNCHANGED objective
                 \/ Blocked(c)
           \/ Blocked(c) /\ UNCHANGED remote
        /\ UNCHANGED <<workerCalls, objectiveTime>>

WaitForChecks(c) ==
    LET renewed == [Held(c) EXCEPT !.until = Min({objectiveTime + LeaseTime, Deadline})]
    IN  /\ At(c, "merge")
        /\ service[c].polls < MaxPolls
        /\ Transaction(c, "merge", renewed, [service[c] EXCEPT !.polls = @ + 1])

MergeCompleted(c) ==
    Transaction(c, "merged", [Held(c) EXCEPT !.intent = "none", !.merged = TRUE],
                ServiceGoes(c, IF ReleaseAuthorized THEN "release intent" ELSE "complete"))

ReleaseIntent(c) ==
    Transaction(c, "release intent", [Held(c) EXCEPT !.intent = "release"], ServiceGoes(c, "release"))

\* GitHubGateway.release: a draft, its artifacts, then its publication.
Release(c) ==
    /\ At(c, "release")
    /\ \/ /\ remote.release = "none"
          /\ remote' = [remote EXCEPT !.release = "published"]
          /\ \/ service' = [service EXCEPT ![c].at = "released"] /\ UNCHANGED objective
             \/ Blocked(c)
       \/ /\ remote.release = "none"
          /\ remote' = [remote EXCEPT !.release = "draft"]
          /\ Blocked(c)
       \/ Blocked(c) /\ UNCHANGED remote
    /\ UNCHANGED <<workerCalls, objectiveTime>>

ReleaseCompleted(c) ==
    Transaction(c, "released", [Held(c) EXCEPT !.intent = "none", !.released = TRUE],
                ServiceGoes(c, "complete"))

Complete(c) ==
    Transaction(c, "complete", [Held(c) EXCEPT !.state = "completed", !.intent = "none"], Idle)

\* The controller's process dies.
ControllerDies(c) ==
    /\ ~At(c, "idle")
    /\ service' = [service EXCEPT ![c] = Idle]
    /\ UNCHANGED <<objective, remote, workerCalls, objectiveTime>>

ObjectiveNext ==
    \/ ObjectiveTick
    \/ Expire
    \/ \E c \in Controllers :
        \/ StartRun(c) \/ Claim(c) \/ Start(c) \/ ControllerDies(c)
        \/ ReservePlanning(c) \/ PlanningIntent(c) \/ AskForPlan(c) \/ FreezePlan(c)
        \/ ReserveImplementation(c) \/ ImplementationIntent(c) \/ Implement(c)
        \/ FreezeCandidate(c) \/ Validate(c) \/ RequestRepair(c)
        \/ PublicationIntent(c) \/ CommitPush(c) \/ BatchPublished(c)
        \/ StartAcceptance(c) \/ Accept(c)
        \/ MergeIntent(c) \/ Merge(c) \/ WaitForChecks(c) \/ MergeCompleted(c)
        \/ ReleaseIntent(c) \/ Release(c) \/ ReleaseCompleted(c) \/ Complete(c)

ObjectiveSpec == ObjectiveInit /\ [][ObjectiveNext]_objectiveVars

-----------------------------------------------------------------------------
(* What the remote repository shows is in the queue: each commit of the    *)
(* branch, the merge and the release is recorded, or is the one operation  *)
(* the stored intent names, and no worker was called without an attempt    *)
(* reserved for it.  So a crash, a lost answer or a lost lease never makes *)
(* a run repeat an operation (claim refuses a record with an intent,       *)
(* _blocked keeps it).                                                     *)
EffectsAreAccounted ==
    /\ \/ remote.branch = objective.commits
       \/ /\ objective.intent = "commit_push"
          /\ Front(remote.branch) = objective.commits
    /\ remote.merged => objective.merged \/ objective.intent = "merge"
    /\ remote.release # "none" => objective.released \/ objective.intent = "release"
    /\ objective.merged => remote.merged
    /\ workerCalls <= objective.attempts
=============================================================================
