--------------------------- MODULE AssessmentBatch ---------------------------
(***************************************************************************)
(* run_governed_assessment_batch (governed_assessment_batch.py): a few     *)
(* governed tool runs on a thread pool, one lock per engagement and target *)
(* and one cancellation event for all of them.                             *)
(*                                                                         *)
(* A task is a position of Batch.  The main thread queues and submits the  *)
(* tasks and collects their results; Ctrl-C reaches only the main thread.  *)
(* The tool run itself is execute_atomically_governed (modules             *)
(* CommandExecutor and PolicyAuthority), kept here only as far as its      *)
(* order matters: everything before the launch, the look at the event at   *)
(* the head of each poll, and the rest of a poll.                          *)
(***************************************************************************)
EXTENDS Naturals, Sequences, FiniteSets

CONSTANTS
    Batch,          \* sequence of [kind, engagement, target]
    Hosts,          \* literal IPv4 addresses, and labels of captures
    MaxWorkers,     \* size of the pool
    None            \* no result yet

Tasks == 1 .. Len(Batch)
Kinds == {"nmap", "tshark", "nuclei"}
\* A nuclei task names an HTTP origin, the others the target itself.
Origins == {"http", "https"} \X Hosts
Final == {"succeeded", "failed", "blocked", "cancelled", "timed-out"}

ASSUME BatchAssumption ==
    /\ MaxWorkers \in 1 .. 4
    /\ Hosts \cap Origins = {}
    /\ None \notin Final
    /\ Len(Batch) \in 1 .. 8
    /\ \A t \in Tasks :
          /\ Batch[t].kind \in Kinds
          /\ IF Batch[t].kind = "nuclei" THEN Batch[t].target \in Origins
                                         ELSE Batch[t].target \in Hosts

VARIABLES
    main,           \* where the main thread is
    submitted,      \* number of tasks given to the pool
    step,           \* step[t]: where the task's thread is
    lock,           \* lock[key]: the task that holds it, 0 when free
    stop,           \* the cancellation event
    events,         \* the list of <<task, status>> events
    result          \* result[t]: status of its GovernedTaskResult

vars == <<main, submitted, step, lock, stop, events, result>>

\* Mutant: the target as it is written.
target_lock_key_literal(t) == <<Batch[t].engagement, Batch[t].target>>

\* An HTTP origin is reduced to its host, so that both ways of naming a host
\* share a lock.
target_lock_key(t) ==
    <<Batch[t].engagement,
      IF Batch[t].kind = "nuclei" THEN Batch[t].target[2] ELSE Batch[t].target>>

LockKeys == {target_lock_key(t) : t \in Tasks}

\* Threads of the pool that are busy, and tasks whose tool may be running.
Busy == {t \in Tasks : step[t] \in {"locking", "check", "go", "launch", "poll", "wait"}}
Running == {t \in Tasks : step[t] \in {"go", "launch", "poll", "wait"}}

Init ==
    /\ main = "new"
    /\ submitted = 0
    /\ step = [t \in Tasks |-> "new"]
    /\ lock = [k \in LockKeys |-> 0]
    /\ stop = FALSE
    /\ events = <<>>
    /\ result = [t \in Tasks |-> None]

GoTo(t, where) == step' = [step EXCEPT ![t] = where]
emit(t, status) == events' = Append(events, <<t, status>>)

-----------------------------------------------------------------------------
\* The main thread.

QueueAll ==
    /\ main = "new"
    /\ main' = "submit"
    /\ events' = [t \in Tasks |-> <<t, "queued">>]
    /\ UNCHANGED <<submitted, step, lock, stop, result>>

Submit ==
    /\ main = "submit"
    /\ IF submitted < Len(Batch)
       THEN /\ submitted' = submitted + 1
            /\ GoTo(submitted', "queued")
            /\ UNCHANGED main
       ELSE main' = "collect" /\ UNCHANGED <<submitted, step>>
    /\ UNCHANGED <<lock, stop, events, result>>

\* Ctrl-C.  While the results are collected it sets the event; before that
\* nothing catches it.  Both ways the pool's exit waits for what was submitted.
Interrupt ==
    /\ main \in {"submit", "collect"}
    /\ main' = IF main = "collect" THEN "leaving" ELSE "aborting"
    /\ stop' = (stop \/ main = "collect")
    /\ UNCHANGED <<submitted, step, lock, events, result>>

\* Mutant: the exit waits for tasks that were never submitted, too.
LeaveWaitsForAll ==
    /\ main \in {"collect", "leaving", "aborting"}
    /\ IF \A t \in Tasks : step[t] = "done"
       THEN main' = IF main = "collect" THEN "returned" ELSE "raised"
       ELSE UNCHANGED main
    /\ UNCHANGED <<submitted, step, lock, stop, events, result>>

\* The pool is shut down once every submitted task is done.
Leave ==
    /\ main \in {"collect", "leaving", "aborting"}
    /\ \A t \in 1 .. submitted : step[t] = "done"
    /\ main' = IF main = "collect" THEN "returned" ELSE "raised"
    /\ UNCHANGED <<submitted, step, lock, stop, events, result>>

\* The caller's own event.
CancelRequested ==
    /\ main \in {"submit", "collect"}
    /\ ~stop
    /\ stop' = TRUE
    /\ UNCHANGED <<main, submitted, step, lock, events, result>>

-----------------------------------------------------------------------------
\* The threads of the pool.

\* A free thread takes the oldest task.
Take(t) ==
    /\ step[t] = "queued"
    /\ \A u \in 1 .. (t - 1) : step[u] # "queued"
    /\ Cardinality(Busy) < MaxWorkers
    /\ GoTo(t, "locking")
    /\ UNCHANGED <<main, submitted, lock, stop, events, result>>

Acquire(t) ==
    /\ step[t] = "locking"
    /\ lock[target_lock_key(t)] = 0
    /\ lock' = [lock EXCEPT ![target_lock_key(t)] = t]
    /\ GoTo(t, "check")
    /\ UNCHANGED <<main, submitted, stop, events, result>>

\* The last event, the result, and the end of the locked block.
Finish(t, status) ==
    /\ GoTo(t, "done")
    /\ emit(t, status)
    /\ lock' = [lock EXCEPT ![target_lock_key(t)] = 0]
    /\ result' = [result EXCEPT ![t] = status]

CheckStop(t) ==
    /\ step[t] = "check"
    /\ IF stop THEN Finish(t, "cancelled")
               ELSE GoTo(t, "go") /\ UNCHANGED <<lock, events, result>>
    /\ UNCHANGED <<main, submitted, stop>>

EmitRunning(t) ==
    /\ step[t] = "go"
    /\ GoTo(t, "launch")
    /\ emit(t, "running")
    /\ UNCHANGED <<main, submitted, lock, stop, result>>

\* The tool adapter up to the launch: refused, failed, or running.
Launch(t) ==
    /\ step[t] = "launch"
    /\ \/ \E status \in {"blocked", "failed"} : Finish(t, status)
       \/ GoTo(t, "poll") /\ UNCHANGED <<lock, events, result>>
    /\ UNCHANGED <<main, submitted, stop>>

\* The head of the executor's loop.
PollStop(t) ==
    /\ step[t] = "poll"
    /\ IF stop THEN Finish(t, "cancelled")
               ELSE GoTo(t, "wait") /\ UNCHANGED <<lock, events, result>>
    /\ UNCHANGED <<main, submitted, stop>>

\* The rest of a poll: revoked or unusable output ("blocked"), any other
\* failure, the deadline, the end of the process, or another round.
Wait(t) ==
    /\ step[t] = "wait"
    /\ \/ \E status \in Final \ {"cancelled"} : Finish(t, status)
       \/ GoTo(t, "poll") /\ UNCHANGED <<lock, events, result>>
    /\ UNCHANGED <<main, submitted, stop>>

\* The executor's deadline ends the loop in the end (module PolicyAuthority,
\* CallsEnd).
Expire(t) == step[t] = "wait" /\ Finish(t, "timed-out") /\ UNCHANGED <<main, submitted, stop>>

ThreadStep(t) ==
    \/ Take(t) \/ Acquire(t) \/ CheckStop(t) \/ EmitRunning(t)
    \/ Launch(t) \/ PollStop(t) \/ Wait(t)

\* The end of the batch; the process goes on to its report.
Over == main \in {"returned", "raised"} /\ UNCHANGED vars

Next ==
    \/ QueueAll \/ Submit \/ Interrupt \/ Leave \/ CancelRequested \/ Over
    \/ \E t \in Tasks : ThreadStep(t)

Spec == Init /\ [][Next]_vars

\* Threads run, a free lock is eventually taken, and a tool's deadline comes.
BatchFairness ==
    /\ WF_vars(Submit) /\ WF_vars(Leave)
    /\ \A t \in Tasks : WF_vars(ThreadStep(t)) /\ SF_vars(Expire(t))

FairSpec == Spec /\ WF_vars(QueueAll) /\ BatchFairness

-----------------------------------------------------------------------------
\* Types; a lock is held by exactly the task that is inside its locked block.
TypeOK ==
    /\ main \in {"new", "submit", "collect", "leaving", "aborting", "returned",
                "raised"}
    /\ submitted \in 0 .. Len(Batch)
    /\ step \in [Tasks -> {"new", "queued", "locking", "check", "go", "launch", "poll",
                           "wait", "done"}]
    /\ lock \in [LockKeys -> Tasks \cup {0}]
    /\ \A t \in Tasks :
          (lock[target_lock_key(t)] = t) = (step[t] \in {"check", "go", "launch", "poll", "wait"})
    /\ stop \in BOOLEAN
    /\ events \in Seq(Tasks \X (Final \cup {"queued", "running"}))
    /\ result \in [Tasks -> Final \cup {None}]

SameHost(t, u) ==
    LET Host(v) == IF Batch[v].target \in Origins THEN Batch[v].target[2] ELSE Batch[v].target
    IN  Batch[t].engagement = Batch[u].engagement /\ Host(t) = Host(u)

\* Two tools never work on the same host of an engagement at the same time,
\* whether they name it by address or by origin, and no thread keeps a lock.
HostsAreSerialized ==
    /\ TypeOK
    /\ \A t, u \in Running : SameHost(t, u) => t = u

\* The statuses of the task's events are these, in this order.
Tells(t, story) ==
    LET told == {i \in DOMAIN events : events[i][1] = t} IN
    /\ Cardinality(told) = Len(story)
    /\ \A i \in told : events[i][2] = story[Cardinality({j \in told : j <= i})]

\* The events an operator sees tell each task's story in order and agree with
\* its result: queued, then running, then one final status, or queued and
\* cancelled; a batch that returns has told all of them.
EventsTellTheTasks ==
    \A t \in Tasks :
        IF result[t] = None
        THEN /\ main # "returned"
             /\ \E story \in {<<>>, <<"queued">>, <<"queued", "running">>} : Tells(t, story)
        ELSE \/ Tells(t, <<"queued", "running", result[t]>>)
             \/ result[t] = "cancelled" /\ Tells(t, <<"queued", "cancelled">>)

\* After a cancellation, or a Ctrl-C while results are awaited, no task that is
\* not in the middle of a poll succeeds any more, although it may have passed
\* its own look at the event before.
CancelledTaskNeverSucceeds ==
    \A t \in Tasks :
        []((stop \/ main = "leaving") /\ result[t] = None /\ step[t] # "wait"
             => [](result[t] # "succeeded"))

\* The batch ends, interrupted or not: no task waits for a lock or a thread
\* for ever.
BatchEnds == main = "submit" ~> main \in {"returned", "raised"}

\* However a batch is interrupted, it comes to its end, and its cancelled tasks to theirs.
BatchSettles == CancelledTaskNeverSucceeds /\ BatchEnds

\* The tasks of one host run one after another, and the event stream tells the
\* order in which they did.
BatchKeepsOrder == HostsAreSerialized /\ EventsTellTheTasks

=============================================================================
