--------------------------- MODULE CommandExecutor ---------------------------
(***************************************************************************)
(* The part of execute_atomically_governed that does not depend on which   *)
(* authority granted the action (atomic_command_executor.py:108-215): the  *)
(* "started" record, the launch, the poll loop and its clean-up.           *)
(*                                                                         *)
(* Each worker is one call of the function, in a thread or a process of    *)
(* its own.  The child is an operating-system process that outlives a      *)
(* coordinator that dies.  PolicyAuthority and LegacyExecution extend this *)
(* module with the two ways an action is authorised; they say when a       *)
(* revalidation succeeds.                                                  *)
(***************************************************************************)
EXTENDS EngagementPolicy, Sequences, FiniteSets

CONSTANTS
    Workers,        \* concurrent calls of execute_atomically_governed
    Engagements,    \* engagement identifiers
    Actions,        \* action identifiers a caller may use, or use again
    Requests,       \* [capability, target, impact, approved] of a call
    NoCall          \* the value of call[w] when w runs nothing

VARIABLES
    pc,             \* pc[w]: where the call stands, "idle" outside a call
    call,           \* call[w]: its arguments, the clock it read, its status
    child,          \* child[k]: the process launched for the reservation k
    orphans,        \* reservations whose coordinator died after the launch
    results,        \* results[k]: what result_audit_path holds about k
    cancel,         \* cancel[w]: the cancel_event of the call
    expired         \* expired[w]: time.monotonic() reached the deadline

execVars == <<pc, call, child, orphans, results, cancel, expired>>

Keys == Engagements \X Actions
TerminalStatuses == {"error", "cancelled", "revoked", "timeout", "completed"}
RecordStatuses == TerminalStatuses \cup {"started", "denied-after-reservation"}
Steps == {"idle", "reserve", "ledger", "validate", "start", "launch", "poll",
          "revalidate", "wait", "kill", "record"}
Calls == [key: Keys, req: Requests, current: Nat, status: TerminalStatuses]

\* The steps at which a call holds a reservation, and those between a
\* successful Popen and the end of the process.
Holding == Steps \ {"idle", "reserve", "ledger"}
Supervising == {"poll", "revalidate", "wait", "kill"}

Key(w) == call[w].key
\* The call ends; its event and its deadline go with it.
Return(w) == /\ pc' = [pc EXCEPT ![w] = "idle"]
             /\ call' = [call EXCEPT ![w] = NoCall]
             /\ cancel' = [cancel EXCEPT ![w] = FALSE]
             /\ expired' = [expired EXCEPT ![w] = FALSE]
GoTo(w, step) == pc' = [pc EXCEPT ![w] = step]
Fail(w, status, step) == /\ GoTo(w, step)
                         /\ call' = [call EXCEPT ![w].status = status]
AppendRecord(k, status) == results' = [results EXCEPT ![k] = Append(@, status)]

ExecutorInit ==
    /\ pc = [w \in Workers |-> "idle"]
    /\ call = [w \in Workers |-> NoCall]
    /\ child = [k \in Keys |-> "none"]
    /\ orphans = {}
    /\ results = [k \in Keys |-> <<>>]
    /\ cancel = [w \in Workers |-> FALSE]
    /\ expired = [w \in Workers |-> FALSE]

\* A caller enters the function with arguments that pass the three preliminary
\* checks (a call that fails one of them has no effect).  `current` is the clock
\* it reads before its first transaction; the call's status starts as "error".
Enter(w, k, r, now) ==
    /\ pc[w] = "idle"
    /\ GoTo(w, "reserve")
    /\ call' = [call EXCEPT ![w] =
                  [key |-> k, req |-> r, current |-> now, status |-> "error"]]
    /\ UNCHANGED <<child, orphans, results, cancel, expired>>

\* The "started" record; a failing write raises before the try block, so the
\* reservation stays charged and nothing runs.  (A record that reached the file
\* before the failure is the record followed by Crash.)
RecordStarted(w) ==
    /\ pc[w] = "start"
    /\ \/ /\ GoTo(w, "launch")
          /\ AppendRecord(Key(w), "started")
          /\ UNCHANGED <<call, cancel, expired>>
       \/ Return(w) /\ UNCHANGED results
    /\ UNCHANGED <<child, orphans>>

\* Digest check and Popen.  A changed executable or a failing Popen leaves the
\* status "error" and no process to stop.
Launch(w) ==
    /\ pc[w] = "launch"
    /\ \/ GoTo(w, "poll") /\ child' = [child EXCEPT ![Key(w)] = "running"]
       \/ GoTo(w, "record") /\ UNCHANGED child
    /\ UNCHANGED <<call, orphans, results, cancel, expired>>

\* Head of the poll loop: the cancellation event is looked at first.
PollCancel(w) ==
    /\ pc[w] = "poll"
    /\ IF cancel[w] THEN Fail(w, "cancelled", "kill")
                    ELSE GoTo(w, "revalidate") /\ UNCHANGED call
    /\ UNCHANGED <<child, orphans, results, cancel, expired>>

\* Mutant: an unexpected exception leaves the loop without the finally block.
PollRevalidateNoFinally(w, allowed) ==
    /\ pc[w] = "revalidate"
    /\ \/ allowed /\ GoTo(w, "wait") /\ UNCHANGED <<call, cancel, expired>>
       \/ ~allowed /\ Fail(w, "revoked", "kill") /\ UNCHANGED <<cancel, expired>>
       \/ Return(w)
    /\ UNCHANGED <<child, orphans, results>>

\* The authority is asked again: a refusal is "revoked"; any other exception
\* (a locked database, an unreadable policy file) leaves the status "error".
PollRevalidate(w, allowed) ==
    /\ pc[w] = "revalidate"
    /\ \/ allowed /\ GoTo(w, "wait") /\ UNCHANGED call
       \/ ~allowed /\ Fail(w, "revoked", "kill")
       \/ Fail(w, "error", "kill")
    /\ UNCHANGED <<child, orphans, results, cancel, expired>>

\* Mutant: the loop waits without looking at the deadline.
PollWaitForever(w) ==
    /\ pc[w] = "wait"
    /\ \/ child[Key(w)] = "exited" /\ Fail(w, "completed", "kill")
       \/ child[Key(w)] = "running" /\ GoTo(w, "poll") /\ UNCHANGED call
    /\ UNCHANGED <<child, orphans, results, cancel, expired>>

\* Deadline, then a bounded wait for the process.
PollWait(w) ==
    /\ pc[w] = "wait"
    /\ \/ expired[w] /\ Fail(w, "timeout", "kill")
       \/ ~expired[w] /\ child[Key(w)] = "exited" /\ Fail(w, "completed", "kill")
       \/ ~expired[w] /\ child[Key(w)] = "running" /\ GoTo(w, "poll") /\ UNCHANGED call
    /\ UNCHANGED <<child, orphans, results, cancel, expired>>

\* The finally block kills the process group if the process is still alive and
\* reaps it ...
KillChild(w) ==
    /\ pc[w] = "kill"
    /\ child' = [child EXCEPT ![Key(w)] = "exited"]
    /\ GoTo(w, "record")
    /\ UNCHANGED <<call, orphans, results, cancel, expired>>

\* ... and only then appends the terminal record, which may fail to be written.
RecordResult(w) ==
    /\ pc[w] = "record"
    /\ Return(w)
    /\ \/ AppendRecord(Key(w), call[w].status)
       \/ UNCHANGED results
    /\ UNCHANGED <<child, orphans>>

-----------------------------------------------------------------------------
\* The environment of the calls.

\* The process ends by itself.
ChildExits(k) ==
    /\ child[k] = "running"
    /\ child' = [child EXCEPT ![k] = "exited"]
    /\ UNCHANGED <<pc, call, orphans, results, cancel, expired>>

\* The caller's cancel_event is set, for instance by Ctrl-C in a batch.
SetCancel(w) ==
    /\ pc[w] # "idle"
    /\ ~cancel[w]
    /\ cancel' = [cancel EXCEPT ![w] = TRUE]
    /\ UNCHANGED <<pc, call, child, orphans, results, expired>>

\* The monotonic clock reaches the deadline taken after the "started" record.
DeadlinePasses(w) ==
    /\ pc[w] \in {"launch", "poll", "revalidate", "wait"}
    /\ ~expired[w]
    /\ expired' = [expired EXCEPT ![w] = TRUE]
    /\ UNCHANGED <<pc, call, child, orphans, results, cancel>>

\* The coordinator dies at any point of a call.  On POSIX the child has its own
\* session and stays alive.
Crash(w) ==
    /\ pc[w] # "idle"
    /\ Return(w)
    /\ orphans' = IF pc[w] \in Supervising THEN orphans \cup {Key(w)} ELSE orphans
    /\ UNCHANGED <<child, results>>

=============================================================================
