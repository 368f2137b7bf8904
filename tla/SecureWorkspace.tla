--------------------------- MODULE SecureWorkspace ---------------------------
(***************************************************************************)
(* The encrypted workspace of Red Night Live: the planner (persistence.py),*)
(* the privileged executor (persistence_executor.py) and the session that  *)
(* opens it, runs commands in it and closes it (appliance.py).             *)
(*                                                                         *)
(* The appliance is a service on one console that is restarted whenever it *)
(* ends, so sessions follow one another.  A session may die and leave the  *)
(* mapping open or mounted; losing power closes everything.  Every step of *)
(* a plan is one privileged command, which may fail; luksFormat may fail   *)
(* after it wrote its header.                                              *)
(***************************************************************************)
EXTENDS Naturals, Sequences

CONSTANT Partitions     \* what the selected partition may hold at first

VARIABLES
    partition,          \* the signature on the partition, and its filesystem
    mapper,             \* /dev/mapper/red-night-workspace exists
    mounted,            \* it is mounted on the workspace's mount point
    live,               \* the session
    overwritten         \* history: luksFormat ran over an existing signature

secureVars == <<partition, mapper, mounted, live, overwritten>>
storage == <<partition, mapper, mounted, overwritten>>

PartitionContents == [signature: {"absent", "none", "foreign", "luks2"}, filesystem: BOOLEAN]

ASSUME SecureAssumption ==
    Partitions \subseteq {p \in PartitionContents : p.filesystem => p.signature = "luks2"}

\* result is how the last session that ended did: "0", "3" or "died"; foundMounted
\* is history, what it found when it began.
IdleSession == [pc |-> "idle", plan |-> <<>>, openedHere |-> FALSE,
                foundMounted |-> FALSE, result |-> "none"]
Ended(result) == [IdleSession EXCEPT !.foundMounted = live.foundMounted, !.result = result]
EndSession(result) == live' = Ended(result)

SecureInit ==
    /\ partition \in Partitions
    /\ mapper = FALSE
    /\ mounted = FALSE
    /\ live = IdleSession
    /\ overwritten = FALSE

-----------------------------------------------------------------------------
\* probe_workspace_state; another signature is an error.
ProbedState ==
    CASE mapper /\ mounted                          -> "mounted"
      [] mapper /\ ~mounted                         -> "luks2-open"
      [] ~mapper /\ partition.signature = "absent"  -> "missing"
      [] ~mapper /\ partition.signature = "luks2"   -> "luks2-locked"
      [] ~mapper /\ partition.signature = "none"    -> "uninitialized"
      [] OTHER                                      -> "error"

\* plan_persistence_action: the steps of an allowed plan.
PlanSteps(state, action) ==
    CASE action = "provision" /\ state = "uninitialized" ->
            <<"luks2-format", "luks2-open", "filesystem-create", "filesystem-mount">>
      [] action = "unlock" /\ state = "luks2-locked"      -> <<"luks2-open">>
      [] action = "mount" /\ state = "luks2-open"         -> <<"filesystem-mount">>
      [] action = "safe-close" /\ state = "mounted"       -> <<"filesystem-unmount", "luks2-close">>
      [] action = "safe-close" /\ state = "luks2-open"    -> <<"luks2-close">>
      [] OTHER                                            -> <<>>

\* Starting a session: the states it refuses end it with result 3.
StartSession ==
    /\ live.pc = "idle"
    /\ live' = CASE ProbedState \in {"missing", "luks2-open", "error"} ->
                        [IdleSession EXCEPT !.result = "3"]
                 [] ProbedState = "uninitialized" -> [IdleSession EXCEPT !.pc = "confirm"]
                 [] ProbedState = "luks2-locked"  -> [IdleSession EXCEPT
                        !.pc = "unlock", !.plan = PlanSteps("luks2-locked", "unlock")]
                 [] ProbedState = "mounted"       -> [IdleSession EXCEPT
                        !.pc = "running", !.foundMounted = TRUE]
    /\ UNCHANGED storage

\* The operator types the confirmation, or not; provision_workspace asks blkid
\* once more before it runs its plan.
ConfirmProvisioning ==
    /\ live.pc = "confirm"
    /\ \/ EndSession("3")
       \/ /\ partition.signature = "none"
          /\ live' = [live EXCEPT !.pc = "provision",
                                  !.plan = PlanSteps("uninitialized", "provision")]
    /\ UNCHANGED storage

-----------------------------------------------------------------------------
\* What the privileged commands do when they succeed (external programs).
CommandSucceeds(step) ==
    \/ /\ step = "luks2-format" /\ ~mapper
       /\ partition' = [signature |-> "luks2", filesystem |-> FALSE]
       /\ overwritten' = (overwritten \/ partition.signature # "none")
       /\ UNCHANGED <<mapper, mounted>>
    \/ /\ step = "luks2-open" /\ ~mapper /\ partition.signature = "luks2"
       /\ mapper' = TRUE
       /\ UNCHANGED <<partition, mounted, overwritten>>
    \/ /\ step = "filesystem-create" /\ mapper /\ ~mounted
       /\ partition' = [partition EXCEPT !.filesystem = TRUE]
       /\ UNCHANGED <<mapper, mounted, overwritten>>
    \/ /\ step = "filesystem-mount" /\ mapper /\ partition.filesystem
       /\ mounted' = TRUE
       /\ UNCHANGED <<partition, mapper, overwritten>>
    \/ /\ step = "filesystem-unmount" /\ mounted
       /\ mounted' = FALSE
       /\ UNCHANGED <<partition, mapper, overwritten>>
    \/ /\ step = "luks2-close" /\ mapper /\ ~mounted
       /\ mapper' = FALSE
       /\ UNCHANGED <<partition, mounted, overwritten>>

\* Mutant: a session that provisions the workspace does not count as its opener.
AfterPlanUnowned ==
    CASE live.pc = "unlock"    -> [live EXCEPT !.pc = "mount",
                                               !.plan = PlanSteps("luks2-open", "mount")]
      [] live.pc = "mount"     -> [live EXCEPT !.pc = "running", !.plan = <<>>, !.openedHere = TRUE]
      [] live.pc = "provision" -> [live EXCEPT !.pc = "running", !.plan = <<>>]
      [] live.pc = "close"     -> Ended("0")

\* After the last step of a plan: unlock is followed by mount, and both ways of
\* opening the workspace make this session the one that closes it.
AfterPlan ==
    CASE live.pc = "unlock" -> [live EXCEPT !.pc = "mount",
                                            !.plan = PlanSteps("luks2-open", "mount")]
      [] live.pc \in {"mount", "provision"} ->
            [live EXCEPT !.pc = "running", !.plan = <<>>, !.openedHere = TRUE]
      [] live.pc = "close"  -> Ended("0")

\* One step of execute_persistence_plan.
PlanStep ==
    /\ live.plan # <<>>
    /\ CommandSucceeds(Head(live.plan))
    /\ live' = IF Len(live.plan) > 1 THEN [live EXCEPT !.plan = Tail(@)] ELSE AfterPlan

\* A failing command ends the session; main prints that none was started.  What
\* the plan did so far stays, a header luksFormat may have written included.
PlanFails ==
    /\ live.plan # <<>>
    /\ EndSession("3")
    /\ \/ UNCHANGED storage
       \/ /\ Head(live.plan) = "luks2-format"
          /\ partition' = [signature |-> "luks2", filesystem |-> FALSE]
          /\ overwritten' = (overwritten \/ partition.signature # "none")
          /\ UNCHANGED <<mapper, mounted>>

\* exit, quit or end of input: only the session that opened the workspace closes it.
LeaveSession ==
    /\ live.pc = "running"
    /\ IF live.openedHere
       THEN live' = [live EXCEPT !.pc = "close", !.plan = PlanSteps("mounted", "safe-close")]
       ELSE EndSession("0")
    /\ UNCHANGED storage

SessionDies ==
    /\ live.pc # "idle"
    /\ EndSession("died")
    /\ UNCHANGED storage

PowerLoss ==
    /\ mapper' = FALSE
    /\ mounted' = FALSE
    /\ EndSession("died")
    /\ UNCHANGED <<partition, overwritten>>

SecureNext ==
    \/ StartSession
    \/ ConfirmProvisioning
    \/ PlanStep
    \/ PlanFails
    \/ LeaveSession
    \/ SessionDies
    \/ PowerLoss

SecureSpec == SecureInit /\ [][SecureNext]_secureVars

-----------------------------------------------------------------------------
\* run_secure_workspace_session and provision_workspace, over any series of
\* sessions that fail, die or lose power half way: a signature on the partition is
\* never overwritten, commands run only in the mounted encrypted workspace, and a
\* session that returned 0 has left it locked unless it found it mounted.
SecureWorkspaceIsGuarded ==
    /\ ~overwritten
    /\ live.pc = "running" => mapper /\ mounted /\ partition.signature = "luks2"
    /\ live.pc = "idle" /\ live.result = "0" /\ ~live.foundMounted => ~mapper /\ ~mounted

=============================================================================
