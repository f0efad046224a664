------------------------------- MODULE EdgeNav -------------------------------
(***************************************************************************)
(* Commands of the Edge that bring the navigation stack up and localize    *)
(* the robot: nav.start, nav.restart and nav.recover ("start"), nav.stop   *)
(* ("stop"), nav.relocalize and nav.initial_pose ("locate"), map.activate  *)
(* ("map"), task.start ("task"), task.pause ("pause").                     *)
(*                                                                         *)
(* Each command is executed by a thread of its own.  Stack commands hold   *)
(* the navigation lock, operator localizations the localization lock; map  *)
(* and task commands hold neither.  Localizations are kept apart by a      *)
(* generation: one that is no longer the newest gives up.  A step that     *)
(* calls ROS or a script may fail at any time.                             *)
(***************************************************************************)
EXTENDS Naturals

CONSTANTS
    Commands, Kind,     \* the commands and their kinds
    Map                 \* the map a "map" or "task" command names

Maps == {Map[c] : c \in Commands}
Nobody == "nobody"
NoTask == [state |-> "none", by |-> Nobody]
TaskActive == {"accepted", "running", "paused"}

VARIABLES
    th,         \* per command: pc, generation, the task it paused
    navLock, locLock,
    disk,       \* the map the symlinks point to, safety.state.current_map_id
    loc,        \* localization: running, the map it holds, the map it is posed in
    nav,        \* Nav2: running, the map it holds, execution group active
    ready,      \* safety.state.nav_ready
    gen,        \* _localization_operation_generation
    task,       \* the executor's task
    held        \* history: an operator paused the task on purpose

vars == <<th, navLock, locLock, disk, loc, nav, ready, gen, task, held>>
locks == <<navLock, locLock>>
stack == <<disk, loc, nav, ready>>
tasks == <<task, held>>

Init ==
    /\ th = [c \in Commands |-> [pc |-> "new", gen |-> 0, paused |-> Nobody]]
    /\ navLock = Nobody /\ locLock = Nobody
    /\ disk = "a" /\ gen = 0 /\ task = NoTask /\ held = FALSE
    /\ \E up \in BOOLEAN :
         /\ loc = [up |-> up, map |-> IF up THEN "a" ELSE "none", pose |-> IF up THEN "a" ELSE "none"]
         /\ nav = [up |-> up, map |-> IF up THEN "a" ELSE "none", active |-> up]
         /\ ready = up

At(c, pc) == th[c].pc = pc
Goto(c, pc) == th' = [th EXCEPT ![c].pc = pc]

\* The finally blocks run on every way out.
Release(c, pc) == TRUE

\* A command ends: its locks are released.
End(c, pc) ==
    /\ Goto(c, pc)
    /\ navLock' = IF navLock = c /\ Release(c, pc) THEN Nobody ELSE navLock
    /\ locLock' = IF locLock = c /\ Release(c, pc) THEN Nobody ELSE locLock

Fail(c) == End(c, "failed")

----------------------------------------------------------------------------
(* The stack adapter. *)

\* NavigationStackAdapter.prepare: what is down comes up with the map on disk,
\* the execution group is left inactive.
Prepared ==
    /\ loc' = IF loc.up THEN loc ELSE [up |-> TRUE, map |-> disk, pose |-> "none"]
    /\ nav' = [up |-> TRUE, map |-> IF nav.up THEN nav.map ELSE disk, active |-> FALSE]

\* restart_localization: the pose is lost.
RestartedLocalization == loc' = [up |-> TRUE, map |-> disk, pose |-> "none"]

\* activate_execution and _await_navigation_stack_ready; a failed activation
\* is rolled back.
Activated == nav.up /\ nav' = [nav EXCEPT !.active = TRUE] /\ ready' = TRUE

Deactivated == nav' = [nav EXCEPT !.active = FALSE] /\ ready' = FALSE

----------------------------------------------------------------------------
(* Acquiring the locks. *)

NavFree == navLock = Nobody

\* _execute_navigation: nav.start and nav.stop wait for the navigation lock and
\* give up after 90 or 5 seconds.
TakeNavLock(c) ==
    /\ Kind[c] \in {"start", "stop"} /\ At(c, "new")
    /\ \/ NavFree /\ navLock' = c /\ Goto(c, IF Kind[c] = "stop" THEN "stop" ELSE "prepare")
       \/ ~NavFree /\ Goto(c, "failed") /\ UNCHANGED navLock
    /\ UNCHANGED <<locLock, stack, gen, tasks>>

\* nav.relocalize: the localization lock, for one second.
TakeLocLock(c) ==
    /\ Kind[c] = "locate" /\ At(c, "new")
    /\ \/ locLock = Nobody /\ locLock' = c /\ Goto(c, "hold")
       \/ locLock # Nobody /\ Goto(c, "failed") /\ UNCHANGED locLock
    /\ UNCHANGED <<navLock, stack, gen, tasks>>

----------------------------------------------------------------------------
(* Localization, common to all. *)

\* Localization fails: map.activate stops the execution group again, task.start
\* drops the task it prepared.
LocalizationFails(c) ==
    /\ Fail(c) /\ UNCHANGED loc
    /\ IF Kind[c] = "map" THEN Deactivated ELSE UNCHANGED <<nav, ready>>
    /\ task' = IF Kind[c] = "task" /\ task.by = c THEN NoTask ELSE task

\* _wait_for_command_fast_lio_readiness: three fresh frames while stopped.
AwaitLio(c) ==
    /\ At(c, "lio")
    /\ \/ Goto(c, "search") /\ UNCHANGED <<locks, loc, nav, ready, task>>
       \/ LocalizationFails(c)
    /\ UNCHANGED <<disk, gen, held>>

\* progressive_relocalize begins: every earlier localization is superseded.
BeginSearch(c) ==
    /\ At(c, "search")
    /\ gen' = gen + 1
    /\ th' = [th EXCEPT ![c].pc = "commit", ![c].gen = gen + 1]
    /\ UNCHANGED <<locks, stack, tasks>>

\* _assert_localization_operation.
Newest(c) == th[c].gen = gen

\* The search ends with a pose in the map localization holds, or it fails.
Commit(c) ==
    /\ At(c, "commit")
    /\ \/ /\ Newest(c) /\ loc.up
          /\ loc' = [loc EXCEPT !.pose = loc.map]
          /\ Goto(c, "correct") /\ UNCHANGED <<locks, nav, ready, task>>
       \/ LocalizationFails(c)
    /\ UNCHANGED <<disk, gen, held>>

\* _run_external_secondary_correction: completed, or skipped after a timeout.
Correct(c) ==
    /\ At(c, "correct")
    /\ \/ /\ Goto(c, IF Kind[c] = "locate" THEN "nav" ELSE "gate")
          /\ UNCHANGED <<locks, loc, nav, ready, task>>
       \/ LocalizationFails(c)
    /\ UNCHANGED <<disk, gen, held>>

\* _wait_for_command_final_localization_gate: localization reports a pose.
FinalGate(c) ==
    /\ At(c, "gate")
    /\ \/ /\ loc.pose # "none" /\ Goto(c, "activate")
          /\ UNCHANGED <<locks, loc, nav, ready, task>>
       \/ LocalizationFails(c)
    /\ UNCHANGED <<disk, gen, held>>

----------------------------------------------------------------------------
(* nav.start and nav.stop. *)

Prepare(c) ==
    /\ Kind[c] \in {"start", "map"} /\ At(c, "prepare")
    /\ \/ /\ Prepared /\ ready' = FALSE /\ Goto(c, "lio") /\ UNCHANGED locks
       \/ /\ Kind[c] = "start" /\ RestartedLocalization      \* FAST-LIO was not ready
          /\ UNCHANGED <<nav, ready, locks, th>>
       \/ /\ Fail(c) /\ UNCHANGED loc
          /\ IF Kind[c] = "map" THEN Deactivated ELSE UNCHANGED <<nav, ready>>
    /\ UNCHANGED <<disk, gen, tasks>>

Activate(c) ==
    /\ Kind[c] \in {"start", "map"} /\ At(c, "activate")
    /\ \/ Activated /\ End(c, "succeeded")
       \/ Fail(c) /\ nav' = [nav EXCEPT !.active = FALSE]
          /\ ready' = IF Kind[c] = "map" THEN FALSE ELSE ready
    /\ UNCHANGED <<disk, loc, gen, tasks>>

StopNav(c) ==
    /\ Kind[c] = "stop" /\ At(c, "stop")
    /\ \/ nav' = [up |-> FALSE, map |-> "none", active |-> FALSE] /\ ready' = FALSE /\ End(c, "succeeded")
       \/ nav' = [nav EXCEPT !.active = FALSE] /\ UNCHANGED ready /\ Fail(c)
    /\ UNCHANGED <<disk, loc, gen, tasks>>

----------------------------------------------------------------------------
(* nav.relocalize and nav.initial_pose. *)

\* _pause_active_task_for_operator_localization: only a running task.
Pauses == task.state = "running"

HoldTask(c) ==
    /\ Kind[c] = "locate" /\ At(c, "hold")
    /\ \/ /\ Pauses
          /\ task' = [task EXCEPT !.state = "paused"]
          /\ th' = [th EXCEPT ![c].pc = "subscribe", ![c].paused = task.by]
          /\ Deactivated /\ UNCHANGED locks
       \/ ~Pauses /\ Goto(c, "subscribe") /\ UNCHANGED <<task, nav, ready, locks>>
       \/ Pauses /\ Fail(c) /\ UNCHANGED <<task, nav, ready>>
    /\ UNCHANGED <<disk, loc, gen, held>>

\* A stack command that holds the lock may be about to start localization.
MayRestart == NavFree

\* _ensure_initial_pose_subscriber: localization must be there; it is started
\* if nobody owns the stack, and otherwise waited for.
Subscribe(c) ==
    /\ At(c, "subscribe")
    /\ \/ loc.up /\ Goto(c, "search") /\ UNCHANGED <<loc, locks>>
       \/ ~loc.up /\ MayRestart /\ RestartedLocalization /\ Goto(c, "search") /\ UNCHANGED locks
       \/ ~loc.up /\ Fail(c) /\ UNCHANGED loc
    /\ UNCHANGED <<disk, nav, ready, gen, tasks>>

\* _start_navigation_after_localization: under the navigation lock.
StartNav(c) ==
    /\ At(c, "nav")
    /\ \/ NavFree /\ navLock' = c /\ Goto(c, "bring_up") /\ UNCHANGED locLock
       \/ ~NavFree /\ Fail(c)
    /\ UNCHANGED <<stack, gen, tasks>>

BringUp(c) ==
    /\ At(c, "bring_up")
    /\ \/ Prepared /\ ready' = FALSE /\ Goto(c, "bring_up_active") /\ UNCHANGED locks
       \/ Fail(c) /\ UNCHANGED <<loc, nav, ready>>
    /\ UNCHANGED <<disk, gen, tasks>>

BringUpActive(c) ==
    /\ At(c, "bring_up_active")
    /\ \/ /\ Activated /\ navLock' = Nobody /\ Goto(c, "resume") /\ UNCHANGED locLock
       \/ Fail(c) /\ nav' = [nav EXCEPT !.active = FALSE] /\ UNCHANGED ready
    /\ UNCHANGED <<disk, loc, gen, tasks>>

\* _resume_task_after_operator_localization: the task this command paused.
Resume(c) ==
    /\ At(c, "resume")
    /\ \/ th[c].paused = Nobody /\ End(c, "succeeded") /\ UNCHANGED <<task, nav, ready>>
       \/ /\ th[c].paused # Nobody /\ task.by = th[c].paused /\ task.state = "paused"
          /\ Activated /\ task' = [task EXCEPT !.state = "running"] /\ End(c, "succeeded")
       \/ th[c].paused # Nobody /\ Fail(c) /\ UNCHANGED <<task, nav, ready>>
    /\ UNCHANGED <<disk, loc, gen, held>>

----------------------------------------------------------------------------
(* map.activate. *)

CheckIdle(c) ==
    /\ Kind[c] = "map" /\ At(c, "new")
    /\ Goto(c, IF task.state \in TaskActive THEN "failed" ELSE "switch")
    /\ UNCHANGED <<locks, stack, gen, tasks>>

\* MapActivationAdapter.activate: symlinks, configuration, current map.
SwitchMap(c) ==
    /\ At(c, "switch")
    /\ \/ disk' = Map[c] /\ Goto(c, "deactivate") /\ UNCHANGED locks
       \/ Fail(c) /\ UNCHANGED disk
    /\ UNCHANGED <<loc, nav, ready, gen, tasks>>

StopExecution(c) ==
    /\ At(c, "deactivate")
    /\ \/ Deactivated /\ Goto(c, "reload") /\ UNCHANGED locks
       \/ Fail(c) /\ UNCHANGED <<nav, ready>>
    /\ UNCHANGED <<disk, loc, gen, tasks>>

\* reload_map_if_running: the consumers that run load the map, localization
\* first; the pose of the old map is void.
Reloaded(c) ==
    /\ loc' = IF loc.up THEN [loc EXCEPT !.map = Map[c], !.pose = "none"] ELSE loc
    /\ nav' = IF nav.up THEN [nav EXCEPT !.map = Map[c]] ELSE nav

ReloadMap(c) ==
    /\ At(c, "reload")
    /\ \/ Reloaded(c) /\ Goto(c, "prepare") /\ UNCHANGED locks
       \/ loc.up /\ loc' = [loc EXCEPT !.map = Map[c], !.pose = "none"] /\ UNCHANGED nav /\ Fail(c)
       \/ Fail(c) /\ UNCHANGED <<loc, nav>>
    /\ UNCHANGED <<disk, ready, gen, tasks>>

----------------------------------------------------------------------------
(* task.start and task.pause. *)

\* _ensure_navigation_stack_for_task.
TaskPrepare(c) ==
    /\ Kind[c] = "task" /\ At(c, "new")
    /\ \/ Prepared /\ ready' = FALSE /\ Goto(c, "admit") /\ UNCHANGED locks
       \/ Fail(c) /\ UNCHANGED <<loc, nav, ready>>
    /\ UNCHANGED <<disk, gen, tasks>>

\* validate_task_start and prepare_task_start.
TaskAdmit(c) ==
    /\ At(c, "admit")
    /\ IF task.state \in TaskActive \/ disk # Map[c]
       THEN Goto(c, "failed") /\ UNCHANGED task
       ELSE task' = [state |-> "accepted", by |-> c] /\ Goto(c, "lio")
    /\ held' = FALSE
    /\ UNCHANGED <<locks, stack, gen>>

\* _activate_navigation_execution_for_task.
TaskActivate(c) ==
    /\ Kind[c] = "task" /\ At(c, "activate")
    /\ \/ Activated /\ Goto(c, "launch") /\ UNCHANGED <<task, locks>>
       \/ /\ Fail(c) /\ nav' = [nav EXCEPT !.active = FALSE] /\ UNCHANGED ready
          /\ task' = IF task.by = c THEN NoTask ELSE task
    /\ UNCHANGED <<disk, loc, gen, held>>

\* Wrong variant: the task is launched without the final admission.
AdmittedAlways == TRUE

\* validate_navigation_admission.
Admitted == ready /\ loc.pose # "none"

\* The final admission and launch_prepared_task.
Launch(c) ==
    /\ At(c, "launch")
    /\ IF Admitted /\ task = [state |-> "accepted", by |-> c]
       THEN task' = [task EXCEPT !.state = "running"] /\ Goto(c, "succeeded") /\ UNCHANGED locks
       ELSE Fail(c) /\ task' = IF task.by = c THEN NoTask ELSE task
    /\ UNCHANGED <<stack, gen, held>>

PauseTask(c) ==
    /\ Kind[c] = "pause" /\ At(c, "new") /\ task.state \in TaskActive
    /\ task' = [task EXCEPT !.state = "paused"] /\ held' = TRUE
    /\ Goto(c, "succeeded")
    /\ UNCHANGED <<locks, stack, gen>>

TaskEnds ==
    /\ task.state = "running" /\ task' = NoTask
    /\ UNCHANGED <<th, locks, stack, gen, held>>

----------------------------------------------------------------------------

Step(c) ==
    \/ TakeNavLock(c) \/ TakeLocLock(c) \/ AwaitLio(c) \/ BeginSearch(c) \/ Commit(c)
    \/ Correct(c) \/ FinalGate(c)
    \/ Prepare(c) \/ Activate(c) \/ StopNav(c)
    \/ HoldTask(c) \/ Subscribe(c) \/ StartNav(c) \/ BringUp(c) \/ BringUpActive(c) \/ Resume(c)
    \/ CheckIdle(c) \/ SwitchMap(c) \/ StopExecution(c) \/ ReloadMap(c)
    \/ TaskPrepare(c) \/ TaskAdmit(c) \/ TaskActivate(c) \/ Launch(c) \/ PauseTask(c)

Next == TaskEnds \/ \E c \in Commands : Step(c)

Spec == Init /\ [][Next]_vars

----------------------------------------------------------------------------
(* Properties. *)

Over(c) == th[c].pc \in {"succeeded", "failed"}
Ends(c) == ~Over(c) /\ th'[c].pc = "succeeded"

TypeOK ==
    /\ navLock \in Commands \cup {Nobody} /\ locLock \in Commands \cup {Nobody}
    /\ disk \in Maps \cup {"a"} /\ loc.map \in Maps \cup {"a", "none"}
    /\ nav.active => nav.up
    /\ task.state \in TaskActive \cup {"none"} /\ (task.state = "none" <=> task.by = Nobody)

\* No way out of a command, including every error, leaves a lock behind that
\* would refuse all later commands (the finally blocks).
LocksAreReleased ==
    \A c \in Commands : Over(c) => navLock # c /\ locLock # c

\* A comment in _execute_navigation: nav.start, nav.restart and nav.recover
\* cannot bypass localization.  What they activate is a stack whose map is the
\* one the robot has been localized in.
StartsLocalized ==
    \A c \in Commands : Kind[c] = "start" /\ Ends(c) =>
       loc.pose # "none" /\ loc.pose = nav.map
StartIsLocalized == [][StartsLocalized]_vars

\* A task moves only with an active execution group and a pose, whatever stack
\* and localization commands run beside it (the final admission).
LaunchesLocalized ==
    task.state = "accepted" /\ task'.state = "running" => loc.pose # "none" /\ ready

\* map.activate succeeds only with the map on disk, in localization and in
\* Nav2 being the one it names, and a pose in it.
ActivatesLoaded ==
    \A c \in Commands : Kind[c] = "map" /\ Ends(c) =>
       {disk, loc.map, loc.pose, nav.map} = {Map[c]}

=============================================================================
