------------------------------- MODULE Manual -------------------------------
(***************************************************************************)
(* Manual control at the Edge: commands for single motions and postures,   *)
(* the follower of a person, local skills, and the control mode they share *)
(* with the start of a navigation task.                                    *)
(*                                                                         *)
(* Every command runs in a thread of its own (EdgeMqttClient._on_message), *)
(* as the list of its steps; a step is a locked section, a check or one    *)
(* sample on a velocity topic.  A follower and a skill are threads that    *)
(* send samples until their event is set.  Poses, boxes, distances and     *)
(* speeds are a choice of what the check of them finds.                    *)
(***************************************************************************)
EXTENDS Naturals, Sequences, FiniteSets

CONSTANTS
    Kinds,          \* names of the commands that arrive
    Tracks,         \* persons that may be followed
    Plans,          \* the steps of skills: sequences of "act", "drive", "avoid"
    MaxCommands, MaxFollows, MaxSkills      \* bounds

VARIABLES
    mode,       \* RuntimeSafetyState.control_mode
    task,       \* TaskExecutor.has_active_task
    drive,      \* the last sample of /teleop_cmd_vel: who moves the robot with it
    assist,     \* the last sample of /cmd_vel_assist moves the robot
    cmds,       \* command threads
    follow,     \* PersonFollowController._run: track and status
    follows,    \* the threads of the follower; the last one has _stop_event
    skills,     \* TeleopSkillExecutor._runs with their threads
    active      \* TeleopSkillExecutor._active_id, 0 for none

vars == <<mode, task, drive, assist, cmds, follow, follows, skills, active>>

Modes == {"autonomous", "manual_assist", "manual_takeover"}
Zero == [by |-> "none", n |-> 0]

Init ==
    /\ mode = "autonomous" /\ task = FALSE /\ drive = Zero /\ assist = FALSE /\ cmds = <<>>
    /\ follow = [track |-> "none", status |-> "idle"] /\ follows = <<>> /\ skills = <<>> /\ active = 0

(* The steps of a command. *)

ConsoleActs ==
    {"takeover_enter", "takeover_exit", "stand_up", "lie_down", "shake_hand", "speed", "move", "move_stop", "passive",
     "skill", "skill_cancel", "person_follow_start", "person_follow_stop"}
McpActs ==
    {"move", "move_stop", "speed", "stand_up", "lie_down", "passive", "skill", "skill_cancel", "person_follow_start",
     "person_follow_stop"}

\* PersonFollowController.stop: the locked part, then the zero sample.
Stop == <<"unfollow", "zero">>
Overrides == {"takeover_enter", "takeover_exit", "move", "skill", "shake_hand"}

\* What an assist action passes before it, and the mode it ends in.
Checks(help) == IF help THEN <<"busy", "valid">> ELSE <<>>
Ends(help, other) == IF help THEN <<"valid", "assist">> ELSE <<other>>

\* _execute_teleop.  "ready" is the bridge, "confirm" an action the robot answers.
Program(act, help) ==
    LET start ==
            (IF act \in {"move", "move_stop", "skill_cancel", "person_follow_stop"} THEN <<>> ELSE <<"ready">>)
            \o (IF act \in Overrides THEN Stop ELSE <<>>) \o Checks(help)
    IN  CASE act = "takeover_enter" ->
                 start \o IF help THEN Checks(help) \o <<"assist">> ELSE <<"confirm", "takeover">>
          [] act = "takeover_exit" -> start \o <<"exit">>
          [] act \in {"stand_up", "shake_hand"} -> start \o <<"confirm">> \o Ends(help, "takeover")
          [] act = "lie_down" -> start \o Stop \o <<"zero">> \o Ends(help, "autonomous")
          [] act = "move_stop" -> start \o Stop \o <<"velocity">>
          [] act = "move" -> start \o <<"velocity">>
          [] act = "passive" -> start \o Stop \o <<"confirm", "limp", "autonomous">>
          [] act = "person_follow_start" -> start \o <<"idle", "confirm", "follow", "takeover">>
          [] act = "person_follow_stop" -> start \o Stop
          [] act = "task_start" -> <<"idle", "handback">>
          [] OTHER -> start \o <<act>>

Arrive(act, help) ==
    /\ Len(cmds) < MaxCommands /\ act \in Kinds
    /\ cmds' = Append(cmds, [moves |-> act = "move", todo |-> Program(act, help)])
    /\ UNCHANGED <<mode, task, drive, assist, follow, follows, skills, active>>

\* From the operator's console, who may mark a command as help for a task, from
\* an MCP tool, and the start of a task.
Console(act, help) ==
    /\ act \in ConsoleActs /\ Arrive(act, help)
    /\ help => act \in {"takeover_enter", "stand_up", "lie_down", "shake_hand", "move", "move_stop"}
McpTool(act) == act \in McpActs /\ Arrive(act, FALSE)
TaskCommand == Arrive("task_start", FALSE)

At(c, step) == cmds[c].todo # <<>> /\ Head(cmds[c].todo) = step
Then(c, steps) == cmds' = [cmds EXCEPT ![c].todo = steps \o Tail(@)]
Refuse(c) == cmds' = [cmds EXCEPT ![c].todo = <<>>]
Others == UNCHANGED <<follow, follows, skills, active>>

\* A question to the bridge or the robot; without an answer the command is
\* refused.
Answered(c) == (Then(c, <<>>) \/ Refuse(c)) /\ UNCHANGED <<mode, task, drive, assist>> /\ Others

EnsureReady(c) == At(c, "ready") /\ Answered(c)
Confirm(c) == At(c, "confirm") /\ Answered(c)
Release(c) == At(c, "release") /\ Answered(c)

\* A speed level is sent and not waited for.
Speed(c) == At(c, "speed") /\ Then(c, <<>>) /\ UNCHANGED <<mode, task, drive, assist>> /\ Others

\* has_active_task and validate_manual_assist.
Check(c) ==
    /\ \/ At(c, "busy") /\ IF task THEN Then(c, <<>>) ELSE Refuse(c)
       \/ At(c, "idle") /\ IF task THEN Refuse(c) ELSE Then(c, <<>>)
       \/ At(c, "valid") /\ (Refuse(c) \/ (mode # "manual_takeover" /\ Then(c, <<>>)))
    /\ UNCHANGED <<mode, task, drive, assist>> /\ Others

SetMode(c) ==
    /\ \/ At(c, "assist") /\ mode' = "manual_assist"
       \/ At(c, "takeover") /\ mode' = "manual_takeover"
       \/ At(c, "autonomous") /\ mode' = "autonomous"
    /\ Then(c, <<>>) /\ UNCHANGED <<task, drive, assist>> /\ Others

\* _manual_assist_velocity: through the navigation while a task is helped.
Velocity(c) ==
    /\ At(c, "velocity")
    /\ \/ mode # "manual_assist" /\ UNCHANGED mode /\ Then(c, <<"sample">>)
       \/ mode = "manual_assist" /\ ~task /\ mode' = "autonomous" /\ Then(c, <<"sample">>)
       \/ mode = "manual_assist" /\ task /\ UNCHANGED mode /\ Then(c, <<"valid", "assist_sample">>)
    /\ UNCHANGED <<task, drive, assist>> /\ Others

\* teleop_velocity: one sample.  The robot in passive drops the one it holds.
Sample(c) ==
    /\ \/ At(c, "sample") /\ drive' = IF cmds[c].moves THEN [by |-> "operator", n |-> c] ELSE Zero
       \/ (At(c, "zero") \/ At(c, "limp")) /\ drive' = Zero
    /\ Then(c, <<>>) /\ UNCHANGED <<mode, task, assist>> /\ Others

\* manual_assist_velocity.
AssistSample(c) ==
    /\ \/ At(c, "assist_sample") /\ assist' = cmds[c].moves
       \/ At(c, "assist_zero") /\ assist' = FALSE
    /\ Then(c, <<>>) /\ UNCHANGED <<mode, task, drive>> /\ Others

\* The end of a takeover.
Exit(c) ==
    /\ At(c, "exit") /\ UNCHANGED <<mode, task, drive, assist>> /\ Others
    /\ Then(c, IF mode = "manual_assist" THEN <<"velocity", "autonomous">> ELSE <<"zero", "release", "autonomous">>)

\* _release_manual_control_for_task, between the checks and prepare_task_start.
HandBack(c) ==
    /\ At(c, "handback") /\ UNCHANGED <<mode, task, drive, assist>> /\ Others
    /\ Then(c, CASE mode = "manual_assist" -> <<"assist_zero", "autonomous", "start">>
                 [] mode = "manual_takeover" -> <<"zero", "release", "autonomous", "start">>
                 [] OTHER -> <<"start">>)

TaskStart(c) ==
    /\ At(c, "start") /\ task' = TRUE /\ Then(c, <<>>) /\ UNCHANGED <<mode, drive, assist>> /\ Others

TaskEnd == task /\ task' = FALSE /\ UNCHANGED <<mode, drive, assist, cmds>> /\ Others

(* The follower of a person. *)

Follower(track) == [track |-> track, stop |-> FALSE, pc |-> "check", after |-> 0]

FollowStart(c, track) ==
    /\ At(c, "follow") /\ UNCHANGED <<mode, task, drive, assist, skills, active>>
    /\ \/ Refuse(c) /\ UNCHANGED <<follow, follows>>
       \/ /\ follow.status # "running" /\ Len(follows) < MaxFollows /\ Then(c, <<>>)
          /\ follow' = [track |-> track, status |-> "running"] /\ follows' = Append(follows, Follower(track))

FollowStop(c) ==
    /\ At(c, "unfollow") /\ Then(c, <<>>) /\ UNCHANGED <<mode, task, drive, assist, skills, active>>
    /\ follow' = IF follow.status = "running" THEN [follow EXCEPT !.status = "stopped"] ELSE follow
    /\ follows' = IF follows = <<>> THEN follows ELSE [follows EXCEPT ![Len(follows)].stop = TRUE]

FollowGoto(g, pc) == follows' = [follows EXCEPT ![g].pc = pc]
Unfollowed == UNCHANGED <<mode, task, assist, cmds, skills, active>>

\* The condition of the loop of _run_loop.
FollowsStill(g) == ~follows[g].stop

\* The target is lost, too old or behind an obstacle, or it is followed.
FollowCheck(g) ==
    /\ follows[g].pc = "check" /\ UNCHANGED <<drive, follow>> /\ Unfollowed
    /\ FollowGoto(g, "end") \/ (FollowsStill(g) /\ FollowGoto(g, "send"))

FollowSend(g) ==
    /\ follows[g].pc = "send" /\ UNCHANGED follow /\ Unfollowed
    /\ drive' = [by |-> "follow", n |-> g]
    /\ follows' = [follows EXCEPT ![g].pc = "check", ![g].after = IF follows[g].stop THEN @ + 1 ELSE @]

\* Wrong variant: the last sample is left as it is.
LeavesSample == drive

\* The zero sample of the "finally" of _run_loop.
LastSample == Zero

FollowEnd(g) ==
    /\ follows[g].pc = "end" /\ FollowGoto(g, "mark") /\ UNCHANGED follow /\ Unfollowed /\ drive' = LastSample

\* The run is told from another by its track only.
FollowMark(g) ==
    /\ follows[g].pc = "mark" /\ FollowGoto(g, "over") /\ UNCHANGED drive /\ Unfollowed
    /\ follow' = IF follow = [track |-> follows[g].track, status |-> "running"]
                 THEN [follow EXCEPT !.status = "stopped"] ELSE follow

(* Skills. *)

Skill(plan) ==
    [status |-> "running", cancel |-> FALSE, pc |-> "step", steps |-> plan, after |-> 0, result |-> "none"]

\* _normalize_plan: an empty list of steps, or a long one, is refused.
Normalized(plan) == Len(plan) \in 1 .. 32
SkillBusy == active # 0 /\ skills[active].status = "running"

SkillStart(c, plan) ==
    /\ At(c, "skill") /\ UNCHANGED <<mode, task, drive, assist, follow, follows>>
    /\ \/ (SkillBusy \/ ~Normalized(plan)) /\ Refuse(c) /\ UNCHANGED <<skills, active>>
       \/ /\ ~SkillBusy /\ Normalized(plan) /\ Len(skills) < MaxSkills /\ Then(c, <<>>)
          /\ skills' = Append(skills, Skill(plan)) /\ active' = Len(skills) + 1

SkillCancel(c) ==
    /\ At(c, "skill_cancel") /\ UNCHANGED <<mode, task, drive, assist, follow, follows, active>>
    /\ \/ Refuse(c) /\ UNCHANGED skills
       \/ Then(c, <<>>) /\ \E k \in DOMAIN skills : skills' = [skills EXCEPT ![k].cancel = TRUE]

SkillGoto(k, pc) == skills' = [skills EXCEPT ![k].pc = pc]
Unskilled == UNCHANGED <<mode, task, assist, cmds, follow, follows>>

\* _check_cancelled.
Cancelled(k) == skills[k].cancel

\* run.status is set before the result is stored.
SkillOver(k, status) == skills' = [skills EXCEPT ![k].status = status, ![k].pc = "report"]

\* The loop over the steps.
SkillStep(k) ==
    /\ skills[k].pc = "step" /\ UNCHANGED <<drive, active>> /\ Unskilled
    /\ \/ skills[k].steps = <<>> /\ SkillOver(k, "succeeded")
       \/ skills[k].steps # <<>> /\ Cancelled(k) /\ SkillOver(k, "cancelled")
       \/ /\ skills[k].steps # <<>> /\ ~Cancelled(k) /\ Head(skills[k].steps) = "act"
          /\ skills' = [skills EXCEPT ![k].steps = Tail(@)]
       \/ /\ skills[k].steps # <<>> /\ ~Cancelled(k) /\ Head(skills[k].steps) # "act"
          /\ SkillGoto(k, Head(skills[k].steps)) \/ SkillOver(k, "failed")

\* The loops of _drive_for, _turn_by_angle and _drive_distance: the step is done
\* (looked at before the cancellation or after it), the pose is lost, or a
\* sample is sent.
SkillDrive(k) ==
    /\ skills[k].pc = "drive" /\ UNCHANGED <<drive, active>> /\ Unskilled
    /\ \/ skills' = [skills EXCEPT ![k].steps = Tail(@), ![k].pc = "step"]
       \/ Cancelled(k) /\ SkillOver(k, "cancelled")
       \/ ~Cancelled(k) /\ (SkillOver(k, "failed") \/ SkillGoto(k, "send"))

\* _avoid_forward: with an obstacle ahead the robot stops and turns first; the
\* cancellation is not looked at between the end of the turn and the sample.
SkillAvoid(k) ==
    /\ skills[k].pc = "avoid" /\ UNCHANGED active /\ Unskilled
    /\ \/ UNCHANGED drive /\ skills' = [skills EXCEPT ![k].steps = Tail(@), ![k].pc = "step"]
       \/ Cancelled(k) /\ UNCHANGED drive /\ SkillOver(k, "cancelled")
       \/ ~Cancelled(k) /\ UNCHANGED drive /\ SkillGoto(k, "send")
       \/ ~Cancelled(k) /\ drive' = Zero /\ SkillGoto(k, "turn")

SkillTurn(k) ==
    /\ skills[k].pc = "turn" /\ UNCHANGED <<drive, active>> /\ Unskilled
    /\ \/ SkillGoto(k, "send")
       \/ Cancelled(k) /\ SkillOver(k, "cancelled")
       \/ ~Cancelled(k) /\ (SkillOver(k, "failed") \/ SkillGoto(k, "turn_send"))

SkillSend(k) ==
    /\ skills[k].pc \in {"send", "turn_send"} /\ UNCHANGED active /\ Unskilled
    /\ drive' = [by |-> "skill", n |-> k]
    /\ skills' = [skills EXCEPT ![k].after = IF skills[k].cancel THEN @ + 1 ELSE @,
                                ![k].pc = IF @ = "send" THEN Head(skills[k].steps) ELSE "turn"]

\* completed() stores and publishes the result; when that of a success fails,
\* the failure is reported.
SkillReport(k) ==
    /\ skills[k].pc = "report" /\ UNCHANGED <<drive, active>> /\ Unskilled
    /\ \/ skills' = [skills EXCEPT ![k].result = skills[k].status, ![k].pc = "end"]
       \/ skills[k].status = "succeeded" /\ SkillOver(k, "failed")
       \/ skills[k].status # "succeeded" /\ SkillGoto(k, "end")

\* The "finally" of _run: the zero sample ...
SkillEnd(k) ==
    /\ skills[k].pc = "end" /\ SkillGoto(k, "free") /\ drive' = LastSample /\ UNCHANGED active /\ Unskilled

\* ... and, under the lock, the slot, unless the next skill has it.
Freed(k) == IF active = k THEN 0 ELSE active

SkillFree(k) ==
    /\ skills[k].pc = "free" /\ SkillGoto(k, "over") /\ active' = Freed(k) /\ UNCHANGED drive /\ Unskilled

Next ==
    \/ (\E act \in Kinds : McpTool(act) \/ \E help \in BOOLEAN : Console(act, help)) \/ TaskCommand
    \/ \E c \in DOMAIN cmds :
           \/ EnsureReady(c) \/ Confirm(c) \/ Release(c) \/ Speed(c) \/ Check(c) \/ SetMode(c)
           \/ Velocity(c) \/ Sample(c) \/ AssistSample(c) \/ Exit(c) \/ HandBack(c) \/ TaskStart(c)
           \/ (\E t \in Tracks : FollowStart(c, t)) \/ FollowStop(c)
           \/ (\E p \in Plans : SkillStart(c, p)) \/ SkillCancel(c)
    \/ TaskEnd
    \/ \E g \in DOMAIN follows : FollowCheck(g) \/ FollowSend(g) \/ FollowEnd(g) \/ FollowMark(g)
    \/ \E k \in DOMAIN skills :
           \/ SkillStep(k) \/ SkillDrive(k) \/ SkillAvoid(k) \/ SkillTurn(k) \/ SkillSend(k)
           \/ SkillReport(k) \/ SkillEnd(k) \/ SkillFree(k)

Spec == Init /\ [][Next]_vars

(* Properties. *)

TypeOK ==
    /\ mode \in Modes /\ task \in BOOLEAN /\ assist \in BOOLEAN
    /\ drive.by \in {"none", "operator", "follow", "skill"}
    /\ follow.status \in {"idle", "running", "stopped"} /\ active \in 0 .. Len(skills)

\* "never retain motion on an unexpected error": what moves the robot by the
\* teleop topic is never a follower or a skill that has ended, although the zero
\* of a stop may be overtaken by a sample in flight.
NothingRetained ==
    /\ drive.by = "follow" => follows[drive.n].pc \in {"check", "send", "end"}
    /\ drive.by = "skill" => skills[drive.n].pc \notin {"free", "over"}

\* _stop_event and cancel_event: a follower told to stop sends at most the
\* sample it has begun, a skill too, and one more at the end of an evasive turn.
StopIsHeeded ==
    /\ \A g \in DOMAIN follows : follows[g].after <= 1
    /\ \A k \in DOMAIN skills : skills[k].after <= 2

\* "Runs a single skill locally": never two at once, although a skill frees its
\* slot after the next may have begun.
OneSkill == Cardinality({k \in DOMAIN skills : skills[k].status = "running"}) <= 1

\* "Own one local visual-follow session": never two followers that nobody has
\* told to stop.
OneFollower == Cardinality({g \in DOMAIN follows : follows[g].pc # "over" /\ ~follows[g].stop}) <= 1

=============================================================================
