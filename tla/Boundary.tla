------------------------------ MODULE Boundary ------------------------------
(***************************************************************************)
(* The navigation boundary of a map, from the draft in the center to the   *)
(* watchdog on the robot.  The center keeps the latest draft and the last  *)
(* revision the Edge acknowledged; a publish sends the draft to the Edge,  *)
(* which holds it in memory, in its metadata table and in the keepout mask *)
(* of Nav2, checks routes against it and stops the robot that leaves it.   *)
(*                                                                         *)
(* Map "m1" has the boundary, "m2" has none.  A body stands for an outer   *)
(* polygon with its zones: the points a robot may be at, and those of them *)
(* with a speed limit.  On the Edge every command has a thread of its own  *)
(* and nothing here is locked; a raster of the mask takes long, so another *)
(* thread may run between any two assignments of apply and activate_map.   *)
(***************************************************************************)
EXTENDS Naturals, Sequences

CONSTANTS
    Actors,         \* who acts: "planner", "maps", "tasks", "watchdog"
    Bodies,         \* set of [allowed, slow]: sets of points
    Points,         \* positions of the robot and of waypoints
    MaxRev,         \* bound: drafts saved
    MaxCmds,        \* bound: commands sent
    MaxZoneEdits,   \* bound: zones edited one by one
    MaxMoves,       \* bound: moves of the robot
    MaxCrashes      \* bound: restarts of the Edge

Maps == {"m1", "m2"}
Open == [allowed |-> Points, slow |-> {}]
None == [map |-> "none", rev |-> 0, body |-> Open]
Payloads == [map : Maps \cup {"none"}, rev : 0 .. MaxRev, body : Bodies \cup {Open}]

VARIABLES
    bound,      \* MapNavigationBoundary of "m1"
    saved,      \* history: the body each revision was saved with
    robotMap,   \* Robot.current_map_id in the center
    exec,       \* the start command of the robot's active execution, 0 for none
    cmds,       \* commands sent, with the answer of the Edge
    emap,       \* current map of the Edge
    mem, disk,  \* boundary in the Edge's memory and in its metadata table
    mask,       \* body of the keepout mask file
    thread,     \* per command, where its thread is and the raster in hand
    etask,      \* the start command of the task on the Edge, 0 for none
    watch,      \* watchdog: program counter, last violation and speed, a stop it made
    pose, moves, edits, crashes

center == <<bound, saved, robotMap, exec, edits>>
edge == <<emap, mem, disk, mask, etask>>
motion == <<watch, pose, moves>>
vars == <<center, cmds, edge, thread, motion, crashes>>

Idle == [pc |-> "idle", raster |-> Open]
NoWatch == [pc |-> "idle", violation |-> FALSE, speed |-> "none", act |-> FALSE, stopped |-> FALSE]

NoBoundary == [rev |-> 0, body |-> Open, activeRev |-> 0, active |-> Open,
               status |-> "unconfigured", cmd |-> 0]

Init ==
    /\ bound = NoBoundary /\ saved = <<>> /\ robotMap = "m1" /\ exec = 0 /\ cmds = <<>>
    /\ emap = "m1" /\ mem = None /\ disk = None /\ mask = Open
    /\ thread = [i \in 1 .. MaxCmds |-> Idle]
    /\ etask = 0 /\ watch = NoWatch /\ pose \in Points
    /\ moves = 0 /\ edits = 0 /\ crashes = 0

(* The center. *)

\* A command for the Edge, with the boundary it carries or names.
Send(kind, c, route) ==
    /\ Len(cmds) < MaxCmds
    /\ cmds' = Append(cmds, [kind |-> kind, map |-> c.map, rev |-> c.rev, body |-> c.body,
                             route |-> route, answer |-> "none", told |-> FALSE])

\* What normalize_boundary_payload accepts: a speed limit lies inside.
Normal(body) == body.slow \subseteq body.allowed /\ body.allowed # {}

\* PUT of the boundary, with the revision it was read at or without one.
SaveDraft(body) ==
    /\ "planner" \in Actors /\ bound.rev < MaxRev /\ Normal(body)
    /\ bound' = [bound EXCEPT !.rev = @ + 1, !.body = body, !.status = "draft"]
    /\ saved' = Append(saved, body)
    /\ UNCHANGED <<robotMap, exec, edits, cmds, edge, thread, motion, crashes>>

\* The views of a single zone know no revision.
EditZone(body) ==
    /\ bound.rev > 0 /\ edits < MaxZoneEdits /\ edits' = edits + 1
    /\ bound' = [bound EXCEPT !.body = body]
    /\ UNCHANGED <<saved, robotMap, exec, cmds, edge, thread, motion, crashes>>

\* boundary_payload: what is published, and what a start takes along.
DraftPayload == [map |-> "m1", rev |-> bound.rev, body |-> bound.body]

Publish ==
    /\ bound.rev > 0 /\ robotMap = "m1" /\ exec = 0
    /\ Send("apply", DraftPayload, {})
    /\ bound' = [bound EXCEPT !.status = "applying", !.cmd = Len(cmds) + 1]
    /\ UNCHANGED <<saved, robotMap, exec, edits, edge, thread, motion, crashes>>

SwitchMap(m) ==
    /\ "maps" \in Actors
    /\ Send("activate", [None EXCEPT !.map = m], {})
    /\ UNCHANGED <<center, edge, thread, motion, crashes>>

\* The boundary in the snapshot of a start.  The route may be older than it.
SnapshotRevision(m) == IF m = "m1" THEN bound.activeRev ELSE 0

StartTask(m, route) ==
    /\ "tasks" \in Actors /\ exec = 0 /\ exec' = Len(cmds) + 1
    /\ Send("start", [None EXCEPT !.map = m, !.rev = SnapshotRevision(m)], route)
    /\ UNCHANGED <<bound, saved, robotMap, edits, edge, thread, motion, crashes>>

\* A boundary the Edge has applied.
Applied(c) ==
    [bound EXCEPT !.activeRev = c.rev, !.active = c.body,
                  !.status = IF c.rev = bound.rev THEN "active" ELSE "draft"]

\* _handle_command_result; the answers to two commands come in any order.
Result(i) ==
    LET c == cmds[i]
    IN  /\ c.answer # "none" /\ ~c.told
        /\ cmds' = [cmds EXCEPT ![i].told = TRUE]
        /\ robotMap' = IF c.kind = "activate" /\ c.answer = "succeeded" THEN c.map ELSE robotMap
        /\ bound' = IF c.kind # "apply" \/ bound.cmd # i THEN bound
                    ELSE IF c.answer = "succeeded" THEN Applied(c)
                    ELSE [bound EXCEPT !.status = "failed"]
        /\ exec' = IF exec = i THEN 0 ELSE exec
        /\ UNCHANGED <<saved, edits, edge, thread, motion, crashes>>

(* Commands on the Edge. *)

Goto(i, pc) == thread' = [thread EXCEPT ![i].pc = pc]
Answer(i, a) == cmds' = [cmds EXCEPT ![i].answer = a] /\ Goto(i, "done")
Fresh(i, kind) ==
    /\ i \in DOMAIN cmds /\ cmds[i].kind = kind
    /\ cmds[i].answer = "none" /\ thread[i].pc = "idle"
AtPc(i, pc) == i \in DOMAIN cmds /\ thread[i].pc = pc

\* map.boundary_apply for another map than the current one is refused, else
\* memory comes first and its raster is begun.
ApplyBegin(i) ==
    /\ Fresh(i, "apply")
    /\ \/ /\ emap # cmds[i].map /\ Answer(i, "failed") /\ UNCHANGED edge
       \/ /\ emap = cmds[i].map
          /\ mem' = [map |-> cmds[i].map, rev |-> cmds[i].rev, body |-> cmds[i].body]
          /\ thread' = [thread EXCEPT ![i] = [pc |-> "raster", raster |-> cmds[i].body]]
          /\ UNCHANGED <<emap, disk, mask, etask, cmds>>
    /\ UNCHANGED <<center, motion, crashes>>

\* write_keepout_mask, which fails when the map files do not fit the payload.
ApplyMask(i) ==
    /\ AtPc(i, "raster")
    /\ \/ /\ mask' = thread[i].raster /\ Goto(i, "store") /\ UNCHANGED cmds
       \/ Answer(i, "failed") /\ UNCHANGED mask
    /\ UNCHANGED <<center, emap, mem, disk, etask, motion, crashes>>

\* set_metadata stores what is in memory by now.
ApplyStore(i) ==
    /\ AtPc(i, "store") /\ disk' = mem /\ Goto(i, "reload")
    /\ UNCHANGED <<center, cmds, emap, mem, mask, etask, motion, crashes>>

\* reload_boundary_filter and the result.
Reload(i) ==
    /\ AtPc(i, "reload") /\ \E a \in {"succeeded", "failed"} : Answer(i, a)
    /\ UNCHANGED <<center, edge, motion, crashes>>

\* map.activate: the map files and the configuration.
ActivateBegin(i) ==
    /\ Fresh(i, "activate")
    /\ \/ etask # 0 /\ Answer(i, "failed") /\ UNCHANGED edge
       \/ /\ etask = 0 /\ emap' = cmds[i].map /\ Goto(i, "clear")
          /\ UNCHANGED <<mem, disk, mask, etask, cmds>>
    /\ UNCHANGED <<center, motion, crashes>>

\* activate_map keeps the boundary of the same map and forgets any other,
\* with what the watchdog had seen of it.
ActivateClear(i) ==
    /\ AtPc(i, "clear")
    /\ \/ mem.map = cmds[i].map /\ Goto(i, "reload") /\ UNCHANGED <<mem, disk, watch>>
       \/ /\ mem.map # cmds[i].map /\ Goto(i, "open")
          /\ mem' = None /\ disk' = None
          /\ watch' = [watch EXCEPT !.violation = FALSE, !.speed = "none"]
    /\ UNCHANGED <<center, cmds, emap, mask, etask, pose, moves, crashes>>

\* ensure_permissive_mask.
ActivateOpen(i) ==
    /\ AtPc(i, "open")
    /\ \/ mask' = Open /\ Goto(i, "reload") /\ UNCHANGED cmds
       \/ Answer(i, "failed") /\ UNCHANGED mask
    /\ UNCHANGED <<center, emap, mem, disk, etask, motion, crashes>>

\* Wrong variant: no look at the revision, only at the points.
ExpectsNothing(c) == TRUE

\* validate_expected.
Expected(c) == c.rev = 0 \/ (mem.map = c.map /\ mem.rev = c.rev)

\* validate_point, for the waypoints and the legs between them.
Inside(c) == mem.map # c.map \/ c.route \subseteq mem.body.allowed

\* validate_route of a task.start.
StartValidate(i) ==
    /\ Fresh(i, "start")
    /\ \/ Expected(cmds[i]) /\ Inside(cmds[i]) /\ Goto(i, "valid") /\ UNCHANGED cmds
       \/ ~(Expected(cmds[i]) /\ Inside(cmds[i])) /\ Answer(i, "failed")
    /\ UNCHANGED <<center, edge, motion, crashes>>

\* validate_task_start and prepare_task_start.
StartPrepare(i) ==
    /\ AtPc(i, "valid")
    /\ \/ emap = cmds[i].map /\ etask = 0 /\ etask' = i /\ Goto(i, "running") /\ UNCHANGED cmds
       \/ (emap # cmds[i].map \/ etask # 0) /\ Answer(i, "failed") /\ UNCHANGED etask
    /\ UNCHANGED <<center, emap, mem, disk, mask, motion, crashes>>

TaskEnds ==
    /\ etask # 0 /\ Answer(etask, "succeeded") /\ etask' = 0
    /\ UNCHANGED <<center, emap, mem, disk, mask, motion, crashes>>

(* The watchdog, _boundary_loop. *)

\* observe_pose remembers what it saw before anything is done about it.
Observe ==
    LET here == mem # None /\ mem.map = emap
        out == here /\ pose \notin mem.body.allowed
        limit == IF here /\ pose \in mem.body.slow THEN "slow" ELSE "none"
    IN  /\ "watchdog" \in Actors /\ watch.pc = "idle" /\ here
        /\ watch' = [pc |-> IF limit # watch.speed THEN "speed"
                            ELSE IF out /\ ~watch.violation THEN "stop" ELSE "idle",
                     violation |-> out, speed |-> limit,
                     act |-> out /\ ~watch.violation,
                     stopped |-> watch.stopped /\ out]
        /\ UNCHANGED <<center, cmds, edge, thread, pose, moves, crashes>>

\* set_boundary_speed_limit; retry_speed_application when it fails.
ApplySpeed ==
    /\ watch.pc = "speed"
    /\ \E ok \in BOOLEAN :
           watch' = [watch EXCEPT !.pc = IF watch.act THEN "stop" ELSE "idle",
                                  !.speed = IF ok THEN @ ELSE "retry"]
    /\ UNCHANGED <<center, cmds, edge, thread, pose, moves, crashes>>

\* cancel_navigation and zero velocity; retry_violation_stop when one fails.
AfterStop(ok) ==
    [watch EXCEPT !.pc = "idle", !.act = FALSE, !.stopped = ok, !.violation = @ /\ ok]

Stop ==
    /\ watch.pc = "stop" /\ \E ok \in BOOLEAN : watch' = AfterStop(ok)
    /\ UNCHANGED <<center, cmds, edge, thread, pose, moves, crashes>>

Move(p) ==
    /\ moves < MaxMoves /\ moves' = moves + 1 /\ p # pose /\ pose' = p
    /\ UNCHANGED <<center, cmds, edge, thread, watch, crashes>>

\* A restart ends the task and every command thread without an answer.  The
\* mask is written from the stored boundary, or both are given up.
Restart ==
    /\ crashes < MaxCrashes /\ crashes' = crashes + 1
    /\ \/ mem' = disk /\ disk' = disk /\ mask' = disk.body
       \/ mem' = None /\ disk' = None /\ mask' = Open
    /\ thread' = [i \in DOMAIN thread |->
                      [Idle EXCEPT !.pc = IF thread[i].pc = "idle" THEN "idle" ELSE "done"]]
    /\ etask' = 0 /\ watch' = NoWatch
    /\ exec' = IF exec # 0 /\ thread[exec].pc \notin {"idle", "done"} THEN 0 ELSE exec
    /\ UNCHANGED <<bound, saved, robotMap, edits, cmds, emap, pose, moves>>

Next ==
    \/ \E b \in Bodies : SaveDraft(b) \/ EditZone(b)
    \/ Publish
    \/ \E m \in Maps : SwitchMap(m) \/ \E p \in Points : StartTask(m, {p})
    \/ \E i \in DOMAIN cmds :
           \/ Result(i) \/ ApplyBegin(i) \/ ApplyMask(i) \/ ApplyStore(i) \/ Reload(i)
           \/ ActivateBegin(i) \/ ActivateClear(i) \/ ActivateOpen(i)
           \/ StartValidate(i) \/ StartPrepare(i)
    \/ TaskEnds \/ Observe \/ ApplySpeed \/ Stop \/ Restart
    \/ \E p \in Points : Move(p)

Spec == Init /\ [][Next]_vars

(* Properties. *)

TypeOK ==
    /\ bound \in [rev : 0 .. MaxRev, activeRev : 0 .. MaxRev, body : Bodies \cup {Open},
                  active : Bodies \cup {Open}, cmd : 0 .. MaxCmds,
                  status : {"unconfigured", "draft", "applying", "active", "failed"}]
    /\ robotMap \in Maps /\ emap \in Maps /\ exec \in 0 .. MaxCmds /\ etask \in 0 .. MaxCmds
    /\ mem \in Payloads /\ disk \in Payloads /\ mask \in Bodies \cup {Open}
    /\ Len(saved) = bound.rev

\* MapNavigationBoundary keeps the draft apart from the boundary in force: what
\* the center calls active was carried by a command that the Edge answered with
\* success, and the draft is called active only when it is that boundary's
\* revision, whatever was saved while the command was under way.
ActiveIsAcknowledged ==
    /\ bound.activeRev > 0 =>
           \E i \in DOMAIN cmds :
               /\ cmds[i].kind = "apply" /\ cmds[i].answer = "succeeded" /\ cmds[i].told
               /\ cmds[i].rev = bound.activeRev /\ cmds[i].body = bound.active
    /\ bound.status = "active" => bound.activeRev = bound.rev

\* validate_route: a task the Edge has taken whose snapshot names a revision
\* of the boundary runs on a route inside the boundary saved as that revision,
\* although publishes, switches of the map, failures half-way through apply and
\* restarts may have left the Edge with another boundary or with none.
TaskInsideItsRevision ==
    etask # 0 /\ cmds[etask].rev > 0
        => cmds[etask].route \subseteq saved[cmds[etask].rev].allowed

\* _boundary_loop: a violation that the watchdog holds for dealt with was
\* followed by a stop that did not fail, although it is noted before the stop
\* and a switch of the map resets the note.
ViolationIsStopped == watch.pc = "idle" /\ watch.violation => watch.stopped

=============================================================================
