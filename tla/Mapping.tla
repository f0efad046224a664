------------------------------- MODULE Mapping -------------------------------
(***************************************************************************)
(* The mapping workflow of the Edge: MappingAdapter, whose commands run on *)
(* threads of their own without a common lock, the SLAM process it starts  *)
(* under systemd, the map directories that process leaves on the disk, and *)
(* the threads that rescue a diverged map and check a saved one.           *)
(*                                                                         *)
(* The lock of the ENU origin (module OriginLock) appears here as the      *)
(* status, the origin and the file it leaves.  A map directory is a record *)
(* of what later decisions read from it; `order' is the order of their     *)
(* modification times.  Every call of a script or a service may fail.      *)
(***************************************************************************)
EXTENDS Naturals, Sequences, SequencesExt, FiniteSets

CONSTANTS
    Callers,     \* command threads
    Ops,         \* commands they may carry
    Types,       \* mapping types asked for
    Stops,       \* values of stop_process in a save
    Quality,     \* verdicts of the optimiser on a finalised map: "ok", "rejected"
    MaxCalls,    \* bound: commands
    MaxDirs,     \* bound: map directories
    MaxCrashes   \* bound: restarts of the Edge

Dirs == 1..MaxDirs
NoSession == [id |-> 0, st |-> "none", type |-> "indoor", oid |-> 0]
NoSlam == [alive |-> FALSE, oid |-> 0, cap |-> FALSE, ready |-> FALSE, dir |-> 0]
NoDir == [used |-> FALSE, own |-> 0, oid |-> 0, ref |-> 0, kf |-> FALSE, cap |-> FALSE,
          files |-> FALSE, stage |-> "run", div |-> FALSE, resc |-> FALSE, opt |-> "ok"]
Idle == [op |-> "none", pc |-> "idle", type |-> "indoor", stop |-> TRUE, n |-> 0, dir |-> 0,
         had |-> {}, for |-> 0]

VARIABLES
    session,  \* self.session
    mtype,    \* _mapping_type
    origin,   \* status of the monitor: [status, oid]
    ofile,    \* lock session named by gnss_origin.yaml, 0 if there is none
    slam,     \* the SLAM process
    bag,      \* the recorder runs
    saved,    \* mapping_workflow.json: [st, type]
    dir,      \* the map directories
    order,    \* the same, oldest modification first
    links,    \* the directory the current map links point to
    val,      \* post_save_validation.json: [id, st, of]
    checks,   \* validation threads: id -> state
    call,     \* the command threads
    calls, crashes

vars == <<session, mtype, origin, ofile, slam, bag, saved, dir, order, links, val, checks,
          call, calls, crashes>>
maps == <<dir, order, links>>
checking == <<val, checks>>

Init ==
    /\ session = NoSession /\ mtype = "indoor"
    /\ origin = [status |-> "idle", oid |-> 0] /\ ofile = 0
    /\ slam = NoSlam /\ bag = FALSE /\ saved = [st |-> "none", type |-> "indoor"]
    /\ dir = [d \in Dirs |-> NoDir] /\ order = <<>> /\ links = 0
    /\ val = [id |-> 0, st |-> "idle", of |-> 0]
    /\ checks = [i \in 1..MaxCalls |-> "none"]
    /\ call = [c \in Callers |-> Idle] /\ calls = 0 /\ crashes = 0

---------------------------------------------------------------------------
(* The map directories                                                     *)

Used == {d \in Dirs : dir[d].used}
Free == Dirs \ Used
\* max(..., key=_latest_file_mtime), 0 for no directory
Newest(S) == LET found == SelectSeq(order, LAMBDA d : d \in S)
             IN IF found = <<>> THEN 0 ELSE Last(found)

Touch(d) == order' = Append(SelectSeq(order, LAMBDA x : x # d), d)
Write(d, rec) == dir' = [dir EXCEPT ![d] = rec] /\ Touch(d)

\* _current_mapping_type, _current_origin_session_id
CurrentType == IF session.id # 0 THEN session.type ELSE mtype
CurrentOrigin == IF session.id # 0 /\ session.oid # 0 THEN session.oid ELSE origin.oid

\* _export_matches_current_session, _export_origin_session_id
Matches(d) ==
    \/ CurrentType # "outdoor"
    \/ IF CurrentOrigin # 0 THEN dir[d].oid = CurrentOrigin ELSE dir[d].oid # 0

\* _is_complete_export
CompleteExport(d) ==
    /\ dir[d].used /\ dir[d].files /\ ~dir[d].div
    /\ CurrentType = "outdoor" => dir[d].oid # 0
    /\ Matches(d)

\* _find_current_mapping_dir
CurrentDir ==
    LET mine == {d \in Used : Matches(d)}
        capturing == {d \in mine : dir[d].cap}
    IN Newest(IF capturing # {} THEN capturing ELSE mine)
\* _find_current_complete_export
CurrentExport == Newest({d \in Used : CompleteExport(d)})
\* _find_latest_session_dir(require_complete=True)
LatestComplete == Newest({d \in Used : dir[d].files})
\* _find_latest_progress_dir
ProgressDir == IF CurrentDir # 0 THEN CurrentDir ELSE Newest(Used)
\* _find_latest_recoverable_dir
RecoverableDir ==
    Newest({d \in Used : /\ dir[d].stage \in {"run", "failed"} /\ ~dir[d].div /\ dir[d].kf
                         /\ ~dir[d].files /\ Matches(d)})
After(d, e) == d # 0 /\ (e = 0 \/ Newest({d, e}) = d)
\* _mapping_readiness
ReadyForSave(d) == d # 0 /\ (dir[d].kf \/ dir[d].div)
Diverged(d) == d # 0 /\ dir[d].div

---------------------------------------------------------------------------
(* Effects several handlers share                                          *)

\* _set_state, _persist_workflow_state
SetState(st) ==
    /\ session' = IF session.id = 0 THEN session ELSE [session EXCEPT !.st = st]
    /\ saved' = IF session.id = 0 THEN saved ELSE [st |-> st, type |-> session.type]

\* _stop_rosbag, _stop_slam_process, _stop_orphan_slam_processes
StopSlam == slam' = NoSlam /\ bag' = FALSE

\* OriginLockMonitor.cancel
CancelOrigin == origin' = [origin EXCEPT !.status = "cancelled"] /\ ofile' = 0

\* _cleanup; nothing writes the workflow file.
Cleanup == StopSlam /\ CancelOrigin /\ session' = NoSession /\ mtype' = "indoor" /\ UNCHANGED saved

Goto(c, pc) == call' = [call EXCEPT ![c].pc = pc]
Return(c) == call' = [call EXCEPT ![c] = Idle]

NewSession(c, st, type) == [id |-> call[c].n, st |-> st, type |-> type, oid |-> 0]

\* The ENU origin a fresh SLAM process is started with: _prepare_mapping_runtime.
RuntimeOrigin == IF session.type = "outdoor" THEN ofile ELSE 0
\* What that function raises on.
RuntimeRefused ==
    session.type = "outdoor" /\ (ofile = 0 \/ (origin.oid # 0 /\ origin.oid # ofile))

\* The origin the process works with: systemd reads the environment at a start only.
ProcessOrigin == IF slam.alive THEN slam.oid ELSE RuntimeOrigin

\* _ensure_slam_process: adopts a live process, else starts one in a directory of its own.
EnsureSlam ==
    /\ ~RuntimeRefused
    /\ session' = [session EXCEPT !.oid = RuntimeOrigin]
    /\ \/ slam.alive /\ UNCHANGED <<slam, dir, order>>
       \/ /\ ~slam.alive
          /\ \E d \in Free :
                /\ slam' = [alive |-> TRUE, oid |-> ProcessOrigin, cap |-> FALSE, ready |-> FALSE,
                            dir |-> d]
                /\ Write(d, [NoDir EXCEPT !.used = TRUE, !.own = session.id,
                                          !.oid = ProcessOrigin, !.ref = ProcessOrigin])

\* _call_map_state(start_data): keyframes are captured from now on.
Capture(s) ==
    /\ slam' = [slam EXCEPT !.cap = TRUE]
    /\ Write(slam.dir, [dir[slam.dir] EXCEPT !.cap = TRUE, !.own = s])

---------------------------------------------------------------------------
(* start_mapping                                                           *)

Busy == {"starting", "mapping", "saving", "optimizing", "packaging", "uploading"}

\* With the systemd unit there is no child process, so _slam_process_alive is false
\* and a session in one of the busy states is taken for one whose SLAM has died.
StartStale(c) ==
    /\ call[c].pc = "start" /\ session.id # 0 /\ session.st \in Busy
    /\ Cleanup
    /\ UNCHANGED <<maps, checking, call, calls, crashes>>

StartRefused(c) ==
    /\ call[c].pc = "start"
    /\ \/ session.id = 0 /\ slam.alive
       \/ call[c].type = "outdoor" /\ origin.status # "locked"
    /\ session.st \notin Busy
    /\ Return(c)
    /\ UNCHANGED <<session, mtype, origin, ofile, slam, bag, saved, maps, checking, calls, crashes>>

\* The navigation stack is stopped and the sensors are started; if that fails the
\* session stays in "starting".
StartSession(c) ==
    /\ call[c].pc = "start" /\ session.st \notin Busy
    /\ ~(session.id = 0 /\ slam.alive)
    /\ call[c].type = "outdoor" => origin.status = "locked"
    /\ mtype' = call[c].type
    /\ session' = NewSession(c, "starting", call[c].type)
    /\ Goto(c, "start_slam") \/ Return(c)
    /\ UNCHANGED <<origin, ofile, slam, bag, saved, maps, checking, calls, crashes>>

StartSlam(c) ==
    /\ call[c].pc = "start_slam" /\ session.id # 0
    /\ EnsureSlam
    /\ bag' \in {bag, TRUE}
    /\ Goto(c, "start_capture")
    /\ UNCHANGED <<mtype, origin, ofile, saved, links, checking, calls, crashes>>

StartCapture(c) ==
    /\ call[c].pc = "start_capture" /\ slam.alive
    /\ Capture(session.id)
    /\ SetState("mapping")
    /\ Goto(c, "report")
    /\ UNCHANGED <<mtype, origin, ofile, bag, links, checking, calls, crashes>>

StartFailed(c) ==
    /\ call[c].pc \in {"start_slam", "start_capture"}
    /\ Cleanup /\ Return(c)
    /\ UNCHANGED <<maps, checking, calls, crashes>>

---------------------------------------------------------------------------
(* start_origin_lock, cancel_origin_lock and the monitor                   *)

OriginBlocked(c) ==
    \/ slam.alive
    \/ session.id # 0 /\ session.st \notin {"cancelled", "exited", "failed", "origin_waiting"}
    \/ session.st = "origin_waiting" /\ call[c].op = "lock" /\ origin.status = "waiting"

OriginRefused(c) ==
    /\ call[c].pc = "origin" /\ OriginBlocked(c)
    /\ Return(c)
    /\ UNCHANGED <<session, mtype, origin, ofile, slam, bag, saved, maps, checking, calls, crashes>>

OriginAgain(c) ==
    /\ call[c].pc = "origin" /\ ~OriginBlocked(c)
    /\ session.st = "origin_waiting" /\ call[c].op = "lock" /\ origin.status = "locked"
    /\ Goto(c, "report")
    /\ UNCHANGED <<session, mtype, origin, ofile, slam, bag, saved, maps, checking, calls, crashes>>

OriginSession(c) ==
    /\ call[c].pc = "origin" /\ ~OriginBlocked(c)
    /\ ~(session.st = "origin_waiting" /\ call[c].op = "lock" /\ origin.status = "locked")
    /\ mtype' = "outdoor"
    /\ session' = IF session.st = "origin_waiting" THEN session
                  ELSE NewSession(c, "origin_starting", "outdoor")
    /\ Goto(c, IF session.st = "origin_waiting" THEN "rearm" ELSE "arm")
    /\ UNCHANGED <<origin, ofile, slam, bag, saved, maps, checking, calls, crashes>>

\* prepare or start of the monitor: both forget the previous origin.
OriginArm(c) ==
    /\ call[c].pc \in {"arm", "rearm"}
    /\ origin' = [status |-> IF call[c].op = "lock" THEN "waiting" ELSE "ready", oid |-> 0]
    /\ ofile' = 0
    /\ bag' \in {bag, TRUE}
    /\ SetState("origin_waiting")
    /\ Goto(c, "report")
    /\ UNCHANGED <<mtype, slam, maps, checking, calls, crashes>>

OriginArmFailed(c) ==
    /\ call[c].pc \in {"arm", "rearm"}
    /\ IF call[c].pc = "arm" THEN Cleanup
       ELSE bag' = FALSE /\ UNCHANGED <<session, mtype, origin, ofile, slam, saved>>
    /\ Return(c)
    /\ UNCHANGED <<maps, checking, calls, crashes>>

\* cancel_origin_lock: only a session that was locking leaves "cancelled" in the file.
OriginCancel(c) ==
    /\ call[c].pc = "origin_cancel"
    /\ StopSlam /\ CancelOrigin /\ session' = NoSession /\ mtype' = "indoor"
    /\ saved' = IF session.st \in {"origin_starting", "origin_waiting", "origin_locked"}
                THEN [st |-> "cancelled", type |-> session.type] ELSE saved
    /\ Goto(c, "report")
    /\ UNCHANGED <<maps, checking, calls, crashes>>

\* OriginLock!LockOrigin and OriginLock!Fail, which strikes a held lock too.
MonitorLocks ==
    /\ origin.status = "waiting"
    /\ origin' = [status |-> "locked", oid |-> calls] /\ ofile' = calls
    /\ UNCHANGED <<session, mtype, slam, bag, saved, maps, checking, call, calls, crashes>>

MonitorFails ==
    /\ origin.status \in {"ready", "waiting", "locked"}
    /\ origin' = [origin EXCEPT !.status = "failed"]
    /\ UNCHANGED <<session, mtype, ofile, slam, bag, saved, maps, checking, call, calls, crashes>>

---------------------------------------------------------------------------
(* start_slam_warmup, begin_mapping                                        *)

\* The session a warm-up works in: one that ended is dropped first.
WarmupSession == IF session.st \in {"cancelled", "exited", "failed"} THEN NoSession ELSE session

WarmupRefused(c) ==
    /\ call[c].pc = "warmup"
    /\ \/ WarmupSession.id # 0 /\ session.st \notin {"origin_waiting", "origin_locked"}
       \/ WarmupSession.id # 0 /\ session.type # call[c].type
       \/ call[c].type = "outdoor" /\ origin.status \in {"waiting", "locked"}
             \* still locking, or locked longer than the TTL ago
    /\ session' = WarmupSession
    /\ Return(c)
    /\ UNCHANGED <<mtype, origin, ofile, slam, bag, saved, maps, checking, calls, crashes>>

WarmupFits(c) ==
    /\ call[c].pc = "warmup"
    /\ WarmupSession.id # 0 => /\ session.st \in {"origin_waiting", "origin_locked"}
                               /\ session.type = call[c].type

\* Without a locked origin an outdoor warm-up only prepares one.
WarmupPrepares(c) ==
    /\ WarmupFits(c) /\ call[c].type = "outdoor" /\ origin.status \notin {"waiting", "locked"}
    /\ session' = WarmupSession
    /\ call' = [call EXCEPT ![c].pc = "origin", ![c].op = "prepare"]
    /\ UNCHANGED <<mtype, origin, ofile, slam, bag, saved, maps, checking, calls, crashes>>

\* A new session stays in "starting" if the sensors fail.
WarmupStarts(c) ==
    /\ WarmupFits(c)
    /\ call[c].type = "outdoor" => origin.status = "locked"
    /\ LET s == IF WarmupSession.id # 0 THEN session ELSE NewSession(c, "starting", call[c].type)
       IN \/ /\ session' = [s EXCEPT !.st = "slam_starting", !.type = call[c].type]
             /\ mtype' = call[c].type
             /\ saved' = [st |-> "slam_starting", type |-> call[c].type]
             /\ Goto(c, "warmup_slam")
          \/ /\ WarmupSession.id = 0
             /\ session' = s /\ Return(c) /\ UNCHANGED <<mtype, saved>>
    /\ UNCHANGED <<origin, ofile, slam, bag, maps, checking, calls, crashes>>

WarmupSlam(c) ==
    /\ call[c].pc = "warmup_slam" /\ session.id # 0
    /\ EnsureSlam
    /\ bag' \in {bag, TRUE}
    /\ Goto(c, "warmup_call")
    /\ UNCHANGED <<mtype, origin, ofile, saved, links, checking, calls, crashes>>

WarmupCalled(c) ==
    /\ call[c].pc = "warmup_call" /\ slam.alive
    /\ SetState("slam_warmup")
    /\ Goto(c, "report")
    /\ UNCHANGED <<mtype, origin, ofile, slam, bag, maps, checking, calls, crashes>>

WarmupFailed(c) ==
    /\ call[c].pc \in {"warmup_slam", "warmup_call"}
    /\ StopSlam /\ CancelOrigin /\ session' = NoSession /\ mtype' = "indoor"
    /\ saved' = IF session.id = 0 THEN saved ELSE [st |-> "failed", type |-> session.type]
    /\ Return(c)
    /\ UNCHANGED <<maps, checking, calls, crashes>>

\* begin_mapping up to its service call; status() at its start is a Report.
BeginChecked(c) ==
    /\ call[c].pc = "begin"
    /\ \/ /\ session.st \in {"slam_warmup", "ready_to_map"} /\ slam.ready
          /\ session.type = "outdoor" => origin.status = "locked"
          /\ Goto(c, "capture")
          /\ SetState("ready_to_map")
       \/ /\ Return(c)   \* refused: not ready, no lock, or the heading is not confirmed
          /\ UNCHANGED <<session, saved>>
    /\ UNCHANGED <<mtype, origin, ofile, slam, bag, maps, checking, calls, crashes>>

BeginCapture(c) ==
    /\ call[c].pc = "capture" /\ slam.alive
    /\ Capture(session.id)
    /\ IF session.id = 0 THEN bag' = FALSE /\ UNCHANGED <<session, saved>> /\ Return(c)
       ELSE bag' \in {bag, TRUE} /\ SetState("mapping") /\ Goto(c, "report")
    /\ UNCHANGED <<mtype, origin, ofile, links, checking, calls, crashes>>

\* The recorder, the service call or, outdoors, the heading review fails: the recording
\* ends, but SLAM captures if the call had reached it.
BeginFailed(c) ==
    /\ call[c].pc = "capture"
    /\ \/ UNCHANGED <<slam, dir, order>>
       \/ slam.alive /\ Capture(session.id)
    /\ bag' = FALSE /\ Return(c)
    /\ UNCHANGED <<session, mtype, origin, ofile, saved, links, checking, calls, crashes>>

---------------------------------------------------------------------------
(* save_mapping, _save_active_mapping                                      *)

\* No session, but SLAM runs: the session is made up, as an indoor one.
SaveRecovered(c) ==
    /\ call[c].pc = "save" /\ session.id = 0 /\ slam.alive
    /\ session' = NewSession(c, "saving", "indoor")
    /\ Goto(c, "export")
    /\ UNCHANGED <<mtype, origin, ofile, slam, bag, saved, maps, checking, calls, crashes>>

Interrupted == After(RecoverableDir, LatestComplete)

\* No session and no SLAM: an interrupted export is taken up again.
SaveInterrupted(c) ==
    /\ call[c].pc = "save" /\ session.id = 0 /\ ~slam.alive /\ Interrupted
    /\ session' = NewSession(c, "saving", "indoor")
    /\ Goto(c, "restart_slam")
    /\ UNCHANGED <<mtype, origin, ofile, slam, bag, saved, maps, checking, calls, crashes>>

\* No session, no SLAM, nothing interrupted: the latest map is packaged once more.
SaveSync(c) ==
    /\ call[c].pc = "save" /\ session.id = 0 /\ ~slam.alive /\ ~Interrupted
    /\ LET d == IF CurrentExport # 0 THEN CurrentExport ELSE LatestComplete
       IN IF d = 0 THEN Return(c)
          ELSE call' = [call EXCEPT ![c].pc = "finalize", ![c].op = "sync", ![c].dir = d]
    /\ UNCHANGED <<session, mtype, origin, ofile, slam, bag, saved, maps, checking, calls, crashes>>

SaveSession(c) ==
    /\ call[c].pc = "save" /\ session.id # 0
    /\ Goto(c, IF ~slam.alive /\ CurrentExport = 0 THEN "restart_slam" ELSE "export")
    /\ UNCHANGED <<session, mtype, origin, ofile, slam, bag, saved, maps, checking, calls, crashes>>

\* _ensure_slam_process for the recovery of stored keyframes; a failure ends the call.
SaveRestartSlam(c) ==
    /\ call[c].pc = "restart_slam"
    /\ \/ /\ session.id # 0 /\ EnsureSlam /\ Goto(c, "export")
       \/ /\ Return(c) /\ UNCHANGED <<session, slam, dir, order>>
    /\ UNCHANGED <<mtype, origin, ofile, bag, saved, links, checking, calls, crashes>>

\* A finished export is taken instead of a new one.
SkipSlamSave ==
    CurrentExport # 0 /\ (~slam.alive \/ dir[CurrentExport].stage = "completed")

SaveNotReady(c) ==
    /\ call[c].pc = "export" /\ ~SkipSlamSave /\ ~ReadyForSave(ProgressDir)
    /\ SetState(IF slam.alive THEN session.st ELSE "failed")
    /\ Return(c)
    /\ UNCHANGED <<mtype, origin, ofile, slam, bag, maps, checking, calls, crashes>>

SaveSkips(c) ==
    /\ call[c].pc = "export" /\ SkipSlamSave
    /\ bag' = FALSE /\ SetState("saving")
    /\ call' = [call EXCEPT ![c].pc = "finalize", ![c].dir = CurrentExport, ![c].for = session.id]
    /\ UNCHANGED <<mtype, origin, ofile, slam, maps, checking, calls, crashes>>

\* The save service accepts: SLAM writes the files later.
SaveAccepted(c) ==
    /\ call[c].pc = "export" /\ ~SkipSlamSave /\ ReadyForSave(ProgressDir)
    /\ slam.alive /\ ~dir[slam.dir].div
    /\ bag' = FALSE /\ SetState("saving")
    /\ call' = [call EXCEPT ![c].pc = "wait", ![c].dir = CurrentDir, ![c].for = session.id,
                            ![c].had = {d \in Used : dir[d].files}]
    /\ UNCHANGED <<mtype, origin, ofile, slam, maps, checking, calls, crashes>>

\* The save service refuses or fails: a diverged map is rescued.
SaveRejected(c) ==
    /\ call[c].pc = "export" /\ ~SkipSlamSave /\ ReadyForSave(ProgressDir)
    /\ bag' = FALSE
    /\ SetState(IF slam.alive THEN "mapping" ELSE "failed")
    /\ IF Diverged(ProgressDir)
       THEN call' = [call EXCEPT ![c].pc = "rescue", ![c].dir = ProgressDir, ![c].for = session.id]
       ELSE Return(c)
    /\ UNCHANGED <<mtype, origin, ofile, slam, maps, checking, calls, crashes>>

\* _wait_for_complete_map_dir
ExportFound(c) ==
    LET fresh == Newest({d \in Used : CompleteExport(d) /\ d \notin call[c].had})
    IN IF call[c].dir # 0 /\ CompleteExport(call[c].dir) THEN call[c].dir
       ELSE IF fresh # 0 THEN fresh
       ELSE IF CurrentType = "outdoor" THEN CurrentExport ELSE 0

SaveExported(c) ==
    /\ call[c].pc = "wait" /\ ExportFound(c) # 0
    /\ call' = [call EXCEPT ![c].pc = "finalize", ![c].dir = ExportFound(c)]
    /\ UNCHANGED <<session, mtype, origin, ofile, slam, bag, saved, maps, checking, calls, crashes>>

\* Wrong variant: a failed export leaves SLAM running.
LeakSlam(c) ==
    /\ IF call[c].op = "save" THEN bag' = FALSE /\ SetState("failed") /\ UNCHANGED slam
       ELSE UNCHANGED <<session, saved, slam, bag>>

\* The except branch of _save_active_mapping; a sync and a rescue have none.
TearDownFailed(c) ==
    IF call[c].op # "save" \/ call[c].pc \in {"package_rescue", "upload_rescue"}
    THEN UNCHANGED <<session, saved, slam, bag>>
    ELSE /\ IF call[c].stop THEN StopSlam ELSE UNCHANGED <<slam, bag>>
         /\ SetState("failed")

SaveFailed(c) ==
    /\ call[c].pc \in {"wait", "finalize", "package", "upload", "package_rescue", "upload_rescue"}
    /\ TearDownFailed(c) /\ Return(c)
    /\ UNCHANGED <<mtype, origin, ofile, maps, checking, calls, crashes>>

\* _validate_map_files
Valid(d) == ~dir[d].div /\ dir[d].stage # "failed" /\ dir[d].files

\* _merge_locked_origin_metadata
MergedOrigin(d) == IF session.id # 0 /\ session.type = "outdoor" THEN ofile ELSE dir[d].oid
MergeRefused(d) ==
    session.id # 0 /\ session.type = "outdoor" /\ (ofile = 0 \/ dir[d].oid = 0)

\* _finalize_session_package: the optimiser's verdict; outdoors it must be applied.
Finalized(d, q) ==
    /\ ~MergeRefused(d)
    /\ session.id # 0 /\ session.type = "outdoor" => q = "ok"
    /\ Write(d, [dir[d] EXCEPT !.oid = MergedOrigin(d), !.opt = q, !.stage = "completed"])

SaveFinalize(c) ==
    /\ call[c].pc = "finalize" /\ Valid(call[c].dir)
    /\ \E q \in Quality : Finalized(call[c].dir, q)
    /\ IF call[c].op = "sync" THEN UNCHANGED <<session, saved>> ELSE SetState("packaging")
    /\ Goto(c, "package")
    /\ UNCHANGED <<mtype, origin, ofile, slam, bag, links, checking, calls, crashes>>

\* Wrong variant: a rescued map is activated like any other.
ActivateRescued(d) == dir[d].opt = "ok"

ActivationAllowed(d) == ~dir[d].resc /\ dir[d].opt = "ok"

\* _package_map, _refresh_current_map_links
Package(c) ==
    links' = IF ActivationAllowed(call[c].dir) THEN call[c].dir ELSE links

SavePackage(c) ==
    /\ call[c].pc \in {"package", "package_rescue"}
    /\ Package(c)
    /\ IF call[c].op = "sync" THEN UNCHANGED <<session, saved>> ELSE SetState("uploading")
    /\ Goto(c, IF call[c].pc = "package" THEN "upload" ELSE "upload_rescue")
    /\ UNCHANGED <<mtype, origin, ofile, slam, bag, dir, order, checking, calls, crashes>>

SaveUploaded(c) ==
    /\ call[c].pc = "upload"
    /\ Goto(c, IF call[c].op = "sync" THEN "report" ELSE IF call[c].stop THEN "teardown" ELSE "queue")
    /\ UNCHANGED <<session, mtype, origin, ofile, slam, bag, saved, maps, checking, calls, crashes>>

SaveTeardown(c) ==
    /\ call[c].pc = "teardown"
    /\ StopSlam /\ CancelOrigin /\ session' = NoSession /\ mtype' = "indoor"
    /\ saved' = IF session.id = 0 THEN saved ELSE [st |-> "exited", type |-> session.type]
    /\ Goto(c, "queue")
    /\ UNCHANGED <<maps, checking, calls, crashes>>

\* _start_post_save_validation
SaveQueuesCheck(c) ==
    /\ call[c].pc = "queue"
    /\ val' = [id |-> call[c].n, st |-> "queued", of |-> call[c].n]
    /\ checks' = [checks EXCEPT ![call[c].n] = "queued"]
    /\ Goto(c, "report")
    /\ UNCHANGED <<session, mtype, origin, ofile, slam, bag, saved, maps, calls, crashes>>

---------------------------------------------------------------------------
(* Rescue of a diverged map, cancellation, offline optimisation            *)

\* _handle_mapping_divergence_event, auto_rescue_diverged_mapping
RescueBegins(c) ==
    /\ call[c].pc = "divergence"
    /\ \/ /\ session.id # 0
          /\ session.st \notin {"cancelled", "exited", "failed", "recovering", "packaging", "uploading"}
          /\ \E d \in Used : /\ dir[d].div
                             /\ call' = [call EXCEPT ![c].pc = "tail", ![c].dir = d,
                                                     ![c].for = session.id]
       \/ Return(c)     \* no active session, or the writer did not flush
    /\ UNCHANGED <<session, mtype, origin, ofile, slam, bag, saved, maps, checking, calls, crashes>>

\* The tail of the recording ends.
RescueTail(c) ==
    /\ call[c].pc = "tail"
    /\ bag' = FALSE /\ Goto(c, "rescue")
    /\ UNCHANGED <<session, mtype, origin, ofile, slam, saved, maps, checking, calls, crashes>>

\* _rescue_diverged_mapping up to its package: a new directory from the good prefix.
Rescue(c) ==
    /\ call[c].pc = "rescue"
    /\ slam' = NoSlam
    /\ \/ \E d \in Free, q \in Quality :
             /\ Write(d, [NoDir EXCEPT !.used = TRUE, !.own = dir[call[c].dir].own,
                                       !.oid = dir[call[c].dir].oid, !.ref = dir[call[c].dir].ref,
                                       !.kf = TRUE, !.files = TRUE, !.resc = TRUE, !.opt = q,
                                       !.stage = "completed"])
             /\ call' = [call EXCEPT ![c].pc = "package_rescue", ![c].dir = d]
             /\ SetState("packaging")
       \/ /\ SetState("recovering") /\ Return(c) /\ UNCHANGED <<dir, order>>
    /\ UNCHANGED <<mtype, origin, ofile, bag, links, checking, calls, crashes>>

RescueUploaded(c) ==
    /\ call[c].pc = "upload_rescue"
    /\ Cleanup /\ Goto(c, "report")
    /\ UNCHANGED <<maps, checking, calls, crashes>>

\* cancel_mapping: first the processes and the progress file, then _cleanup.
CancelStops(c) ==
    /\ call[c].pc = "cancel"
    /\ SetState("cancelled") /\ StopSlam
    /\ IF session.id # 0 /\ session.type = "outdoor" THEN CancelOrigin ELSE UNCHANGED <<origin, ofile>>
    /\ LET d == ProgressDir
       IN IF d # 0 /\ dir[d].stage = "run" THEN Write(d, [dir[d] EXCEPT !.stage = "cancelled", !.div = FALSE])
          ELSE UNCHANGED <<dir, order>>
    /\ Goto(c, "cleanup")
    /\ UNCHANGED <<mtype, links, checking, calls, crashes>>

CancelCleans(c) ==
    /\ call[c].pc = "cleanup"
    /\ Cleanup /\ Goto(c, "report")
    /\ UNCHANGED <<maps, checking, calls, crashes>>

\* optimize_historical_map
OptimizeChecked(c) ==
    /\ call[c].pc = "optimize"
    /\ \E d \in Used : IF session.id # 0 \/ slam.alive \/ ~dir[d].files THEN Return(c)
                       ELSE call' = [call EXCEPT ![c].pc = "optimizing", ![c].dir = d]
    /\ UNCHANGED <<session, mtype, origin, ofile, slam, bag, saved, maps, checking, calls, crashes>>

\* The revision is activated only when the operator asked for it.
Optimized(c) ==
    /\ call[c].pc = "optimizing"
    /\ \/ /\ \E d \in Free, q \in Quality, activate \in BOOLEAN :
                /\ Write(d, [dir[call[c].dir] EXCEPT !.opt = q, !.stage = "completed"])
                /\ links' = IF activate /\ q = "ok" /\ ~dir[call[c].dir].resc THEN d ELSE links
       \/ UNCHANGED maps
    /\ Return(c)
    /\ UNCHANGED <<session, mtype, origin, ofile, slam, bag, saved, checking, calls, crashes>>

---------------------------------------------------------------------------
(* status, the validation threads, SLAM and restarts                       *)

\* The transitions status() makes on the way.
Observed ==
    CASE session.st = "origin_waiting" /\ origin.status = "locked" -> "origin_locked"
      [] session.st \in {"origin_starting", "origin_waiting"} /\ origin.status = "failed" -> "failed"
      [] session.st = "slam_warmup" /\ slam.ready -> "ready_to_map"
      [] OTHER -> session.st
Observe == IF Observed # session.st THEN SetState(Observed) ELSE UNCHANGED <<session, saved>>

\* Every handler ends in status().
Report(c) ==
    /\ call[c].pc = "report"
    /\ Observe /\ Return(c)
    /\ UNCHANGED <<mtype, origin, ofile, slam, bag, maps, checking, calls, crashes>>

\* The poll of the status loop.
Poll ==
    /\ Observed # session.st /\ Observe
    /\ UNCHANGED <<mtype, origin, ofile, slam, bag, maps, checking, call, calls, crashes>>

\* _run_post_save_validation
CheckBegins(i) ==
    /\ checks[i] = "queued"
    /\ \/ val.id = i /\ checks' = [checks EXCEPT ![i] = "running"] /\ val' = [val EXCEPT !.st = "running"]
       \/ val.id # i /\ checks' = [checks EXCEPT ![i] = "done"] /\ UNCHANGED val
    /\ UNCHANGED <<session, mtype, origin, ofile, slam, bag, saved, maps, call, calls, crashes>>

StillWanted(i) == val.id = i

CheckEnds(i) ==
    /\ checks[i] = "running" /\ checks' = [checks EXCEPT ![i] = "done"]
    /\ \E r \in {"passed", "failed"} :
          val' = IF StillWanted(i) THEN [val EXCEPT !.st = r, !.of = i] ELSE val
    /\ UNCHANGED <<session, mtype, origin, ofile, slam, bag, saved, maps, call, calls, crashes>>

SlamReady ==
    /\ slam.alive /\ ~slam.ready /\ slam' = [slam EXCEPT !.ready = TRUE]
    /\ UNCHANGED <<session, mtype, origin, ofile, bag, saved, maps, checking, call, calls, crashes>>

SlamKeyframe ==
    /\ slam.alive /\ slam.ready /\ slam.cap /\ ~dir[slam.dir].kf
    /\ Write(slam.dir, [dir[slam.dir] EXCEPT !.kf = TRUE])
    /\ UNCHANGED <<session, mtype, origin, ofile, slam, bag, saved, links, checking, call, calls, crashes>>

SlamDiverges ==
    /\ slam.alive /\ dir[slam.dir].kf /\ ~dir[slam.dir].files /\ ~dir[slam.dir].div
    /\ dir[slam.dir].stage = "run"
    /\ Write(slam.dir, [dir[slam.dir] EXCEPT !.div = TRUE])
    /\ UNCHANGED <<session, mtype, origin, ofile, slam, bag, saved, links, checking, call, calls, crashes>>

\* The files of an accepted save appear, or the export fails.
SlamExports ==
    /\ slam.alive /\ \E c \in Callers : call[c].pc = "wait"
    /\ \E d \in {slam.dir, RecoverableDir} \cap Used :
          /\ dir[d].kf /\ ~dir[d].files /\ ~dir[d].div /\ dir[d].stage = "run"
          /\ \E ok \in BOOLEAN :
                Write(d, [dir[d] EXCEPT !.files = ok, !.stage = IF ok THEN "exported" ELSE "failed"])
    /\ UNCHANGED <<session, mtype, origin, ofile, slam, bag, saved, links, checking, call, calls, crashes>>

SlamDies ==
    /\ slam.alive /\ slam' = NoSlam
    /\ UNCHANGED <<session, mtype, origin, ofile, bag, saved, maps, checking, call, calls, crashes>>

\* A restart of the Edge: systemd keeps SLAM and the recorder.  _restore_workflow_state
\* takes an origin file that is not too old for a lock, and a session that was locking.
Restart ==
    /\ crashes < MaxCrashes /\ crashes' = crashes + 1
    /\ \E fresh \in BOOLEAN :
          LET locked == fresh /\ ofile # 0
              resumed == locked /\ saved.type = "outdoor" /\ saved.st \in {"origin_locked", "origin_waiting"}
          IN /\ origin' = IF locked THEN [status |-> "locked", oid |-> ofile]
                          ELSE [status |-> "idle", oid |-> 0]
             /\ mtype' = IF locked THEN "outdoor" ELSE "indoor"
             /\ session' = IF resumed THEN [id |-> ofile, st |-> "origin_locked", type |-> "outdoor", oid |-> 0]
                           ELSE NoSession
    /\ call' = [c \in Callers |-> Idle]
    /\ checks' = [i \in 1..MaxCalls |-> IF checks[i] = "none" THEN "none" ELSE "done"]
    /\ UNCHANGED <<ofile, slam, bag, saved, maps, val, calls>>

\* _execute_mapping: a command arrives on a thread of its own.
FirstStep == [start |-> "start", prepare |-> "origin", lock |-> "origin", unlock |-> "origin_cancel",
              warmup |-> "warmup", begin |-> "begin", save |-> "save", cancel |-> "cancel",
              rescue |-> "divergence", optimize |-> "optimize"]

Command(c, op) ==
    /\ call[c].pc = "idle" /\ calls < MaxCalls
    /\ calls' = calls + 1
    /\ \E t \in IF op \in {"start", "warmup"} THEN Types ELSE {"indoor"},
          st \in IF op = "save" THEN Stops ELSE {TRUE} :
          call' = [call EXCEPT ![c] = [Idle EXCEPT !.op = op, !.pc = FirstStep[op], !.n = calls',
                                        !.type = t, !.stop = st]]
    /\ UNCHANGED <<session, mtype, origin, ofile, slam, bag, saved, maps, checking, crashes>>

Start(c) == StartStale(c) \/ StartRefused(c) \/ StartSession(c) \/ StartSlam(c) \/ StartCapture(c)
            \/ StartFailed(c)
Origin(c) == OriginRefused(c) \/ OriginAgain(c) \/ OriginSession(c) \/ OriginArm(c)
             \/ OriginArmFailed(c) \/ OriginCancel(c)
Warmup(c) == WarmupRefused(c) \/ WarmupPrepares(c) \/ WarmupStarts(c) \/ WarmupSlam(c)
             \/ WarmupCalled(c) \/ WarmupFailed(c)
Begin(c) == BeginChecked(c) \/ BeginCapture(c) \/ BeginFailed(c)
Save(c) == SaveRecovered(c) \/ SaveInterrupted(c) \/ SaveSync(c) \/ SaveSession(c) \/ SaveRestartSlam(c)
           \/ SaveNotReady(c) \/ SaveSkips(c) \/ SaveAccepted(c) \/ SaveRejected(c) \/ SaveExported(c)
           \/ SaveFinalize(c) \/ SavePackage(c) \/ SaveUploaded(c) \/ SaveTeardown(c)
           \/ SaveQueuesCheck(c) \/ SaveFailed(c)
Others(c) == RescueBegins(c) \/ RescueTail(c) \/ Rescue(c) \/ RescueUploaded(c) \/ CancelStops(c)
             \/ CancelCleans(c) \/ OptimizeChecked(c) \/ Optimized(c) \/ Report(c)

Next ==
    \/ \E c \in Callers : \/ Start(c) \/ Origin(c) \/ Warmup(c) \/ Begin(c) \/ Save(c) \/ Others(c)
                          \/ \E op \in Ops : Command(c, op)
    \/ MonitorLocks \/ MonitorFails \/ Poll
    \/ \E i \in 1..MaxCalls : CheckBegins(i) \/ CheckEnds(i)
    \/ SlamReady \/ SlamKeyframe \/ SlamDiverges \/ SlamExports \/ SlamDies \/ Restart

Spec == Init /\ [][Next]_vars

---------------------------------------------------------------------------
(* Properties                                                              *)

TypeOK ==
    /\ session.id \in 0..MaxCalls /\ session.oid \in 0..MaxCalls /\ session.type \in {"indoor", "outdoor"}
    /\ mtype \in {"indoor", "outdoor"} /\ ofile \in 0..MaxCalls
    /\ origin.status \in {"idle", "ready", "waiting", "locked", "failed", "cancelled"}
    /\ slam.dir \in 0..MaxDirs /\ (slam.alive => slam.dir \in Used)
    /\ links \in {0} \cup Used
    /\ Range(order) = Used /\ IsInjective(order)
    /\ bag \in BOOLEAN /\ val.st \in {"idle", "queued", "running", "passed", "failed"}

Quiet == \A c \in Callers : call[c].pc = "idle"

\* SLAM captures for a session that has ended, or for none.
Leaked == slam.cap /\ session.st \in {"none", "failed", "cancelled", "exited"}

\* A save told to keep the process (stop_process = false) fails: the code leaves SLAM as it is.
KeptOnFailure(c) ==
    call[c].op = "save" /\ ~call[c].stop /\ call'[c] = Idle /\ session'.st = "failed"

\* No capturing SLAM process is leaked: no step of a command, and no failure of one, leaves
\* SLAM capturing behind an ended session (_save_active_mapping, cancel_mapping, begin_mapping).
\* Two steps are excepted, as in the code: the failure of a save that was to keep the process,
\* and a restart of the Edge, which systemd's SLAM outlives.
NoLeak ==
    ~Leaked /\ crashes' = crashes => ~Leaked' \/ \E c \in Callers : KeptOnFailure(c)

\* What _save_active_mapping says of a leaked mapping node: a save that fails must not get
\* the next start_mapping rejected because a SLAM process without a session still runs.
NextStartAccepted == Quiet /\ crashes = 0 /\ session.id = 0 => ~slam.alive

\* The step in which a save picks the map it packages for its session.
Picks(c) == call[c].pc = "finalize" /\ call'[c].pc = "package" /\ call[c].op = "save"

\* Once SLAM was started for an outdoor session, a save packages only a map that was built
\* on the origin of that session, never a leftover of another lock or of an indoor run.
KeepsOrigin ==
    \A c \in Callers : Picks(c) /\ session.type = "outdoor" /\ session.oid # 0 =>
       dir[call[c].dir].ref = session.oid

\* SLAM never captures an outdoor session on another origin than the one the session
\* was started with, although a live process is adopted with the parameters it has.
CaptureOnOrigin ==
    slam.cap /\ session.st = "mapping" /\ session.type = "outdoor" /\ session.oid # 0 =>
        slam.oid = session.oid

\* The robot's current map is never switched to a rescued map or to one the optimiser
\* rejected, by whichever of save, synchronisation, rescue and offline optimisation.
ActivatesSound ==
    links' # links => ~dir'[links'].resc /\ dir'[links'].opt = "ok"
OnlySoundMapsActivated == [][ActivatesSound]_vars

\* The verdict shown after a save is of the map that was saved last, even when the
\* checks of two saves overlap.
VerdictOfLastSave == val.st \in {"passed", "failed"} => val.of = val.id

=============================================================================
