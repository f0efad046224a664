------------------------------ MODULE Announce ------------------------------
(***************************************************************************)
(* Announcements, from the center that queues them to the speakers of the  *)
(* robot.  The center keeps RobotCommand rows; the device polls for one,   *)
(* interrupts the announcement under way and gives the new one a thread of *)
(* its own, which reports back, downloads, waits for the audio device and  *)
(* plays on one speaker or on two.                                         *)
(*                                                                         *)
(* Kinds of commands: "waypoint" (blocking_fifo, single output), "alert"   *)
(* (both speakers), "plain" (operator, recording or text), "muted" (a      *)
(* source the device is configured to skip) and "stream" (live audio).     *)
(* A thread may be interrupted between any two of its steps.               *)
(***************************************************************************)
EXTENDS Naturals, Sequences, FiniteSets, FiniteSetsExt

CONSTANTS
    Kinds,          \* kinds queued by an operator or by an event of the task
    Detections,     \* telemetry requests that may queue a "bicycle" alert
    MaxCmds,        \* bound: commands queued
    MaxFaults       \* bound: lost answers of the center and lost polls

Ids == 1 .. MaxCmds
Spoken == {"waypoint", "alert", "plain", "muted", "bicycle", "battery"}
Final == {"finished", "failed", "superseded"}

VARIABLES
    cmds,       \* RobotCommand rows in the order of their creation: kind, status
    recent,     \* bicycle announcements queued within the cooldown
    detect,     \* telemetry requests: "idle", "synthesis"
    held,       \* the command the device has just polled, 0 for none
    taken,      \* history: order in which the device took commands
    thread,     \* per command: program counter, cancel event, outcome in hand
    active,     \* owner of _active_cancel
    procs,      \* registered player processes (owners)
    lease,      \* holder of the NX audio lock, 0 for none
    file,       \* waypoint status file per command
    late,       \* reports the center has not processed yet
    heard,      \* history: playbacks that ended by themselves
    faults

center == <<cmds, recent, detect>>
device == <<held, taken, thread, active, procs, lease, file, heard>>
vars == <<center, device, late, faults>>

NoThread == [pc |-> "none", cancel |-> FALSE, killed |-> FALSE, outs |-> {}, result |-> "none"]

Init ==
    /\ cmds = <<>> /\ recent = 0 /\ detect = [d \in Detections |-> "idle"]
    /\ held = 0 /\ taken = <<>> /\ thread = [c \in Ids |-> NoThread] /\ active = 0
    /\ procs = {} /\ lease = 0 /\ file = [c \in Ids |-> "none"] /\ late = {}
    /\ heard = {} /\ faults = 0

(* The queue of the center. *)

Row(kind) == [kind |-> kind, status |-> "queued"]
Queued(K) == {c \in DOMAIN cmds : cmds[c].kind \in K /\ cmds[c].status = "queued"}
Superseding(S) == [c \in DOMAIN cmds |-> IF c \in S THEN [cmds[c] EXCEPT !.status = "superseded"] ELSE cmds[c]]
Fault == faults < MaxFaults /\ faults' = faults + 1

Queue(kind) ==
    /\ kind \in Kinds /\ Len(cmds) < MaxCmds /\ cmds' = Append(cmds, Row(kind))
    /\ UNCHANGED <<recent, detect, device, late, faults>>

\* A recording an operator has just made or a text; the preview of an alert
\* skill; live audio; the announcement of a mapping session that diverged,
\* here as a source the device is configured to leave out.
QueueRecording == Queue("plain")
QueueText == Queue("plain")
QueuePreview == Queue("alert")
QueueStream == Queue("stream")
QueueDiverged == Queue("muted")

\* The announcement of a waypoint the robot has reached, one per waypoint of
\* the execution, and that of an obstacle stage, one per stage and attempt.
QueueWaypoint == Queue("waypoint")
QueueObstacle == Queue("alert")

\* The announcement of low battery aborts the waypoint announcements that wait.
QueueBattery ==
    /\ "battery" \in Kinds /\ Len(cmds) < MaxCmds
    /\ ~\E c \in DOMAIN cmds : cmds[c].kind = "battery"
    /\ cmds' = Append(Superseding(Queued({"waypoint"})), Row("battery"))
    /\ UNCHANGED <<recent, detect, device, late, faults>>

\* queue_bicycle_departure_speech looks for a recent one, has the text spoken ...
BicycleSynthesis(d) ==
    /\ detect[d] = "idle" /\ recent = 0 /\ detect' = [detect EXCEPT ![d] = "synthesis"]
    /\ UNCHANGED <<cmds, recent, device, late, faults>>

\* Wrong variant: the row is written without a second look.
CreatesAnyway(d) == TRUE

\* ... and looks again under the lock of the robot.
StillNone(d) == recent = 0

BicycleQueue(d) ==
    /\ detect[d] = "synthesis" /\ detect' = [detect EXCEPT ![d] = "idle"] /\ Len(cmds) < MaxCmds
    /\ IF StillNone(d) THEN cmds' = Append(cmds, Row("bicycle")) /\ recent' = recent + 1
       ELSE UNCHANGED <<cmds, recent>>
    /\ UNCHANGED <<device, late, faults>>

CooldownEnds ==
    /\ recent > 0 /\ recent' = 0 /\ UNCHANGED <<cmds, detect, device, late, faults>>

\* The command DeviceCommandPollView hands out.
Chosen ==
    IF Queued({"stream"}) # {} THEN Max(Queued({"stream"}))
    ELSE IF Queued({"waypoint"}) # {} THEN Min(Queued({"waypoint"}))
    ELSE IF Queued(Spoken) # {} THEN Max(Queued(Spoken))
    ELSE 0

\* What goes with it: older ones of the same action, unless one is blocking_fifo.
Replaced(c) ==
    IF cmds[c].kind = "waypoint" THEN {}
    ELSE {x \in Queued(IF cmds[c].kind = "stream" THEN {"stream"} ELSE Spoken \ {"waypoint"}) : x < c}

\* The answer of a poll may be lost; the row is "sent" all the same.
Poll ==
    /\ held = 0 /\ Chosen # 0
    /\ cmds' = [Superseding(Replaced(Chosen)) EXCEPT ![Chosen].status = "sent"]
    /\ \/ held' = Chosen /\ taken' = Append(taken, Chosen) /\ UNCHANGED faults
       \/ Fault /\ UNCHANGED <<held, taken>>
    /\ UNCHANGED <<recent, detect, thread, active, procs, lease, file, late, heard>>

(* The device. *)

\* The announcement that replace_command interrupts.
Interrupted(c) == active

\* interrupt_current terminates the player registered by now; a thread that
\* starts its player later is cancelled, but the player plays on.
Interrupt ==
    LET old == Interrupted(held)
    IN  /\ held # 0 /\ held' = 0 /\ active' = held /\ procs' = {}
        /\ thread' = [c \in Ids |->
               [thread[c] EXCEPT !.pc = IF c = held THEN "begin" ELSE @,
                                 !.cancel = @ \/ c = old,
                                 !.killed = @ \/ (c = old /\ c \in procs)]]
        /\ UNCHANGED <<center, taken, lease, file, late, heard, faults>>

Goto(c, pc) == thread' = [thread EXCEPT ![c].pc = pc]
At(c, pc) == c \in DOMAIN cmds /\ thread[c].pc = pc

\* What the center makes of a report, whatever its row says by now.
Reported(c, s) == [cmds EXCEPT ![c].status = s]

\* A report: processed and answered; processed without an answer or still on
\* its way when the client gives up.
Answered(c, s) == cmds' = Reported(c, s) /\ UNCHANGED <<late, faults>>
Unanswered(c, s) ==
    /\ Fault
    /\ \/ cmds' = Reported(c, s) /\ UNCHANGED late
       \/ late' = late \cup {<<c, s>>} /\ UNCHANGED cmds
       \/ UNCHANGED <<cmds, late>>

Late(r) ==
    /\ r \in late /\ late' = late \ {r} /\ cmds' = Reported(r[1], r[2])
    /\ UNCHANGED <<recent, detect, device, faults>>

\* The status file is kept for waypoint announcements only.
Filed(c, s) == IF cmds[c].kind = "waypoint" THEN [file EXCEPT ![c] = s] ELSE file

\* handle_command: report "running"; an error here ends the thread silently.
Begin(c) ==
    /\ At(c, "begin") /\ cmds[c].kind # "muted"
    /\ \/ /\ Answered(c, "running") /\ file' = Filed(c, "running")
          /\ Goto(c, IF cmds[c].kind = "stream" THEN "stream" ELSE "download")
       \/ Unanswered(c, "running") /\ Goto(c, "dead") /\ UNCHANGED file
    /\ UNCHANGED <<recent, detect, held, taken, active, procs, lease, heard>>

\* A source that is not to be played is reported as finished.
Skip(c) ==
    /\ At(c, "begin") /\ cmds[c].kind = "muted" /\ heard' = heard \cup {c}
    /\ \/ Answered(c, "finished") /\ Goto(c, "done")
       \/ Unanswered(c, "finished") /\ Goto(c, "dead")
    /\ UNCHANGED <<recent, detect, held, taken, active, procs, lease, file>>

\* handle_stream_audio_command: no interrupt reaches it.
Stream(c) ==
    /\ At(c, "stream")
    /\ \E ok \in BOOLEAN :
           /\ thread' = [thread EXCEPT ![c].pc = "final", ![c].result = IF ok THEN "finished" ELSE "failed"]
           /\ heard' = IF ok THEN heard \cup {c} ELSE heard
    /\ UNCHANGED <<center, held, taken, active, procs, lease, file, late, faults>>

\* PlaybackSuperseded, or an exception that is taken for it once cancelled.
Ending(c, s) == [thread[c] EXCEPT !.pc = "final", !.result = IF thread[c].cancel THEN "superseded" ELSE s]

Download(c) ==
    /\ At(c, "download")
    /\ \E ok \in BOOLEAN : thread' = [thread EXCEPT ![c] =
           IF ok /\ ~thread[c].cancel THEN [@ EXCEPT !.pc = "choose"] ELSE Ending(c, "failed")]
    /\ UNCHANGED <<center, held, taken, active, procs, lease, file, late, heard, faults>>

\* _play_audio: two speakers, or the remote one with the local one in reserve.
Outputs(c, present) ==
    IF cmds[c].kind \in {"alert", "bicycle", "battery"} \/ "3588" \notin present THEN present
    ELSE {"3588"}

\* The speakers that answer when the endpoints are looked up.
Present == SUBSET {"nx", "3588"}

Choose(c, present) ==
    /\ At(c, "choose")
    /\ thread' = [thread EXCEPT ![c] =
           IF present = {} THEN Ending(c, "failed")
           ELSE [@ EXCEPT !.outs = Outputs(c, present),
                          !.pc = IF "nx" \in Outputs(c, present) THEN "acquire" ELSE "start"]]
    /\ UNCHANGED <<center, held, taken, active, procs, lease, file, late, heard, faults>>

\* _acquire_nx_audio_lease: another thread holds it for up to five seconds.
Acquire(c) ==
    /\ At(c, "acquire")
    /\ \/ lease = 0 /\ lease' = c /\ Goto(c, "start")
       \/ /\ lease # 0 /\ UNCHANGED lease
          /\ thread' = [thread EXCEPT ![c] = Ending(c, "failed")]
    /\ UNCHANGED <<center, held, taken, active, procs, file, late, heard, faults>>

\* _release_nx_audio_lease, on every way out.
Released(c) == IF lease = c THEN 0 ELSE lease

\* Preparing the sound may fail; the player is registered only while its
\* thread is the active one.
Start(c) ==
    /\ At(c, "start")
    /\ \/ /\ Goto(c, "playing") /\ UNCHANGED lease
          /\ procs' = IF active = c THEN procs \cup {c} ELSE procs
       \/ /\ thread' = [thread EXCEPT ![c] = Ending(c, "failed")]
          /\ lease' = Released(c) /\ UNCHANGED procs
    /\ UNCHANGED <<center, held, taken, active, file, late, heard, faults>>

\* The player comes to its end, fails, or was terminated by an interrupt.
PlayResult(c, how) == IF how = "ended" THEN "finished" ELSE "failed"

Play(c, how) ==
    /\ At(c, "playing")
    /\ how = "terminated" <=> thread[c].killed
    /\ thread' = [thread EXCEPT ![c] = Ending(c, PlayResult(c, how))]
    /\ heard' = IF how = "ended" THEN heard \cup {c} ELSE heard
    /\ procs' = procs \ {c} /\ lease' = Released(c)
    /\ UNCHANGED <<center, held, taken, active, file, late, faults>>

\* The status file comes before the report.  A report of success that fails is
\* an exception of the playback, and is reported as one.
Report(c) ==
    LET r == thread[c].result
    IN  /\ At(c, "final") /\ file' = Filed(c, r)
        /\ \/ Answered(c, r) /\ Goto(c, "done")
           \/ /\ Unanswered(c, r)
              /\ thread' = [thread EXCEPT ![c] =
                     IF r = "finished" THEN Ending(c, "failed") ELSE [@ EXCEPT !.pc = "dead"]]
        /\ UNCHANGED <<recent, detect, held, taken, active, procs, lease, heard>>

Next ==
    \/ QueueRecording \/ QueueText \/ QueuePreview \/ QueueStream \/ QueueDiverged \/ QueueWaypoint \/ QueueObstacle
    \/ QueueBattery \/ CooldownEnds \/ Poll \/ Interrupt
    \/ \E d \in Detections : BicycleSynthesis(d) \/ BicycleQueue(d)
    \/ \E c \in DOMAIN cmds :
           \/ Begin(c) \/ Skip(c) \/ Stream(c) \/ Download(c) \/ Acquire(c) \/ Start(c) \/ Report(c)
           \/ \E present \in Present : Choose(c, present)
           \/ \E how \in {"ended", "error", "terminated"} : Play(c, how)
    \/ \E r \in late : Late(r)

Spec == Init /\ [][Next]_vars

(* Properties. *)

\* Types; the audio lock is held by a thread that is about to play or playing,
\* so it is given back on every error path (_release_nx_audio_lease).
TypeOK ==
    /\ \A c \in DOMAIN cmds : cmds[c].kind \in Spoken \cup {"stream"}
                              /\ cmds[c].status \in Final \cup {"queued", "sent", "running"}
    /\ held \in 0 .. MaxCmds /\ active \in 0 .. MaxCmds /\ procs \subseteq {active}
    /\ lease # 0 => thread[lease].pc \in {"start", "playing"}
    /\ \A c \in Ids : thread[c].pc = "playing" /\ "nx" \in thread[c].outs => lease = c

\* An announcement that the center or the status file of the waypoint calls
\* finished was played to its end (or was not to be played), whatever reports
\* were lost or came late and wherever an interrupt hit the thread.
FinishedWasPlayed ==
    \A c \in DOMAIN cmds : (cmds[c].status = "finished" \/ file[c] = "finished") => c \in heard

\* replace_command: a device calls an announcement superseded only when it has
\* taken a later command; the last one it took is never its own victim.
SupersededByNewer ==
    \A c \in DOMAIN cmds :
        thread[c].result = "superseded" =>
            \E i, j \in DOMAIN taken : i < j /\ taken[i] = c

\* blocking_fifo: a poll never replaces a waypoint announcement that waits, and
\* takes them in the order in which the robot reached the waypoints.
SparesWaypoints ==
    \A c \in DOMAIN cmds : cmds[c].kind = "waypoint" /\ cmds[c].status = "queued" /\ Len(cmds') = Len(cmds) =>
        /\ cmds'[c].status \in {"queued", "sent"}
        /\ cmds'[c].status = "sent" => c = Min(Queued({"waypoint"}))

\* queue_bicycle_departure_speech: however many requests found nothing recent
\* before they had the text synthesized, one announcement is queued per cooldown.
OneSpeechPerCooldown == recent <= 1

=============================================================================
