----------------------------- MODULE Incidents -----------------------------
(***************************************************************************)
(* What the robot's cameras and sensors report to the center, apart from   *)
(* the state of its task: bicycle detections over HTTP and over MQTT that  *)
(* are merged into incidents, obstacle stages with their snapshots, photo  *)
(* diagnostics an operator has requested, and the live boxes of persons.   *)
(*                                                                         *)
(* An atomic block of the center is one step (SQLite IMMEDIATE), every     *)
(* other statement of a view is a step of its own.  Boxes, confidences and *)
(* texts are left out; an incident keeps what merging looks at.            *)
(***************************************************************************)
EXTENDS Naturals, Sequences, FiniteSets, FiniteSetsExt

CONSTANTS
    Requests,       \* request threads of the center
    Alerts,         \* ids of alerts the Edge sends over MQTT, not 0
    Stages,         \* obstacle stages of the episode: [rank, risk], rank 0 is not shown
    Images,         \* images of the photo diagnostics (1 .. n), one run
    Frames,         \* times of captured person frames
    Cooldown,       \* BICYCLE_ALERT_COOLDOWN_SECONDS in ticks
    Confirm,        \* confirm_frames of BicycleAlertPolicy
    MaxTime,        \* bound: ticks
    MaxReports,     \* bound: reports of the camera
    MaxDups         \* bound: repeated or lost deliveries

VARIABLES
    now, dups,
    camera,     \* BicycleAlertPolicy: streak, until, reports made
    posts,      \* telemetry reports on their way: device time per sequence number
    stored,     \* sequence numbers with a RobotTelemetry row
    incidents,  \* InspectionEvents of bicycles: id, created, device time, merged
    req,        \* request threads
    obstacle,   \* the InspectionEvent of the obstacle episode
    assets,     \* snapshots of the episode that are stored
    got,        \* history: stages delivered
    run, image, \* photo diagnostics
    photo,      \* alerts created per image
    frame       \* RobotPersonDetectionState

live == <<camera, posts, stored, incidents>>
episode == <<obstacle, assets, got>>
diagnostics == <<run, image, photo>>
vars == <<now, dups, live, req, episode, diagnostics, frame>>

Resting == [pc |-> "idle", arg |-> 0]
NoObstacle == [exists |-> FALSE, rank |-> 0, risk |-> 0, snap |-> FALSE]
NoRun == [status |-> "queued", deleted |-> FALSE]
NoFrame == [exists |-> FALSE, at |-> 0, enabled |-> FALSE]

Init ==
    /\ now = 0 /\ dups = 0 /\ camera = [streak |-> 0, until |-> 0, made |-> 0]
    /\ posts = {} /\ stored = {} /\ incidents = <<>>
    /\ req = [q \in Requests |-> Resting]
    /\ obstacle = NoObstacle /\ assets = 0 /\ got = {}
    /\ run = NoRun /\ image = [i \in Images |-> "queued"] /\ photo = [i \in Images |-> 0]
    /\ frame = NoFrame

Tick == now < MaxTime /\ now' = now + 1 /\ UNCHANGED <<dups, live, req, episode, diagnostics, frame>>
Dup == dups < MaxDups /\ dups' = dups + 1
Rest(q) == req' = [req EXCEPT ![q] = Resting]
Enter(q, pc, arg) == req[q].pc = "idle" /\ req' = [req EXCEPT ![q] = [pc |-> pc, arg |-> arg]]

(* Bicycles. *)

\* BicycleAlertPolicy.observe for one frame: an alert after Confirm hits in a
\* row, then a cooldown of the same length as the center's.
Observe(hit) ==
    /\ now >= camera.until /\ camera.made < MaxReports /\ UNCHANGED <<now, dups>>
    /\ \/ ~hit /\ camera.streak > 0 /\ camera' = [camera EXCEPT !.streak = 0] /\ UNCHANGED posts
       \/ /\ hit /\ camera.streak + 1 < Confirm
          /\ camera' = [camera EXCEPT !.streak = @ + 1] /\ UNCHANGED posts
       \/ /\ hit /\ camera.streak + 1 = Confirm
          /\ camera' = [streak |-> 0, until |-> now + Cooldown, made |-> camera.made + 1]
          /\ posts' = posts \cup {[seq |-> camera.made + 1, seen |-> now]}
    /\ UNCHANGED <<stored, incidents, req, episode, diagnostics, frame>>

\* Wrong variant: the time the device has noted decides, so an old report is new.
RecentByDeviceTime(seen) ==
    {i \in DOMAIN incidents : incidents[i].seen + Cooldown >= now /\ seen + Cooldown >= now}

\* _recent_bicycle_event: by the time the row was created.
Recent(seen) == {i \in DOMAIN incidents : incidents[i].created + Cooldown >= now}

\* A new incident, or one more report of the incident that is still cooling.
Merged(id, seen) ==
    IF Recent(seen) # {}
    THEN [incidents EXCEPT ![Max(Recent(seen))].merged = @ + 1]
    ELSE Append(incidents, [id |-> id, created |-> now, seen |-> seen, merged |-> 1])

\* TelemetryIngestView: look for the sequence number, write the row, ingest the
\* detection.  A post may be repeated, and the device does not repeat a failed one.
Telemetry(q, p) ==
    /\ p \in posts /\ p.seq \notin stored /\ Enter(q, "telemetry", p)
    /\ \/ posts' = posts \ {p} /\ UNCHANGED dups
       \/ Dup /\ UNCHANGED posts
    /\ UNCHANGED <<now, camera, stored, incidents, episode, diagnostics, frame>>

LosePost(p) ==
    /\ p \in posts /\ posts' = posts \ {p} /\ Dup
    /\ UNCHANGED <<now, camera, stored, incidents, req, episode, diagnostics, frame>>

StoreTelemetry(q) ==
    LET p == req[q].arg
    IN  /\ req[q].pc = "telemetry"
        /\ \/ /\ p.seq \notin stored /\ stored' = stored \cup {p.seq}
              /\ req' = [req EXCEPT ![q].pc = "ingest"]
           \/ p.seq \in stored /\ Rest(q) /\ UNCHANGED stored
        /\ UNCHANGED <<now, dups, camera, posts, incidents, episode, diagnostics, frame>>

IngestTelemetry(q) ==
    /\ req[q].pc = "ingest" /\ incidents' = Merged(0, req[q].arg.seen) /\ Rest(q)
    /\ UNCHANGED <<now, dups, camera, posts, stored, episode, diagnostics, frame>>

\* ingest_edge_alert: an alert that has a row is only acknowledged.
EdgeAlert(a) ==
    /\ \/ incidents' = Merged(a, now) /\ ~\E i \in DOMAIN incidents : incidents[i].id = a
       \/ UNCHANGED incidents /\ \E i \in DOMAIN incidents : incidents[i].id = a
    /\ Dup
    /\ UNCHANGED <<now, camera, posts, stored, req, episode, diagnostics, frame>>

(* Obstacles and their snapshots. *)

\* The stage of the title: the highest one shown to operators so far.
TitleStage(old, s) == IF s > 0 /\ s >= old THEN s ELSE old

\* ingest_obstacle_stage: the uuid of the episode finds the row again.
ObstacleStage(s) ==
    /\ s \in got => Dup
    /\ s \notin got => UNCHANGED dups
    /\ got' = got \cup {s}
    /\ obstacle' = [exists |-> TRUE, rank |-> TitleStage(obstacle.rank, s.rank),
                    risk |-> Max({obstacle.risk, s.risk}), snap |-> obstacle.snap \/ assets > 0]
    /\ UNCHANGED <<now, live, req, assets, diagnostics, frame>>

\* MediaUploadView: an upload whose snapshot exists only links it ...
UploadBegin(q) ==
    /\ Stages # {}
    /\ \/ /\ assets > 0 /\ obstacle' = [obstacle EXCEPT !.snap = @ \/ obstacle.exists]
          /\ Dup /\ UNCHANGED <<assets, req>>
       \/ /\ assets = 0 /\ Enter(q, "create", obstacle.exists) /\ UNCHANGED <<obstacle, dups, assets>>
    /\ UNCHANGED <<now, live, got, diagnostics, frame>>

\* ... otherwise the row is written, and the event of the episode looked for.
UploadCreate(q) ==
    /\ req[q].pc = "create" /\ assets' = assets + 1
    /\ req' = [req EXCEPT ![q].pc = "link"]
    /\ UNCHANGED <<now, dups, live, obstacle, got, diagnostics, frame>>

\* Whether the event is there to be linked.
Found(q) == obstacle.exists

UploadLink(q) ==
    /\ req[q].pc = "link" /\ Rest(q)
    /\ obstacle' = [obstacle EXCEPT !.snap = @ \/ Found(q)]
    /\ UNCHANGED <<now, dups, live, assets, got, diagnostics, frame>>

(* Photo diagnostics. *)

Open == {i \in Images : image[i] \in {"queued", "running"}}

\* DeviceBicycleDetectionTestPollView takes the images in their order.
PollImage(i) ==
    /\ run.status \in {"queued", "running"} /\ ~run.deleted
    /\ image[i] = "queued" /\ \A j \in Images : j < i => image[j] # "queued"
    /\ image' = [image EXCEPT ![i] = "running"] /\ run' = [run EXCEPT !.status = "running"]
    /\ UNCHANGED <<now, dups, live, req, episode, photo, frame>>

\* A report is taken unless the image has its result.
TakesReport(i) == image[i] \notin {"finished", "failed"}

\* The images left once this one is done.
NoneRemaining(i) == Open \ {i} = {}

\* DeviceBicycleDetectionTestReportView; the retry of a device may come at any
\* time, after the run was given up too.  An alert belongs to one image.
ReportImage(i, s, qualified) ==
    /\ image[i] # "queued" /\ ~run.deleted /\ TakesReport(i)
    /\ image' = [image EXCEPT ![i] = s]
    /\ photo' = [photo EXCEPT ![i] = IF s = "finished" /\ qualified /\ @ = 0 THEN 1 ELSE @]
    /\ run' = IF NoneRemaining(i)
              THEN [run EXCEPT !.status = IF s = "finished" \/ \E j \in Images \ {i} : image[j] = "finished"
                                          THEN "finished" ELSE "failed"]
              ELSE run
    /\ UNCHANGED <<now, dups, live, req, episode, frame>>

\* expire_stalled_bicycle_detection_tests reads the runs, fails their open
\* images, and saves each run as it was read.
StalledRead(q) ==
    /\ run.status \in {"queued", "running"} /\ ~run.deleted /\ now > 0 /\ Images # {}
    /\ Enter(q, "stalled", 0)
    /\ UNCHANGED <<now, dups, live, episode, diagnostics, frame>>

StalledImages(q) ==
    /\ req[q].pc = "stalled" /\ req' = [req EXCEPT ![q].pc = "close"]
    /\ image' = IF run.deleted THEN image
                ELSE [i \in Images |-> IF i \in Open THEN "failed" ELSE image[i]]
    /\ UNCHANGED <<now, dups, live, episode, run, photo, frame>>

StalledRun(q) ==
    /\ req[q].pc = "close" /\ Rest(q)
    /\ run' = IF run.deleted THEN run ELSE [run EXCEPT !.status = "failed"]
    /\ UNCHANGED <<now, dups, live, episode, image, photo, frame>>

\* purge_expired_bicycle_detection_tests.
Purge ==
    /\ now = MaxTime /\ ~run.deleted /\ Images # {} /\ run' = [run EXCEPT !.deleted = TRUE]
    /\ UNCHANGED <<now, dups, live, req, episode, image, photo, frame>>

(* Live boxes of persons. *)

\* The conditional update of DevicePersonDetectionView.
Newer(t) == frame.exists /\ frame.at <= t

\* The update comes first; without a row one is created, and when another
\* request was faster the update is tried again.
PostFrame(q, t) ==
    /\ t \in Frames /\ t <= now /\ UNCHANGED <<now, dups, live, episode, diagnostics>>
    /\ \/ Newer(t) /\ frame' = [frame EXCEPT !.at = t] /\ UNCHANGED req
       \/ ~Newer(t) /\ frame.exists /\ UNCHANGED <<frame, req>>
       \/ ~frame.exists /\ Enter(q, "first", t) /\ UNCHANGED frame

FirstFrame(q) ==
    LET t == req[q].arg
    IN  /\ req[q].pc = "first" /\ Rest(q)
        /\ frame' = IF ~frame.exists THEN [NoFrame EXCEPT !.exists = TRUE, !.at = t]
                    ELSE IF Newer(t) THEN [frame EXCEPT !.at = t] ELSE frame
        /\ UNCHANGED <<now, dups, live, episode, diagnostics>>

\* RobotPersonDetectionView: an operator who disables the boxes clears them with
\* the time of the center; one who enables them saves the row as it was read.
ToggleRead(q) ==
    /\ frame.exists /\ Enter(q, "toggle", frame.at)
    /\ UNCHANGED <<now, dups, live, episode, diagnostics, frame>>

ToggleSave(q, on) ==
    /\ req[q].pc = "toggle" /\ Rest(q)
    /\ frame' = [frame EXCEPT !.enabled = on, !.at = IF on THEN req[q].arg ELSE now]
    /\ UNCHANGED <<now, dups, live, episode, diagnostics>>

Next ==
    \/ Tick \/ Purge
    \/ \E hit \in BOOLEAN : Observe(hit)
    \/ \E p \in posts : LosePost(p)
    \/ \E a \in Alerts : EdgeAlert(a)
    \/ \E s \in Stages : ObstacleStage(s)
    \/ \E i \in Images :
           PollImage(i) \/ \E s \in {"finished", "failed"}, qualified \in BOOLEAN : ReportImage(i, s, qualified)
    \/ \E q \in Requests :
           \/ StoreTelemetry(q) \/ IngestTelemetry(q) \/ UploadBegin(q) \/ UploadCreate(q) \/ UploadLink(q)
           \/ StalledRead(q) \/ StalledImages(q) \/ StalledRun(q) \/ FirstFrame(q) \/ ToggleRead(q)
           \/ \E p \in posts : Telemetry(q, p)
           \/ \E t \in Frames : PostFrame(q, t)
           \/ \E on \in BOOLEAN : ToggleSave(q, on)

Spec == Init /\ [][Next]_vars

(* Properties. *)

TypeOK ==
    /\ camera.streak < Confirm /\ stored \subseteq 1 .. camera.made
    /\ run.status \in {"queued", "running", "finished", "failed"}
    /\ \A i \in Images : image[i] \in {"queued", "running", "finished", "failed"} /\ photo[i] <= 1
    /\ assets <= Cardinality(Requests) /\ frame.at <= MaxTime

\* AlertService: two incidents of bicycles lie further apart than the cooldown
\* although the reports come over two ways, late and repeated.
OneIncidentPerCooldown ==
    \A i, j \in DOMAIN incidents :
        i < j => incidents[j].created > incidents[i].created + Cooldown

\* ingest_obstacle_stage: stages that arrive in any order and repeatedly show
\* the operator the highest of them, in the title and in the risk.
WorstStageShown ==
    obstacle.exists =>
        /\ obstacle.rank = Max({s.rank : s \in got}) /\ obstacle.risk = Max({s.risk : s \in got})

\* The snapshot and the obstacle event come over two ways in any order: once
\* both are stored and no upload is under way, the event has its snapshot.
SnapshotLinked ==
    assets > 0 /\ obstacle.exists /\ (\A q \in Requests : req[q].pc # "link") => obstacle.snap

\* "Device retries after a timeout must preserve the first complete diagnostic
\* result": an image that has its result keeps it.
KeepsResult == \A i \in Images : image[i] \in {"finished", "failed"} => image'[i] = image[i]

\* A run that is shown as finished or failed has no image that is still to come,
\* whether a report or the timeout has closed it.
ClosedRunIsDone == run.status \in {"finished", "failed"} => Open = {}

\* DevicePersonDetectionView: the boxes go back in time only when an operator
\* switches them, never by a frame that comes late.
KeepsNewest ==
    frame'.at < frame.at => \E q \in Requests : req[q].pc = "toggle" /\ req'[q] = Resting

=============================================================================
