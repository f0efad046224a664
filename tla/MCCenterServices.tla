-------------------------- MODULE MCCenterServices --------------------------
(* The services of the center beside the life of a task, as bounded          *)
(* instances for TLC: patrol loops, schedules, the catalogue of maps, routes *)
(* and tasks, incidents and validation.  The modules share no state: a       *)
(* behaviour explores one scenario, an instance of one of them, and leaves   *)
(* the others at rest.                                                       *)
EXTENDS Naturals

CONSTANTS
    Observation,                    \* OBSERVATION_SECONDS of the patrol loops
    LongRounds, LongAttempts,       \* rounds and recovery attempts of the scenarios
    BatteryRounds, BatteryAttempts  \* of the patrol loop

VARIABLES
    scenario,
    loop, exec, cmd, safety, over, low, phase, alerts, latch, known, samples, clean, lost,
    minute, enabled, holiday, scan, scanned, runs, busy, gate, created, edits,
    maps, routes, tasks, scheds, execs, commands, req, made, changes,
    now, dups, camera, posts, stored, incidents, ingest, obstacle, assets, got, run, image,
    photo, frame,
    recs, jobs, atts, arts, golden, work, storing, late, losses, expiries

loopVars == <<loop, exec, cmd, safety, over, low, phase, alerts, latch, known, samples, clean, lost>>
scheduleVars == <<minute, enabled, holiday, scan, scanned, runs, busy, gate, created, edits>>
catalogVars == <<maps, routes, tasks, scheds, execs, commands, req, made, changes>>
incidentVars == <<now, dups, camera, posts, stored, incidents, ingest, obstacle, assets, got,
                  run, image, photo, frame>>
validationVars == <<recs, jobs, atts, arts, golden, work, storing, late, losses, expiries>>

\* Rounds with recoveries and a continuation by the operator.  The patrol loop is
\* taken with its proofs.
Long == INSTANCE PatrolLoopProofs WITH
    MaxRounds <- LongRounds, MaxAttempts <- LongAttempts, MaxContinues <- 1, MaxPhases <- 0,
    MaxLost <- 1

\* Rounds in which the battery runs low.
Battery == INSTANCE PatrolLoopProofs WITH
    MaxRounds <- BatteryRounds, MaxAttempts <- BatteryAttempts, MaxContinues <- 0,
    MaxPhases <- 1, MaxLost <- 1

\* A daily and a holiday schedule of one robot and a daily one of another, all
\* due in one minute.
Minute == INSTANCE Schedule WITH
    Schedules <- <<[id |-> "a", robot |-> "r1", type |-> "daily"],
                   [id |-> "b", robot |-> "r1", type |-> "holiday"],
                   [id |-> "c", robot |-> "r2", type |-> "daily"]>>,
    Minutes <- 1, MaxExecs <- 3, MaxEdits <- 2

\* The two schedules of one robot over two minutes.
Calendar == INSTANCE Schedule WITH
    Schedules <- <<[id |-> "a", robot |-> "r1", type |-> "daily"],
                   [id |-> "b", robot |-> "r1", type |-> "holiday"]>>,
    Minutes <- 2, MaxExecs <- 3, MaxEdits <- 2

\* Two maps of a robot, activated, cleaned up and deleted.
MapsKept == INSTANCE Catalog WITH
    Robots <- {"r1"}, Requests <- {"q1", "q2"}, Maps <- {"m1", "m2"}, Routes <- {"x1"},
    Tasks <- {"t1"}, Schedules <- {"s1"}, Rounds <- {}, MaxExecs <- 0, MaxEdits <- 6,
    Kinds <- {"maps", "clean", "activate", "delete", "force", "routes", "tasks", "schedules"},
    edits <- changes

\* Rounds of a task that are asked for twice, and a forced deletion.
Executed == INSTANCE Catalog WITH
    Robots <- {"r1"}, Requests <- {"q1", "q2"}, Maps <- {"m1"}, Routes <- {"x1"},
    Tasks <- {"t1"}, Schedules <- {"s1"}, Rounds <- {1, 2}, MaxExecs <- 2, MaxEdits <- 5,
    Kinds <- {"maps", "routes", "tasks", "schedules", "force", "execute"},
    edits <- changes

\* A camera that sees bicycles and an alert of the Edge.
Bicycles == INSTANCE Incidents WITH
    Requests <- {"q1", "q2"}, Alerts <- {1}, Stages <- {}, Images <- {}, Frames <- {},
    Cooldown <- 1, Confirm <- 2, MaxTime <- 4, MaxReports <- 2, MaxDups <- 2, req <- ingest

\* The stages of an obstacle, delivered late, twice or in another order.
Obstacle == INSTANCE Incidents WITH
    Requests <- {"q1", "q2"}, Alerts <- {},
    Stages <- {[rank |-> 0, risk |-> 2], [rank |-> 1, risk |-> 0], [rank |-> 2, risk |-> 1],
               [rank |-> 3, risk |-> 2]},
    Images <- {}, Frames <- {}, Cooldown <- 1, Confirm <- 2, MaxTime <- 0, MaxReports <- 0,
    MaxDups <- 2, req <- ingest

\* A run of three diagnostic photographs.
Photos == INSTANCE Incidents WITH
    Requests <- {"q1", "q2"}, Alerts <- {}, Stages <- {}, Images <- {1, 2, 3}, Frames <- {},
    Cooldown <- 1, Confirm <- 2, MaxTime <- 2, MaxReports <- 0, MaxDups <- 0, req <- ingest

\* Frames with persons that overtake each other.
Persons == INSTANCE Incidents WITH
    Requests <- {"q1", "q2"}, Alerts <- {}, Stages <- {}, Images <- {}, Frames <- {0, 1, 2},
    Cooldown <- 1, Confirm <- 2, MaxTime <- 3, MaxReports <- 0, MaxDups <- 0, req <- ingest

\* Two runners that compete for a job, with a lost answer and an expired lease.
Leased == INSTANCE Validation WITH
    Runners <- {"r1", "r2"}, Recordings <- {"c1"}, Keys <- {}, Backend <- "local",
    Replays <- {FALSE}, MaxAttempts <- 2, MaxJobs <- 1, MaxLosses <- 1, MaxExpiries <- 1

\* A runner that replays recordings of the object store.
Replayed == INSTANCE Validation WITH
    Runners <- {"r1"}, Recordings <- {"c1"}, Keys <- {}, Backend <- "s3",
    Replays <- BOOLEAN, MaxAttempts <- 2, MaxJobs <- 1, MaxLosses <- 1, MaxExpiries <- 1

\* Two jobs with an idempotency key and their baselines.
Baselines == INSTANCE Validation WITH
    Runners <- {"r1"}, Recordings <- {"c1"}, Keys <- {"k1"}, Backend <- "local",
    Replays <- {FALSE}, MaxAttempts <- 1, MaxJobs <- 2, MaxLosses <- 0, MaxExpiries <- 0

\* The modules that a scenario does not explore.
LoopRests == Long!Init
CalendarRests == Calendar!Init
CatalogRests == MapsKept!Init
IncidentsRest == Bicycles!Init
ValidationRests == Leased!Init

Init ==
    \/ /\ \/ scenario = "long" /\ Long!Init
          \/ scenario = "battery" /\ Battery!Init
       /\ CalendarRests /\ CatalogRests /\ IncidentsRest /\ ValidationRests
    \/ /\ \/ scenario = "minute" /\ Minute!Init
          \/ scenario = "calendar" /\ Calendar!Init
       /\ LoopRests /\ CatalogRests /\ IncidentsRest /\ ValidationRests
    \/ /\ \/ scenario = "maps" /\ MapsKept!Init
          \/ scenario = "executed" /\ Executed!Init
       /\ LoopRests /\ CalendarRests /\ IncidentsRest /\ ValidationRests
    \/ /\ \/ scenario = "bicycles" /\ Bicycles!Init
          \/ scenario = "obstacle" /\ Obstacle!Init
          \/ scenario = "photos" /\ Photos!Init
          \/ scenario = "persons" /\ Persons!Init
       /\ LoopRests /\ CalendarRests /\ CatalogRests /\ ValidationRests
    \/ /\ \/ scenario = "leased" /\ Leased!Init
          \/ scenario = "replayed" /\ Replayed!Init
          \/ scenario = "baselines" /\ Baselines!Init
       /\ LoopRests /\ CalendarRests /\ CatalogRests /\ IncidentsRest

LoopNext ==
    /\ \/ scenario = "long" /\ Long!Next
       \/ scenario = "battery" /\ Battery!Next
    /\ UNCHANGED <<scenario, scheduleVars, catalogVars, incidentVars, validationVars>>

CalendarNext ==
    /\ \/ scenario = "minute" /\ Minute!Next
       \/ scenario = "calendar" /\ Calendar!Next
    /\ UNCHANGED <<scenario, loopVars, catalogVars, incidentVars, validationVars>>

CatalogNext ==
    /\ \/ scenario = "maps" /\ MapsKept!Next
       \/ scenario = "executed" /\ Executed!Next
    /\ UNCHANGED <<scenario, loopVars, scheduleVars, incidentVars, validationVars>>

IncidentsNext ==
    /\ \/ scenario = "bicycles" /\ Bicycles!Next
       \/ scenario = "obstacle" /\ Obstacle!Next
       \/ scenario = "photos" /\ Photos!Next
       \/ scenario = "persons" /\ Persons!Next
    /\ UNCHANGED <<scenario, loopVars, scheduleVars, catalogVars, validationVars>>

ValidationNext ==
    /\ \/ scenario = "leased" /\ Leased!Next
       \/ scenario = "replayed" /\ Replayed!Next
       \/ scenario = "baselines" /\ Baselines!Next
    /\ UNCHANGED <<scenario, loopVars, scheduleVars, catalogVars, incidentVars>>

Next == LoopNext \/ CalendarNext \/ CatalogNext \/ IncidentsNext \/ ValidationNext

vars == <<scenario, loopVars, scheduleVars, catalogVars, incidentVars, validationVars>>

Spec == Init /\ [][Next]_vars

\* Patrol loops: two rounds are never active together, a recovery follows a
\* window without an unsafe sample, and a completed loop has no execution that
\* could move (_dispatch_round, process).
LoopIsSupervised ==
    /\ [](scenario = "long" => Long!TypeOK)
    /\ [](scenario = "battery" => Battery!TypeOK)
    /\ [][/\ scenario = "long" =>
                Long!SeparatesRounds /\ Long!RecoversCleanly /\ Long!CompletesStopped
          /\ scenario = "battery" =>
                Battery!SeparatesRounds /\ Battery!RecoversCleanly /\ Battery!CompletesStopped]_loopVars

\* What latches the low battery leaves no loop and no execution active, and none
\* becomes active under the latch but one that the Edge still has
\* (terminate_low_battery).
LatchedIsStopped == [][scenario = "battery" => Battery!LatchedIsStopped]_loopVars

\* Schedules: one execution at most comes of a schedule in a planned minute, and
\* its record is never rewritten (trigger, record_skip).
SchedulesFireOnce ==
    /\ [](scenario = "minute" => Minute!TypeOK /\ Minute!DispatchedOnce)
    /\ [](scenario = "calendar" => Calendar!TypeOK /\ Calendar!DispatchedOnce)
    /\ [][(scenario = "minute" => Minute!KeepsRuns) /\ (scenario = "calendar" => Calendar!KeepsRuns)]_scheduleVars

\* The catalogue: an ordinary deletion takes no history along, and a loop round
\* is started once however often it is asked for (MapDataDetailView.delete,
\* _create_and_dispatch_execution).
HistoryIsKept ==
    /\ [](scenario = "maps" => MapsKept!TypeOK)
    /\ [](scenario = "executed" => Executed!TypeOK)
    /\ [][/\ scenario = "maps" => MapsKept!KeepsHistory
          /\ scenario = "executed" => Executed!KeepsHistory /\ Executed!ReplaysRound]_catalogVars

\* Incidents: one per cooldown although reports come over two ways, late and
\* repeated; an obstacle is shown at its worst stage and with its snapshot; the
\* first result of a photograph stays and a closed run has none open; a frame
\* never replaces a newer one (AlertService, MediaUploadView, the device views).
IncidentsAreTold ==
    /\ [](scenario = "bicycles" => Bicycles!TypeOK /\ Bicycles!OneIncidentPerCooldown)
    /\ [](scenario = "obstacle" => Obstacle!TypeOK /\ Obstacle!WorstStageShown /\ Obstacle!SnapshotLinked)
    /\ [](scenario = "photos" => Photos!TypeOK /\ Photos!ClosedRunIsDone)
    /\ [](scenario = "persons" => Persons!TypeOK)
    /\ [][(scenario = "photos" => Photos!KeepsResult) /\ (scenario = "persons" => Persons!KeepsNewest)]_incidentVars

\* Validation: the results of a job are those of its last attempt, an attempt is
\* open exactly while its job is leased, a cancelled job ends cancelled, and a
\* verdict was reached on the recording as declared (_validate_lease,
\* reclaim_expired, request_cancel, the runner's download).
VerdictsAreEarned ==
    /\ [](scenario = "leased" => /\ Leased!TypeOK /\ Leased!ResultOfLastAttempt
                                 /\ Leased!OpenAttemptIsLeased)
    /\ [](scenario = "replayed" => /\ Replayed!TypeOK /\ Replayed!ResultOfLastAttempt
                                   /\ Replayed!OpenAttemptIsLeased /\ Replayed!VerdictOnRecording)
    /\ [](scenario = "baselines" => Baselines!TypeOK /\ Baselines!VerdictOnRecording)
    /\ [][(scenario = "leased" => Leased!KeepsCancel) /\ (scenario = "replayed" => Replayed!KeepsCancel)]_validationVars

=============================================================================
