---------------------------- MODULE MCExchange -----------------------------
(* What center and Edge exchange, as bounded instances for TLC: commands and *)
(* their answers, the outbox, map boundaries and announcements.  The modules *)
(* share no state, so they are not interleaved: a behaviour explores one     *)
(* scenario, an instance of one of the modules, and leaves the others at     *)
(* rest.                                                                     *)
EXTENDS TLC, Naturals, Sequences

CONSTANTS
    Threads, Overlap,                                       \* of the executor of commands
    MaxRev, MaxOrders, MaxZoneEdits, MaxMoves, MaxRestarts  \* of the boundaries of maps

VARIABLES
    scenario,
    sends, wire, thread, processed, rows, context, ending, goal, boot, crashes, effects, sent,
    exec, points, holder, nextSeq, outbox, replaying, client, connected, acks, stored,
    receipts, total, seen, events, faults,
    bound, saved, robotMap, task, orders, emap, mem, disk, mask, applier, etask, watch, pose,
    moves, edits, restarts,
    queue, recent, detect, held, taken, speaker, active, procs, lease, file, late, heard, failures

commandVars == <<sends, wire, thread, processed, rows, context, ending, goal, boot, crashes,
                 effects, sent>>
outboxVars == <<exec, points, holder, nextSeq, outbox, replaying, client, connected, acks,
                stored, receipts, total, seen, events, faults>>
boundaryVars == <<bound, saved, robotMap, task, orders, emap, mem, disk, mask, applier, etask,
                  watch, pose, moves, edits, restarts>>
speechVars == <<queue, recent, detect, held, taken, speaker, active, procs, lease, file, late,
                heard, failures>>

\* One task, its start resent, and a pause and a resume of it.
OneKind == ("s1" :> "start") @@ ("p" :> "pause") @@ ("r" :> "resume")
OneSends == ("s1" :> 2) @@ ("p" :> 1) @@ ("r" :> 1)
OneTarget == [c \in DOMAIN OneKind |-> "s1"]
One == INSTANCE EdgeCommand WITH
    Commands <- DOMAIN OneKind, Kind <- OneKind, Target <- OneTarget, MaxSends <- OneSends,
    MaxCrashes <- 1

\* One task, started and cancelled by commands that are resent, and its force exit.
EndKind == ("s1" :> "start") @@ ("x" :> "cancel") @@ ("f" :> "force_exit")
EndSends == ("s1" :> 2) @@ ("x" :> 2) @@ ("f" :> 1)
EndTarget == [c \in DOMAIN EndKind |-> "s1"]
End == INSTANCE EdgeCommand WITH
    Commands <- DOMAIN EndKind, Kind <- EndKind, Target <- EndTarget, MaxSends <- EndSends,
    MaxCrashes <- 1

\* Two tasks and a recovery of the first by the center.
TwoKind == ("s1" :> "start") @@ ("s2" :> "start") @@ ("v" :> "recover")
TwoSends == [c \in DOMAIN TwoKind |-> 1]
TwoTarget == [c \in DOMAIN TwoKind |-> IF c = "s2" THEN "s2" ELSE "s1"]
Two == INSTANCE EdgeCommand WITH
    Commands <- DOMAIN TwoKind, Kind <- TwoKind, Target <- TwoTarget, MaxSends <- TwoSends,
    MaxCrashes <- 1

\* A walk with a jump between samples 1 and 2 and a change of map at the end.
WalkPos == (0 :> 0) @@ (1 :> 3) @@ (2 :> 9) @@ (3 :> 7)
WalkMap == (0 :> "m1") @@ (1 :> "m1") @@ (2 :> "m1") @@ (3 :> "m2")
Walk == INSTANCE EdgeOutbox WITH
    LastExec <- 1, Known <- {1}, MaxSeq <- 3, Pos <- WalkPos, MapOf <- WalkMap, Jump <- 5,
    BatchSize <- 2, Limit <- 2, ReplayLimit <- 1, MaxEvents <- 0, MaxFaults <- 1

\* Two executions, of which the center knows one, and an event.
Pair == INSTANCE EdgeOutbox WITH
    LastExec <- 2, Known <- {1}, MaxSeq <- 0, Pos <- WalkPos, MapOf <- WalkMap, Jump <- 5,
    BatchSize <- 2, Limit <- 2, ReplayLimit <- 1, MaxEvents <- 1, MaxFaults <- 1

\* Two boundaries of a map with the points 1 and 2: the second leaves out 2,
\* where the first asks for less speed.
Bodies == {[allowed |-> {1, 2}, slow |-> {2}], [allowed |-> {1}, slow |-> {}]}

Map == INSTANCE Boundary WITH
    Actors <- {"planner", "maps", "tasks", "watchdog"}, Points <- {1, 2}, MaxRev <- MaxRev,
    MaxCmds <- MaxOrders, MaxZoneEdits <- MaxZoneEdits, MaxMoves <- MaxMoves,
    MaxCrashes <- MaxRestarts,
    exec <- task, cmds <- orders, thread <- applier, crashes <- restarts

\* A step of a behaviour with these orders and at most so many revisions, orders,
\* zones edited, moves and restarts.
Within(kinds, revs, ordered, edited, moved, restarted) ==
    /\ \A i \in DOMAIN orders' : orders'[i].kind \in kinds
    /\ bound'.rev <= revs /\ Len(orders') <= ordered
    /\ edits' <= edited /\ moves' <= moved /\ restarts' <= restarted

\* A planner who saves, publishes and edits zones; publications beside the starts
\* of tasks; a change of map between a publication and the start of a task.
Unwatched ==
    /\ watch' = watch
    /\ \/ scenario = "plan" /\ Within({"apply"}, 2, 2, 1, 0, 0)
       \/ scenario = "fenced" /\ Within({"apply", "start"}, 2, 2, 0, 0, 1)
       \/ /\ scenario = "switched" /\ Within({"apply", "activate", "start"}, 1, 3, 0, 0, 0)
          /\ \A i \in DOMAIN saved' : saved'[i].allowed = {1}

\* A robot that moves under the watchdog.
Watched == scenario = "watched" /\ Within({"apply", "activate"}, 1, 2, 0, 2, 0)

\* Announcements of a patrol and of the operator.
Speech == INSTANCE Announce WITH
    Kinds <- {"waypoint", "plain"}, Detections <- {}, MaxCmds <- 3, MaxFaults <- 0,
    cmds <- queue, thread <- speaker, faults <- failures

\* Every kind of announcement, a lost answer or poll.
Faulty == INSTANCE Announce WITH
    Kinds <- {"waypoint", "plain", "stream", "muted", "battery", "alert"}, Detections <- {},
    MaxCmds <- 2, MaxFaults <- 1, cmds <- queue, thread <- speaker, faults <- failures

\* Two telemetry requests that see a bicycle.
Detected == INSTANCE Announce WITH
    Kinds <- {}, Detections <- {"d1", "d2"}, MaxCmds <- 2, MaxFaults <- 0,
    cmds <- queue, thread <- speaker, faults <- failures

\* The modules that a scenario does not explore.
CommandRests == One!Init
OutboxRests == Walk!Init
BoundaryRests == Map!Init /\ pose = 1
SpeechRests == Detected!Init

Init ==
    \/ /\ \/ scenario = "one" /\ One!Init
          \/ scenario = "end" /\ End!Init
          \/ scenario = "two" /\ Two!Init
       /\ OutboxRests /\ BoundaryRests /\ SpeechRests
    \/ /\ \/ scenario = "walk" /\ Walk!Init
          \/ scenario = "pair" /\ Pair!Init
       /\ CommandRests /\ BoundaryRests /\ SpeechRests
    \/ /\ \/ scenario \in {"plan", "fenced", "switched"} /\ Map!Init /\ pose = 1
          \/ scenario = "watched" /\ Map!Init
       /\ CommandRests /\ OutboxRests /\ SpeechRests
    \/ /\ \/ scenario = "speech" /\ Speech!Init
          \/ scenario = "faulty" /\ Faulty!Init
          \/ scenario = "detected" /\ Detected!Init
       /\ CommandRests /\ OutboxRests /\ BoundaryRests

CommandNext ==
    /\ \/ scenario = "one" /\ One!Next
       \/ scenario = "end" /\ End!Next
       \/ scenario = "two" /\ Two!Next
    /\ UNCHANGED <<scenario, outboxVars, boundaryVars, speechVars>>

OutboxNext ==
    /\ \/ scenario = "walk" /\ Walk!Next
       \/ scenario = "pair" /\ Pair!Next
    /\ UNCHANGED <<scenario, commandVars, boundaryVars, speechVars>>

BoundaryNext ==
    /\ scenario \in {"plan", "fenced", "switched", "watched"}
    /\ Map!Next /\ (Unwatched \/ Watched)
    /\ UNCHANGED <<scenario, commandVars, outboxVars, speechVars>>

SpeechNext ==
    /\ \/ scenario = "speech" /\ Speech!Next
       \/ scenario = "faulty" /\ Faulty!Next
       \/ scenario = "detected" /\ Detected!Next
    /\ UNCHANGED <<scenario, commandVars, outboxVars, boundaryVars>>

Next == CommandNext \/ OutboxNext \/ BoundaryNext \/ SpeechNext

Spec == Init /\ [][Next]_<<scenario, commandVars, outboxVars, boundaryVars, speechVars>>

\* Threads are only told apart by what they hold.
Symmetry == Permutations(Threads)

\* Commands: however a command is delivered, and around a restart, it takes
\* effect at most once and a refused one not at all; what the executor does is
\* what a restart would report on, at most one task is open in the store, and an
\* answer is never taken back (handle_command, save_command_ack, _persist).
CommandsAreHonoured ==
    /\ [](scenario = "one" => /\ One!TypeOK /\ One!TakesEffectOnce /\ One!RefusedHasNoEffect
                              /\ One!ContextIsDurable /\ One!OneOpenRow)
    /\ [](scenario = "end" => /\ End!TypeOK /\ End!TakesEffectOnce /\ End!RefusedHasNoEffect
                              /\ End!ContextIsDurable)
    /\ [](scenario = "two" => /\ Two!TypeOK /\ Two!TakesEffectOnce /\ Two!RefusedHasNoEffect
                              /\ Two!OneOpenRow)
    /\ [][(scenario = "one" => One!KeepsAnswers) /\ (scenario = "end" => End!KeepsAnswers)]_commandVars

\* The outbox and the trajectory: no sequence number is given to two points, the
\* distance kept by increments is that of the stored points in whatever order
\* and however often their batches arrive, and a batch leaves the outbox when it
\* is settled or as the oldest of too many (next_trajectory_seq, replay_outbox,
\* update_patrol_loop_distance).
TrajectoryIsExact ==
    /\ [](scenario = "walk" => Walk!TypeOK /\ Walk!PointsAreDistinct /\ Walk!DistanceIsExact)
    /\ [](scenario = "pair" => Pair!TypeOK /\ Pair!PointsAreDistinct)
    /\ [][scenario = "pair" => Pair!KeepsUnsettled]_outboxVars

\* Map boundaries: what the center calls active was acknowledged by the Edge, a
\* task runs inside the revision its start was checked with, and a robot found
\* outside was stopped (_handle_command_result, validate_expected, _boundary_loop).
BoundaryIsKept ==
    scenario \in {"plan", "fenced", "switched", "watched"} =>
        /\ Map!TypeOK /\ Map!ActiveIsAcknowledged /\ Map!ViolationIsStopped
        /\ edits = 0 => Map!TaskInsideItsRevision

\* Announcements: what is called finished was played to its end, only a newer
\* one supersedes, concurrent detections speak once per cooldown, and waypoint
\* announcements are taken in order, never replaced (replace_command,
\* queue_bicycle_departure_speech, DeviceCommandPollView).
SpeechIsTruthful ==
    /\ [](scenario = "speech" => Speech!TypeOK /\ Speech!FinishedWasPlayed /\ Speech!SupersededByNewer)
    /\ [](scenario = "faulty" => Faulty!TypeOK /\ Faulty!FinishedWasPlayed /\ Faulty!SupersededByNewer)
    /\ [](scenario = "detected" => Detected!TypeOK /\ Detected!OneSpeechPerCooldown)
    /\ [][scenario = "speech" => Speech!SparesWaypoints]_speechVars

=============================================================================
