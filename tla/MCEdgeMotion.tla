---------------------------- MODULE MCEdgeMotion ----------------------------
(* Navigation commands and waypoint execution of the Edge agent, as bounded  *)
(* instances for TLC.  A behaviour explores one scenario, an instance of one *)
(* of the modules; they share no state.                                      *)
EXTENDS TLC, Naturals

VARIABLES
    scenario,
    th, navLock, locLock, disk, loc, stack, ready, gen, task, held,
    ctx, mem, pause, nav, results, turn, adjust, waits, timers, step, count, ghost

navVars == <<th, navLock, locLock, disk, loc, stack, ready, gen, task, held>>
waypointVars == <<ctx, mem, pause, nav, results, turn, adjust, waits, timers, step, count, ghost>>

\* Stack and localization commands around a task.
StackKind == "s" :> "start" @@ "x" :> "stop" @@ "l" :> "locate" @@ "r" :> "start"
             @@ "t" :> "task" @@ "p" :> "pause"
Stack == INSTANCE EdgeNav WITH
    Commands <- DOMAIN StackKind, Kind <- StackKind, Map <- [c \in DOMAIN StackKind |-> "a"],
    nav <- stack

\* An activation of a map beside an operator localization.
MapKind == "m" :> "map" @@ "l" :> "locate"
Activate == INSTANCE EdgeNav WITH
    Commands <- DOMAIN MapKind, Kind <- MapKind, Map <- [c \in DOMAIN MapKind |-> "b"],
    nav <- stack

Stop == [pass |-> FALSE, yaw |-> FALSE, dwell |-> FALSE, speech |-> FALSE, strict |-> FALSE]

\* A stop with a heading and speech, then a strict stop; the same with a restart
\* and a recovery by the center.  A point passed through, then a stop with a
\* heading and a dwell, twice.  Two plain stops with an operator's pause and
\* losses of localization; with a localization that is lost and recovers.
StopRoute == <<[Stop EXCEPT !.yaw = TRUE, !.speech = TRUE], [Stop EXCEPT !.strict = TRUE]>>
PassRoute == <<[Stop EXCEPT !.pass = TRUE], [Stop EXCEPT !.yaw = TRUE, !.dwell = TRUE]>>
Ways ==
    [stops |-> [route |-> StopRoute, rounds |-> 1, reapproach |-> 1, conv |-> 1, segs |-> 1,
                faults |-> {"turn", "adjust"}, goals |-> 4, happen |-> 1, events |-> {"lost"}],
     restart |-> [route |-> StopRoute, rounds |-> 1, reapproach |-> 1, conv |-> 1, segs |-> 1,
                  faults |-> {"stop", "adjust"}, goals |-> 4, happen |-> 2, events |-> {"crash", "recover"}],
     pass |-> [route |-> PassRoute, rounds |-> 2, reapproach |-> 1, conv |-> 1, segs |-> 1,
               faults |-> {"turn", "reject", "blocked"}, goals |-> 4, happen |-> 1, events |-> {"switch"}],
     pause |-> [route |-> <<Stop, Stop>>, rounds |-> 1, reapproach |-> 1, conv |-> 1, segs |-> 1,
                faults |-> {"stop"}, goals |-> 4, happen |-> 2, events |-> {"pause", "lost"}],
     recovered |-> [route |-> <<Stop, Stop>>, rounds |-> 1, reapproach |-> 1, conv |-> 1, segs |-> 1,
                    faults |-> {}, goals |-> 4, happen |-> 2, events |-> {"recovered", "lost"}]]
Way(k) == INSTANCE EdgeWaypoint WITH
    Route <- k.route, Rounds <- k.rounds, MaxReapproach <- k.reapproach, MaxConv <- k.conv,
    MaxSegs <- k.segs, Faults <- k.faults, MaxGoals <- k.goals, MaxEvents <- k.happen, Events <- k.events

Init ==
    \/ scenario = "stack" /\ Stack!Init /\ Way(Ways.stops)!Init
    \/ scenario = "activate" /\ Activate!Init /\ Way(Ways.stops)!Init
    \/ \E s \in DOMAIN Ways : scenario = s /\ Activate!Init /\ Way(Ways[s])!Init /\ ~ready

Next ==
    /\ UNCHANGED scenario
    /\ \/ scenario = "stack" /\ Stack!Next /\ UNCHANGED waypointVars
       \/ scenario = "activate" /\ Activate!Next /\ UNCHANGED waypointVars
       \/ \E s \in DOMAIN Ways : scenario = s /\ Way(Ways[s])!Next /\ UNCHANGED navVars

Spec == Init /\ [][Next]_<<scenario, navVars, waypointVars>>

\* Navigation commands: nav.start, nav.restart, nav.recover and the start of a
\* task never bypass localization, map.activate succeeds only with its map
\* loaded everywhere, and no way out of a command leaves a lock behind
\* (_execute_navigation, the final admission, the finally blocks).
StartIsLocalized ==
    /\ [](scenario = "stack" => Stack!TypeOK /\ Stack!LocksAreReleased)
    /\ [](scenario = "activate" => Activate!TypeOK /\ Activate!LocksAreReleased)
    /\ [][/\ scenario = "stack" => Stack!StartsLocalized /\ Stack!LaunchesLocalized
          /\ scenario = "activate" => Activate!ActivatesLoaded]_navVars

\* Arrivals: the side effects of a stop start once per round, also across a
\* restart, only at a verified pose, and no stop is left behind without them
\* (_start_arrival_side_effects, the recovery callbacks).
EffectsOnce ==
    /\ [](scenario = "pass" => Way(Ways.pass)!TypeOK /\ Way(Ways.pass)!EffectsOnce)
    /\ [](scenario = "restart" => Way(Ways.restart)!TypeOK /\ Way(Ways.restart)!EffectsOnce)
    /\ [](scenario = "stops" => Way(Ways.stops)!TypeOK /\ Way(Ways.stops)!NothingSkipped)
    /\ [][scenario = "stops" => Way(Ways.stops)!AcceptsVerified]_waypointVars

\* A task that runs is moved by one mover at a time, Nav2 or a raw-velocity
\* worker, and always has something on the way that calls the executor.
OneMover ==
    /\ scenario = "stops" => Way(Ways.stops)!OneMover
    /\ scenario = "pause" => Way(Ways.pause)!TypeOK /\ Way(Ways.pause)!NotStranded
    /\ scenario = "recovered" => Way(Ways.recovered)!TypeOK /\ Way(Ways.recovered)!NotStranded

=============================================================================
