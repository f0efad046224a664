----------------------------- MODULE EdgeUpkeep -----------------------------
(* Services of the Edge agent beside the execution of a task, as instances   *)
(* bounded for TLC: localization operations, self healing, the fusion        *)
(* profile, charging and manual control.  Each record lists the scenarios of *)
(* a service with their bounds.                                              *)
EXTENDS Naturals

CONSTANTS
    Samples,                        \* of the battery or of RTK, to confirm what one shows
    Restorers, MaxGeneration,       \* of the fusion profile
    MaxCharges, Outages,            \* charge commands; battery steps of a long discharge
    Persons, MaxFollows, MaxSkills, MaxManual       \* manual control: persons, runs and commands

VARIABLES
    newest, depth, frozen, trusted, belief, lost, latch, task, drv, op, opers, cycles, stray,
    scene, ep, last, eps, acts, pruned, bt, edge, event, boot,
    profile, reported, owned, restorer, calls,
    pm, charge, undock, inhibit, count, low, motion, pile, contact, thermal, level, worker, obs,
    n, wanted, begun, alerts,
    mode, busy, drive, assist, cmds, follow, follows, skills, active

locateVars == <<newest, depth, frozen, trusted, belief, lost, latch, task, drv, op, opers,
                cycles, stray>>
healingVars == <<scene, ep, last, eps, acts, pruned, bt, edge, event, boot>>
profileVars == <<profile, reported, owned, restorer, calls>>
chargingVars == <<pm, charge, undock, inhibit, count, low, motion, pile, contact, thermal, level,
                  worker, obs, n, wanted, begun, alerts>>
manualVars == <<mode, busy, drive, assist, cmds, follow, follows, skills, active>>

\* Operator commands with a bounded search, one after the other; the startup of a
\* task, whose search may miss its RTK stage; an operator's command beside the
\* automatic recovery of a task.
Locating ==
    [alone |-> [threads |-> {"oper"}, oper |-> {<<"bounded">>, <<"quick", "global">>, <<"rtk">>},
                search |-> {}, n |-> 2, matches |-> {"m1", "m2"}, opers |-> 2, cycles |-> 0],
     startup |-> [threads |-> {"start"}, oper |-> {},
                  search |-> {<<"trusted", "origin", "route", "global">>, <<"origin", "route", "global">>},
                  n |-> 1, matches |-> {"m1"}, opers |-> 0, cycles |-> 0],
     beside |-> [threads |-> {"oper", "auto"}, oper |-> {<<"pose">>}, search |-> {<<"origin", "global">>},
                 n |-> 1, matches |-> {"m1"}, opers |-> 1, cycles |-> 1]]
Locate(k) == INSTANCE Relocalization WITH
    Threads <- k.threads, OperPlans <- k.oper, SearchPlans <- k.search, N <- k.n,
    Matches <- k.matches, MaxOper <- k.opers, MaxCycles <- k.cycles

\* Evidence: nothing yet, a limited localization, everything well again, LIO only.
Nothing == [limited |-> FALSE, stale |-> FALSE, normal |-> FALSE, rtk |-> FALSE, lio |-> FALSE,
            ndt |-> FALSE, progress |-> FALSE]
Limited == [Nothing EXCEPT !.limited = TRUE]
Healthy == [Nothing EXCEPT !.normal = TRUE, !.rtk = TRUE, !.progress = TRUE]
LioOnly == [Nothing EXCEPT !.lio = TRUE]

\* The behaviour tree alone, indoors and outdoors; the Edge's own worker and the
\* events of the task, with a restart; the behaviour tree beside the worker.
Healing ==
    [tree |-> [callers |-> {"bt"}, scenes |-> {"indoor", "outdoor"},
               evidence |-> {Nothing, Limited, Healthy, LioOnly},
               episodes |-> 1, actions |-> 2, restarts |-> 0],
     worker |-> [callers |-> {"edge", "events"}, scenes |-> {"outdoor"},
                 evidence |-> {Nothing, Limited, Healthy},
                 episodes |-> 2, actions |-> 4, restarts |-> 1],
     healers |-> [callers |-> {"bt", "edge"}, scenes |-> {"outdoor"},
                  evidence |-> {Nothing, Healthy},
                  episodes |-> 1, actions |-> 2, restarts |-> 0]]
Heal(k) == INSTANCE SelfHealing WITH
    Callers <- k.callers, Scenes <- k.scenes, Evidence <- k.evidence, Required <- Samples,
    MaxEpisodes <- k.episodes, MaxActions <- k.actions, MaxRestarts <- k.restarts

\* Two threads that restore the fusion profile.
Profile == INSTANCE FusionProfile WITH
    Restorers <- Restorers, MaxGeneration <- MaxGeneration, thread <- restorer, pending <- calls

\* Charge and motion commands under two observers of the battery; a docking
\* operation, with a fault and a restart; a battery that runs low, recovers and
\* runs low again.
Charges ==
    [commanded |-> [observers |-> {"loop", "monitor"}, commands |-> {"start", "stop", "motion", "park"},
                    cmds |-> MaxCharges, env |-> 1, faults |-> 0, crashes |-> 0],
     docked |-> [observers |-> {"loop"}, commands |-> {"dock", "stop"},
                 cmds |-> 1, env |-> 3, faults |-> 1, crashes |-> 1],
     discharge |-> [observers |-> {"loop"}, commands |-> {},
                    cmds |-> 0, env |-> Outages, faults |-> 0, crashes |-> 2]]
Charge(k) == INSTANCE Charging WITH
    Observers <- k.observers, Commands <- k.commands, Samples <- Samples, MaxCommands <- k.cmds,
    MaxEnv <- k.env, MaxFaults <- k.faults, MaxCrashes <- k.crashes,
    pending <- charge, latch <- low, thread <- worker

\* Two persons to follow and an operator who drives; skills of several steps,
\* cancelled or stopped; three skills one after the other; the control modes
\* around a task; the other manual commands, a task and a follower.
Manually ==
    [follow |-> [kinds |-> {"person_follow_start", "person_follow_stop", "move"}, tracks |-> Persons,
                 plans |-> {}, cmds |-> MaxManual, follows |-> MaxFollows, skills |-> 0],
     skills |-> [kinds |-> {"skill", "skill_cancel", "move_stop"}, tracks |-> {},
                 plans |-> {<< >>, <<"act", "drive">>, <<"avoid">>},
                 cmds |-> MaxManual, follows |-> 0, skills |-> MaxSkills],
     thrice |-> [kinds |-> {"skill", "skill_cancel", "move_stop"}, tracks |-> {},
                 plans |-> {<<"drive">>}, cmds |-> MaxManual, follows |-> 0, skills |-> MaxManual],
     control |-> [kinds |-> {"takeover_enter", "takeover_exit", "move", "task_start", "lie_down", "stand_up"},
                  tracks |-> {}, plans |-> {}, cmds |-> MaxManual, follows |-> 0, skills |-> 0],
     mixed |-> [kinds |-> {"takeover_enter", "move_stop", "passive", "shake_hand", "speed", "task_start",
                           "person_follow_start"},
                tracks |-> Persons, plans |-> {}, cmds |-> 2, follows |-> 1, skills |-> 0]]
Operate(b) == INSTANCE Manual WITH
    Kinds <- b.kinds, Tracks <- b.tracks, Plans <- b.plans, MaxCommands <- b.cmds,
    MaxFollows <- b.follows, MaxSkills <- b.skills, task <- busy

=============================================================================
