--------------------------- MODULE MCEdgeServices ---------------------------
(* The services of EdgeUpkeep together.  They share no state here: a         *)
(* behaviour explores one scenario, an instance of one of them, and leaves   *)
(* the others at rest.                                                       *)
EXTENDS EdgeUpkeep

VARIABLE scenario

vars == <<scenario, locateVars, healingVars, profileVars, chargingVars, manualVars>>

\* The modules that a scenario does not explore.
LocateRests == Locate(Locating.alone)!Init
HealingRests == Heal(Healing.worker)!Init
ProfileRests == Profile!Init
ChargingRests == Charge(Charges.discharge)!Init
ManualRests == Operate(Manually.follow)!Init

Init ==
    \/ /\ \E s \in DOMAIN Locating : scenario = s /\ Locate(Locating[s])!Init
       /\ HealingRests /\ ProfileRests /\ ChargingRests /\ ManualRests
    \/ /\ \E s \in DOMAIN Healing : scenario = s /\ Heal(Healing[s])!Init
       /\ LocateRests /\ ProfileRests /\ ChargingRests /\ ManualRests
    \/ /\ scenario = "profile" /\ Profile!Init
       /\ LocateRests /\ HealingRests /\ ChargingRests /\ ManualRests
    \/ /\ \E s \in DOMAIN Charges : scenario = s /\ Charge(Charges[s])!Init
       /\ LocateRests /\ HealingRests /\ ProfileRests /\ ManualRests
    \/ /\ \E s \in DOMAIN Manually : scenario = s /\ Operate(Manually[s])!Init
       /\ LocateRests /\ HealingRests /\ ProfileRests /\ ChargingRests

LocateNext ==
    /\ \E s \in DOMAIN Locating : scenario = s /\ Locate(Locating[s])!Next
    /\ UNCHANGED <<scenario, healingVars, profileVars, chargingVars, manualVars>>

HealingNext ==
    /\ \E s \in DOMAIN Healing : scenario = s /\ Heal(Healing[s])!Next
    /\ UNCHANGED <<scenario, locateVars, profileVars, chargingVars, manualVars>>

ProfileNext ==
    /\ scenario = "profile" /\ Profile!Next
    /\ UNCHANGED <<scenario, locateVars, healingVars, chargingVars, manualVars>>

ChargingNext ==
    /\ \E s \in DOMAIN Charges : scenario = s /\ Charge(Charges[s])!Next
    /\ UNCHANGED <<scenario, locateVars, healingVars, profileVars, manualVars>>

ManualNext ==
    /\ \E s \in DOMAIN Manually : scenario = s /\ Operate(Manually[s])!Next
    /\ UNCHANGED <<scenario, locateVars, healingVars, profileVars, chargingVars>>

Next == LocateNext \/ HealingNext \/ ProfileNext \/ ChargingNext \/ ManualNext

Spec == Init /\ [][Next]_vars

\* Localization: a superseded operation moves the pose at most once more, an
\* operation that ended by itself leaves no candidate open, and a bounded search
\* without a result undoes itself (_assert_localization_operation,
\* _skip_waiting_attempts, _restore_official_pose).
SearchesEndCleanly ==
    /\ \A s \in DOMAIN Locating : scenario = s =>
           /\ Locate(Locating[s])!TypeOK /\ Locate(Locating[s])!NothingPending
           /\ Locate(Locating[s])!StrayBounded
    /\ scenario = "alone" => Locate(Locating.alone)!FailedSearchRestores

\* Self healing: the open episode on record is the one in memory, its first
\* verdict stays, no spin is taken outdoors, and pruning keeps the totals
\* (diagnose, complete, _allowed_actions, reconcile_unfinished_self_healing).
EpisodesAreSound ==
    /\ [](\A s \in DOMAIN Healing : scenario = s =>
             /\ Heal(Healing[s])!TypeOK /\ Heal(Healing[s])!OneOpenEpisode
             /\ Heal(Healing[s])!NoSpinOutdoors)
    /\ [][\A s \in DOMAIN Healing : scenario = s =>
             Heal(Healing[s])!KeepsVerdict /\ Heal(Healing[s])!KeepsTotals]_healingVars

\* The fusion profile: a restore never overwrites a newer profile, late as its
\* status and its call may be (_transition_temporary_fusion_profile).
NewerIsSpared ==
    /\ [](scenario = "profile" => Profile!TypeOK)
    /\ [][scenario = "profile" => Profile!SparesNewer]_profileVars

\* Charging: a request begins a charge at most once, whoever sees the contact,
\* and a discharge ends a task at most once (_begin_charge, _observe_low_battery).
ChargesOncePerRequest ==
    \A s \in DOMAIN Charges : scenario = s =>
        /\ Charge(Charges[s])!TypeOK /\ Charge(Charges[s])!BegunPerRequest
        /\ Charge(Charges[s])!OneAlertPerDischarge

\* Manual control: nothing that has ended goes on moving the robot, a follower
\* or skill told to stop stops, and there are never two skills at once
\* (_run_loop, TeleopSkillExecutor).
MotionIsReleased ==
    \A s \in DOMAIN Manually : scenario = s =>
        /\ Operate(Manually[s])!TypeOK /\ Operate(Manually[s])!NothingRetained
        /\ Operate(Manually[s])!StopIsHeeded /\ Operate(Manually[s])!OneSkill

=============================================================================
