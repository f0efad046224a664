------------------------- MODULE EdgeServicesProofs -------------------------
(***************************************************************************)
(* Proofs for the composition of the Edge's services.  A step is one of    *)
(* the service that the scenario explores and leaves the others alone, so  *)
(* that what the run checks follows in every scenario from the lemmas of   *)
(* EdgeUpkeepProofs, which hold for any record of bounds.                  *)
(***************************************************************************)
EXTENDS MCEdgeServices, EdgeUpkeepProofs

\* The confirmation samples of charging and of RTK are a count.
Limits == ChargeLimits

\* Charging, manual control and localization in the scenario that is explored.
ChargingInv == \A s \in DOMAIN Charges : scenario = s => ChargeInv(Charges[s])

ManualInv == \A s \in DOMAIN Manually : scenario = s => OperateInv(Manually[s])

LocatingInv == \A s \in DOMAIN Locating : scenario = s => LocateInv(Locating[s])

LEMMA ChargingScenarios == DOMAIN Charges = {"commanded", "docked", "discharge"}
  BY DEF Charges

LEMMA ManualScenarios == DOMAIN Manually = {"follow", "skills", "thrice", "control", "mixed"}
  BY DEF Manually

LEMMA HealingScenarios == DOMAIN Healing = {"tree", "worker", "healers"}
  BY DEF Healing

LEMMA LocatingScenarios == DOMAIN Locating = {"alone", "startup", "beside"}
  BY DEF Locating

\* The plans of every scenario are the code's.
LEMMA LocatingBounds ==
    ASSUME NEW s \in DOMAIN Locating
    PROVE  LocateLimits(Locating[s]) /\ (s = "alone" => Locating[s].threads = {"oper"})
<1>1. CASE s = "alone"
  BY <1>1 DEF Locating, LocateLimits, Planned, Locate!Progressive
<1>2. CASE s = "startup"
  BY <1>2 DEF Locating, LocateLimits, Planned, Locate!Progressive
<1>3. CASE s = "beside"
  BY <1>3 DEF Locating, LocateLimits, Planned, Locate!Progressive
<1> QED
  BY <1>1, <1>2, <1>3, LocatingScenarios

\* The plans of every scenario are made of steps the executor knows.
LEMMA PlansKnown ==
    ASSUME NEW s \in DOMAIN Manually
    PROVE  OperateLimits(Manually[s])
<1>1. << >> \in Seq(SkillSteps) /\ <<"avoid">> \in Seq(SkillSteps) /\ <<"drive">> \in Seq(SkillSteps)
  BY DEF SkillSteps
<1>2. <<"act", "drive">> \in Seq(SkillSteps)
  BY DEF SkillSteps
<1>3. Manually.skills.plans = {<< >>, <<"act", "drive">>, <<"avoid">>}
  BY Zenon DEF Manually
<1>4. Manually.skills.plans \subseteq Seq(SkillSteps)
  BY <1>1, <1>2, <1>3, Zenon
<1>5. Manually.thrice.plans \subseteq Seq(SkillSteps)
  BY <1>1, Zenon DEF Manually
<1>6. /\ Manually.follow.plans \subseteq Seq(SkillSteps) /\ Manually.control.plans \subseteq Seq(SkillSteps)
      /\ Manually.mixed.plans \subseteq Seq(SkillSteps)
  BY Zenon DEF Manually
<1> QED
  BY <1>4, <1>5, <1>6, ManualScenarios, Zenon DEF OperateLimits

\* A step of the composition is a step of the services it explores, and leaves
\* the others alone.
LEMMA ServiceStep ==
    ASSUME [Next]_vars
    PROVE  /\ scenario' = scenario
           /\ \/ UNCHANGED chargingVars
              \/ \E s \in DOMAIN Charges : scenario = s /\ Charge(Charges[s])!Next
           /\ \/ UNCHANGED manualVars
              \/ \E s \in DOMAIN Manually : scenario = s /\ Operate(Manually[s])!Next
           /\ scenario = "profile" => [Profile!Next]_(Profile!vars)
<1>1. CASE ChargingNext
  <2>1. UNCHANGED <<scenario, profileVars, manualVars>>
    BY <1>1 DEF ChargingNext
  <2>2. scenario \in DOMAIN Charges
    BY <1>1 DEF ChargingNext
  <2> QED
    BY <1>1, <2>1, <2>2, ChargingScenarios DEF ChargingNext
<1>2. CASE ManualNext
  <2>1. UNCHANGED <<scenario, profileVars, chargingVars>>
    BY <1>2 DEF ManualNext
  <2>2. scenario \in DOMAIN Manually
    BY <1>2 DEF ManualNext
  <2> QED
    BY <1>2, <2>1, <2>2, ManualScenarios DEF ManualNext
<1>3. CASE ProfileNext
  BY <1>3 DEF ProfileNext
<1>4. CASE LocateNext \/ HealingNext \/ UNCHANGED vars
  <2>1. UNCHANGED <<scenario, profileVars, chargingVars, manualVars>>
    BY <1>4 DEF LocateNext, HealingNext, vars
  <2>2. UNCHANGED Profile!vars
    BY <2>1 DEF profileVars, Profile!vars
  <2> QED
    BY <2>1, <2>2
<1> QED
  BY <1>1, <1>2, <1>3, <1>4 DEF Next

LEMMA ChargingInvStep == ASSUME Limits, ChargingInv, [Next]_vars PROVE ChargingInv'
<1>1. scenario' = scenario
  BY ServiceStep
<1>2. CASE UNCHANGED chargingVars
  <2>1. ASSUME NEW k, ChargeInv(k)
        PROVE  ChargeInv(k)'
    <3>1. ChargeQuiet
      BY <1>2, <2>1 DEF chargingVars, ChargeQuiet, ChargeInv, ChargeTyped
    <3> QED
      BY <2>1, <3>1, ChargeQuietKeeps
  <2> QED
    BY <1>1, <2>1 DEF ChargingInv
<1>3. ASSUME NEW s \in DOMAIN Charges, scenario = s, Charge(Charges[s])!Next
      PROVE  ChargingInv'
  <2> DEFINE k == Charges[s]
  <2>1. ChargeInv(k) /\ Charge(k)!Next
    BY <1>3 DEF ChargingInv
  <2> HIDE DEF k
  <2>2. ChargeInv(k)'
    BY <2>1, ChargeStep DEF Limits
  <2> QED
    BY <1>1, <1>3, <2>2 DEF ChargingInv, k
<1> QED
  BY <1>2, <1>3, ServiceStep

LEMMA ManualInvStep == ASSUME ManualInv, [Next]_vars PROVE ManualInv'
<1>1. scenario' = scenario
  BY ServiceStep
<1>2. CASE UNCHANGED manualVars
  <2>1. ASSUME NEW b, OperateInv(b)
        PROVE  OperateInv(b)'
    <3>1. Commanding(b)
      BY <1>2, <2>1 DEF manualVars, Commanding, Operate!Others, OperateInv, OperateTyped
    <3> QED
      BY <2>1, <3>1, CommandingKeeps
  <2> QED
    BY <1>1, <2>1 DEF ManualInv
<1>3. ASSUME NEW s \in DOMAIN Manually, scenario = s, Operate(Manually[s])!Next
      PROVE  ManualInv'
  <2> DEFINE b == Manually[s]
  <2>1. OperateLimits(b) /\ OperateInv(b) /\ Operate(b)!Next
    BY <1>3, PlansKnown DEF ManualInv
  <2> HIDE DEF b
  <2>2. OperateInv(b)'
    BY <2>1, OperateStep
  <2> QED
    BY <1>1, <1>3, <2>2 DEF ManualInv, b
<1> QED
  BY <1>2, <1>3, ServiceStep

LEMMA ProfileInvStep ==
    ASSUME scenario = "profile" => ProfileInv, [Next]_vars
    PROVE  /\ (scenario = "profile" => ProfileInv)'
           /\ scenario = "profile" => Profile!SparesNewer
  BY ServiceStep, ProfileStep, ProfileSpares

\* Self healing rests or takes a step of its scenario.
LEMMA HealingServed ==
    ASSUME [Next]_vars
    PROVE  \/ UNCHANGED healingVars
           \/ \E s \in DOMAIN Healing : scenario = s /\ Heal(Healing[s])!Next
  BY DEF Next, LocateNext, HealingNext, ProfileNext, ChargingNext, ManualNext, vars

LEMMA HealInvStep ==
    ASSUME HealInv, Samples \in Nat, [Next]_vars
    PROVE  /\ HealInv'
           /\ [\A s \in DOMAIN Healing : scenario = s =>
                  Heal(Healing[s])!KeepsVerdict /\ Heal(Healing[s])!KeepsTotals]_healingVars
<1>1. CASE UNCHANGED healingVars
  BY <1>1 DEF healingVars, HealInv, CoreInv, RowsTyped, RowsAgree, OpenRows, InProgress, NoSpin, RequestSound
<1>2. ASSUME NEW s \in DOMAIN Healing, scenario = s, Heal(Healing[s])!Next
      PROVE  HealInv' /\ Heal(Healing[s])!KeepsVerdict /\ Heal(Healing[s])!KeepsTotals
  <2> DEFINE k == Healing[s]
  <2>1. [Heal(k)!Next]_(Heal(k)!vars)
    BY <1>2
  <2> HIDE DEF k
  <2>2. HealInv' /\ Heal(k)!KeepsVerdict /\ Heal(k)!KeepsTotals
    BY <2>1, HealStep
  <2> QED
    BY <2>2 DEF k
<1> QED
  BY <1>1, <1>2, HealingServed

\* The localization operations rest or take a step of their scenario.
LEMMA LocatingInvStep == ASSUME LocatingInv, [Next]_vars PROVE LocatingInv'
<1>1. /\ scenario' = scenario
      /\ \/ UNCHANGED locateVars
         \/ \E s \in DOMAIN Locating : scenario = s /\ Locate(Locating[s])!Next
  BY DEF Next, LocateNext, HealingNext, ProfileNext, ChargingNext, ManualNext, vars
<1>2. CASE UNCHANGED locateVars
  <2>1. ASSUME NEW k, LocateInv(k)
        PROVE  LocateInv(k)'
    BY <1>2, <2>1 DEF locateVars, LocateInv, LocateTyped, OperationsSound, StrayStops, SearchRestores
  <2> QED
    BY <1>1, <2>1 DEF LocatingInv
<1>3. ASSUME NEW s \in DOMAIN Locating, scenario = s, Locate(Locating[s])!Next
      PROVE  LocatingInv'
  <2> DEFINE k == Locating[s]
  <2>1. LocateLimits(k) /\ LocateInv(k) /\ Locate(k)!Next
    BY <1>3, LocatingBounds DEF LocatingInv
  <2> HIDE DEF k
  <2>2. LocateInv(k)'
    BY <2>1, LocateStep
  <2> QED
    BY <1>1, <1>3, <2>2 DEF LocatingInv, k
<1> QED
  BY <1>1, <1>2, <1>3

\* The invariants of the services hold in every scenario that explores them.
THEOREM ChargingInvariance == ASSUME Limits PROVE Spec => []ChargingInv
<1>1. Init => ChargingInv
  <2>1. ASSUME NEW s \in DOMAIN Charges, scenario = s, Init
        PROVE  ChargeInv(Charges[s])
    <3> DEFINE k == Charges[s]
    <3>1. Charge(k)!Init
      BY <2>1, HealingScenarios, LocatingScenarios, ChargingScenarios, ManualScenarios DEF Init
    <3> HIDE DEF k
    <3>2. ChargeInv(k)
      BY <3>1, ChargeInit DEF Limits
    <3> QED
      BY <3>2 DEF k
  <2> QED
    BY <2>1 DEF ChargingInv
<1>2. ChargingInv /\ [Next]_vars => ChargingInv'
  BY ChargingInvStep
<1> QED
  BY <1>1, <1>2, PTL DEF Spec

THEOREM ManualInvariance == Spec => []ManualInv
<1>1. Init => ManualInv
  <2>1. ASSUME NEW s \in DOMAIN Manually, scenario = s, Init
        PROVE  OperateInv(Manually[s])
    <3> DEFINE b == Manually[s]
    <3>1. Operate(b)!Init
      BY <2>1, HealingScenarios, LocatingScenarios, ChargingScenarios, ManualScenarios DEF Init
    <3> HIDE DEF b
    <3>2. OperateInv(b)
      BY <3>1, OperateInit
    <3> QED
      BY <3>2 DEF b
  <2> QED
    BY <2>1 DEF ManualInv
<1>2. ManualInv /\ [Next]_vars => ManualInv'
  BY ManualInvStep
<1> QED
  BY <1>1, <1>2, PTL DEF Spec

\* A request begins a charge at most once, whoever sees the contact, and a
\* discharge ends a task at most once (_begin_charge, _observe_low_battery).
THEOREM AlwaysChargesOnce == ASSUME Limits PROVE Spec => []ChargesOncePerRequest
<1>1. ChargingInv => ChargesOncePerRequest
  <2>1. ASSUME NEW k, ChargeInv(k)
        PROVE  Charge(k)!TypeOK /\ Charge(k)!BegunPerRequest /\ Charge(k)!OneAlertPerDischarge
    BY <2>1, ChargeInvTyped DEF ChargeInv
  <2> QED
    BY <2>1 DEF ChargingInv, ChargesOncePerRequest
<1> QED
  BY <1>1, ChargingInvariance, PTL

\* Nothing that has ended goes on moving the robot, what is told to stop
\* stops, and there are never two skills at once (_run_loop, TeleopSkillExecutor).
THEOREM MotionAlwaysReleased == Spec => []MotionIsReleased
<1>1. ManualInv => MotionIsReleased
  <2>1. ASSUME NEW b, OperateInv(b)
        PROVE  /\ Operate(b)!TypeOK /\ Operate(b)!NothingRetained
               /\ Operate(b)!StopIsHeeded /\ Operate(b)!OneSkill
    BY <2>1, OperateInvTyped, InvHeeded, InvOneSkill
  <2> QED
    BY <2>1 DEF ManualInv, MotionIsReleased
<1> QED
  BY <1>1, ManualInvariance, PTL

\* A superseded operation moves the pose at most once more, an operation that
\* ended by itself leaves no candidate open, and a bounded search without a result
\* undoes itself (_assert_localization_operation, _skip_waiting_attempts,
\* _restore_official_pose).
THEOREM SearchesAlwaysEndCleanly == Spec => []SearchesEndCleanly
<1>1. Init => LocatingInv
  <2>1. ASSUME NEW s \in DOMAIN Locating, scenario = s, Init
        PROVE  LocateInv(Locating[s])
    <3> DEFINE k == Locating[s]
    <3>1. Locate(k)!Init
      BY <2>1, HealingScenarios, LocatingScenarios, ChargingScenarios, ManualScenarios DEF Init
    <3>2. LocateLimits(k)
      BY <2>1, LocatingBounds
    <3> HIDE DEF k
    <3>3. LocateInv(k)
      BY <3>1, <3>2, LocateInit
    <3> QED
      BY <3>3 DEF k
  <2> QED
    BY <2>1 DEF LocatingInv
<1>2. LocatingInv /\ [Next]_vars => LocatingInv'
  BY LocatingInvStep
<1>3. LocatingInv => SearchesEndCleanly
  <2>1. ASSUME NEW s \in DOMAIN Locating, LocateInv(Locating[s])
        PROVE  /\ Locate(Locating[s])!TypeOK /\ Locate(Locating[s])!NothingPending
               /\ Locate(Locating[s])!StrayBounded
               /\ s = "alone" => Locate(Locating[s])!FailedSearchRestores
    <3> DEFINE k == Locating[s]
    <3>1. LocateLimits(k) /\ (s = "alone" => k.threads = {"oper"})
      BY LocatingBounds
    <3>2. LocateInv(k)
      BY <2>1
    <3> HIDE DEF k
    <3>3. /\ Locate(k)!TypeOK /\ Locate(k)!NothingPending /\ Locate(k)!StrayBounded
          /\ k.threads = {"oper"} => Locate(k)!FailedSearchRestores
      BY <3>1, <3>2, LocateSound
    <3> QED
      BY <3>1, <3>3 DEF k
  <2>2. "alone" \in DOMAIN Locating /\ Locating["alone"] = Locating.alone
    BY LocatingScenarios
  <2> QED
    BY <2>1, <2>2 DEF LocatingInv, SearchesEndCleanly
<1> QED
  BY <1>1, <1>2, <1>3, PTL DEF Spec

\* A restore never overwrites a newer profile, late as its status and its call
\* may be (_transition_temporary_fusion_profile).
THEOREM NewerAlwaysSpared == Spec => NewerIsSpared
<1> DEFINE Inv == scenario = "profile" => ProfileInv
           Typed == scenario = "profile" => Profile!TypeOK
           Spared == scenario = "profile" => Profile!SparesNewer
<1>1. Init => Inv
  BY HealingScenarios, LocatingScenarios, ChargingScenarios, ManualScenarios, ProfileInit DEF Init
<1>2. Inv /\ [Next]_vars => Inv' /\ [Spared]_profileVars
  BY ProfileInvStep
<1>3. Inv => Typed
  BY ProfileTyped
<1> HIDE DEF Inv, Typed, Spared
<1>4. Spec => []Typed /\ [][Spared]_profileVars
  BY <1>1, <1>2, <1>3, PTL DEF Spec
<1> QED
  BY <1>4 DEF NewerIsSpared, Typed, Spared

\* The episode on record as open is the one in memory, its first verdict stays,
\* no spin is taken outdoors, and pruning keeps the totals (diagnose, complete,
\* _allowed_actions, reconcile_unfinished_self_healing, prune_self_healing).
THEOREM EpisodesAlwaysSound == ASSUME Limits PROVE Spec => EpisodesAreSound
<1> DEFINE Sound == \A s \in DOMAIN Healing : scenario = s =>
                        /\ Heal(Healing[s])!TypeOK /\ Heal(Healing[s])!OneOpenEpisode
                        /\ Heal(Healing[s])!NoSpinOutdoors
           Kind == \A s \in DOMAIN Healing : scenario = s =>
                        Heal(Healing[s])!KeepsVerdict /\ Heal(Healing[s])!KeepsTotals
<1>0. Samples \in Nat
  BY DEF Limits, ChargeLimits
<1>1. Init => HealInv
  BY HealInit DEF Init, HealingRests
<1>2. HealInv /\ [Next]_vars => HealInv' /\ [Kind]_healingVars
  BY <1>0, HealInvStep
<1>3. HealInv => Sound
  BY HealSound
<1> HIDE DEF Sound, Kind
<1>4. Spec => []Sound /\ [][Kind]_healingVars
  BY <1>1, <1>2, <1>3, PTL DEF Spec
<1> QED
  BY <1>4 DEF EpisodesAreSound, Sound, Kind

=============================================================================
