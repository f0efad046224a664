------------------------ MODULE CenterServicesProofs ------------------------
(***************************************************************************)
(* Proofs for the composition of the center's services: what a run checks  *)
(* of the patrol loop in two scenarios follows, for every number of rounds *)
(* and attempts and every observation, from the theorems on the loop.      *)
(***************************************************************************)
EXTENDS MCCenterServices, TLAPS

\* The settings of both scenarios are counts.
Limits == Long!Limits /\ Battery!Limits

\* The inductive invariant of the loop in the scenario that is explored.
LoopInv ==
    /\ scenario = "long" => Long!IInv
    /\ scenario = "battery" => Battery!IInv

\* A step of the composition is a step of the loop or leaves its rows alone.
LEMMA LoopStep ==
    ASSUME [Next]_vars
    PROVE  /\ scenario' = scenario
           /\ scenario = "long" => [Long!Next]_(Long!vars)
           /\ scenario = "battery" => [Battery!Next]_(Battery!vars)
           /\ scenario \notin {"long", "battery"} => UNCHANGED loopVars
<1>1. CASE LoopNext
  BY <1>1 DEF LoopNext, Long!vars, Battery!vars
<1>2. CASE CalendarNext \/ CatalogNext \/ IncidentsNext \/ ValidationNext \/ UNCHANGED vars
  <2>1. scenario' = scenario /\ UNCHANGED loopVars
    BY <1>2 DEF CalendarNext, CatalogNext, IncidentsNext, ValidationNext, vars
  <2> QED
    BY <2>1 DEF loopVars, Long!vars, Long!loopVars, Long!env, Long!battery, Battery!vars,
                Battery!loopVars, Battery!env, Battery!battery
<1> QED
  BY <1>1, <1>2 DEF Next

\* Every step keeps the invariant of the loop and does only what the loop may.
LEMMA LoopInvStep ==
    ASSUME Limits, LoopInv, [Next]_vars
    PROVE  /\ LoopInv'
           /\ scenario = "long" => Long!StepOK
           /\ scenario = "battery" => Battery!StepOK
<1>1. scenario' = scenario
  BY LoopStep
<1>2. scenario = "long" => Long!IInv' /\ Long!StepOK
  BY LoopStep, Long!NextStep DEF LoopInv, Limits
<1>3. scenario = "battery" => Battery!IInv' /\ Battery!StepOK
  BY LoopStep, Battery!NextStep DEF LoopInv, Limits
<1> QED
  BY <1>1, <1>2, <1>3 DEF LoopInv

\* The invariant of the loop holds in every scenario that explores it.
THEOREM Invariance == ASSUME Limits PROVE Spec => []LoopInv
<1>1. Init => LoopInv
  BY Long!InitInv, Battery!InitInv DEF Init, LoopInv, Limits
<1>2. LoopInv /\ [Next]_vars => LoopInv'
  BY LoopInvStep
<1> QED
  BY <1>1, <1>2, PTL DEF Spec

\* What latches the low battery leaves no loop and no execution active, and
\* none becomes active under the latch but one that the center had given up
\* and the Edge still has (terminate_low_battery).
THEOREM LatchedAlwaysStopped == ASSUME Limits PROVE Spec => LatchedIsStopped
<1>1. LoopInv /\ [Next]_vars => [scenario = "battery" => Battery!LatchedIsStopped]_loopVars
  BY LoopInvStep DEF Battery!StepOK
<1> QED
  BY <1>1, Invariance, PTL DEF Spec, LatchedIsStopped

\* Rounds are never active together, a recovery follows a window without an
\* unsafe sample, and a completed loop has stopped (_dispatch_round, process).
THEOREM LoopAlwaysSupervised == ASSUME Limits PROVE Spec => LoopIsSupervised
<1>1. LoopInv => (scenario = "long" => Long!TypeOK) /\ (scenario = "battery" => Battery!TypeOK)
  BY Long!InvTyped, Battery!InvTyped DEF LoopInv
<1>2. LoopInv /\ [Next]_vars =>
        [/\ scenario = "long" =>
               Long!SeparatesRounds /\ Long!RecoversCleanly /\ Long!CompletesStopped
         /\ scenario = "battery" =>
               Battery!SeparatesRounds /\ Battery!RecoversCleanly /\ Battery!CompletesStopped]_loopVars
  BY LoopInvStep DEF Long!StepOK, Battery!StepOK
<1> QED
  BY <1>1, <1>2, Invariance, PTL DEF Spec, LoopIsSupervised

=============================================================================
