---------------------------- MODULE EdgeWaypoint ----------------------------
(***************************************************************************)
(* The waypoint loop of the Edge task executor (task_executor.py): a Nav2  *)
(* goal is dispatched for one waypoint; its success is followed by a       *)
(* confirmed stop, an absolute correction, an XY check, the final heading, *)
(* a pose check and a stability check; then the arrival's side effects run *)
(* and the robot turns to, and is sent to, the next waypoint.              *)
(*                                                                         *)
(* Every handler runs under the executor's lock.  `step' is the operation  *)
(* the handler holding the lock does next; another handler starts only     *)
(* when it is idle.  Poses are never modelled: every measurement is a      *)
(* choice among the classes the code tells apart.                          *)
(***************************************************************************)
EXTENDS Naturals, Sequences, FiniteSets

CONSTANTS
    Route,         \* the waypoints: [pass, yaw, dwell, speech, strict : BOOLEAN]
    Rounds,        \* loop_total
    MaxReapproach, \* arrival_reapproach_max_attempts
    MaxConv,       \* ARRIVAL_CONVERGENCE_MAX_ATTEMPTS
    MaxSegs,       \* arrival_micro_adjust_max_steps
    Faults,        \* outcomes that may happen: "cancel", "stop", "turn", "reject", "adjust", "blocked"
    MaxGoals,      \* bound on Nav2 goals
    MaxEvents,     \* bound on losses of localization, operator commands and crashes
    Events         \* which of "lost", "switch", "recovered", "pause", "recover", "crash" happen

VARIABLES
    ctx,     \* the persisted TaskContext
    mem,     \* the executor's latches, lost at a restart
    pause,   \* _paused_localization_reason, "no" without _paused_for_localization
    nav,     \* Nav2: the goal and the executor's generation of it
    results, \* result callbacks of Nav2 on their way
    turn,    \* the departure or arrival heading in progress
    adjust,  \* the waypoint whose micro adjustment worker runs, or None
    waits,   \* dwell and speech waits
    timers,  \* the dispatch retry, the blocked retry, the cruise watch's gap
    step,    \* the next operation of the handler that holds the lock
    count,   \* how often the bounded events happened
    ghost    \* what the properties remember

vars == <<ctx, mem, pause, nav, results, turn, adjust, waits, timers, step, count, ghost>>

None == 0
N == Len(Route)
Waypoints == 1..N
Terminal == {"completed", "failed"}
Idle == [op |-> "idle", i |-> None]
NoTurn == [at |-> None, cruise |-> None, arrival |-> FALSE, worker |-> FALSE, timer |-> FALSE]
\* Distance classes: within 0.30 m, 0.50 m, 1.50 m, beyond, no pose.
Distances == {"fine", "coarse", "mid", "far", "none"}
Near == {"fine", "coarse"}
ArrivalHolds == {"converge", "micro", "pose", "post_yaw", "re_coarse"}
LocalizationHolds == {"xy", "evidence"}

FreshMemory ==
    [corrected |-> None, headed |-> None, departed |-> None, ready |-> None, reached |-> None, gen |-> 0, conv |-> 0]

Init ==
    /\ ctx = [state |-> "running", wp |-> 1, round |-> 1, stage |-> "", at |-> None,
              effects |-> FALSE, coarse |-> FALSE, hold |-> "", reAt |-> None, reN |-> 0, segs |-> 0]
    /\ mem = FreshMemory /\ pause = "no"
    /\ nav = [gen |-> 0, goalGen |-> 0, live |-> FALSE, offset |-> 1]
    /\ results = {} /\ turn = NoTurn /\ adjust = None
    /\ waits = [dwell |-> None, dwelt |-> FALSE, speech |-> None, spoken |-> FALSE, threads |-> {}]
    /\ timers = [retry |-> "none", blocked |-> FALSE, passed |-> None]
    /\ step = [op |-> "send", i |-> 1]
    /\ count = [goals |-> 0, events |-> 0]
    /\ ghost = [ran |-> [i \in Waypoints |-> 0], verified |-> FALSE, held |-> FALSE]

-----------------------------------------------------------------------------
(* Helpers of the handlers. *)

Go(op, i) == step' = [op |-> op, i |-> i]
At(op) == step.op = op
Return == step' = Idle
Active(i) == ctx.stage # "" /\ ctx.at = i                    \* _post_arrival_active
Moving == ctx.state \notin Terminal \cup {"pausing", "paused"}
Waiting == IF waits.speech # None THEN waits.speech ELSE waits.dwell
CoarsePending(i) == ctx.hold \in {"post_yaw", "re_coarse"} /\ Active(i)
Staged(c, i, s) == [c EXCEPT !.at = i, !.stage = s]
Cleared(c) == [c EXCEPT !.at = None, !.stage = "", !.effects = FALSE, !.coarse = FALSE, !.segs = 0]
Forgotten(c) == [c EXCEPT !.reAt = None, !.reN = 0]          \* _clear_arrival_reapproach_tracking
\* A pending success event cannot be told from a lost one once invalidated.
Invalidated == [nav EXCEPT !.gen = @ + 1]
\* Cancelling: the generation changes first; the acknowledgement may fail.
\* Wrong variant: the results are invalidated, the goal is left to run.
CancelledKeepsGoal(ok) == Invalidated
Cancelled(ok) == [Invalidated EXCEPT !.live = @ /\ ~ok]
CancelOutcomes == IF "cancel" \in Faults THEN BOOLEAN ELSE {TRUE}
StopOutcomes == IF "stop" \in Faults THEN BOOLEAN ELSE {TRUE}   \* is_robot_stopped
Event(e) == e \in Events /\ count.events < MaxEvents /\ count' = [count EXCEPT !.events = @ + 1]

\* _emit_safe_hold: motion is zeroed, the goal is not cancelled.
Held(c, code) ==
    [c EXCEPT !.state = IF @ \in Terminal THEN @ ELSE "paused", !.hold = code]
SafeHold(code) ==
    /\ ctx' = Held(ctx, code) /\ adjust' = None /\ Return
    /\ UNCHANGED <<mem, pause, nav, results, turn, waits, timers, count, ghost>>

\* _hold_for_arrival_precision_recovery
HoldForPrecision(code) ==
    /\ ctx' = Held(ctx, code) /\ pause' = "absolute" /\ adjust' = None /\ Return

\* _clear_departure_heading: a turn in progress also invalidates the results.
TurnCleared ==
    /\ turn' = NoTurn
    /\ nav' = IF turn = NoTurn THEN nav ELSE Invalidated

FailTask ==
    /\ ctx' = [ctx EXCEPT !.state = "failed"] /\ mem' = FreshMemory
    /\ nav' = Invalidated /\ turn' = NoTurn /\ adjust' = None
    /\ waits' = [waits EXCEPT !.dwell = None, !.dwelt = FALSE]
    /\ timers' = [timers EXCEPT !.retry = IF @ = "armed" THEN "none" ELSE @]
    /\ Return /\ UNCHANGED <<pause, results, count, ghost>>

-----------------------------------------------------------------------------
(* Sending the robot to a waypoint. *)

\* Whether the heading of a leg needs a turn first: _maybe_face_travel_direction
\* before a goal, _dispatch_departure_heading before leaving a waypoint.
FacesAway(i) == "turn" \in Faults /\ turn = NoTurn
DepartsTurned(i) == "turn" \in Faults /\ turn = NoTurn /\ i < N /\ mem.departed # i

\* _start_teleop_departure_heading: the outcome of the cancellation is ignored.
StartTurn(i, at, cruise) ==
    /\ turn' = [at |-> at, cruise |-> cruise, arrival |-> FALSE, worker |-> TRUE, timer |-> TRUE]
    /\ \E ok \in CancelOutcomes : nav' = [Cancelled(ok) EXCEPT !.offset = at]
    /\ ctx' = [ctx EXCEPT !.state = IF @ = "resuming" THEN "running" ELSE @]
    /\ Return

\* _send_from: a pending re-approach, occupied pass-through points, the turn
\* towards the leg, or the goal.
SendFrom ==
    /\ At("send")
    /\ LET i == step.i IN
       \/ /\ ctx.reAt = i /\ ctx.reN > 0 /\ Go("redispatch", i)
          /\ UNCHANGED <<ctx, nav, turn, ghost>>
       \/ /\ ~(ctx.reAt = i /\ ctx.reN > 0) /\ i < N /\ Route[i].pass
          /\ ctx' = [ctx EXCEPT !.wp = i + 1] /\ Go("send", i + 1) /\ UNCHANGED <<nav, turn, ghost>>
       \/ /\ ~(ctx.reAt = i /\ ctx.reN > 0) /\ FacesAway(i)
          /\ StartTurn(i, IF i > 1 THEN i - 1 ELSE 1, i) /\ UNCHANGED ghost
       \/ /\ ~(ctx.reAt = i /\ ctx.reN > 0) /\ Go("dispatch", i) /\ UNCHANGED <<ctx, nav, turn, ghost>>
    /\ UNCHANGED <<pause, results, adjust, waits, timers, count>>
    /\ mem' = [mem EXCEPT !.reached = IF step'.op = "send" THEN step.i ELSE @]

\* _dispatch_navigation: standing up may fail, the goal may be refused and is
\* then retried until the budget is used up.
Accept(i) ==
    /\ nav' = [gen |-> nav.gen + 1, goalGen |-> nav.gen + 1, live |-> TRUE, offset |-> i]
    /\ ctx' = [ctx EXCEPT !.wp = i, !.state = "running"]
    /\ timers' = [timers EXCEPT !.retry = "none"]
    /\ Return /\ UNCHANGED <<mem, pause, results, turn, adjust, waits, ghost>>

Reject(i) ==
    /\ nav' = [Invalidated EXCEPT !.offset = i]
    /\ ctx' = [ctx EXCEPT !.wp = i, !.state = IF @ \in {"paused", "pausing"} THEN @ ELSE "running"]
    /\ timers' = [timers EXCEPT !.retry = "armed"]
    /\ Return /\ UNCHANGED <<mem, pause, results, turn, adjust, waits, ghost>>

Dispatch ==
    /\ step.op \in {"dispatch", "redispatch"} /\ count.goals < MaxGoals
    /\ count' = [count EXCEPT !.goals = @ + 1]
    /\ \/ Accept(step.i)
       \/ "reject" \in Faults /\ Reject(step.i)

\* ROBOT_STANDUP_FAILED and NAV_STACK_NOT_READY.
DispatchFails ==
    step.op \in {"dispatch", "redispatch"} /\ "reject" \in Faults /\ FailTask

RetryFires ==
    /\ timers.retry = "armed" /\ timers' = [timers EXCEPT !.retry = "fired"]
    /\ UNCHANGED <<ctx, mem, pause, nav, results, turn, adjust, waits, step, count, ghost>>

\* _retry_nav_dispatch, once it has the lock.
RetryHolds == ctx.state \in {"paused", "pausing"} /\ pause # "no"
RetryRuns ==
    /\ step = Idle /\ timers.retry = "fired"
    /\ timers' = [timers EXCEPT !.retry = IF ctx.state \notin Terminal /\ RetryHolds THEN "armed" ELSE "none"]
    /\ IF ctx.state \in Terminal \/ RetryHolds THEN Return ELSE Go("send", ctx.wp)
    /\ UNCHANGED <<ctx, mem, pause, nav, results, turn, adjust, waits, count, ghost>>

\* _evaluate_cruise_watch finds the robot inside a pass-through point ...
CruiseWatchRuns ==
    /\ nav.goalGen > 0 /\ ctx.state = "running" /\ pause = "no" /\ turn = NoTurn /\ adjust = None
    /\ timers.passed = None
CruisePasses ==
    /\ step = Idle /\ CruiseWatchRuns /\ ctx.wp < N /\ Route[ctx.wp].pass
    /\ timers' = [timers EXCEPT !.passed = ctx.wp]
    /\ mem' = [mem EXCEPT !.reached = ctx.wp]
    /\ ctx' = [ctx EXCEPT !.wp = @ + 1] /\ nav' = Invalidated
    /\ UNCHANGED <<pause, results, turn, adjust, waits, step, count, ghost>>

\* ... and _complete_pass_through_from_cruise_watch cancels the goal and leaves
\* the point last reached, with the lock anew.
CruiseContinues ==
    /\ step = Idle /\ timers.passed # None
    /\ timers' = [timers EXCEPT !.passed = None]
    /\ \E ok \in CancelOutcomes : nav' = Cancelled(ok)
    /\ IF ctx.state = "running"
       THEN mem' = [mem EXCEPT !.ready = mem.reached] /\ Go("maybe", mem.reached)
       ELSE UNCHANGED mem /\ Return
    /\ UNCHANGED <<ctx, pause, results, turn, adjust, waits, count, ghost>>

\* _handle_live_goal_source_switch: a small jump plans the same target again.
\* (A large one is a loss of localization, see LocalizationLost.)
SourceSwitch ==
    /\ step = Idle /\ CruiseWatchRuns /\ nav.live /\ Event("switch")
    /\ \E ok \in CancelOutcomes : nav' = Cancelled(ok)
    /\ Go("dispatch", ctx.wp)
    /\ UNCHANGED <<ctx, mem, pause, results, turn, adjust, waits, timers, ghost>>

-----------------------------------------------------------------------------
(* The results of Nav2. *)

Statuses == {"succeeded", "missed", "cancelled", "failed"}
NavEnds(status) ==
    /\ nav.live /\ nav' = [nav EXCEPT !.live = FALSE]
    /\ results' = results \cup {[gen |-> nav.goalGen, status |-> status]}
    /\ UNCHANGED <<ctx, mem, pause, turn, adjust, waits, timers, step, count, ghost>>

Current(r) == r.gen = nav.gen

\* on_navigation_result for a goal of this generation in a state that moves.
OnResult(r) ==
    \/ /\ r.status = "succeeded" /\ Go("result", nav.offset) /\ UNCHANGED timers
    \/ /\ r.status = "missed" /\ Go("missed", nav.offset) /\ UNCHANGED timers
    \/ /\ r.status = "cancelled" /\ UNCHANGED timers
       /\ IF Active(ctx.wp)
          THEN IF adjust # None \/ turn.worker THEN Return ELSE Go("resume_post", ctx.wp)
          ELSE Go("send", ctx.wp)
    \/ /\ r.status = "failed"                         \* _hold_blocked_task, or a safe hold
       /\ \/ "blocked" \in Faults /\ timers' = [timers EXCEPT !.blocked = TRUE] /\ Return
          \/ UNCHANGED timers /\ Go("exhausted", ctx.wp)

Result ==
    /\ step = Idle
    /\ \E r \in results :
          /\ results' = results \ {r}
          /\ IF Current(r) /\ Moving THEN OnResult(r) ELSE Return /\ UNCHANGED timers
    /\ UNCHANGED <<ctx, mem, pause, nav, turn, adjust, waits, count, ghost>>

RecoveryExhausted == At("exhausted") /\ SafeHold("navigation")

BlockedRetry ==
    /\ step = Idle /\ timers.blocked /\ timers' = [timers EXCEPT !.blocked = FALSE]
    /\ IF ctx.state = "running" THEN Go("send", ctx.wp) ELSE Return
    /\ UNCHANGED <<ctx, mem, pause, nav, results, turn, adjust, waits, count, ghost>>

\* The success branch: a teleop turn ends on its worker, not here.
Succeeded ==
    /\ At("result")
    /\ LET i == step.i IN
       IF turn # NoTurn THEN Return /\ UNCHANGED mem
       ELSE IF Route[i].pass THEN mem' = [mem EXCEPT !.ready = i, !.reached = i] /\ Go("maybe", i)
       ELSE UNCHANGED mem /\ Go("stop", i)
    /\ UNCHANGED <<ctx, pause, nav, results, turn, adjust, waits, timers, count, ghost>>

\* Nav2 reports waypoints it missed.
MissedWaypoints == At("missed") /\ FailTask

\* _hold_final_pose
ConfirmStop ==
    /\ At("stop")
    /\ \/ /\ Go(IF mem.corrected = step.i THEN "xy" ELSE "correct", step.i)
          /\ ghost' = [ghost EXCEPT !.verified = FALSE]
          /\ UNCHANGED <<ctx, mem, pause, nav, results, turn, adjust, waits, timers, count>>
       \/ "stop" \in Faults /\ SafeHold("stop")

\* _absolute_localization_ready polls until the correction is in, or its budget ends.
AbsoluteReady == BOOLEAN

\* The correction transaction; without it the task waits, paused.
Correct ==
    /\ At("correct")
    /\ \E ready \in AbsoluteReady :
       \/ /\ ready /\ mem' = [mem EXCEPT !.corrected = step.i] /\ Go("xy", step.i)
          /\ UNCHANGED <<ctx, pause>>
       \/ /\ ~ready /\ ctx' = [ctx EXCEPT !.state = "paused", !.wp = step.i] /\ pause' = "absolute"
          /\ Return /\ UNCHANGED mem
    /\ UNCHANGED <<nav, results, turn, adjust, waits, timers, count, ghost>>

-----------------------------------------------------------------------------
(* The arrival transaction. *)

Recheck(i) == Active(i) /\ ctx.stage = "recheck"             \* after a micro segment
Recoarse(i) == Active(i) /\ ctx.stage = "coarse"             \* after the coarse re-approach

\* Blocking waits are attached again after a restart or a resumed pause.
Restored(w, i) ==
    IF ~ctx.effects THEN w
    ELSE LET speak == Route[i].speech /\ w.speech # i /\ ~w.spoken
             dwell == Route[i].dwell /\ w.dwell # i
         IN [w EXCEPT !.speech = IF speak THEN i ELSE @,
                      !.threads = IF speak THEN @ \cup {i} ELSE @,
                      !.dwell = IF dwell THEN i ELSE @,
                      !.dwelt = IF dwell THEN FALSE ELSE @]

\* _hold_unconfirmed_outdoor_arrival: no fixed RTK position outdoors.
UnconfirmedOutdoors(i) ==
    /\ ctx' = [ctx EXCEPT !.state = "paused", !.wp = i] /\ pause' = "absolute" /\ Return

\* _arrival_stability_result: consecutive fresh frames prove that the robot is
\* at the click, prove that it is not, or prove nothing.
Frames == {"inside", "outside", "unproved"}

\* The XY check of an arrival that is not in its later stages.
CheckXY ==
    /\ At("xy")
    /\ LET i == step.i IN
       \/ /\ Active(i) /\ ~Recheck(i) /\ ~Recoarse(i)
          /\ waits' = Restored(waits, i) /\ Go("heading", i)
          /\ UNCHANGED <<ctx, mem, pause, nav, results, turn, adjust, timers, count, ghost>>
       \/ /\ ~Active(i) \/ Recheck(i) \/ Recoarse(i)
          /\ \E f \in Frames :
             \/ /\ f = "inside" /\ ctx' = Staged(ctx, i, IF ctx.effects THEN "xy_adjusted" ELSE "xy_verified")
                /\ Go("heading", i)
                /\ UNCHANGED <<mem, pause, nav, results, turn, adjust, waits, timers, count, ghost>>
             \/ f = "unproved" /\ SafeHold("evidence")
             \/ /\ f = "outside" /\ Recheck(i)
                /\ \/ SafeHold("unstable")
                   \/ /\ ctx' = Staged(ctx, i, "heading_aligned") /\ Go("heading", i)
                      /\ mem' = [mem EXCEPT !.headed = i]
                      /\ UNCHANGED <<pause, nav, results, turn, adjust, waits, timers, count, ghost>>
             \/ f = "outside" /\ Recoarse(i) /\ SafeHold("coarse_exhausted")
             \/ /\ f = "outside" /\ ~Active(i) /\ UnconfirmedOutdoors(i)
                /\ UNCHANGED <<mem, nav, results, turn, adjust, waits, timers, count, ghost>>
             \/ /\ f = "outside" /\ ~Active(i) /\ Go("reapproach", i)
                /\ UNCHANGED <<ctx, mem, pause, nav, results, turn, adjust, waits, timers, count, ghost>>

HeadingSpent == mem.conv >= MaxConv

\* The final heading is turned to in place, MaxConv times at most.
AlignHeading ==
    /\ At("heading")
    /\ LET i == step.i IN
       \/ /\ ~Route[i].yaw \/ mem.headed = i
          /\ Go("pose", i) /\ UNCHANGED <<ctx, mem, pause, nav, results, turn, adjust, waits, timers, count, ghost>>
       \/ /\ Route[i].yaw /\ mem.headed # i
          /\ \/ /\ ctx' = Staged(ctx, i, "heading_aligned") /\ mem' = [mem EXCEPT !.headed = i]
                /\ Go("pose", i) /\ UNCHANGED <<pause, nav, results, turn, adjust, waits, timers, count, ghost>>
             \/ HeadingSpent /\ SafeHold("converge")
             \/ /\ ~HeadingSpent /\ mem' = [mem EXCEPT !.conv = @ + 1]
                /\ ctx' = Staged(ctx, i, "heading_pending") /\ Return
                /\ turn' = [at |-> i, cruise |-> None, arrival |-> TRUE, worker |-> TRUE, timer |-> TRUE]
                /\ nav' = [nav EXCEPT !.offset = i]
                /\ UNCHANGED <<pause, results, adjust, waits, timers, count, ghost>>

\* _start_arrival_adjustment is for a residual after the final heading only.
AdjustStages == {"heading_aligned", "xy_adjusted", "xy_adjusting", "recheck"}
MayAdjust(i, d) ==
    "adjust" \in Faults /\ ctx.stage \in AdjustStages /\ mem.headed = i /\ d # "fine"
\* _accept_post_yaw_coarse_arrival
AcceptsCoarse(i, d) ==
    ~Route[i].strict /\ ctx.stage \in AdjustStages /\ ctx.segs > 0 /\ d \in Near
Headed(i) == Route[i].yaw /\ mem.headed = i

\* The pose is outside the combined tolerance at distance d.
OutOfPose(i, d) ==
    \/ d = "none" /\ SafeHold("pose")
    \/ /\ d = "fine" /\ Headed(i)                     \* the yaw is off: turn again
       /\ mem' = [mem EXCEPT !.headed = None] /\ ctx' = Staged(ctx, i, "xy_adjusted")
       /\ Go("result", i) /\ UNCHANGED <<pause, nav, results, turn, adjust, waits, timers, count, ghost>>
    \/ /\ d \notin {"none", "fine"} /\ Headed(i) /\ AcceptsCoarse(i, d)
       /\ ctx' = [Staged(Forgotten(ctx), i, "ready") EXCEPT !.coarse = TRUE, !.segs = 0]
       /\ mem' = [mem EXCEPT !.corrected = i] /\ adjust' = None
       /\ ghost' = [ghost EXCEPT !.verified = TRUE]
       /\ Go("effects", i) /\ UNCHANGED <<pause, nav, results, turn, waits, timers, count>>
    \/ /\ d \notin {"none", "fine"} /\ ~(Headed(i) /\ AcceptsCoarse(i, d)) /\ MayAdjust(i, d)
       /\ adjust' = i /\ mem' = [mem EXCEPT !.gen = nav.gen]
       /\ ctx' = [Staged(ctx, i, "xy_adjusting") EXCEPT !.segs = IF @ = 0 THEN 1 ELSE @]
       /\ Return /\ UNCHANGED <<pause, nav, results, turn, waits, timers, count, ghost>>
    \/ /\ d # "none" /\ ~(d = "fine" /\ Headed(i)) /\ ~(Headed(i) /\ AcceptsCoarse(i, d))
       /\ ~(d # "fine" /\ MayAdjust(i, d))
       /\ SafeHold(IF ~Headed(i) THEN "converge" ELSE IF d \in Near THEN "micro" ELSE "post_yaw")

VerifyPose ==
    /\ At("pose")
    /\ \/ /\ Go("stable", step.i)
          /\ UNCHANGED <<ctx, mem, pause, nav, results, turn, adjust, waits, timers, count, ghost>>
       \/ \E d \in Distances : OutOfPose(step.i, d)

\* _arrival_pose_is_stable: consecutive fresh samples before the release.
ConfirmPose ==
    /\ At("stable")
    /\ \/ /\ ctx' = Staged(Forgotten(ctx), step.i, "ready") /\ Go("effects", step.i)
          /\ ghost' = [ghost EXCEPT !.verified = TRUE]
       \/ /\ ctx' = [ctx EXCEPT !.state = "paused", !.wp = step.i] /\ Return
          /\ ghost' = [ghost EXCEPT !.verified = FALSE]
    /\ UNCHANGED <<mem, pause, nav, results, turn, adjust, waits, timers, count>>

\* Wrong variant: the latch of the side effects is not looked at.
EffectsDueAlways == TRUE
EffectsDue == ~ctx.effects

\* _start_arrival_side_effects, then the gate to the next waypoint.
StartEffects ==
    /\ At("effects")
    /\ LET i == step.i IN
       /\ mem' = [mem EXCEPT !.ready = i, !.reached = i] /\ Go("maybe", i)
       /\ IF ~EffectsDue THEN UNCHANGED <<ctx, waits, ghost>>
          ELSE /\ ctx' = [ctx EXCEPT !.effects = TRUE]
               /\ waits' = [waits EXCEPT !.speech = IF Route[i].speech THEN i ELSE @,
                                         !.spoken = IF Route[i].speech THEN FALSE ELSE @,
                                         !.threads = IF Route[i].speech THEN @ \cup {i} ELSE @,
                                         !.dwell = IF Route[i].dwell THEN i ELSE None,
                                         !.dwelt = FALSE]
               /\ ghost' = [ghost EXCEPT !.ran[i] = IF @ < 2 THEN @ + 1 ELSE @]
    /\ UNCHANGED <<pause, nav, results, turn, adjust, timers, count>>

\* _reapproach_rejected_arrival
Reapproach ==
    /\ step.op \in {"reapproach", "reapproach_recovered"}
    /\ \E d \in Distances :
       LET i == step.i
           precise == d = "none" \/ (d = "far" /\ At("reapproach"))
           spent == ctx.reN >= MaxReapproach IN
       \/ precise /\ HoldForPrecision("xy") /\ UNCHANGED <<mem, nav, turn>>
       \/ /\ ~precise /\ spent /\ d \in Near /\ ctx.reN > 0 /\ ~Route[i].strict /\ mem.corrected = i
          /\ ctx' = [Staged(Forgotten(ctx), i, "xy_verified") EXCEPT !.coarse = TRUE, !.segs = 0]
          /\ mem' = [mem EXCEPT !.headed = None, !.conv = 0] /\ adjust' = None
          /\ Go("result", i) /\ UNCHANGED <<pause, nav, turn>>
       \/ /\ ~precise /\ spent /\ ~(d \in Near /\ ctx.reN > 0 /\ ~Route[i].strict /\ mem.corrected = i)
          /\ ctx' = Held(IF d \in Near THEN Forgotten(ctx) ELSE Staged(Forgotten(ctx), i, "coarse_pending"),
                         IF d \in Near THEN "re_exhausted" ELSE "re_coarse")
          /\ adjust' = None /\ Return /\ UNCHANGED <<mem, pause, nav, turn>>
       \/ /\ ~precise /\ ~spent
          /\ ctx' = [ctx EXCEPT !.reAt = i, !.reN = @ + 1, !.wp = i, !.state = "running", !.segs = 0]
          /\ mem' = [mem EXCEPT !.corrected = None, !.headed = None, !.conv = 0] /\ adjust' = None
          /\ Go("redispatch", i) /\ UNCHANGED <<pause, nav, turn>>
    /\ UNCHANGED <<results, waits, timers, count, ghost>>

-----------------------------------------------------------------------------
(* Workers and waits. *)

\* The worker aligned the robot.
TurnAligned ==
    /\ step = Idle /\ turn.worker /\ Moving
    /\ turn' = NoTurn
    /\ IF turn.arrival
       THEN /\ mem' = [mem EXCEPT !.headed = turn.at, !.departed = None]
            /\ ctx' = Staged(ctx, turn.at, "heading_aligned") /\ Go("result", turn.at)
       ELSE /\ UNCHANGED ctx
            /\ IF turn.cruise # None THEN UNCHANGED mem /\ Go("dispatch", turn.cruise)
               ELSE mem' = [mem EXCEPT !.departed = turn.at] /\ Go("continue", turn.at)
    /\ UNCHANGED <<pause, nav, results, adjust, waits, timers, count, ghost>>

\* The worker sees a state that does not move, or its velocity command fails.
TurnWorkerEnds ==
    /\ turn.worker /\ turn' = [turn EXCEPT !.worker = FALSE]
    /\ UNCHANGED <<ctx, mem, pause, nav, results, adjust, waits, timers, step, count, ghost>>

TurnTimeout ==
    /\ step = Idle /\ turn.timer
    /\ \/ /\ ~Moving /\ turn' = [turn EXCEPT !.timer = FALSE]
          /\ UNCHANGED <<ctx, mem, nav, adjust, step>>
       \/ /\ Moving /\ TurnCleared /\ mem' = [mem EXCEPT !.headed = None, !.departed = None]
          /\ IF ~turn.arrival
             THEN ctx' = [ctx EXCEPT !.state = "paused"] /\ Return /\ UNCHANGED adjust
             ELSE IF ~HeadingSpent THEN Go("result", turn.at) /\ UNCHANGED <<ctx, adjust>>
             ELSE ctx' = Held(ctx, "converge") /\ adjust' = None /\ Return
    /\ UNCHANGED <<pause, results, waits, timers, count, ghost>>

\* The end of _arrival_adjustment_worker, under the lock: its result counts in
\* the generation the worker was started in.
AdjustDone(i) ==
    /\ \/ ctx' = Staged(ctx, i, "ready") /\ UNCHANGED mem
       \/ /\ ctx.segs < MaxSegs /\ ctx' = [Staged(ctx, i, "recheck") EXCEPT !.segs = @ + 1]
          /\ mem' = [mem EXCEPT !.corrected = None]
    /\ IF mem.gen = nav.gen THEN Go("result", i) ELSE Return

AdjustGivesUp(i) ==
    /\ \/ ctx' = Held(ctx, "converge")
       \/ mem.headed = i /\ ctx' = Held(ctx, "post_yaw")
    /\ Return /\ UNCHANGED mem

\* _arrival_adjustment_worker: converged, one bounded segment done, or given up.
AdjustEnds ==
    /\ step = Idle /\ adjust # None /\ adjust' = None
    /\ IF ctx.state # "running" \/ ctx.wp # adjust THEN Return /\ UNCHANGED <<ctx, mem>>
       ELSE AdjustDone(adjust) \/ AdjustGivesUp(adjust)
    /\ UNCHANGED <<pause, nav, results, turn, waits, timers, count, ghost>>

\* _complete_waypoint_speech_wait: the flag is the executor's, not the waypoint's.
SpeechEnds ==
    /\ step = Idle
    /\ \E i \in waits.threads :
          /\ waits' = [waits EXCEPT !.threads = @ \ {i},
                                    !.spoken = @ \/ ctx.state \in {"running", "paused"}]
          /\ IF ctx.state = "running" THEN Go("maybe", i) ELSE Return
    /\ UNCHANGED <<ctx, mem, pause, nav, results, turn, adjust, timers, count, ghost>>

DwellEnds ==
    /\ step = Idle /\ waits.dwell # None /\ ~waits.dwelt
    /\ waits' = [waits EXCEPT !.dwelt = TRUE] /\ Go("maybe", waits.dwell)
    /\ UNCHANGED <<ctx, mem, pause, nav, results, turn, adjust, timers, count, ghost>>

\* _maybe_continue_after_waypoint
MaybeContinue ==
    /\ At("maybe")
    /\ LET i == step.i
           open == /\ ctx.state = "running" /\ mem.ready = i
                   /\ (waits.speech = i) => waits.spoken
                   /\ (waits.dwell = i) => waits.dwelt IN
       IF ~open THEN Return /\ UNCHANGED <<ctx, mem, waits>>
       ELSE /\ waits' = [waits EXCEPT !.speech = IF @ = i THEN None ELSE @,
                                      !.spoken = @ /\ waits.speech # i,
                                      !.dwell = IF @ = i THEN None ELSE @,
                                      !.dwelt = @ /\ waits.dwell # i]
            /\ mem' = [mem EXCEPT !.ready = None]
            /\ ctx' = Staged(ctx, i, "postprocessed") /\ Go("continue", i)
    /\ UNCHANGED <<pause, nav, results, turn, adjust, timers, count, ghost>>

\* _continue_after_waypoint: a turn towards the next waypoint, the next
\* waypoint, the next round, or the end of the task.
\* _confirm_and_skip_loop_anchor: a confirmed anchor of the round is not visited again.
NextRound(anchored) ==
    /\ N > 1 \/ ~anchored
    /\ LET first == IF anchored THEN 2 ELSE 1 IN
       /\ ctx' = [Cleared(Forgotten(ctx)) EXCEPT !.round = @ + 1, !.wp = first]
       /\ ghost' = [ghost EXCEPT !.ran = [i \in Waypoints |-> IF i < first THEN 1 ELSE 0]]
       /\ nav' = [nav EXCEPT !.offset = 1] /\ Go("dispatch", first)

\* _final_pose_error: the last pose may be missing or out of tolerance.
FinalPoseError(i) == i = N

Completed ==
    /\ ctx' = [Cleared(Forgotten(ctx)) EXCEPT !.state = "completed"]
    /\ nav' = Invalidated /\ Return /\ UNCHANGED ghost

Continue ==
    /\ At("continue")
    /\ LET i == step.i IN
       IF ctx.state # "running" THEN Return /\ UNCHANGED <<ctx, mem, nav, turn, adjust, ghost, waits, timers, pause>>
       ELSE \/ /\ DepartsTurned(i)
               /\ mem' = [mem EXCEPT !.corrected = None, !.conv = 0] /\ adjust' = None
               /\ turn' = [at |-> i, cruise |-> None, arrival |-> FALSE, worker |-> TRUE, timer |-> TRUE]
               /\ \E ok \in CancelOutcomes : nav' = [Cancelled(ok) EXCEPT !.offset = i]
               /\ ctx' = Forgotten(ctx) /\ Return /\ UNCHANGED <<pause, ghost, waits, timers>>
            \/ /\ \/ /\ i < N /\ ctx' = [Cleared(Forgotten(ctx)) EXCEPT !.wp = i + 1]
                     /\ Go("send", i + 1) /\ UNCHANGED <<nav, ghost>>
                  \/ i = N /\ ctx.round < Rounds /\ \E anchored \in BOOLEAN : NextRound(anchored)
                  \/ i = N /\ ctx.round >= Rounds /\ Completed
               /\ mem' = [mem EXCEPT !.corrected = None, !.headed = None, !.conv = 0,
                                     !.reached = IF i = N THEN ctx'.wp - 1 ELSE @,
                                     !.departed = IF @ = i THEN None ELSE @]
               /\ adjust' = None /\ UNCHANGED <<pause, turn, waits, timers>>
            \/ FinalPoseError(i) /\ FailTask
    /\ UNCHANGED <<results, count>>

-----------------------------------------------------------------------------
(* Localization, the operator, the center and restarts. *)

\* on_localization_lost
LocalizationLost ==
    /\ step = Idle /\ ctx.state = "running" /\ Event("lost")
    /\ ctx' = [ctx EXCEPT !.state = "paused"] /\ pause' = "lost"
    /\ IF Waiting # None THEN nav' = nav ELSE \E ok \in CancelOutcomes : nav' = Cancelled(ok)
    /\ mem' = [mem EXCEPT !.conv = 0, !.headed = None, !.departed = None]
    /\ turn' = NoTurn /\ adjust' = None
    /\ UNCHANGED <<results, waits, timers, step, ghost>>

\* The pending target is kept.
ResumeIndex == ctx.wp

\* on_localization_recovered of a task that is paused for it.
OnRecovered ==
    /\ step = Idle /\ ctx.state = "paused" /\ pause # "no" /\ pause' = "no"
    /\ LET i == ResumeIndex IN
       \/ /\ CoarsePending(i) /\ Go("coarse", i) /\ ctx' = [ctx EXCEPT !.state = "running"]
          /\ UNCHANGED <<mem, nav, turn>>
       \/ /\ ~CoarsePending(i) /\ Active(i) /\ Go("resume_post", i)
          /\ ctx' = [ctx EXCEPT !.state = "running"] /\ UNCHANGED <<mem, nav, turn>>
       \/ /\ ~Active(i) /\ Waiting # None /\ pause # "absolute"
          /\ mem' = [mem EXCEPT !.ready = Waiting] /\ Go("maybe", Waiting)
          /\ ctx' = [ctx EXCEPT !.state = "running"] /\ UNCHANGED <<nav, turn>>
       \/ /\ ~Active(i) /\ pause = "absolute" /\ ctx' = [ctx EXCEPT !.state = "running"]
          /\ \/ /\ mem' = [mem EXCEPT !.corrected = i] /\ nav' = [nav EXCEPT !.offset = i]
                /\ Go("result", i) /\ UNCHANGED turn
             \/ /\ TurnCleared /\ mem' = [mem EXCEPT !.headed = None, !.departed = None]
                /\ Go("reapproach_recovered", i)
       \/ /\ ~Active(i) /\ pause = "lost" /\ Waiting = None
          /\ ctx' = [ctx EXCEPT !.state = "resuming"] /\ TurnCleared
          /\ mem' = [mem EXCEPT !.headed = None, !.departed = None] /\ Go("send", i)
    /\ UNCHANGED <<results, adjust, waits, timers, count, ghost>>

\* Its callers: the application's health monitor, and the watch that the pause
\* for an absolute pose armed.
Recovered == OnRecovered
AbsoluteWatchFires == pause = "absolute" /\ OnRecovered

\* ... and of a task that runs already: its goal is sent again.
RecoveredRunning ==
    /\ step = Idle /\ ctx.state = "running" /\ Event("recovered") /\ pause' = "no"
    /\ LET i == ResumeIndex IN
       \/ CoarsePending(i) /\ Go("coarse", i) /\ UNCHANGED <<mem, nav, turn>>
       \/ ~CoarsePending(i) /\ Active(i) /\ Go("resume_post", i) /\ UNCHANGED <<mem, nav, turn>>
       \/ ~Active(i) /\ Waiting # None /\ Return /\ UNCHANGED <<mem, nav, turn>>
       \/ /\ ~Active(i) /\ Waiting = None /\ TurnCleared
          /\ mem' = [mem EXCEPT !.headed = None, !.departed = None] /\ Go("send", i)
    /\ UNCHANGED <<ctx, results, adjust, waits, timers, ghost>>

\* _resume_coarse_reapproach_after_recovery: one coarse goal.
ResumeCoarse ==
    /\ At("coarse")
    /\ LET i == step.i IN
       /\ ctx' = [Staged(Forgotten(ctx), i, "coarse") EXCEPT !.hold = "", !.effects = FALSE,
                     !.coarse = TRUE, !.segs = 0, !.wp = i]
       /\ mem' = [mem EXCEPT !.corrected = i, !.departed = None,
                             !.headed = IF ctx.hold = "post_yaw" THEN i ELSE None]
       /\ TurnCleared /\ adjust' = None /\ Go("dispatch", i)
    /\ UNCHANGED <<pause, results, waits, timers, count, ghost>>

\* _resume_post_arrival: the persisted stage decides where the arrival goes on.
ResumePostArrival ==
    /\ At("resume_post")
    /\ LET i == step.i
           turned == ctx.stage \in {"heading_aligned", "xy_adjusting", "ready"} IN
       /\ mem' = [mem EXCEPT !.corrected = i, !.headed = IF turned THEN i ELSE @]
       /\ nav' = [nav EXCEPT !.offset = i]
       /\ waits' = Restored(waits, i)
       /\ Go(IF ctx.stage = "ready" THEN "effects" ELSE "result", i)
    /\ UNCHANGED <<ctx, pause, results, turn, adjust, timers, count, ghost>>

\* pause_task
PauseTask ==
    /\ step = Idle /\ ctx.state \in {"running", "pausing", "paused"} /\ Event("pause") /\ pause' = "no"
    /\ timers' = [timers EXCEPT !.retry = IF @ = "armed" THEN "none" ELSE @] /\ adjust' = None
    /\ ghost' = [ghost EXCEPT !.held = TRUE]
    /\ IF ctx.state = "paused" THEN UNCHANGED <<ctx, nav>>
       ELSE \E ok \in (IF Waiting # None THEN {TRUE} ELSE CancelOutcomes), stopped \in StopOutcomes :
              /\ nav' = IF Waiting # None THEN nav ELSE Cancelled(ok)
              /\ ctx' = [ctx EXCEPT !.state = IF ok /\ stopped THEN "paused" ELSE "pausing"]
    /\ UNCHANGED <<mem, results, turn, waits, step>>

\* resume_task of a task that is not waiting for an absolute pose.
Resume(cancelled) ==
    /\ pause' = "no"
    /\ LET i == ctx.wp IN
       IF Active(i) THEN Go("resume_post", i) /\ ctx' = [ctx EXCEPT !.state = "running", !.hold = cancelled.hold]
                         /\ nav' = cancelled.nav /\ UNCHANGED mem
       ELSE IF Waiting # None
       THEN /\ mem' = [mem EXCEPT !.ready = Waiting] /\ Go("maybe", Waiting)
            /\ ctx' = [ctx EXCEPT !.state = "running", !.hold = cancelled.hold] /\ nav' = cancelled.nav
       ELSE \E ok \in CancelOutcomes :
              /\ nav' = IF cancelled.done THEN cancelled.nav ELSE Cancelled(ok)
              /\ ctx' = [ctx EXCEPT !.state = IF cancelled.done \/ ok THEN "resuming" ELSE "paused", !.hold = cancelled.hold]
              /\ IF cancelled.done \/ ok THEN Go("send", i) ELSE Return
              /\ UNCHANGED mem

ResumeTask ==
    /\ step = Idle /\ ctx.state \in {"paused", "pausing"} /\ pause # "absolute" /\ "pause" \in Events
    /\ ghost' = [ghost EXCEPT !.held = FALSE]
    /\ Resume([done |-> FALSE, nav |-> nav, hold |-> ctx.hold])
    /\ UNCHANGED <<results, turn, adjust, waits, timers, count>>

\* recover_task of a stopped robot: the code of the last hold decides.
RecoverTask ==
    /\ step = Idle /\ ctx.state = "paused" /\ Event("recover")
    /\ turn' = NoTurn /\ adjust' = None
    /\ \E ok \in CancelOutcomes :
       LET n == Cancelled(ok)
           i == IF ctx.at # None THEN ctx.at ELSE ctx.wp
           code == ctx.hold IN
       \/ /\ code = "coarse_exhausted" \/ code \in LocalizationHolds
          /\ Return /\ nav' = n /\ UNCHANGED <<ctx, mem, pause>>
       \/ /\ code \in ArrivalHolds
          /\ \/ /\ ctx' = IF code \in {"post_yaw", "re_coarse"} THEN ctx ELSE Held(ctx, "xy")
                /\ pause' = "absolute" /\ Return /\ nav' = n
             \/ /\ code \notin {"post_yaw", "re_coarse"} /\ ctx' = [ctx EXCEPT !.hold = ""]
                /\ nav' = n /\ UNCHANGED pause
                /\ \/ Go("reapproach", i)
                   \/ Go("reapproach_recovered", i)
          /\ mem' = [mem EXCEPT !.headed = None, !.departed = None]
       \/ /\ code \notin ArrivalHolds \cup LocalizationHolds \cup {"coarse_exhausted"} /\ pause # "absolute"
          /\ Resume([done |-> ok, nav |-> n, hold |-> ""])
    /\ UNCHANGED <<results, waits, timers, ghost>>

AfterRestart == [ctx EXCEPT !.state = IF @ = "paused" THEN @ ELSE "failed"]

\* The Edge restarts: a paused task stays, another one is failed.
Restart ==
    /\ Event("crash") /\ ctx.state \notin Terminal
    /\ ctx' = AfterRestart
    /\ mem' = FreshMemory /\ pause' \in {"no", "absolute"}
    /\ nav' = [nav EXCEPT !.gen = @ + 1, !.live = FALSE] /\ results' = {}
    /\ turn' = NoTurn /\ adjust' = None
    /\ waits' = [dwell |-> None, dwelt |-> FALSE, speech |-> None, spoken |-> FALSE, threads |-> {}]
    /\ timers' = [retry |-> "none", blocked |-> FALSE, passed |-> None]
    /\ Return /\ UNCHANGED ghost

-----------------------------------------------------------------------------

Handler ==
    \/ SendFrom \/ Dispatch \/ DispatchFails \/ RecoveryExhausted \/ MissedWaypoints \/ Succeeded
    \/ ConfirmStop \/ Correct \/ CheckXY \/ AlignHeading \/ VerifyPose \/ ConfirmPose
    \/ StartEffects \/ Reapproach \/ MaybeContinue \/ Continue \/ ResumeCoarse \/ ResumePostArrival

Worker ==
    \/ RetryFires \/ RetryRuns \/ SourceSwitch \/ CruisePasses \/ CruiseContinues \/ Result \/ BlockedRetry
    \/ TurnAligned \/ TurnWorkerEnds \/ TurnTimeout \/ AdjustEnds \/ SpeechEnds \/ DwellEnds
    \/ \E s \in Statuses : NavEnds(s)

World ==
    \/ LocalizationLost \/ Recovered \/ AbsoluteWatchFires \/ RecoveredRunning
    \/ PauseTask \/ ResumeTask \/ RecoverTask \/ Restart

Next == Handler \/ Worker \/ World

Spec == Init /\ [][Next]_vars

-----------------------------------------------------------------------------

\* The variables hold values of their types.
TypeOK ==
    /\ ctx.state \in {"running", "pausing", "paused", "resuming"} \cup Terminal
    /\ ctx.wp \in Waypoints /\ ctx.round \in 1..Rounds /\ ctx.at \in 0..N
    /\ ctx.reN \in 0..MaxReapproach /\ ctx.segs \in Nat
    /\ pause \in {"no", "lost", "absolute"} /\ adjust \in 0..N /\ step.i \in 0..N
    /\ mem.conv \in 0..MaxConv /\ nav.live \in BOOLEAN /\ results \subseteq [gen : Nat, status : Statuses]

\* Publish business arrival and start its side effects once per round
\* (_start_arrival_side_effects), whatever re-approach or recovery follows.
EffectsOnce == \A i \in Waypoints : ghost.ran[i] <= 1

\* Every stop of the round the robot has left behind ran its side effects:
\* no stale result, recovery or retry skips a waypoint.
NothingSkipped ==
    ctx.state \in {"running", "completed"} =>
        \A i \in Waypoints :
            ~Route[i].pass /\ (i < ctx.wp \/ ctx.state = "completed") => ghost.ran[i] > 0

\* The navigation goal and a raw-velocity worker never move the robot together.
OneMover == nav.live => ~turn.worker /\ adjust = None

\* A task that runs always has something on the way that will call the
\* executor again: it can not stand still for ever without an event.
NotStranded ==
    step = Idle /\ ctx.state = "running" =>
        \/ nav.live \/ turn.worker \/ turn.timer \/ adjust # None
        \/ timers.retry # "none" \/ timers.blocked \/ timers.passed # None
        \/ waits.threads # {} \/ (waits.dwell # None /\ ~waits.dwelt)
        \/ \E r \in results : Current(r)

\* Side effects start only after the pose was confirmed by consecutive fresh
\* samples, or the coarse arrival accepted, since the robot last stopped there.
AcceptsVerified ==
    \A i \in Waypoints : ghost'.ran[i] > ghost.ran[i] => ghost.verified
=============================================================================
