-------------------------- MODULE EdgeMotionProofs --------------------------
(***************************************************************************)
(* Proofs for the waypoint loop of MCEdgeMotion: for any record of bounds  *)
(* without points passed through, and for its scenarios.                   *)
(*                                                                         *)
(* That one mover moves the robot is inductive only with what every        *)
(* handler relies on.  A handler at work has everything stopped and no     *)
(* result of the current generation on its way; a goal, a turn and an      *)
(* adjustment each tell, by the stage of the task, which of them may run;  *)
(* and results of an earlier generation are never looked at.  That a       *)
(* running task is never stranded rests on there being no wait that only a *)
(* worker ends.  Both hold under limits on the faults and events of a      *)
(* scenario.  Those of the movers are real: TLC finds two movers when an   *)
(* operator pauses beside a turn, when a localization recovers beside an   *)
(* adjustment, and when a blocked goal is retried after a loss of it.      *)
(***************************************************************************)
EXTENDS MCEdgeMotion, Sequences, TLAPS

(* The limits of a scenario. *)

\* What the configuration guarantees of its bounds.
WayBounds(k) == Len(k.route) \in Nat \ {0} /\ k.rounds \in Nat \ {0} /\ k.reapproach \in Nat /\ k.conv \in Nat

\* No waypoint of the route is passed through without stopping.
NoPassing(k) == \A i \in 1 .. Len(k.route) : ~k.route[i].pass
WayLimits(k) == WayBounds(k) /\ NoPassing(k)

\* What the records hold.
Operations == {"idle", "send", "dispatch", "redispatch", "result", "missed", "resume_post", "exhausted",
               "maybe", "stop", "xy", "correct", "heading", "pose", "stable", "effects", "reapproach",
               "reapproach_recovered", "coarse", "continue"}
Points(k) == 1 .. Len(k.route)
Places(k) == 0 .. Len(k.route)
Outcomes == {"succeeded", "missed", "cancelled", "failed"}

\* The stage of a task that is at no arrival.
NoStage == ""

\* The persisted TaskContext, the latches of the executor, its goal, the heading in
\* progress, the waits, the timers and the handler at work.
ContextTyped(k) ==
    /\ DOMAIN ctx = {"state", "wp", "round", "stage", "at", "effects", "coarse", "hold", "reAt", "reN", "segs"}
    /\ ctx.state \in {"running", "pausing", "paused", "resuming", "completed", "failed"}
    /\ ctx.wp \in Points(k) /\ ctx.at \in Places(k) /\ ctx.round \in 1 .. k.rounds
    /\ ctx.reN \in 0 .. k.reapproach /\ ctx.segs \in Nat /\ ctx.effects \in BOOLEAN
MemoryTyped(k) ==
    /\ DOMAIN mem = {"corrected", "headed", "departed", "ready", "reached", "gen", "conv"}
    /\ mem.conv \in 0 .. k.conv /\ mem.ready \in Places(k)
GoalTyped(k) ==
    /\ DOMAIN nav = {"gen", "goalGen", "live", "offset"}
    /\ nav.gen \in Nat /\ nav.goalGen \in Nat /\ nav.live \in BOOLEAN /\ nav.offset \in Points(k)

\* No heading is in progress: then no part of the record is set.
NoTurn == [at |-> 0, cruise |-> 0, arrival |-> FALSE, worker |-> FALSE, timer |-> FALSE]
TurnTyped(k) ==
    /\ DOMAIN turn = {"at", "cruise", "arrival", "worker", "timer"}
    /\ turn.at \in Places(k) /\ turn.cruise \in Places(k) /\ turn.arrival \in BOOLEAN
    /\ turn.worker \in BOOLEAN /\ turn.timer \in BOOLEAN
    /\ turn.at = 0 <=> turn = NoTurn
WaitsTyped(k) ==
    /\ DOMAIN waits = {"dwell", "dwelt", "speech", "spoken", "threads"}
    /\ waits.dwell \in Places(k) /\ waits.speech \in Places(k) /\ waits.threads \subseteq Points(k)
TimersTyped ==
    /\ DOMAIN timers = {"retry", "blocked", "passed"} /\ timers.passed = 0
    /\ timers.retry \in {"none", "armed", "fired"} /\ timers.blocked \in BOOLEAN
StepTyped(k) ==
    /\ step.op \in Operations /\ step.i \in Places(k)
    /\ step.op # "idle" => step.i # 0

\* Every value the executor keeps has its type.
WayTyped(k) ==
    /\ ContextTyped(k) /\ MemoryTyped(k) /\ GoalTyped(k) /\ TurnTyped(k) /\ WaitsTyped(k) /\ TimersTyped
    /\ StepTyped(k)
    /\ pause \in {"no", "lost", "absolute"} /\ adjust \in Places(k)
    /\ results \in SUBSET [gen : Nat, status : Outcomes]

\* A result of the current generation is on its way; a handler other than the
\* end of a wait holds the lock; nothing moves the robot or will; a stop waits for
\* its dwell or its speech.
Pending == \E r \in results : r.gen = nav.gen
Working == step.op \notin {"idle", "maybe"}
Unmoved == ~nav.live /\ turn.at = 0 /\ adjust = 0 /\ ~Pending
Waited == waits.speech # 0 \/ waits.dwell # 0

\* Results are of goals of this generation or earlier ones, of this generation
\* there is one at most, and none while its goal runs.
ResultsInv ==
    /\ \A r \in results : r.gen <= nav.gen
    /\ \A r, s \in results : r.gen = nav.gen /\ s.gen = nav.gen => r = s
    /\ nav.live => ~Pending /\ nav.goalGen = nav.gen

\* A handler at work, a stop that is ready and a task that does not run have
\* nothing that moves; a goal excludes a turn and an adjustment, and they each other.
OneAtWork ==
    /\ Working => Unmoved /\ ctx.state \in {"running", "resuming"}
    /\ mem.ready # 0 => Unmoved /\ ctx.stage = "ready" /\ ctx.at = mem.ready
                        /\ step.op \in {"idle", "maybe", "resume_post", "effects"}
    /\ nav.live \/ Pending => turn.at = 0 /\ adjust = 0 /\ ctx.stage = NoStage /\ ~Waited
                              /\ nav.offset = ctx.wp
    /\ turn.at # 0 => adjust = 0
    /\ ctx.state \notin {"running", "resuming"} => Unmoved
    /\ ctx.state = "resuming" => step.op \in {"send", "dispatch", "redispatch"}
    /\ ctx.state # "pausing"
    /\ timers.retry = "none" /\ ~timers.blocked

\* The operations of a handler that leaves for a waypoint.
Leaving == {"send", "dispatch", "redispatch", "reapproach", "reapproach_recovered", "missed", "exhausted"}

\* The arrival in progress is at the waypoint of the task, and the stage tells
\* what a handler, a turn, an adjustment or a wait is for.
InPlace ==
    /\ ctx.at \in {0, ctx.wp} /\ (ctx.at = 0 <=> ctx.stage = NoStage)
    /\ (ctx.stage = NoStage => ~ctx.effects)
    /\ Working => step.i = ctx.wp
    /\ turn.at # 0 /\ turn.cruise # 0 => ~turn.arrival /\ turn.cruise = ctx.wp /\ ctx.stage = NoStage /\ ~Waited
    /\ turn.at # 0 /\ turn.cruise = 0 => turn.at = ctx.wp /\ ctx.stage # NoStage /\ (Waited => turn.arrival)
    /\ adjust # 0 => adjust = ctx.wp /\ ctx.stage # NoStage
    /\ step.op \in Leaving => ctx.stage = NoStage /\ ~Waited
    /\ step.op = "continue" => ctx.stage # NoStage /\ ~Waited
    /\ step.op \in {"resume_post", "heading", "pose", "stable"} => ctx.stage # NoStage
    /\ step.op = "effects" => ctx.stage = "ready"
    /\ step.op # "coarse"
    /\ Waited /\ ctx.state \notin {"completed", "failed"} =>
          ctx.stage # NoStage /\ waits.speech \in {0, ctx.wp} /\ waits.dwell \in {0, ctx.wp}
    /\ ctx.state \in {"running", "resuming"} => pause = "no"
    /\ ctx.hold \in {"post_yaw", "re_coarse"} => ctx.state \notin {"running", "resuming"} /\ pause = "no"

\* What one mover at a time rests on.
Movers == ResultsInv /\ OneAtWork /\ InPlace

\* Something is on its way that calls the executor.
UnderWay ==
    \/ step.op # "idle" \/ (nav.live /\ nav.goalGen = nav.gen)
    \/ timers.retry # "none" \/ timers.blocked \/ Pending

\* On plain stops nothing turns, adjusts or waits, and a running task has
\* something on its way.
Strand ==
    /\ turn.at = 0 /\ adjust = 0
    /\ waits.dwell = 0 /\ waits.speech = 0 /\ waits.threads = {}
    /\ step.op = "maybe" => mem.ready = step.i
    /\ ctx.state = "resuming" => step.op \in {"send", "dispatch", "redispatch"}
    /\ ctx.state = "running" => UnderWay

\* The scenarios in which the parts of the invariant hold: a goal that is
\* cancelled stops in both.
MoverLimits(k) == k.faults \subseteq {"turn", "adjust", "stop"} /\ k.events \subseteq {"lost", "switch"}
StrandLimits(k) ==
    /\ k.faults \subseteq {"stop", "reject", "blocked"}
    /\ \A i \in 1 .. Len(k.route) : ~k.route[i].yaw /\ ~k.route[i].dwell /\ ~k.route[i].speech

\* A step of the executor keeps the types and, under their limits, the other
\* parts of the invariant.
Kept(k) ==
    /\ WayTyped(k)'
    /\ MoverLimits(k) /\ Movers => Movers'
    /\ StrandLimits(k) /\ Strand => Strand'

\* The stages of an arrival are none of them the empty one.
Stages == {"xy_verified", "xy_adjusted", "xy_adjusting", "heading_pending", "heading_aligned", "recheck", "ready",
           "coarse", "coarse_pending", "postprocessed"}

LEMMA StagesAreNamed == NoStage \notin Stages
<1>1. \A s \in Stages : s # NoStage
  BY Zenon DEF Stages, NoStage
<1> QED
  BY <1>1

\* An arrival is active (_post_arrival_active) exactly with a stage at its waypoint.
LEMMA WhenActive == \A k, i : Way(k)!Active(i) <=> ctx.stage # NoStage /\ ctx.at = i
  BY Zenon DEF Way!Active, NoStage

\* An arrival that is left: its stage and its latches are gone.
LeftBehind(k, c) ==
    /\ DOMAIN c = DOMAIN ctx
    /\ c.state = ctx.state /\ c.wp = ctx.wp /\ c.round = ctx.round /\ c.hold = ctx.hold
    /\ c.stage = NoStage /\ c.at = 0 /\ c.effects = FALSE /\ c.reN = 0 /\ c.segs = 0

\* Clearing an arrival (_clear_post_arrival) leaves it behind.
LEMMA WhenCleared ==
    ASSUME NEW k, ContextTyped(k)
    PROVE  LeftBehind(k, Way(k)!Cleared(Way(k)!Forgotten(ctx)))
<1> DEFINE f == Way(k)!Forgotten(ctx)
<1>1. /\ DOMAIN f = DOMAIN ctx
      /\ f.state = ctx.state /\ f.wp = ctx.wp /\ f.round = ctx.round /\ f.hold = ctx.hold /\ f.reN = 0
  BY DEF ContextTyped, Way!Forgotten
<1>2. DOMAIN f = {"state", "wp", "round", "stage", "at", "effects", "coarse", "hold", "reAt", "reN", "segs"}
  BY <1>1 DEF ContextTyped
<1> HIDE DEF f
<1>3. Way(k)!Cleared(f) = [f EXCEPT !.at = 0, !.stage = NoStage, !.effects = FALSE, !.coarse = FALSE, !.segs = 0]
  BY Zenon DEF Way!Cleared, Way!None, NoStage
<1>4. LeftBehind(k, Way(k)!Cleared(f))
  BY <1>1, <1>2, <1>3 DEF LeftBehind
<1> QED
  BY <1>4 DEF f

\* A context whose arrival is left behind is still one.
LEMMA ClearedTyped ==
    ASSUME NEW k, WayBounds(k), ContextTyped(k), DOMAIN ctx' = DOMAIN ctx,
           ctx'.state \in {"running", "pausing", "paused", "resuming", "completed", "failed"},
           ctx'.wp \in Points(k), ctx'.at = 0 \/ ctx'.at \in Points(k), ctx'.round \in 1 .. k.rounds, ctx'.reN = 0, ctx'.segs = 0,
           ctx'.effects = FALSE
    PROVE  ContextTyped(k)'
<1>1. DOMAIN ctx' = {"state", "wp", "round", "stage", "at", "effects", "coarse", "hold", "reAt", "reN", "segs"}
  BY DEF ContextTyped
<1>2. ctx'.at \in Places(k)
  BY DEF Places, Points, WayBounds
<1>3. ctx'.reN \in 0 .. k.reapproach /\ ctx'.segs \in Nat
  BY DEF WayBounds
<1> QED
  BY <1>1, <1>2, <1>3 DEF ContextTyped

\* Cancelling a goal: its generation is over, and the goal itself unless the
\* acknowledgement fails.
Stopped(k, o) ==
    /\ DOMAIN nav' = DOMAIN nav /\ nav'.gen = nav.gen + 1 /\ nav'.goalGen = nav.goalGen /\ nav'.offset = o
    /\ nav'.live \in BOOLEAN /\ ("cancel" \notin k.faults => ~nav'.live)

\* Cancelling the goal (_cancel_nav) starts a generation, and stops it unless
\* the cancellation fails.
LEMMA CancelStops ==
    ASSUME NEW k, GoalTyped(k), NEW ok \in Way(k)!CancelOutcomes, nav' = Way(k)!Cancelled(ok)
    PROVE  Stopped(k, nav.offset)
<1>1. "cancel" \notin k.faults => ok
  BY DEF Way!CancelOutcomes
<1> QED
  BY <1>1 DEF Stopped, GoalTyped, Way!Cancelled, Way!Invalidated, Way!CancelOutcomes

\* Clearing the departure heading (_clear_departure_heading) leaves none, and a
\* turn in progress takes its generation with it.
LEMMA TurnStops ==
    ASSUME NEW k, GoalTyped(k), NEW ok \in Way(k)!CancelOutcomes, NEW o,
           nav' = [Way(k)!Cancelled(ok) EXCEPT !.offset = o]
    PROVE  Stopped(k, o)
<1>1. "cancel" \notin k.faults => ok
  BY DEF Way!CancelOutcomes
<1> QED
  BY <1>1 DEF Stopped, GoalTyped, Way!Cancelled, Way!Invalidated, Way!CancelOutcomes

\* The heading worker starts, with its timeout.
Turned(k, at, cruise, arrival) ==
    TurnTyped(k)' /\ turn'.at = at /\ turn'.cruise = cruise /\ turn'.arrival = arrival

\* A heading that starts has its worker and its timeout.
LEMMA TurningTurns ==
    ASSUME NEW k, WayBounds(k), NEW at \in Points(k), NEW cruise \in Places(k), NEW arrival \in BOOLEAN,
           turn' = [at |-> at, cruise |-> cruise, arrival |-> arrival, worker |-> TRUE, timer |-> TRUE]
    PROVE  Turned(k, at, cruise, arrival)
  BY DEF WayBounds, Turned, TurnTyped, NoTurn, Points, Places

\* Results of a generation that is over are not looked at.
LEMMA Overtaken ==
    ASSUME ResultsInv, results \in SUBSET [gen : Nat, status : Outcomes], nav.gen \in Nat,
           nav'.gen = nav.gen + 1, ~nav'.live, results' = results
    PROVE  ResultsInv' /\ ~Pending'
<1>1. \A r \in results : r.gen \in Nat /\ r.gen <= nav.gen
  BY DEF ResultsInv
<1>2. \A r \in results' : r.gen < nav'.gen
  BY <1>1
<1> QED
  BY <1>1, <1>2 DEF ResultsInv, Pending

\* A step that leaves the results and their generation leaves what is pending.
LEMMA SameResults ==
    ASSUME ResultsInv, nav'.gen = nav.gen, nav'.goalGen = nav.goalGen, nav'.live = nav.live,
           results' = results
    PROVE  ResultsInv' /\ (Pending' <=> Pending)
  BY DEF ResultsInv, Pending

\* A safe hold (_emit_safe_hold) pauses the task with all motion stopped.
LEMMA SafeHoldKeeps ==
    ASSUME NEW k, WayLimits(k), WayTyped(k), NEW code, Way(k)!SafeHold(code), Working
    PROVE  Kept(k)
<1> USE DEF WayLimits, WayBounds, WayTyped
<1>a. step.op \notin {"idle", "maybe"} /\ UNCHANGED <<mem, pause, nav, results, turn, waits, timers>>
  BY DEF Working, Way!SafeHold
<1>1. CASE TRUE
  <2>1. ContextTyped(k)'
    BY <1>1, <1>a DEF ContextTyped, Operations, Places, Points, StepTyped, Way!Held, Way!Idle, Way!None,
       Way!Return, Way!SafeHold, Way!Terminal
  <2>2. StepTyped(k)'
    BY <1>1, <1>a DEF ContextTyped, Operations, Places, Points, StepTyped, Way!Held, Way!Idle, Way!None,
       Way!Return, Way!SafeHold, Way!Terminal
  <2>3. MemoryTyped(k)' /\ GoalTyped(k)' /\ TurnTyped(k)' /\ WaitsTyped(k)' /\ TimersTyped'
    BY <1>1, <1>a DEF GoalTyped, MemoryTyped, TimersTyped, TurnTyped, WaitsTyped
  <2>4. WayTyped(k)'
    BY <1>1, <1>a, <2>1, <2>2, <2>3 DEF Operations, Places, Points, StepTyped, Way!Held, Way!Idle, Way!None,
       Way!Return, Way!SafeHold, Way!Terminal
  <2>5. MoverLimits(k) /\ Movers => ResultsInv' /\ (Pending' <=> Pending)
    BY <1>1, <1>a, SameResults DEF GoalTyped, InPlace, Leaving, MoverLimits, Movers, OneAtWork, TimersTyped,
       Unmoved, Waited, Working, Way!Held, Way!Idle, Way!None, Way!Return, Way!SafeHold, Way!Terminal
  <2>6. MoverLimits(k) /\ Movers => OneAtWork'
    BY <1>1, <1>a, <2>5 DEF ContextTyped, GoalTyped, InPlace, Leaving, MemoryTyped, MoverLimits, Movers,
       OneAtWork, StepTyped, TimersTyped, TurnTyped, Unmoved, Waited, WaitsTyped, Working, Way!Held,
       Way!Idle, Way!None, Way!Return, Way!SafeHold, Way!Terminal
  <2>7. MoverLimits(k) /\ Movers => InPlace'
    BY <1>1, <1>a, <2>5 DEF ContextTyped, GoalTyped, InPlace, Leaving, MemoryTyped, MoverLimits, Movers,
       OneAtWork, StepTyped, TimersTyped, TurnTyped, Unmoved, Waited, WaitsTyped, Working, Way!Held,
       Way!Idle, Way!None, Way!Return, Way!SafeHold, Way!Terminal
  <2>8. StrandLimits(k) /\ Strand => Strand'
    BY <1>1, <1>a DEF ContextTyped, GoalTyped, MemoryTyped, Pending, Points, StepTyped, Strand, StrandLimits,
       TimersTyped, TurnTyped, UnderWay, WaitsTyped, Way!Held, Way!Idle, Way!None, Way!Return, Way!SafeHold,
       Way!Terminal
  <2> QED
    BY <2>4, <2>5, <2>6, <2>7, <2>8 DEF Kept, Movers
<1> QED
  BY <1>1

\* A task that fails (_fail_task) has no goal, turn, adjustment or dwell left.
LEMMA FailTaskKeeps ==
    ASSUME NEW k, WayLimits(k), WayTyped(k), Way(k)!FailTask, Working
    PROVE  Kept(k)
<1> USE DEF WayLimits, WayBounds, WayTyped
<1>a. step.op \notin {"idle", "maybe"} /\ UNCHANGED <<pause, results>>
  BY DEF Working, Way!FailTask
<1>1. CASE TRUE
  <2>1. ContextTyped(k)'
    BY <1>1, <1>a DEF ContextTyped, NoTurn, Operations, Places, Points, StepTyped, Way!FailTask,
       Way!FreshMemory, Way!Idle, Way!Invalidated, Way!NoTurn, Way!None, Way!Return
  <2>2. MemoryTyped(k)'
    BY <1>1, <1>a DEF ContextTyped, MemoryTyped, NoTurn, Operations, Places, Points, StepTyped, Way!FailTask,
       Way!FreshMemory, Way!Idle, Way!Invalidated, Way!NoTurn, Way!None, Way!Return
  <2>3. GoalTyped(k)'
    BY <1>1, <1>a DEF ContextTyped, GoalTyped, NoTurn, Operations, Places, Points, StepTyped, Way!FailTask,
       Way!FreshMemory, Way!Idle, Way!Invalidated, Way!NoTurn, Way!None, Way!Return
  <2>4. TurnTyped(k)'
    BY <1>1, <1>a DEF ContextTyped, NoTurn, Operations, Places, Points, StepTyped, TurnTyped, Way!FailTask,
       Way!FreshMemory, Way!Idle, Way!Invalidated, Way!NoTurn, Way!None, Way!Return
  <2>5. WaitsTyped(k)'
    BY <1>1, <1>a DEF ContextTyped, NoTurn, Operations, Places, Points, StepTyped, WaitsTyped, Way!FailTask,
       Way!FreshMemory, Way!Idle, Way!Invalidated, Way!NoTurn, Way!None, Way!Return
  <2>6. TimersTyped'
    BY <1>1, <1>a DEF ContextTyped, NoTurn, Operations, Places, Points, StepTyped, TimersTyped, Way!FailTask,
       Way!FreshMemory, Way!Idle, Way!Invalidated, Way!NoTurn, Way!None, Way!Return
  <2>7. StepTyped(k)'
    BY <1>1, <1>a DEF ContextTyped, NoTurn, Operations, Places, Points, StepTyped, Way!FailTask,
       Way!FreshMemory, Way!Idle, Way!Invalidated, Way!NoTurn, Way!None, Way!Return
  <2>8. WayTyped(k)'
    BY <1>1, <1>a, <2>1, <2>2, <2>3, <2>4, <2>5, <2>6, <2>7 DEF NoTurn, Operations, Places, Points,
       StepTyped, Way!FailTask, Way!FreshMemory, Way!Idle, Way!Invalidated, Way!NoTurn, Way!None, Way!Return
  <2>9. MoverLimits(k) /\ Movers => ResultsInv' /\ ~Pending' /\ ~nav'.live
    BY <1>1, <1>a, Overtaken DEF GoalTyped, InPlace, Leaving, MoverLimits, Movers, NoTurn, OneAtWork,
       TimersTyped, Unmoved, Waited, Working, Way!FailTask, Way!FreshMemory, Way!Idle, Way!Invalidated,
       Way!NoTurn, Way!None, Way!Return
  <2>10. MoverLimits(k) /\ Movers => OneAtWork'
    BY <1>1, <1>a, <2>9 DEF ContextTyped, GoalTyped, InPlace, Leaving, MemoryTyped, MoverLimits, Movers,
       NoTurn, OneAtWork, StepTyped, TimersTyped, TurnTyped, Unmoved, Waited, WaitsTyped, Working,
       Way!FailTask, Way!FreshMemory, Way!Idle, Way!Invalidated, Way!NoTurn, Way!None, Way!Return
  <2>11. MoverLimits(k) /\ Movers => InPlace'
    BY <1>1, <1>a, <2>9 DEF ContextTyped, GoalTyped, InPlace, Leaving, MemoryTyped, MoverLimits, Movers,
       NoTurn, OneAtWork, StepTyped, TimersTyped, TurnTyped, Unmoved, Waited, WaitsTyped, Working,
       Way!FailTask, Way!FreshMemory, Way!Idle, Way!Invalidated, Way!NoTurn, Way!None, Way!Return
  <2>12. StrandLimits(k) /\ Strand => Strand'
    BY <1>1, <1>a DEF ContextTyped, GoalTyped, MemoryTyped, NoTurn, Pending, Points, StepTyped, Strand,
       StrandLimits, TimersTyped, TurnTyped, UnderWay, WaitsTyped, Way!FailTask, Way!FreshMemory, Way!Idle,
       Way!Invalidated, Way!NoTurn, Way!None, Way!Return
  <2> QED
    BY <2>8, <2>9, <2>10, <2>11, <2>12 DEF Kept, Movers
<1> QED
  BY <1>1

\* Sending the robot on (_maybe_face_travel_direction, _dispatch_waypoint) turns it or
\* dispatches its goal.
LEMMA SendKeeps ==
    ASSUME NEW k, WayLimits(k), WayTyped(k), Way(k)!SendFrom
    PROVE  Kept(k)
<1> USE DEF WayLimits, WayBounds, WayTyped
<1>a. step.op = "send" /\ step.i \in Points(k) /\ UNCHANGED <<pause, results, adjust, waits, timers>>
       /\ (DOMAIN mem = {"corrected", "headed", "departed", "ready", "reached", "gen", "conv"} =>
               DOMAIN mem' = DOMAIN mem /\ mem'.ready = mem.ready /\ mem'.conv = mem.conv)
  BY DEF Places, Points, StepTyped, Way!At, Way!SendFrom
<1>1. CASE step' = [op |-> "redispatch", i |-> step.i] /\ UNCHANGED <<ctx, nav, turn>>
  <2>1. MemoryTyped(k)'
    BY <1>1, <1>a DEF ContextTyped, MemoryTyped, Operations, Places, Points, StepTyped
  <2>2. StepTyped(k)'
    BY <1>1, <1>a DEF ContextTyped, Operations, Places, Points, StepTyped
  <2>3. ContextTyped(k)' /\ GoalTyped(k)' /\ TurnTyped(k)' /\ WaitsTyped(k)' /\ TimersTyped'
    BY <1>1, <1>a DEF ContextTyped, GoalTyped, TimersTyped, TurnTyped, WaitsTyped
  <2>4. WayTyped(k)'
    BY <1>1, <1>a, <2>1, <2>2, <2>3 DEF Operations, Places, Points, StepTyped
  <2>5. MoverLimits(k) /\ Movers => ResultsInv' /\ (Pending' <=> Pending)
    BY <1>1, <1>a, SameResults
       DEF GoalTyped, InPlace, Leaving, MoverLimits, Movers, OneAtWork, TimersTyped, Unmoved, Waited, Working
  <2>6. MoverLimits(k) /\ Movers => OneAtWork'
    BY <1>1, <1>a, <2>5 DEF ContextTyped, GoalTyped, InPlace, Leaving, MemoryTyped, MoverLimits, Movers,
       OneAtWork, StepTyped, TimersTyped, TurnTyped, Unmoved, Waited, WaitsTyped, Working
  <2>7. MoverLimits(k) /\ Movers => InPlace'
    BY <1>1, <1>a, <2>5 DEF ContextTyped, GoalTyped, InPlace, Leaving, MemoryTyped, MoverLimits, Movers,
       OneAtWork, StepTyped, TimersTyped, TurnTyped, Unmoved, Waited, WaitsTyped, Working
  <2>8. StrandLimits(k) /\ Strand => Strand'
    BY <1>1, <1>a DEF ContextTyped, GoalTyped, MemoryTyped, Pending, Points, StepTyped, Strand, StrandLimits,
       TimersTyped, TurnTyped, UnderWay, WaitsTyped
  <2> QED
    BY <2>4, <2>5, <2>6, <2>7, <2>8 DEF Kept, Movers
<1>2. CASE step.i < Len(k.route) /\ k.route[step.i].pass
  BY <1>2, <1>a DEF NoPassing, Points
<1>3. CASE /\ "turn" \in k.faults
          /\ TurnTyped(k)' /\ turn'.at # 0 /\ turn'.cruise = step.i /\ ~turn'.arrival
          /\ \E at \in Points(k) : Stopped(k, at)
          /\ ctx' = [ctx EXCEPT !.state = IF @ = "resuming" THEN "running" ELSE @]
          /\ step' = Way(k)!Idle
  <2>1. /\ ctx'.state = IF ctx.state = "resuming" THEN "running" ELSE ctx.state
        /\ ctx'.stage = ctx.stage /\ ctx'.at = ctx.at /\ ctx'.wp = ctx.wp /\ ctx'.effects = ctx.effects
        /\ ctx'.hold = ctx.hold /\ step'.op = "idle"
    BY <1>3, <1>a DEF ContextTyped, StepTyped, Stopped, Way!Idle, Way!None
  <2>2. ContextTyped(k)'
    BY <1>3, <1>a, <2>1 DEF ContextTyped, Operations, Places, Points, StepTyped, Stopped, Way!Idle, Way!None
  <2>3. MemoryTyped(k)'
    BY <1>3, <1>a, <2>1
       DEF ContextTyped, MemoryTyped, Operations, Places, Points, StepTyped, Stopped, Way!Idle, Way!None
  <2>4. GoalTyped(k)'
    BY <1>3, <1>a, <2>1
       DEF ContextTyped, GoalTyped, Operations, Places, Points, StepTyped, Stopped, Way!Idle, Way!None
  <2>5. StepTyped(k)'
    BY <1>3, <1>a, <2>1 DEF ContextTyped, Operations, Places, Points, StepTyped, Stopped, Way!Idle, Way!None
  <2>6. WaitsTyped(k)' /\ TimersTyped'
    BY <1>3, <1>a, <2>1 DEF TimersTyped, WaitsTyped
  <2>7. WayTyped(k)'
    BY <1>3, <1>a, <2>1, <2>2, <2>3, <2>4, <2>5, <2>6
       DEF Operations, Places, Points, StepTyped, Stopped, Way!Idle, Way!None
  <2>8. MoverLimits(k) /\ Movers => ResultsInv' /\ ~Pending' /\ ~nav'.live
    BY <1>3, <1>a, <2>1, Overtaken DEF GoalTyped, InPlace, Leaving, MoverLimits, Movers, OneAtWork, Stopped,
       TimersTyped, Unmoved, Waited, Working, Way!Idle, Way!None
  <2>9. MoverLimits(k) /\ Movers => OneAtWork'
    BY <1>3, <1>a, <2>1, <2>8 DEF ContextTyped, GoalTyped, InPlace, Leaving, MemoryTyped, MoverLimits,
       Movers, OneAtWork, StepTyped, Stopped, TimersTyped, TurnTyped, Unmoved, Waited, WaitsTyped, Working,
       Way!Idle, Way!None
  <2>10. MoverLimits(k) /\ Movers => InPlace'
    BY <1>3, <1>a, <2>1, <2>8 DEF ContextTyped, GoalTyped, InPlace, Leaving, MemoryTyped, MoverLimits,
       Movers, OneAtWork, StepTyped, Stopped, TimersTyped, TurnTyped, Unmoved, Waited, WaitsTyped, Working,
       Way!Idle, Way!None
  <2>11. StrandLimits(k) => ~Strand
    BY <1>3, <1>a, <2>1 DEF ContextTyped, GoalTyped, MemoryTyped, Points, StepTyped, Stopped, Strand,
       StrandLimits, TurnTyped, UnderWay, WaitsTyped, Way!Idle, Way!None
  <2> QED
    BY <2>7, <2>8, <2>9, <2>10, <2>11 DEF Kept, Movers
<1>4. CASE step' = [op |-> "dispatch", i |-> step.i] /\ UNCHANGED <<ctx, nav, turn>>
  <2>1. MemoryTyped(k)'
    BY <1>4, <1>a DEF ContextTyped, MemoryTyped, Operations, Places, Points, StepTyped
  <2>2. StepTyped(k)'
    BY <1>4, <1>a DEF ContextTyped, Operations, Places, Points, StepTyped
  <2>3. ContextTyped(k)' /\ GoalTyped(k)' /\ TurnTyped(k)' /\ WaitsTyped(k)' /\ TimersTyped'
    BY <1>4, <1>a DEF ContextTyped, GoalTyped, TimersTyped, TurnTyped, WaitsTyped
  <2>4. WayTyped(k)'
    BY <1>4, <1>a, <2>1, <2>2, <2>3 DEF Operations, Places, Points, StepTyped
  <2>5. MoverLimits(k) /\ Movers => ResultsInv' /\ (Pending' <=> Pending)
    BY <1>4, <1>a, SameResults
       DEF GoalTyped, InPlace, Leaving, MoverLimits, Movers, OneAtWork, TimersTyped, Unmoved, Waited, Working
  <2>6. MoverLimits(k) /\ Movers => OneAtWork'
    BY <1>4, <1>a, <2>5 DEF ContextTyped, GoalTyped, InPlace, Leaving, MemoryTyped, MoverLimits, Movers,
       OneAtWork, StepTyped, TimersTyped, TurnTyped, Unmoved, Waited, WaitsTyped, Working
  <2>7. MoverLimits(k) /\ Movers => InPlace'
    BY <1>4, <1>a, <2>5 DEF ContextTyped, GoalTyped, InPlace, Leaving, MemoryTyped, MoverLimits, Movers,
       OneAtWork, StepTyped, TimersTyped, TurnTyped, Unmoved, Waited, WaitsTyped, Working
  <2>8. StrandLimits(k) /\ Strand => Strand'
    BY <1>4, <1>a DEF ContextTyped, GoalTyped, MemoryTyped, Pending, Points, StepTyped, Strand, StrandLimits,
       TimersTyped, TurnTyped, UnderWay, WaitsTyped
  <2> QED
    BY <2>4, <2>5, <2>6, <2>7, <2>8 DEF Kept, Movers
<1>5. CASE Way(k)!FacesAway(step.i) /\ Way(k)!StartTurn(step.i, IF step.i > 1 THEN step.i - 1 ELSE 1, step.i)
  <2> DEFINE at == IF step.i > 1 THEN step.i - 1 ELSE 1
  <2>1. at \in Points(k)
    BY <1>a DEF Points
  <2>2. PICK ok \in Way(k)!CancelOutcomes : nav' = [Way(k)!Cancelled(ok) EXCEPT !.offset = at]
    BY <1>5 DEF Way!StartTurn
  <2>3. Stopped(k, at)
    BY <2>2, TurnStops
  <2>4. turn' = [at |-> at, cruise |-> step.i, arrival |-> FALSE, worker |-> TRUE, timer |-> TRUE]
    BY <1>5 DEF Way!StartTurn
  <2>5. step.i \in Places(k) /\ step.i # 0 /\ at # 0
    BY <1>a, <2>1 DEF Points, Places
  <2> HIDE DEF at
  <2>6. Turned(k, at, step.i, FALSE)
    BY <2>1, <2>4, <2>5, TurningTurns
  <2> QED
    BY <1>3, <1>5, <2>1, <2>3, <2>5, <2>6 DEF Turned, Way!FacesAway, Way!StartTurn, Way!Return
<1> QED
  BY <1>a, <1>1, <1>2, <1>4, <1>5 DEF Way!SendFrom, Way!Go, Way!N

\* An accepted goal: no result of its generation can be there yet.
LEMMA Sent ==
    ASSUME ResultsInv, results \in SUBSET [gen : Nat, status : Outcomes], nav.gen \in Nat,
           nav'.gen = nav.gen + 1, nav'.goalGen = nav.gen + 1, results' = results
    PROVE  ResultsInv' /\ ~Pending'
<1>1. \A r \in results : r.gen \in Nat /\ r.gen <= nav.gen
  BY DEF ResultsInv
<1>2. \A r \in results' : r.gen < nav'.gen
  BY <1>1
<1> QED
  BY <1>1, <1>2 DEF ResultsInv, Pending

\* A goal that ends leaves one result of its generation.
LEMMA Ended ==
    ASSUME ResultsInv, results \in SUBSET [gen : Nat, status : Outcomes], nav.gen \in Nat,
           nav.goalGen \in Nat,
           nav.live, NEW status \in Outcomes, ~nav'.live, nav'.gen = nav.gen, nav'.goalGen = nav.goalGen,
           results' = results \cup {[gen |-> nav.goalGen, status |-> status]}
    PROVE  ResultsInv' /\ Pending'
<1>1. nav.goalGen = nav.gen /\ ~Pending
  BY DEF ResultsInv
<1>2. \A r \in results' : r \in results \/ (r.gen = nav.gen /\ r = [gen |-> nav.goalGen, status |-> status])
  BY <1>1
<1>3. [gen |-> nav.goalGen, status |-> status] \in results'
  OBVIOUS
<1>4. Pending'
  BY <1>1, <1>3 DEF Pending
<1>5. \A r \in results' : r.gen <= nav'.gen
  BY <1>1, <1>2 DEF ResultsInv
<1>6. \A r \in results' : r.gen = nav'.gen => r = [gen |-> nav.goalGen, status |-> status]
  BY <1>1, <1>2 DEF Pending
<1> QED
  BY <1>4, <1>5, <1>6 DEF ResultsInv

\* The result of a goal is one of a generation.
LEMMA ResultTyped ==
    ASSUME results \in SUBSET [gen : Nat, status : Outcomes], nav.goalGen \in Nat, NEW status \in Outcomes,
           results' = results \cup {[gen |-> nav.goalGen, status |-> status]}
    PROVE  results' \in SUBSET [gen : Nat, status : Outcomes]
<1>1. [gen |-> nav.goalGen, status |-> status] \in [gen : Nat, status : Outcomes]
  OBVIOUS
<1> QED
  BY <1>1

\* A dispatched goal takes a new generation, with nothing else in motion.
LEMMA DispatchKeeps ==
    ASSUME NEW k, WayLimits(k), WayTyped(k), Way(k)!Dispatch
    PROVE  Kept(k)
<1> USE DEF WayLimits, WayBounds, WayTyped
<1>a. step.op \in {"dispatch", "redispatch"} /\ step.i \in Points(k)
       /\ UNCHANGED <<mem, pause, results, turn, adjust, waits>>
  BY DEF Places, Points, StepTyped, Way!Accept, Way!Dispatch, Way!Reject
<1>1. CASE /\ nav' = [gen |-> nav.gen + 1, goalGen |-> nav.gen + 1, live |-> TRUE, offset |-> step.i]
          /\ ctx' = [ctx EXCEPT !.wp = step.i, !.state = "running"]
          /\ timers' = [timers EXCEPT !.retry = "none"] /\ step' = Way(k)!Idle
  <2>1. /\ ctx'.state = "running" /\ ctx'.stage = ctx.stage /\ ctx'.at = ctx.at /\ ctx'.wp = step.i
        /\ ctx'.effects = ctx.effects /\ ctx'.hold = ctx.hold /\ step'.op = "idle" /\ nav'.live /\ nav'.offset = step.i
        /\ nav'.gen = nav.gen + 1 /\ nav'.goalGen = nav.gen + 1
        /\ timers'.retry = "none" /\ timers'.blocked = timers.blocked
    BY <1>1, <1>a DEF ContextTyped, StepTyped, Way!Idle, Way!None
  <2>2. ContextTyped(k)'
    BY <1>1, <1>a, <2>1 DEF ContextTyped, Operations, Places, Points, StepTyped, Way!Idle, Way!None
  <2>3. GoalTyped(k)'
    BY <1>1, <1>a, <2>1 DEF ContextTyped, GoalTyped, Operations, Places, Points, StepTyped, Way!Idle, Way!None
  <2>4. TimersTyped'
    BY <1>1, <1>a, <2>1
       DEF ContextTyped, Operations, Places, Points, StepTyped, TimersTyped, Way!Idle, Way!None
  <2>5. StepTyped(k)'
    BY <1>1, <1>a, <2>1 DEF ContextTyped, Operations, Places, Points, StepTyped, Way!Idle, Way!None
  <2>6. MemoryTyped(k)' /\ TurnTyped(k)' /\ WaitsTyped(k)'
    BY <1>1, <1>a, <2>1 DEF MemoryTyped, TurnTyped, WaitsTyped
  <2>7. WayTyped(k)'
    BY <1>1, <1>a, <2>1, <2>2, <2>3, <2>4, <2>5, <2>6
       DEF Operations, Places, Points, StepTyped, Way!Idle, Way!None
  <2>8. MoverLimits(k) /\ Movers => ResultsInv' /\ ~Pending'
    BY <1>a, <2>1, Sent DEF GoalTyped, InPlace, Leaving, MoverLimits, Movers, OneAtWork, TimersTyped,
       Unmoved, Waited, Working, Way!Idle, Way!None
  <2>9. MoverLimits(k) /\ Movers => OneAtWork'
    BY <1>a, <2>1, <2>8 DEF ContextTyped, GoalTyped, InPlace, Leaving, MemoryTyped, MoverLimits, Movers,
       OneAtWork, StepTyped, TimersTyped, TurnTyped, Unmoved, Waited, WaitsTyped, Working, Way!Idle, Way!None
  <2>10. MoverLimits(k) /\ Movers => InPlace'
    BY <1>a, <2>1, <2>8 DEF ContextTyped, GoalTyped, InPlace, Leaving, MemoryTyped, MoverLimits, Movers,
       OneAtWork, StepTyped, TimersTyped, TurnTyped, Unmoved, Waited, WaitsTyped, Working, Way!Idle, Way!None
  <2>11. StrandLimits(k) /\ Strand => Strand'
    BY <1>a, <2>1 DEF ContextTyped, GoalTyped, MemoryTyped, Pending, Points, StepTyped, Strand, StrandLimits,
       TimersTyped, TurnTyped, UnderWay, WaitsTyped, Way!Idle, Way!None
  <2> QED
    BY <2>7, <2>8, <2>9, <2>10, <2>11 DEF Kept, Movers
<1>2. CASE /\ "reject" \in k.faults
          /\ nav' = [nav EXCEPT !.gen = @ + 1, !.offset = step.i]
          /\ ctx' = [ctx EXCEPT !.wp = step.i, !.state = IF @ \in {"paused", "pausing"} THEN @ ELSE "running"]
          /\ timers' = [timers EXCEPT !.retry = "armed"] /\ step' = Way(k)!Idle
  <2>1. ContextTyped(k)'
    BY <1>2, <1>a DEF ContextTyped, Operations, Places, Points, StepTyped, Way!Idle, Way!None
  <2>2. GoalTyped(k)'
    BY <1>2, <1>a DEF ContextTyped, GoalTyped, Operations, Places, Points, StepTyped, Way!Idle, Way!None
  <2>3. TimersTyped'
    BY <1>2, <1>a DEF ContextTyped, Operations, Places, Points, StepTyped, TimersTyped, Way!Idle, Way!None
  <2>4. StepTyped(k)'
    BY <1>2, <1>a DEF ContextTyped, Operations, Places, Points, StepTyped, Way!Idle, Way!None
  <2>5. MemoryTyped(k)' /\ TurnTyped(k)' /\ WaitsTyped(k)'
    BY <1>2, <1>a DEF MemoryTyped, TurnTyped, WaitsTyped
  <2>6. WayTyped(k)'
    BY <1>2, <1>a, <2>1, <2>2, <2>3, <2>4, <2>5 DEF Operations, Places, Points, StepTyped, Way!Idle, Way!None
  <2>7. MoverLimits(k) => ~Movers
    BY <1>2, <1>a DEF ContextTyped, GoalTyped, InPlace, Leaving, MemoryTyped, MoverLimits, Movers, OneAtWork,
       StepTyped, TimersTyped, TurnTyped, Unmoved, Waited, WaitsTyped, Working, Way!Idle, Way!None
  <2>8. StrandLimits(k) /\ Strand => Strand'
    BY <1>2, <1>a DEF ContextTyped, GoalTyped, MemoryTyped, Pending, Points, StepTyped, Strand, StrandLimits,
       TimersTyped, TurnTyped, UnderWay, WaitsTyped, Way!Idle, Way!None
  <2> QED
    BY <2>6, <2>7, <2>8 DEF Kept, Movers
<1> QED
  BY <1>a, <1>1, <1>2
     DEF ContextTyped, StepTyped, Way!Accept, Way!Dispatch, Way!Invalidated, Way!Reject, Way!Return

\* A dispatch that fails arms the retry, or holds the task.
LEMMA DispatchFailsKeeps ==
    ASSUME NEW k, WayLimits(k), WayTyped(k), Way(k)!DispatchFails
    PROVE  Kept(k)
  BY FailTaskKeeps DEF Way!DispatchFails, Working

\* The timer of the dispatch retry fires.
LEMMA RetryFiresKeeps ==
    ASSUME NEW k, WayLimits(k), WayTyped(k), Way(k)!RetryFires
    PROVE  Kept(k)
<1> USE DEF WayLimits, WayBounds, WayTyped
<1>a. timers.retry = "armed" /\ UNCHANGED <<ctx, mem, pause, nav, results, turn, adjust, waits, step>>
  BY DEF Places, Points, StepTyped, Way!RetryFires
<1>1. CASE timers' = [timers EXCEPT !.retry = "fired"]
  <2>1. TimersTyped'
    BY <1>1, <1>a DEF ContextTyped, Operations, Places, Points, StepTyped, TimersTyped
  <2>2. ContextTyped(k)' /\ MemoryTyped(k)' /\ GoalTyped(k)' /\ TurnTyped(k)' /\ WaitsTyped(k)' /\ StepTyped(k)'
    BY <1>1, <1>a DEF ContextTyped, GoalTyped, MemoryTyped, StepTyped, TurnTyped, WaitsTyped
  <2>3. WayTyped(k)'
    BY <1>1, <1>a, <2>1, <2>2 DEF Operations, Places, Points, StepTyped
  <2>4. MoverLimits(k) => ~Movers
    BY <1>1, <1>a DEF ContextTyped, GoalTyped, InPlace, Leaving, MemoryTyped, MoverLimits, Movers, OneAtWork,
       StepTyped, TimersTyped, TurnTyped, Unmoved, Waited, WaitsTyped, Working
  <2>5. StrandLimits(k) /\ Strand => Strand'
    BY <1>1, <1>a DEF ContextTyped, GoalTyped, MemoryTyped, Pending, Points, StepTyped, Strand, StrandLimits,
       TimersTyped, TurnTyped, UnderWay, WaitsTyped
  <2> QED
    BY <2>3, <2>4, <2>5 DEF Kept, Movers
<1> QED
  BY <1>a, <1>1 DEF ContextTyped, StepTyped, Way!RetryFires

\* The retry of a dispatch that failed sends the waypoint again.
LEMMA RetryRunsKeeps ==
    ASSUME NEW k, WayLimits(k), WayTyped(k), Way(k)!RetryRuns
    PROVE  Kept(k)
<1> USE DEF WayLimits, WayBounds, WayTyped
<1>a. step.op = "idle" /\ timers.retry = "fired" /\ UNCHANGED <<ctx, mem, pause, nav, results, turn, adjust, waits>>
  BY DEF Places, Points, StepTyped, Way!Idle, Way!RetryRuns
<1>1. CASE /\ ctx.state \notin {"running", "resuming"} /\ step' = Way(k)!Idle
          /\ timers' = [timers EXCEPT !.retry = IF ctx.state \notin Way(k)!Terminal /\ Way(k)!RetryHolds THEN "armed" ELSE "none"]
  <2>1. TimersTyped'
    BY <1>1, <1>a DEF ContextTyped, Operations, Places, Points, StepTyped, TimersTyped, Way!Idle, Way!None
  <2>2. StepTyped(k)'
    BY <1>1, <1>a DEF ContextTyped, Operations, Places, Points, StepTyped, Way!Idle, Way!None
  <2>3. ContextTyped(k)' /\ MemoryTyped(k)' /\ GoalTyped(k)' /\ TurnTyped(k)' /\ WaitsTyped(k)'
    BY <1>1, <1>a DEF ContextTyped, GoalTyped, MemoryTyped, TurnTyped, WaitsTyped
  <2>4. WayTyped(k)'
    BY <1>1, <1>a, <2>1, <2>2, <2>3 DEF Operations, Places, Points, StepTyped, Way!Idle, Way!None
  <2>5. MoverLimits(k) => ~Movers
    BY <1>1, <1>a DEF ContextTyped, GoalTyped, InPlace, Leaving, MemoryTyped, MoverLimits, Movers, OneAtWork,
       StepTyped, TimersTyped, TurnTyped, Unmoved, Waited, WaitsTyped, Working, Way!Idle, Way!None
  <2>6. StrandLimits(k) /\ Strand => Strand'
    BY <1>1, <1>a DEF ContextTyped, GoalTyped, MemoryTyped, Pending, Points, StepTyped, Strand, StrandLimits,
       TimersTyped, TurnTyped, UnderWay, WaitsTyped, Way!Idle, Way!None
  <2> QED
    BY <2>4, <2>5, <2>6 DEF Kept, Movers
<1>2. CASE /\ step' = [op |-> "send", i |-> ctx.wp] /\ timers' = [timers EXCEPT !.retry = "none"]
  <2>1. TimersTyped'
    BY <1>2, <1>a DEF ContextTyped, Operations, Places, Points, StepTyped, TimersTyped
  <2>2. StepTyped(k)'
    BY <1>2, <1>a DEF ContextTyped, Operations, Places, Points, StepTyped
  <2>3. ContextTyped(k)' /\ MemoryTyped(k)' /\ GoalTyped(k)' /\ TurnTyped(k)' /\ WaitsTyped(k)'
    BY <1>2, <1>a DEF ContextTyped, GoalTyped, MemoryTyped, TurnTyped, WaitsTyped
  <2>4. WayTyped(k)'
    BY <1>2, <1>a, <2>1, <2>2, <2>3 DEF Operations, Places, Points, StepTyped
  <2>5. MoverLimits(k) => ~Movers
    BY <1>2, <1>a DEF ContextTyped, GoalTyped, InPlace, Leaving, MemoryTyped, MoverLimits, Movers, OneAtWork,
       StepTyped, TimersTyped, TurnTyped, Unmoved, Waited, WaitsTyped, Working
  <2>6. StrandLimits(k) /\ Strand => Strand'
    BY <1>2, <1>a DEF ContextTyped, GoalTyped, MemoryTyped, Pending, Points, StepTyped, Strand, StrandLimits,
       TimersTyped, TurnTyped, UnderWay, WaitsTyped
  <2> QED
    BY <2>4, <2>5, <2>6 DEF Kept, Movers
<1> QED
  BY <1>a, <1>1, <1>2
     DEF ContextTyped, StepTyped, Way!Go, Way!RetryHolds, Way!RetryRuns, Way!Return, Way!Terminal

\* On a route of stops the cruise watch takes no waypoint as passed.
LEMMA NothingPassed ==
    ASSUME NEW k, WayLimits(k), WayTyped(k)
    PROVE  ~Way(k)!CruisePasses /\ ~Way(k)!CruiseContinues
  BY DEF WayLimits, NoPassing, WayTyped, ContextTyped, TimersTyped, Points, Way!CruisePasses,
     Way!CruiseContinues, Way!None

\* A switch of the localization source cancels the goal and sends it again.
LEMMA SourceSwitchKeeps ==
    ASSUME NEW k, WayLimits(k), WayTyped(k), Way(k)!SourceSwitch
    PROVE  Kept(k)
<1> USE DEF WayLimits, WayBounds, WayTyped
<1>a. step.op = "idle" /\ nav.live /\ ctx.state = "running" /\ pause = "no" /\ adjust = 0
       /\ turn = Way(k)!NoTurn /\ turn.at = 0 /\ UNCHANGED <<ctx, mem, pause, results, turn, adjust, waits, timers>>
  BY DEF NoTurn, Places, Points, StepTyped, Way!CruiseWatchRuns, Way!Idle, Way!NoTurn, Way!None,
     Way!SourceSwitch
<1>1. CASE Stopped(k, nav.offset) /\ step' = [op |-> "dispatch", i |-> ctx.wp]
  <2>1. GoalTyped(k)'
    BY <1>1, <1>a DEF ContextTyped, GoalTyped, Operations, Places, Points, StepTyped, Stopped
  <2>2. StepTyped(k)'
    BY <1>1, <1>a DEF ContextTyped, Operations, Places, Points, StepTyped, Stopped
  <2>3. ContextTyped(k)' /\ MemoryTyped(k)' /\ TurnTyped(k)' /\ WaitsTyped(k)' /\ TimersTyped'
    BY <1>1, <1>a DEF ContextTyped, MemoryTyped, TimersTyped, TurnTyped, WaitsTyped
  <2>4. WayTyped(k)'
    BY <1>1, <1>a, <2>1, <2>2, <2>3 DEF Operations, Places, Points, StepTyped, Stopped
  <2>5. MoverLimits(k) /\ Movers => ResultsInv' /\ ~Pending' /\ ~nav'.live
    BY <1>1, <1>a, Overtaken DEF GoalTyped, InPlace, Leaving, MoverLimits, Movers, OneAtWork, Stopped,
       TimersTyped, Unmoved, Waited, Working
  <2>6. MoverLimits(k) /\ Movers => OneAtWork'
    BY <1>1, <1>a, <2>5 DEF ContextTyped, GoalTyped, InPlace, Leaving, MemoryTyped, MoverLimits, Movers,
       OneAtWork, StepTyped, Stopped, TimersTyped, TurnTyped, Unmoved, Waited, WaitsTyped, Working
  <2>7. MoverLimits(k) /\ Movers => InPlace'
    BY <1>1, <1>a, <2>5 DEF ContextTyped, GoalTyped, InPlace, Leaving, MemoryTyped, MoverLimits, Movers,
       OneAtWork, StepTyped, Stopped, TimersTyped, TurnTyped, Unmoved, Waited, WaitsTyped, Working
  <2>8. StrandLimits(k) /\ Strand => Strand'
    BY <1>1, <1>a DEF ContextTyped, GoalTyped, MemoryTyped, Pending, Points, StepTyped, Stopped, Strand,
       StrandLimits, TimersTyped, TurnTyped, UnderWay, WaitsTyped
  <2> QED
    BY <2>4, <2>5, <2>6, <2>7, <2>8 DEF Kept, Movers
<1> QED
  BY <1>a, <1>1, CancelStops DEF ContextTyped, StepTyped, Way!Go, Way!SourceSwitch

\* Nav2 ends a goal: its one result is on its way.
LEMMA NavEndsKeeps ==
    ASSUME NEW k, WayLimits(k), WayTyped(k), NEW status \in Outcomes, Way(k)!NavEnds(status)
    PROVE  Kept(k)
<1> USE DEF WayLimits, WayBounds, WayTyped
<1>a. nav.live /\ UNCHANGED <<ctx, mem, pause, turn, adjust, waits, timers, step>>
  BY DEF Way!NavEnds
<1>1. /\ GoalTyped(k)'
      /\ ~nav'.live /\ nav'.gen = nav.gen /\ nav'.goalGen = nav.goalGen /\ nav'.offset = nav.offset
  BY DEF Way!NavEnds, GoalTyped, Points
<1>2. results' = results \cup {[gen |-> nav.goalGen, status |-> status]}
  BY DEF Way!NavEnds
<1>3. nav.gen \in Nat /\ nav.goalGen \in Nat
  BY DEF GoalTyped
<1>4. WayTyped(k)'
  <2>1. results' \in SUBSET [gen : Nat, status : Outcomes]
    BY <1>2, <1>3, ResultTyped
  <2> QED
    BY <1>a, <1>1, <2>1 DEF ContextTyped, MemoryTyped, TurnTyped, WaitsTyped, TimersTyped, StepTyped
<1>5. Movers => ResultsInv' /\ Pending'
  BY <1>a, <1>1, <1>2, <1>3, Ended DEF Movers
<1>6. Movers => OneAtWork'
  BY <1>a, <1>1, <1>5 DEF Movers, OneAtWork, InPlace, Unmoved, Working, Waited
<1>7. Movers => InPlace'
  BY <1>a DEF Movers, InPlace, Working, Waited, Leaving
<1>8. UnderWay => UnderWay'
  <2>1. nav.goalGen = nav.gen => Pending'
    <3>1. [gen |-> nav.goalGen, status |-> status] \in results'
      BY <1>2
    <3> QED
      BY <1>1, <3>1 DEF Pending
  <2>2. Pending => Pending'
    BY <1>1, <1>2 DEF Pending
  <2> QED
    BY <1>a, <2>1, <2>2 DEF UnderWay
<1>9. Strand => Strand'
  BY <1>a, <1>8 DEF Strand
<1> QED
  BY <1>4, <1>5, <1>6, <1>7, <1>9 DEF Kept, Movers

\* A result taken: what is left, and which of it counts.
LEMMA Taken ==
    ASSUME NEW r \in results, results' = results \ {r}, nav' = nav
    PROVE  /\ Pending' => Pending
           /\ r.gen = nav.gen => Pending
           /\ r.gen # nav.gen => (Pending' <=> Pending)
           /\ ResultsInv => ResultsInv' /\ (r.gen = nav.gen => ~Pending' /\ ~nav'.live)
<1>1. Pending' => Pending
  BY DEF Pending
<1>2. r.gen = nav.gen => Pending
  BY DEF Pending
<1>3. r.gen # nav.gen => (Pending' <=> Pending)
  BY DEF Pending
<1>4. ResultsInv => ResultsInv' /\ (r.gen = nav.gen => ~Pending' /\ ~nav'.live)
  BY DEF ResultsInv, Pending
<1> QED
  BY <1>1, <1>2, <1>3, <1>4

\* A result (on_navigation_result) of an earlier generation is dropped, one of
\* this generation has the executor continue.
LEMMA ResultKeeps ==
    ASSUME NEW k, WayLimits(k), WayTyped(k), Way(k)!Result
    PROVE  Kept(k)
<1> USE DEF WayLimits, WayBounds, WayTyped
<1>a. step.op = "idle" /\ UNCHANGED <<ctx, mem, pause, nav, turn, adjust, waits>>
  BY DEF Places, Points, StepTyped, Way!Idle, Way!Result
<1>b. PICK r \in results :
          /\ results' = results \ {r}
          /\ IF r.gen = nav.gen /\ Way(k)!Moving THEN Way(k)!OnResult(r) ELSE Way(k)!Return /\ UNCHANGED timers
  BY DEF Way!Result, Way!Current
<1>c. /\ results' \in SUBSET [gen : Nat, status : Outcomes]
      /\ Pending' => Pending
      /\ r.gen = nav.gen => Pending
      /\ r.gen # nav.gen => (Pending' <=> Pending)
      /\ ResultsInv => ResultsInv' /\ (r.gen = nav.gen => ~Pending' /\ ~nav'.live)
  BY <1>a, <1>b, Taken
<1>1. CASE ~(r.gen = nav.gen /\ ctx.state \in {"running", "resuming"}) /\ step' = Way(k)!Idle /\ timers' = timers
  <2>1. StepTyped(k)'
    BY <1>1, <1>a DEF ContextTyped, Operations, Places, Points, StepTyped, Way!Idle, Way!None
  <2>2. ContextTyped(k)' /\ MemoryTyped(k)' /\ GoalTyped(k)' /\ TurnTyped(k)' /\ WaitsTyped(k)' /\ TimersTyped'
    BY <1>1, <1>a, <1>c DEF ContextTyped, GoalTyped, MemoryTyped, TimersTyped, TurnTyped, WaitsTyped
  <2>3. WayTyped(k)'
    BY <1>1, <1>a, <1>c, <2>1, <2>2 DEF Operations, Places, Points, StepTyped, Way!Idle, Way!None
  <2>4. MoverLimits(k) /\ Movers => ResultsInv' /\ (Pending' => Pending)
    BY <1>1, <1>a, <1>c, <1>c DEF GoalTyped, InPlace, Leaving, MoverLimits, Movers, OneAtWork, TimersTyped,
       Unmoved, Waited, Working, Way!Idle, Way!None
  <2>5. MoverLimits(k) /\ Movers => OneAtWork'
    BY <1>1, <1>a, <1>c, <2>4 DEF ContextTyped, GoalTyped, InPlace, Leaving, MemoryTyped, MoverLimits,
       Movers, OneAtWork, StepTyped, TimersTyped, TurnTyped, Unmoved, Waited, WaitsTyped, Working, Way!Idle,
       Way!None
  <2>6. MoverLimits(k) /\ Movers => InPlace'
    BY <1>1, <1>a, <1>c, <2>4 DEF ContextTyped, GoalTyped, InPlace, Leaving, MemoryTyped, MoverLimits,
       Movers, OneAtWork, StepTyped, TimersTyped, TurnTyped, Unmoved, Waited, WaitsTyped, Working, Way!Idle,
       Way!None
  <2>7. StrandLimits(k) /\ Strand => Strand'
    BY <1>1, <1>a, <1>c DEF ContextTyped, GoalTyped, MemoryTyped, Points, StepTyped, Strand, StrandLimits,
       TimersTyped, TurnTyped, UnderWay, WaitsTyped, Way!Idle, Way!None
  <2> QED
    BY <2>3, <2>4, <2>5, <2>6, <2>7 DEF Kept, Movers
<1>2. CASE /\ r.gen = nav.gen /\ ctx.state \in {"running", "resuming"} /\ timers' = timers
          /\ step' = [op |-> "result", i |-> nav.offset]
  <2>1. /\ step'.op = "result" /\ step'.i = nav.offset /\ step'.i \in Points(k)
        /\ r.gen = nav.gen /\ timers' = timers /\ ctx.state \in {"running", "resuming"}
    BY <1>2, <1>a, <1>c DEF ContextTyped, GoalTyped, Points, StepTyped
  <2>2. StepTyped(k)'
    BY <1>2, <1>a, <2>1 DEF ContextTyped, Operations, Places, Points, StepTyped
  <2>3. ContextTyped(k)' /\ MemoryTyped(k)' /\ GoalTyped(k)' /\ TurnTyped(k)' /\ WaitsTyped(k)' /\ TimersTyped'
    BY <1>2, <1>a, <1>c, <2>1 DEF ContextTyped, GoalTyped, MemoryTyped, TimersTyped, TurnTyped, WaitsTyped
  <2>4. WayTyped(k)'
    BY <1>2, <1>a, <1>c, <2>1, <2>2, <2>3 DEF Operations, Places, Points, StepTyped
  <2>5. MoverLimits(k) /\ Movers => Pending /\ ResultsInv' /\ ~Pending' /\ ~nav'.live
    BY <1>a, <2>1, <1>c
       DEF GoalTyped, InPlace, Leaving, MoverLimits, Movers, OneAtWork, TimersTyped, Unmoved, Waited, Working
  <2>6. MoverLimits(k) /\ Movers => OneAtWork'
    BY <1>a, <2>1, <2>5 DEF ContextTyped, GoalTyped, InPlace, Leaving, MemoryTyped, MoverLimits, Movers,
       OneAtWork, StepTyped, TimersTyped, TurnTyped, Unmoved, Waited, WaitsTyped, Working
  <2>7. MoverLimits(k) /\ Movers => InPlace'
    BY <1>a, <2>1, <2>5 DEF ContextTyped, GoalTyped, InPlace, Leaving, MemoryTyped, MoverLimits, Movers,
       OneAtWork, StepTyped, TimersTyped, TurnTyped, Unmoved, Waited, WaitsTyped, Working
  <2>8. StrandLimits(k) /\ Strand => Strand'
    BY <1>a, <2>1 DEF ContextTyped, GoalTyped, MemoryTyped, Points, StepTyped, Strand, StrandLimits,
       TimersTyped, TurnTyped, UnderWay, WaitsTyped
  <2> QED
    BY <2>4, <2>5, <2>6, <2>7, <2>8 DEF Kept, Movers
<1>3. CASE /\ r.gen = nav.gen /\ ctx.state \in {"running", "resuming"} /\ timers' = timers
          /\ step' = [op |-> "missed", i |-> nav.offset]
  <2>1. /\ step'.op = "missed" /\ step'.i = nav.offset /\ step'.i \in Points(k)
        /\ r.gen = nav.gen /\ timers' = timers /\ ctx.state \in {"running", "resuming"}
    BY <1>3, <1>a, <1>c DEF ContextTyped, GoalTyped, Points, StepTyped
  <2>2. StepTyped(k)'
    BY <1>3, <1>a, <2>1 DEF ContextTyped, Operations, Places, Points, StepTyped
  <2>3. ContextTyped(k)' /\ MemoryTyped(k)' /\ GoalTyped(k)' /\ TurnTyped(k)' /\ WaitsTyped(k)' /\ TimersTyped'
    BY <1>3, <1>a, <1>c, <2>1 DEF ContextTyped, GoalTyped, MemoryTyped, TimersTyped, TurnTyped, WaitsTyped
  <2>4. WayTyped(k)'
    BY <1>3, <1>a, <1>c, <2>1, <2>2, <2>3 DEF Operations, Places, Points, StepTyped
  <2>5. MoverLimits(k) /\ Movers => Pending /\ ResultsInv' /\ ~Pending' /\ ~nav'.live
    BY <1>a, <2>1, <1>c
       DEF GoalTyped, InPlace, Leaving, MoverLimits, Movers, OneAtWork, TimersTyped, Unmoved, Waited, Working
  <2>6. MoverLimits(k) /\ Movers => OneAtWork'
    BY <1>a, <2>1, <2>5 DEF ContextTyped, GoalTyped, InPlace, Leaving, MemoryTyped, MoverLimits, Movers,
       OneAtWork, StepTyped, TimersTyped, TurnTyped, Unmoved, Waited, WaitsTyped, Working
  <2>7. MoverLimits(k) /\ Movers => InPlace'
    BY <1>a, <2>1, <2>5 DEF ContextTyped, GoalTyped, InPlace, Leaving, MemoryTyped, MoverLimits, Movers,
       OneAtWork, StepTyped, TimersTyped, TurnTyped, Unmoved, Waited, WaitsTyped, Working
  <2>8. StrandLimits(k) /\ Strand => Strand'
    BY <1>a, <2>1 DEF ContextTyped, GoalTyped, MemoryTyped, Points, StepTyped, Strand, StrandLimits,
       TimersTyped, TurnTyped, UnderWay, WaitsTyped
  <2> QED
    BY <2>4, <2>5, <2>6, <2>7, <2>8 DEF Kept, Movers
<1>4. CASE /\ r.gen = nav.gen /\ ctx.state \in {"running", "resuming"} /\ timers' = timers /\ ctx.stage # NoStage /\ ctx.at = ctx.wp
          /\ step' = [op |-> "resume_post", i |-> ctx.wp]
  <2>1. /\ step'.op = "resume_post" /\ step'.i = ctx.wp /\ step'.i \in Points(k)
        /\ r.gen = nav.gen /\ timers' = timers /\ ctx.state \in {"running", "resuming"} /\ ctx.stage # NoStage
    BY <1>4, <1>a, <1>c DEF ContextTyped, GoalTyped, Points, StepTyped
  <2>2. StepTyped(k)'
    BY <1>4, <1>a, <2>1 DEF ContextTyped, Operations, Places, Points, StepTyped
  <2>3. ContextTyped(k)' /\ MemoryTyped(k)' /\ GoalTyped(k)' /\ TurnTyped(k)' /\ WaitsTyped(k)' /\ TimersTyped'
    BY <1>4, <1>a, <1>c, <2>1 DEF ContextTyped, GoalTyped, MemoryTyped, TimersTyped, TurnTyped, WaitsTyped
  <2>4. WayTyped(k)'
    BY <1>4, <1>a, <1>c, <2>1, <2>2, <2>3 DEF Operations, Places, Points, StepTyped
  <2>5. MoverLimits(k) /\ Movers => Pending /\ ResultsInv' /\ ~Pending' /\ ~nav'.live
    BY <1>a, <2>1, <1>c
       DEF GoalTyped, InPlace, Leaving, MoverLimits, Movers, OneAtWork, TimersTyped, Unmoved, Waited, Working
  <2>6. MoverLimits(k) /\ Movers => OneAtWork'
    BY <1>a, <2>1, <2>5 DEF ContextTyped, GoalTyped, InPlace, Leaving, MemoryTyped, MoverLimits, Movers,
       OneAtWork, StepTyped, TimersTyped, TurnTyped, Unmoved, Waited, WaitsTyped, Working
  <2>7. MoverLimits(k) /\ Movers => InPlace'
    BY <1>a, <2>1, <2>5 DEF ContextTyped, GoalTyped, InPlace, Leaving, MemoryTyped, MoverLimits, Movers,
       OneAtWork, StepTyped, TimersTyped, TurnTyped, Unmoved, Waited, WaitsTyped, Working
  <2>8. StrandLimits(k) /\ Strand => Strand'
    BY <1>a, <2>1 DEF ContextTyped, GoalTyped, MemoryTyped, Points, StepTyped, Strand, StrandLimits,
       TimersTyped, TurnTyped, UnderWay, WaitsTyped
  <2> QED
    BY <2>4, <2>5, <2>6, <2>7, <2>8 DEF Kept, Movers
<1>5. CASE /\ r.gen = nav.gen /\ ctx.state \in {"running", "resuming"} /\ timers' = timers
          /\ step' = [op |-> "send", i |-> ctx.wp]
  <2>1. /\ step'.op = "send" /\ step'.i = ctx.wp /\ step'.i \in Points(k)
        /\ r.gen = nav.gen /\ timers' = timers /\ ctx.state \in {"running", "resuming"}
    BY <1>5, <1>a, <1>c DEF ContextTyped, GoalTyped, Points, StepTyped
  <2>2. StepTyped(k)'
    BY <1>5, <1>a, <2>1 DEF ContextTyped, Operations, Places, Points, StepTyped
  <2>3. ContextTyped(k)' /\ MemoryTyped(k)' /\ GoalTyped(k)' /\ TurnTyped(k)' /\ WaitsTyped(k)' /\ TimersTyped'
    BY <1>5, <1>a, <1>c, <2>1 DEF ContextTyped, GoalTyped, MemoryTyped, TimersTyped, TurnTyped, WaitsTyped
  <2>4. WayTyped(k)'
    BY <1>5, <1>a, <1>c, <2>1, <2>2, <2>3 DEF Operations, Places, Points, StepTyped
  <2>5. MoverLimits(k) /\ Movers => Pending /\ ResultsInv' /\ ~Pending' /\ ~nav'.live
    BY <1>a, <2>1, <1>c
       DEF GoalTyped, InPlace, Leaving, MoverLimits, Movers, OneAtWork, TimersTyped, Unmoved, Waited, Working
  <2>6. MoverLimits(k) /\ Movers => OneAtWork'
    BY <1>a, <2>1, <2>5 DEF ContextTyped, GoalTyped, InPlace, Leaving, MemoryTyped, MoverLimits, Movers,
       OneAtWork, StepTyped, TimersTyped, TurnTyped, Unmoved, Waited, WaitsTyped, Working
  <2>7. MoverLimits(k) /\ Movers => InPlace'
    BY <1>a, <2>1, <2>5 DEF ContextTyped, GoalTyped, InPlace, Leaving, MemoryTyped, MoverLimits, Movers,
       OneAtWork, StepTyped, TimersTyped, TurnTyped, Unmoved, Waited, WaitsTyped, Working
  <2>8. StrandLimits(k) /\ Strand => Strand'
    BY <1>a, <2>1 DEF ContextTyped, GoalTyped, MemoryTyped, Points, StepTyped, Strand, StrandLimits,
       TimersTyped, TurnTyped, UnderWay, WaitsTyped
  <2> QED
    BY <2>4, <2>5, <2>6, <2>7, <2>8 DEF Kept, Movers
<1>6. CASE /\ r.gen = nav.gen /\ ctx.state \in {"running", "resuming"} /\ timers' = timers
          /\ step' = [op |-> "exhausted", i |-> ctx.wp]
  <2>1. /\ step'.op = "exhausted" /\ step'.i = ctx.wp /\ step'.i \in Points(k)
        /\ r.gen = nav.gen /\ timers' = timers /\ ctx.state \in {"running", "resuming"}
    BY <1>6, <1>a, <1>c DEF ContextTyped, GoalTyped, Points, StepTyped
  <2>2. StepTyped(k)'
    BY <1>6, <1>a, <2>1 DEF ContextTyped, Operations, Places, Points, StepTyped
  <2>3. ContextTyped(k)' /\ MemoryTyped(k)' /\ GoalTyped(k)' /\ TurnTyped(k)' /\ WaitsTyped(k)' /\ TimersTyped'
    BY <1>6, <1>a, <1>c, <2>1 DEF ContextTyped, GoalTyped, MemoryTyped, TimersTyped, TurnTyped, WaitsTyped
  <2>4. WayTyped(k)'
    BY <1>6, <1>a, <1>c, <2>1, <2>2, <2>3 DEF Operations, Places, Points, StepTyped
  <2>5. MoverLimits(k) /\ Movers => Pending /\ ResultsInv' /\ ~Pending' /\ ~nav'.live
    BY <1>a, <2>1, <1>c
       DEF GoalTyped, InPlace, Leaving, MoverLimits, Movers, OneAtWork, TimersTyped, Unmoved, Waited, Working
  <2>6. MoverLimits(k) /\ Movers => OneAtWork'
    BY <1>a, <2>1, <2>5 DEF ContextTyped, GoalTyped, InPlace, Leaving, MemoryTyped, MoverLimits, Movers,
       OneAtWork, StepTyped, TimersTyped, TurnTyped, Unmoved, Waited, WaitsTyped, Working
  <2>7. MoverLimits(k) /\ Movers => InPlace'
    BY <1>a, <2>1, <2>5 DEF ContextTyped, GoalTyped, InPlace, Leaving, MemoryTyped, MoverLimits, Movers,
       OneAtWork, StepTyped, TimersTyped, TurnTyped, Unmoved, Waited, WaitsTyped, Working
  <2>8. StrandLimits(k) /\ Strand => Strand'
    BY <1>a, <2>1 DEF ContextTyped, GoalTyped, MemoryTyped, Points, StepTyped, Strand, StrandLimits,
       TimersTyped, TurnTyped, UnderWay, WaitsTyped
  <2> QED
    BY <2>4, <2>5, <2>6, <2>7, <2>8 DEF Kept, Movers
<1>7. CASE /\ r.gen = nav.gen /\ (adjust # 0 \/ turn.worker = TRUE) /\ ctx.stage # NoStage /\ ctx.at = ctx.wp
          /\ step' = Way(k)!Idle /\ timers' = timers
  <2>1. StepTyped(k)'
    BY <1>7, <1>a DEF ContextTyped, Operations, Places, Points, StepTyped, Way!Idle, Way!None
  <2>2. ContextTyped(k)' /\ MemoryTyped(k)' /\ GoalTyped(k)' /\ TurnTyped(k)' /\ WaitsTyped(k)' /\ TimersTyped'
    BY <1>7, <1>a, <1>c DEF ContextTyped, GoalTyped, MemoryTyped, TimersTyped, TurnTyped, WaitsTyped
  <2>3. WayTyped(k)'
    BY <1>7, <1>a, <1>c, <2>1, <2>2 DEF Operations, Places, Points, StepTyped, Way!Idle, Way!None
  <2>4. MoverLimits(k) => ~Movers
    BY <1>7, <1>a, <1>c DEF ContextTyped, GoalTyped, InPlace, Leaving, MemoryTyped, MoverLimits, Movers,
       OneAtWork, StepTyped, TimersTyped, TurnTyped, Unmoved, Waited, WaitsTyped, Working, Way!Idle, Way!None
  <2>5. StrandLimits(k) => ~Strand
    BY <1>7, <1>a, <1>c DEF ContextTyped, GoalTyped, MemoryTyped, NoTurn, Points, StepTyped, Strand,
       StrandLimits, TurnTyped, UnderWay, WaitsTyped, Way!Idle, Way!None
  <2> QED
    BY <2>3, <2>4, <2>5 DEF Kept, Movers
<1>8. CASE /\ "blocked" \in k.faults
          /\ timers' = [timers EXCEPT !.blocked = TRUE] /\ step' = Way(k)!Idle
  <2>1. TimersTyped'
    BY <1>8, <1>a DEF ContextTyped, Operations, Places, Points, StepTyped, TimersTyped, Way!Idle, Way!None
  <2>2. StepTyped(k)'
    BY <1>8, <1>a DEF ContextTyped, Operations, Places, Points, StepTyped, Way!Idle, Way!None
  <2>3. ContextTyped(k)' /\ MemoryTyped(k)' /\ GoalTyped(k)' /\ TurnTyped(k)' /\ WaitsTyped(k)'
    BY <1>8, <1>a, <1>c DEF ContextTyped, GoalTyped, MemoryTyped, TurnTyped, WaitsTyped
  <2>4. WayTyped(k)'
    BY <1>8, <1>a, <1>c, <2>1, <2>2, <2>3 DEF Operations, Places, Points, StepTyped, Way!Idle, Way!None
  <2>5. MoverLimits(k) => ~Movers
    BY <1>8, <1>a, <1>c DEF ContextTyped, GoalTyped, InPlace, Leaving, MemoryTyped, MoverLimits, Movers,
       OneAtWork, StepTyped, TimersTyped, TurnTyped, Unmoved, Waited, WaitsTyped, Working, Way!Idle, Way!None
  <2>6. StrandLimits(k) /\ Strand => Strand'
    BY <1>8, <1>a, <1>c DEF ContextTyped, GoalTyped, MemoryTyped, Points, StepTyped, Strand, StrandLimits,
       TimersTyped, TurnTyped, UnderWay, WaitsTyped, Way!Idle, Way!None
  <2> QED
    BY <2>4, <2>5, <2>6 DEF Kept, Movers
<1>d. Way(k)!Active(ctx.wp) => ctx.stage # NoStage /\ ctx.at = ctx.wp
  BY WhenActive
<1>e. Way(k)!Moving <=> ctx.state \in {"running", "resuming"}
  BY DEF ContextTyped, Way!Moving, Way!Terminal
<1> QED
  <2>1. CASE ~(r.gen = nav.gen /\ Way(k)!Moving)
    BY <1>b, <1>e, <1>1, <2>1 DEF Way!Return
  <2>2. CASE r.gen = nav.gen /\ Way(k)!Moving /\ Way(k)!OnResult(r)
    <3>1. CASE /\ r.status = "succeeded" /\ Way(k)!Go("result", nav.offset) /\ UNCHANGED timers
      BY <1>e, <1>2, <2>2, <3>1 DEF Way!Go
    <3>2. CASE Way(k)!Go("missed", nav.offset) /\ UNCHANGED timers
      BY <1>e, <1>3, <2>2, <3>2 DEF Way!Go
    <3>3. CASE /\ UNCHANGED timers
               /\ IF Way(k)!Active(ctx.wp)
                  THEN IF adjust # 0 \/ turn.worker THEN Way(k)!Return ELSE Way(k)!Go("resume_post", ctx.wp)
                  ELSE Way(k)!Go("send", ctx.wp)
      BY <1>d, <1>e, <1>4, <1>5, <1>7, <2>2, <3>3 DEF Way!Go, Way!Return, TurnTyped
    <3>4. CASE Way(k)!Go("exhausted", ctx.wp) /\ UNCHANGED timers
      BY <1>e, <1>6, <2>2, <3>4 DEF Way!Go
    <3>5. CASE "blocked" \in k.faults /\ timers' = [timers EXCEPT !.blocked = TRUE] /\ Way(k)!Return
      BY <1>8, <3>5 DEF Way!Return
    <3> QED
      BY <2>2, <3>1, <3>2, <3>3, <3>4, <3>5 DEF Way!OnResult, Way!None
  <2> QED
    BY <1>b, <2>1, <2>2

\* A task out of retries is held or failed.
LEMMA RecoveryExhaustedKeeps ==
    ASSUME NEW k, WayLimits(k), WayTyped(k), Way(k)!RecoveryExhausted
    PROVE  Kept(k)
  BY SafeHoldKeeps DEF Way!RecoveryExhausted, Way!At, Working

\* A waypoint Nav2 missed is sent again or given up.
LEMMA MissedWaypointsKeeps ==
    ASSUME NEW k, WayLimits(k), WayTyped(k), Way(k)!MissedWaypoints
    PROVE  Kept(k)
  BY FailTaskKeeps DEF Way!MissedWaypoints, Way!At, Working

\* The retry of a blocked task sends its waypoint again.
LEMMA BlockedRetryKeeps ==
    ASSUME NEW k, WayLimits(k), WayTyped(k), Way(k)!BlockedRetry
    PROVE  Kept(k)
<1> USE DEF WayLimits, WayBounds, WayTyped
<1>a. step.op = "idle" /\ timers.blocked /\ UNCHANGED <<ctx, mem, pause, nav, results, turn, adjust, waits>>
  BY DEF Places, Points, StepTyped, Way!BlockedRetry, Way!Idle
<1>1. CASE /\ timers' = [timers EXCEPT !.blocked = FALSE]
          /\ \/ ctx.state = "running" /\ step' = [op |-> "send", i |-> ctx.wp]
             \/ ctx.state # "running" /\ step' = Way(k)!Idle
  <2>1. TimersTyped'
    BY <1>1, <1>a DEF ContextTyped, Operations, Places, Points, StepTyped, TimersTyped, Way!Idle, Way!None
  <2>2. StepTyped(k)'
    BY <1>1, <1>a DEF ContextTyped, Operations, Places, Points, StepTyped, Way!Idle, Way!None
  <2>3. ContextTyped(k)' /\ MemoryTyped(k)' /\ GoalTyped(k)' /\ TurnTyped(k)' /\ WaitsTyped(k)'
    BY <1>1, <1>a DEF ContextTyped, GoalTyped, MemoryTyped, TurnTyped, WaitsTyped
  <2>4. WayTyped(k)'
    BY <1>1, <1>a, <2>1, <2>2, <2>3 DEF Operations, Places, Points, StepTyped, Way!Idle, Way!None
  <2>5. MoverLimits(k) => ~Movers
    BY <1>1, <1>a DEF ContextTyped, GoalTyped, InPlace, Leaving, MemoryTyped, MoverLimits, Movers, OneAtWork,
       StepTyped, TimersTyped, TurnTyped, Unmoved, Waited, WaitsTyped, Working, Way!Idle, Way!None
  <2>6. StrandLimits(k) /\ Strand => Strand'
    BY <1>1, <1>a DEF ContextTyped, GoalTyped, MemoryTyped, Pending, Points, StepTyped, Strand, StrandLimits,
       TimersTyped, TurnTyped, UnderWay, WaitsTyped, Way!Idle, Way!None
  <2> QED
    BY <2>4, <2>5, <2>6 DEF Kept, Movers
<1> QED
  BY <1>a, <1>1 DEF ContextTyped, StepTyped, Way!BlockedRetry, Way!Go, Way!Return

\* A goal that succeeded starts the arrival.
LEMMA SucceededKeeps ==
    ASSUME NEW k, WayLimits(k), WayTyped(k), Way(k)!Succeeded
    PROVE  Kept(k)
<1> USE DEF WayLimits, WayBounds, WayTyped
<1>a. step.op = "result" /\ step.i \in Points(k) /\ UNCHANGED <<ctx, pause, nav, results, turn, adjust, waits, timers>>
  BY DEF Places, Points, StepTyped, Way!At, Way!Succeeded
<1>1. CASE turn # NoTurn /\ mem' = mem /\ step' = Way(k)!Idle
  <2>1. StepTyped(k)'
    BY <1>1, <1>a DEF ContextTyped, Operations, Places, Points, StepTyped, Way!Idle, Way!None
  <2>2. ContextTyped(k)' /\ MemoryTyped(k)' /\ GoalTyped(k)' /\ TurnTyped(k)' /\ WaitsTyped(k)' /\ TimersTyped'
    BY <1>1, <1>a DEF ContextTyped, GoalTyped, MemoryTyped, TimersTyped, TurnTyped, WaitsTyped
  <2>3. WayTyped(k)'
    BY <1>1, <1>a, <2>1, <2>2 DEF Operations, Places, Points, StepTyped, Way!Idle, Way!None
  <2>4. MoverLimits(k) => ~Movers
    BY <1>1, <1>a DEF ContextTyped, GoalTyped, InPlace, Leaving, MemoryTyped, MoverLimits, Movers, OneAtWork,
       StepTyped, TimersTyped, TurnTyped, Unmoved, Waited, WaitsTyped, Working, Way!Idle, Way!None
  <2>5. StrandLimits(k) => ~Strand
    BY <1>1, <1>a DEF ContextTyped, GoalTyped, MemoryTyped, Points, StepTyped, Strand, StrandLimits,
       TurnTyped, UnderWay, WaitsTyped, Way!Idle, Way!None
  <2> QED
    BY <2>3, <2>4, <2>5 DEF Kept, Movers
<1>2. CASE mem' = mem /\ step' = [op |-> "stop", i |-> step.i]
  <2>1. StepTyped(k)'
    BY <1>2, <1>a DEF ContextTyped, Operations, Places, Points, StepTyped
  <2>2. ContextTyped(k)' /\ MemoryTyped(k)' /\ GoalTyped(k)' /\ TurnTyped(k)' /\ WaitsTyped(k)' /\ TimersTyped'
    BY <1>2, <1>a DEF ContextTyped, GoalTyped, MemoryTyped, TimersTyped, TurnTyped, WaitsTyped
  <2>3. WayTyped(k)'
    BY <1>2, <1>a, <2>1, <2>2 DEF Operations, Places, Points, StepTyped
  <2>4. MoverLimits(k) /\ Movers => ResultsInv' /\ (Pending' <=> Pending)
    BY <1>2, <1>a, SameResults
       DEF GoalTyped, InPlace, Leaving, MoverLimits, Movers, OneAtWork, TimersTyped, Unmoved, Waited, Working
  <2>5. MoverLimits(k) /\ Movers => OneAtWork'
    BY <1>2, <1>a, <2>4 DEF ContextTyped, GoalTyped, InPlace, Leaving, MemoryTyped, MoverLimits, Movers,
       OneAtWork, StepTyped, TimersTyped, TurnTyped, Unmoved, Waited, WaitsTyped, Working
  <2>6. MoverLimits(k) /\ Movers => InPlace'
    BY <1>2, <1>a, <2>4 DEF ContextTyped, GoalTyped, InPlace, Leaving, MemoryTyped, MoverLimits, Movers,
       OneAtWork, StepTyped, TimersTyped, TurnTyped, Unmoved, Waited, WaitsTyped, Working
  <2>7. StrandLimits(k) /\ Strand => Strand'
    BY <1>2, <1>a DEF ContextTyped, GoalTyped, MemoryTyped, Pending, Points, StepTyped, Strand, StrandLimits,
       TimersTyped, TurnTyped, UnderWay, WaitsTyped
  <2> QED
    BY <2>3, <2>4, <2>5, <2>6, <2>7 DEF Kept, Movers
<1> QED
  BY <1>a, <1>1, <1>2 DEF ContextTyped, NoPassing, NoTurn, Points, StepTyped, Way!Go, Way!NoTurn, Way!None,
     Way!Return, Way!Succeeded

\* An arrival confirms that the robot stands.
LEMMA ConfirmStopKeeps ==
    ASSUME NEW k, WayLimits(k), WayTyped(k), Way(k)!ConfirmStop
    PROVE  Kept(k)
<1> USE DEF WayLimits, WayBounds, WayTyped
<1>a. step.op = "stop" /\ step.i \in Points(k)
  BY DEF Places, Points, StepTyped, Way!At, Way!ConfirmStop
<1>1. CASE /\ step' = [op |-> IF mem.corrected = step.i THEN "xy" ELSE "correct", i |-> step.i]
          /\ UNCHANGED <<ctx, mem, pause, nav, results, turn, adjust, waits, timers>>
  <2>1. StepTyped(k)'
    BY <1>1, <1>a DEF ContextTyped, Operations, Places, Points, StepTyped
  <2>2. ContextTyped(k)' /\ MemoryTyped(k)' /\ GoalTyped(k)' /\ TurnTyped(k)' /\ WaitsTyped(k)' /\ TimersTyped'
    BY <1>1, <1>a DEF ContextTyped, GoalTyped, MemoryTyped, TimersTyped, TurnTyped, WaitsTyped
  <2>3. WayTyped(k)'
    BY <1>1, <1>a, <2>1, <2>2 DEF Operations, Places, Points, StepTyped
  <2>4. MoverLimits(k) /\ Movers => ResultsInv' /\ (Pending' <=> Pending)
    BY <1>1, <1>a, SameResults
       DEF GoalTyped, InPlace, Leaving, MoverLimits, Movers, OneAtWork, TimersTyped, Unmoved, Waited, Working
  <2>5. MoverLimits(k) /\ Movers => OneAtWork'
    BY <1>1, <1>a, <2>4 DEF ContextTyped, GoalTyped, InPlace, Leaving, MemoryTyped, MoverLimits, Movers,
       OneAtWork, StepTyped, TimersTyped, TurnTyped, Unmoved, Waited, WaitsTyped, Working
  <2>6. MoverLimits(k) /\ Movers => InPlace'
    BY <1>1, <1>a, <2>4 DEF ContextTyped, GoalTyped, InPlace, Leaving, MemoryTyped, MoverLimits, Movers,
       OneAtWork, StepTyped, TimersTyped, TurnTyped, Unmoved, Waited, WaitsTyped, Working
  <2>7. StrandLimits(k) /\ Strand => Strand'
    BY <1>1, <1>a DEF ContextTyped, GoalTyped, MemoryTyped, Pending, Points, StepTyped, Strand, StrandLimits,
       TimersTyped, TurnTyped, UnderWay, WaitsTyped
  <2> QED
    BY <2>3, <2>4, <2>5, <2>6, <2>7 DEF Kept, Movers
<1>2. CASE Way(k)!SafeHold("stop")
  BY <1>a, <1>2, SafeHoldKeeps DEF Working
<1> QED
  BY <1>a, <1>1, <1>2 DEF ContextTyped, StepTyped, Way!ConfirmStop, Way!Go

\* An arrival corrects its localization absolutely once.
LEMMA CorrectKeeps ==
    ASSUME NEW k, WayLimits(k), WayTyped(k), Way(k)!Correct
    PROVE  Kept(k)
<1> USE DEF WayLimits, WayBounds, WayTyped
<1>a. step.op = "correct" /\ step.i \in Points(k) /\ UNCHANGED <<nav, results, turn, adjust, waits, timers>>
  BY DEF Places, Points, StepTyped, Way!At, Way!Correct
<1>1. CASE /\ mem' = [mem EXCEPT !.corrected = step.i] /\ step' = [op |-> "xy", i |-> step.i]
          /\ UNCHANGED <<ctx, pause>>
  <2>1. MemoryTyped(k)'
    BY <1>1, <1>a DEF ContextTyped, MemoryTyped, Operations, Places, Points, StepTyped
  <2>2. StepTyped(k)'
    BY <1>1, <1>a DEF ContextTyped, Operations, Places, Points, StepTyped
  <2>3. ContextTyped(k)' /\ GoalTyped(k)' /\ TurnTyped(k)' /\ WaitsTyped(k)' /\ TimersTyped'
    BY <1>1, <1>a DEF ContextTyped, GoalTyped, TimersTyped, TurnTyped, WaitsTyped
  <2>4. WayTyped(k)'
    BY <1>1, <1>a, <2>1, <2>2, <2>3 DEF Operations, Places, Points, StepTyped
  <2>5. MoverLimits(k) /\ Movers => ResultsInv' /\ (Pending' <=> Pending)
    BY <1>1, <1>a, SameResults
       DEF GoalTyped, InPlace, Leaving, MoverLimits, Movers, OneAtWork, TimersTyped, Unmoved, Waited, Working
  <2>6. MoverLimits(k) /\ Movers => OneAtWork'
    BY <1>1, <1>a, <2>5 DEF ContextTyped, GoalTyped, InPlace, Leaving, MemoryTyped, MoverLimits, Movers,
       OneAtWork, StepTyped, TimersTyped, TurnTyped, Unmoved, Waited, WaitsTyped, Working
  <2>7. MoverLimits(k) /\ Movers => InPlace'
    BY <1>1, <1>a, <2>5 DEF ContextTyped, GoalTyped, InPlace, Leaving, MemoryTyped, MoverLimits, Movers,
       OneAtWork, StepTyped, TimersTyped, TurnTyped, Unmoved, Waited, WaitsTyped, Working
  <2>8. StrandLimits(k) /\ Strand => Strand'
    BY <1>1, <1>a DEF ContextTyped, GoalTyped, MemoryTyped, Pending, Points, StepTyped, Strand, StrandLimits,
       TimersTyped, TurnTyped, UnderWay, WaitsTyped
  <2> QED
    BY <2>4, <2>5, <2>6, <2>7, <2>8 DEF Kept, Movers
<1>2. CASE /\ ctx' = [ctx EXCEPT !.state = "paused", !.wp = step.i] /\ pause' = "absolute"
          /\ step' = Way(k)!Idle /\ mem' = mem
  <2>1. ContextTyped(k)'
    BY <1>2, <1>a DEF ContextTyped, Operations, Places, Points, StepTyped, Way!Idle, Way!None
  <2>2. StepTyped(k)'
    BY <1>2, <1>a DEF ContextTyped, Operations, Places, Points, StepTyped, Way!Idle, Way!None
  <2>3. MemoryTyped(k)' /\ GoalTyped(k)' /\ TurnTyped(k)' /\ WaitsTyped(k)' /\ TimersTyped'
    BY <1>2, <1>a DEF GoalTyped, MemoryTyped, TimersTyped, TurnTyped, WaitsTyped
  <2>4. WayTyped(k)'
    BY <1>2, <1>a, <2>1, <2>2, <2>3 DEF Operations, Places, Points, StepTyped, Way!Idle, Way!None
  <2>5. MoverLimits(k) /\ Movers => ResultsInv' /\ (Pending' <=> Pending)
    BY <1>2, <1>a, SameResults DEF GoalTyped, InPlace, Leaving, MoverLimits, Movers, OneAtWork, TimersTyped,
       Unmoved, Waited, Working, Way!Idle, Way!None
  <2>6. MoverLimits(k) /\ Movers => OneAtWork'
    BY <1>2, <1>a, <2>5 DEF ContextTyped, GoalTyped, InPlace, Leaving, MemoryTyped, MoverLimits, Movers,
       OneAtWork, StepTyped, TimersTyped, TurnTyped, Unmoved, Waited, WaitsTyped, Working, Way!Idle, Way!None
  <2>7. MoverLimits(k) /\ Movers => InPlace'
    BY <1>2, <1>a, <2>5 DEF ContextTyped, GoalTyped, InPlace, Leaving, MemoryTyped, MoverLimits, Movers,
       OneAtWork, StepTyped, TimersTyped, TurnTyped, Unmoved, Waited, WaitsTyped, Working, Way!Idle, Way!None
  <2>8. StrandLimits(k) /\ Strand => Strand'
    BY <1>2, <1>a DEF ContextTyped, GoalTyped, MemoryTyped, Pending, Points, StepTyped, Strand, StrandLimits,
       TimersTyped, TurnTyped, UnderWay, WaitsTyped, Way!Idle, Way!None
  <2> QED
    BY <2>4, <2>5, <2>6, <2>7, <2>8 DEF Kept, Movers
<1> QED
  BY <1>a, <1>1, <1>2 DEF ContextTyped, StepTyped, Way!AbsoluteReady, Way!Correct, Way!Go, Way!Return

\* Waits attached again, or begun by the side effects of an arrival.
Begun(k, i) ==
    /\ WaitsTyped(k)'
    /\ waits'.speech \in {0, waits.speech, i} /\ waits'.dwell \in {0, waits.dwell, i}
    /\ ~k.route[i].speech /\ ~k.route[i].dwell /\ waits.speech = 0 /\ waits.dwell = 0 /\ waits.threads = {} =>
           waits'.speech = 0 /\ waits'.dwell = 0 /\ waits'.threads = {}

\* An arrival that was under way takes up its dwell and speech.
LEMMA RestoredBegins ==
    ASSUME NEW k, WayBounds(k), WaitsTyped(k), NEW i \in Points(k), waits' = Way(k)!Restored(waits, i)
    PROVE  Begun(k, i)
<1>1. \/ waits' = waits
      \/ \E speak, dwell \in BOOLEAN :
            /\ speak => k.route[i].speech
            /\ dwell => k.route[i].dwell
            /\ waits' = [waits EXCEPT !.speech = IF speak THEN i ELSE @, !.threads = IF speak THEN @ \cup {i} ELSE @,
                                      !.dwell = IF dwell THEN i ELSE @, !.dwelt = IF dwell THEN FALSE ELSE @]
  <2> DEFINE speak == k.route[i].speech /\ waits.speech # i /\ ~waits.spoken
             dwell == k.route[i].dwell /\ waits.dwell # i
  <2>1. speak \in BOOLEAN /\ dwell \in BOOLEAN
    OBVIOUS
  <2>2. \/ waits' = waits
        \/ waits' = [waits EXCEPT !.speech = IF speak THEN i ELSE @, !.threads = IF speak THEN @ \cup {i} ELSE @,
                                  !.dwell = IF dwell THEN i ELSE @, !.dwelt = IF dwell THEN FALSE ELSE @]
    BY DEF Way!Restored
  <2> QED
    BY <2>1, <2>2
<1>2. CASE waits' = waits
  BY <1>2 DEF Begun, WaitsTyped
<1>3. CASE waits' # waits
  <2>1. PICK speak \in BOOLEAN, dwell \in BOOLEAN :
            /\ speak => k.route[i].speech
            /\ dwell => k.route[i].dwell
            /\ waits' = [waits EXCEPT !.speech = IF speak THEN i ELSE @, !.threads = IF speak THEN @ \cup {i} ELSE @,
                                      !.dwell = IF dwell THEN i ELSE @, !.dwelt = IF dwell THEN FALSE ELSE @]
    BY <1>1, <1>3
  <2>2. /\ DOMAIN waits' = DOMAIN waits
        /\ waits'.speech = IF speak THEN i ELSE waits.speech
        /\ waits'.dwell = IF dwell THEN i ELSE waits.dwell
        /\ waits'.threads = IF speak THEN waits.threads \cup {i} ELSE waits.threads
    BY <2>1 DEF WaitsTyped
  <2> QED
    BY <2>1, <2>2 DEF Begun, WaitsTyped, Places, Points
<1> QED
  BY <1>2, <1>3

\* The side effects of an arrival begin with their waits.
LEMMA EffectsBegin ==
    ASSUME NEW k, WayBounds(k), WaitsTyped(k), NEW i \in Points(k),
           waits' = [waits EXCEPT !.speech = IF k.route[i].speech THEN i ELSE @,
                                  !.spoken = IF k.route[i].speech THEN FALSE ELSE @,
                                  !.threads = IF k.route[i].speech THEN @ \cup {i} ELSE @,
                                  !.dwell = IF k.route[i].dwell THEN i ELSE 0, !.dwelt = FALSE]
    PROVE  Begun(k, i)
<1>1. /\ DOMAIN waits' = DOMAIN waits
      /\ waits'.speech = IF k.route[i].speech THEN i ELSE waits.speech
      /\ waits'.dwell = IF k.route[i].dwell THEN i ELSE 0
      /\ waits'.threads = IF k.route[i].speech THEN waits.threads \cup {i} ELSE waits.threads
  BY DEF WaitsTyped
<1> QED
  BY <1>1 DEF Begun, WaitsTyped, Places, Points

\* The check of the position accepts it, adjusts it, approaches again or holds.
LEMMA CheckXYKeeps ==
    ASSUME NEW k, WayLimits(k), WayTyped(k), Way(k)!CheckXY
    PROVE  Kept(k)
<1> USE DEF WayLimits, WayBounds, WayTyped
<1>a. step.op = "xy" /\ step.i \in Points(k) /\ UNCHANGED <<nav, results, turn, timers>>
  BY DEF Places, Points, StepTyped, Way!At, Way!CheckXY, Way!SafeHold
<1>b. Way(k)!Active(step.i) <=> ctx.stage # NoStage /\ ctx.at = step.i
  BY WhenActive
<1>c. NoStage \notin Stages
  BY StagesAreNamed
<1>1. CASE /\ ctx.stage # NoStage /\ Begun(k, step.i) /\ step' = [op |-> "heading", i |-> step.i]
          /\ UNCHANGED <<ctx, mem, pause, adjust>>
  <2>1. WaitsTyped(k)'
    BY <1>1, <1>a DEF Begun, ContextTyped, Operations, Places, Points, StepTyped, WaitsTyped
  <2>2. StepTyped(k)'
    BY <1>1, <1>a DEF Begun, ContextTyped, Operations, Places, Points, StepTyped
  <2>3. ContextTyped(k)' /\ MemoryTyped(k)' /\ GoalTyped(k)' /\ TurnTyped(k)' /\ TimersTyped'
    BY <1>1, <1>a DEF ContextTyped, GoalTyped, MemoryTyped, TimersTyped, TurnTyped
  <2>4. WayTyped(k)'
    BY <1>1, <1>a, <2>1, <2>2, <2>3 DEF Begun, Operations, Places, Points, StepTyped
  <2>5. MoverLimits(k) /\ Movers => ResultsInv' /\ (Pending' <=> Pending)
    BY <1>1, <1>a, SameResults DEF Begun, GoalTyped, InPlace, Leaving, MoverLimits, Movers, OneAtWork,
       TimersTyped, Unmoved, Waited, Working
  <2>6. MoverLimits(k) /\ Movers => OneAtWork'
    BY <1>1, <1>a, <2>5 DEF Begun, ContextTyped, GoalTyped, InPlace, Leaving, MemoryTyped, MoverLimits,
       Movers, OneAtWork, StepTyped, TimersTyped, TurnTyped, Unmoved, Waited, WaitsTyped, Working
  <2>7. MoverLimits(k) /\ Movers => InPlace'
    BY <1>1, <1>a, <2>5 DEF Begun, ContextTyped, GoalTyped, InPlace, Leaving, MemoryTyped, MoverLimits,
       Movers, OneAtWork, StepTyped, TimersTyped, TurnTyped, Unmoved, Waited, WaitsTyped, Working
  <2>8. StrandLimits(k) /\ Strand => Strand'
    BY <1>1, <1>a DEF Begun, ContextTyped, GoalTyped, MemoryTyped, Pending, Points, StepTyped, Strand,
       StrandLimits, TimersTyped, TurnTyped, UnderWay, WaitsTyped
  <2> QED
    BY <2>4, <2>5, <2>6, <2>7, <2>8 DEF Kept, Movers
<1>2. CASE /\ \E s \in {"xy_verified", "xy_adjusted"} : ctx' = Way(k)!Staged(ctx, step.i, s)
          /\ step' = [op |-> "heading", i |-> step.i] /\ UNCHANGED <<mem, pause, adjust, waits>>
  <2>1. /\ ctx'.stage # NoStage /\ ctx'.at = step.i /\ ctx'.wp = ctx.wp /\ ctx'.state = ctx.state
        /\ ctx'.effects = ctx.effects /\ ctx'.hold = ctx.hold
        /\ step'.op = "heading" /\ step'.i = step.i
    BY <1>2, <1>a, <1>c DEF ContextTyped, Stages, StepTyped, Way!Staged
  <2>2. ContextTyped(k)'
    BY <1>2, <1>a, <2>1 DEF ContextTyped, Operations, Places, Points, StepTyped, Way!Staged
  <2>3. StepTyped(k)'
    BY <1>2, <1>a, <2>1 DEF ContextTyped, Operations, Places, Points, StepTyped, Way!Staged
  <2>4. MemoryTyped(k)' /\ GoalTyped(k)' /\ TurnTyped(k)' /\ WaitsTyped(k)' /\ TimersTyped'
    BY <1>2, <1>a, <1>c, <2>1 DEF GoalTyped, MemoryTyped, TimersTyped, TurnTyped, WaitsTyped
  <2>5. WayTyped(k)'
    BY <1>2, <1>a, <1>c, <2>1, <2>2, <2>3, <2>4 DEF Operations, Places, Points, StepTyped
  <2>6. MoverLimits(k) /\ Movers => ResultsInv' /\ (Pending' <=> Pending)
    BY <1>2, <1>a, <1>c, <2>1, SameResults
       DEF GoalTyped, InPlace, Leaving, MoverLimits, Movers, OneAtWork, TimersTyped, Unmoved, Waited, Working
  <2>7. MoverLimits(k) /\ Movers => OneAtWork'
    BY <1>2, <1>a, <1>c, <2>1, <2>6 DEF ContextTyped, GoalTyped, InPlace, Leaving, MemoryTyped, MoverLimits,
       Movers, OneAtWork, StepTyped, TimersTyped, TurnTyped, Unmoved, Waited, WaitsTyped, Working
  <2>8. MoverLimits(k) /\ Movers => InPlace'
    BY <1>2, <1>a, <1>c, <2>1, <2>6 DEF ContextTyped, GoalTyped, InPlace, Leaving, MemoryTyped, MoverLimits,
       Movers, OneAtWork, StepTyped, TimersTyped, TurnTyped, Unmoved, Waited, WaitsTyped, Working
  <2>9. StrandLimits(k) /\ Strand => Strand'
    BY <1>2, <1>a, <1>c, <2>1 DEF ContextTyped, GoalTyped, MemoryTyped, Pending, Points, StepTyped, Strand,
       StrandLimits, TimersTyped, TurnTyped, UnderWay, WaitsTyped
  <2> QED
    BY <2>5, <2>6, <2>7, <2>8, <2>9 DEF Kept, Movers
<1>3. CASE /\ ctx' = Way(k)!Staged(ctx, step.i, "heading_aligned") /\ mem' = [mem EXCEPT !.headed = step.i]
          /\ step' = [op |-> "heading", i |-> step.i] /\ UNCHANGED <<pause, adjust, waits>>
  <2>1. /\ ctx'.stage # NoStage /\ ctx'.at = step.i /\ ctx'.wp = ctx.wp /\ ctx'.state = ctx.state
        /\ ctx'.effects = ctx.effects /\ ctx'.hold = ctx.hold
        /\ step'.op = "heading" /\ step'.i = step.i
        /\ mem'.ready = mem.ready
    BY <1>3, <1>a, <1>c DEF ContextTyped, MemoryTyped, Stages, StepTyped, Way!Staged
  <2>2. ContextTyped(k)'
    BY <1>3, <1>a, <2>1 DEF ContextTyped, Operations, Places, Points, StepTyped, Way!Staged
  <2>3. MemoryTyped(k)'
    BY <1>3, <1>a, <2>1 DEF ContextTyped, MemoryTyped, Operations, Places, Points, StepTyped, Way!Staged
  <2>4. StepTyped(k)'
    BY <1>3, <1>a, <2>1 DEF ContextTyped, Operations, Places, Points, StepTyped, Way!Staged
  <2>5. GoalTyped(k)' /\ TurnTyped(k)' /\ WaitsTyped(k)' /\ TimersTyped'
    BY <1>3, <1>a, <1>c, <2>1 DEF GoalTyped, TimersTyped, TurnTyped, WaitsTyped
  <2>6. WayTyped(k)'
    BY <1>3, <1>a, <1>c, <2>1, <2>2, <2>3, <2>4, <2>5 DEF Operations, Places, Points, StepTyped
  <2>7. MoverLimits(k) /\ Movers => ResultsInv' /\ (Pending' <=> Pending)
    BY <1>3, <1>a, <1>c, <2>1, SameResults
       DEF GoalTyped, InPlace, Leaving, MoverLimits, Movers, OneAtWork, TimersTyped, Unmoved, Waited, Working
  <2>8. MoverLimits(k) /\ Movers => OneAtWork'
    BY <1>3, <1>a, <1>c, <2>1, <2>7 DEF ContextTyped, GoalTyped, InPlace, Leaving, MemoryTyped, MoverLimits,
       Movers, OneAtWork, StepTyped, TimersTyped, TurnTyped, Unmoved, Waited, WaitsTyped, Working
  <2>9. MoverLimits(k) /\ Movers => InPlace'
    BY <1>3, <1>a, <1>c, <2>1, <2>7 DEF ContextTyped, GoalTyped, InPlace, Leaving, MemoryTyped, MoverLimits,
       Movers, OneAtWork, StepTyped, TimersTyped, TurnTyped, Unmoved, Waited, WaitsTyped, Working
  <2>10. StrandLimits(k) /\ Strand => Strand'
    BY <1>3, <1>a, <1>c, <2>1 DEF ContextTyped, GoalTyped, MemoryTyped, Pending, Points, StepTyped, Strand,
       StrandLimits, TimersTyped, TurnTyped, UnderWay, WaitsTyped
  <2> QED
    BY <2>6, <2>7, <2>8, <2>9, <2>10 DEF Kept, Movers
<1>4. CASE /\ ~(ctx.stage # NoStage /\ ctx.at = step.i)
          /\ ctx' = [ctx EXCEPT !.state = "paused", !.wp = step.i] /\ pause' = "absolute"
          /\ step' = Way(k)!Idle /\ UNCHANGED <<mem, adjust, waits>>
  <2>1. ContextTyped(k)'
    BY <1>4, <1>a DEF ContextTyped, Operations, Places, Points, StepTyped, Way!Idle, Way!None
  <2>2. StepTyped(k)'
    BY <1>4, <1>a DEF ContextTyped, Operations, Places, Points, StepTyped, Way!Idle, Way!None
  <2>3. MemoryTyped(k)' /\ GoalTyped(k)' /\ TurnTyped(k)' /\ WaitsTyped(k)' /\ TimersTyped'
    BY <1>4, <1>a DEF GoalTyped, MemoryTyped, TimersTyped, TurnTyped, WaitsTyped
  <2>4. WayTyped(k)'
    BY <1>4, <1>a, <2>1, <2>2, <2>3 DEF Operations, Places, Points, StepTyped, Way!Idle, Way!None
  <2>5. MoverLimits(k) /\ Movers => ResultsInv' /\ (Pending' <=> Pending)
    BY <1>4, <1>a, SameResults DEF GoalTyped, InPlace, Leaving, MoverLimits, Movers, OneAtWork, TimersTyped,
       Unmoved, Waited, Working, Way!Idle, Way!None
  <2>6. MoverLimits(k) /\ Movers => OneAtWork'
    BY <1>4, <1>a, <2>5 DEF ContextTyped, GoalTyped, InPlace, Leaving, MemoryTyped, MoverLimits, Movers,
       OneAtWork, StepTyped, TimersTyped, TurnTyped, Unmoved, Waited, WaitsTyped, Working, Way!Idle, Way!None
  <2>7. MoverLimits(k) /\ Movers => InPlace'
    BY <1>4, <1>a, <2>5 DEF ContextTyped, GoalTyped, InPlace, Leaving, MemoryTyped, MoverLimits, Movers,
       OneAtWork, StepTyped, TimersTyped, TurnTyped, Unmoved, Waited, WaitsTyped, Working, Way!Idle, Way!None
  <2>8. StrandLimits(k) /\ Strand => Strand'
    BY <1>4, <1>a DEF ContextTyped, GoalTyped, MemoryTyped, Pending, Points, StepTyped, Strand, StrandLimits,
       TimersTyped, TurnTyped, UnderWay, WaitsTyped, Way!Idle, Way!None
  <2> QED
    BY <2>4, <2>5, <2>6, <2>7, <2>8 DEF Kept, Movers
<1>5. CASE /\ ~(ctx.stage # NoStage /\ ctx.at = step.i) /\ step' = [op |-> "reapproach", i |-> step.i]
          /\ UNCHANGED <<ctx, mem, pause, adjust, waits>>
  <2>1. StepTyped(k)'
    BY <1>5, <1>a DEF ContextTyped, Operations, Places, Points, StepTyped
  <2>2. ContextTyped(k)' /\ MemoryTyped(k)' /\ GoalTyped(k)' /\ TurnTyped(k)' /\ WaitsTyped(k)' /\ TimersTyped'
    BY <1>5, <1>a DEF ContextTyped, GoalTyped, MemoryTyped, TimersTyped, TurnTyped, WaitsTyped
  <2>3. WayTyped(k)'
    BY <1>5, <1>a, <2>1, <2>2 DEF Operations, Places, Points, StepTyped
  <2>4. MoverLimits(k) /\ Movers => ResultsInv' /\ (Pending' <=> Pending)
    BY <1>5, <1>a, SameResults
       DEF GoalTyped, InPlace, Leaving, MoverLimits, Movers, OneAtWork, TimersTyped, Unmoved, Waited, Working
  <2>5. MoverLimits(k) /\ Movers => OneAtWork'
    BY <1>5, <1>a, <2>4 DEF ContextTyped, GoalTyped, InPlace, Leaving, MemoryTyped, MoverLimits, Movers,
       OneAtWork, StepTyped, TimersTyped, TurnTyped, Unmoved, Waited, WaitsTyped, Working
  <2>6. MoverLimits(k) /\ Movers => InPlace'
    BY <1>5, <1>a, <2>4 DEF ContextTyped, GoalTyped, InPlace, Leaving, MemoryTyped, MoverLimits, Movers,
       OneAtWork, StepTyped, TimersTyped, TurnTyped, Unmoved, Waited, WaitsTyped, Working
  <2>7. StrandLimits(k) /\ Strand => Strand'
    BY <1>5, <1>a DEF ContextTyped, GoalTyped, MemoryTyped, Pending, Points, StepTyped, Strand, StrandLimits,
       TimersTyped, TurnTyped, UnderWay, WaitsTyped
  <2> QED
    BY <2>3, <2>4, <2>5, <2>6, <2>7 DEF Kept, Movers
<1>6. CASE \E code \in {"evidence", "unstable", "coarse_exhausted"} : Way(k)!SafeHold(code)
  BY <1>a, <1>6, SafeHoldKeeps DEF Working
<1> QED
  BY <1>a, <1>b, <1>1, <1>2, <1>3, <1>4, <1>5, <1>6, RestoredBegins
     DEF ContextTyped, Way!CheckXY, Way!Recheck, Way!Recoarse, Way!Frames, Way!UnconfirmedOutdoors, Way!Go, Way!Return

\* The final heading starts a turn at the stop, or is aligned.
LEMMA AlignHeadingKeeps ==
    ASSUME NEW k, WayLimits(k), WayTyped(k), Way(k)!AlignHeading
    PROVE  Kept(k)
<1> USE DEF WayLimits, WayBounds, WayTyped
<1>a. step.op = "heading" /\ step.i \in Points(k) /\ UNCHANGED <<results, waits, timers>>
  BY DEF Places, Points, StepTyped, Way!AlignHeading, Way!At, Way!SafeHold
<1>b. Way(k)!Active(step.i) <=> ctx.stage # NoStage /\ ctx.at = step.i
  BY WhenActive
<1>c. NoStage \notin Stages
  BY StagesAreNamed
<1>1. CASE step' = [op |-> "pose", i |-> step.i] /\ UNCHANGED <<ctx, mem, pause, nav, turn, adjust>>
  <2>1. StepTyped(k)'
    BY <1>1, <1>a DEF ContextTyped, Operations, Places, Points, StepTyped
  <2>2. ContextTyped(k)' /\ MemoryTyped(k)' /\ GoalTyped(k)' /\ TurnTyped(k)' /\ WaitsTyped(k)' /\ TimersTyped'
    BY <1>1, <1>a DEF ContextTyped, GoalTyped, MemoryTyped, TimersTyped, TurnTyped, WaitsTyped
  <2>3. WayTyped(k)'
    BY <1>1, <1>a, <2>1, <2>2 DEF Operations, Places, Points, StepTyped
  <2>4. MoverLimits(k) /\ Movers => ResultsInv' /\ (Pending' <=> Pending)
    BY <1>1, <1>a, SameResults
       DEF GoalTyped, InPlace, Leaving, MoverLimits, Movers, OneAtWork, TimersTyped, Unmoved, Waited, Working
  <2>5. MoverLimits(k) /\ Movers => OneAtWork'
    BY <1>1, <1>a, <2>4 DEF ContextTyped, GoalTyped, InPlace, Leaving, MemoryTyped, MoverLimits, Movers,
       OneAtWork, StepTyped, TimersTyped, TurnTyped, Unmoved, Waited, WaitsTyped, Working
  <2>6. MoverLimits(k) /\ Movers => InPlace'
    BY <1>1, <1>a, <2>4 DEF ContextTyped, GoalTyped, InPlace, Leaving, MemoryTyped, MoverLimits, Movers,
       OneAtWork, StepTyped, TimersTyped, TurnTyped, Unmoved, Waited, WaitsTyped, Working
  <2>7. StrandLimits(k) /\ Strand => Strand'
    BY <1>1, <1>a DEF ContextTyped, GoalTyped, MemoryTyped, Pending, Points, StepTyped, Strand, StrandLimits,
       TimersTyped, TurnTyped, UnderWay, WaitsTyped
  <2> QED
    BY <2>3, <2>4, <2>5, <2>6, <2>7 DEF Kept, Movers
<1>2. CASE /\ ctx' = Way(k)!Staged(ctx, step.i, "heading_aligned") /\ mem' = [mem EXCEPT !.headed = step.i]
          /\ step' = [op |-> "pose", i |-> step.i] /\ UNCHANGED <<pause, nav, turn, adjust>>
  <2>1. /\ ctx'.stage # NoStage /\ ctx'.at = step.i /\ ctx'.wp = ctx.wp /\ ctx'.state = ctx.state
        /\ ctx'.effects = ctx.effects /\ ctx'.hold = ctx.hold
        /\ step'.op = "pose" /\ step'.i = step.i
        /\ mem'.ready = mem.ready
    BY <1>2, <1>a, <1>c DEF ContextTyped, MemoryTyped, Stages, StepTyped, Way!Staged
  <2>2. ContextTyped(k)'
    BY <1>2, <1>a, <2>1 DEF ContextTyped, Operations, Places, Points, StepTyped, Way!Staged
  <2>3. MemoryTyped(k)'
    BY <1>2, <1>a, <2>1 DEF ContextTyped, MemoryTyped, Operations, Places, Points, StepTyped, Way!Staged
  <2>4. StepTyped(k)'
    BY <1>2, <1>a, <2>1 DEF ContextTyped, Operations, Places, Points, StepTyped, Way!Staged
  <2>5. GoalTyped(k)' /\ TurnTyped(k)' /\ WaitsTyped(k)' /\ TimersTyped'
    BY <1>2, <1>a, <1>c, <2>1 DEF GoalTyped, TimersTyped, TurnTyped, WaitsTyped
  <2>6. WayTyped(k)'
    BY <1>2, <1>a, <1>c, <2>1, <2>2, <2>3, <2>4, <2>5 DEF Operations, Places, Points, StepTyped
  <2>7. MoverLimits(k) /\ Movers => ResultsInv' /\ (Pending' <=> Pending)
    BY <1>2, <1>a, <1>c, <2>1, SameResults
       DEF GoalTyped, InPlace, Leaving, MoverLimits, Movers, OneAtWork, TimersTyped, Unmoved, Waited, Working
  <2>8. MoverLimits(k) /\ Movers => OneAtWork'
    BY <1>2, <1>a, <1>c, <2>1, <2>7 DEF ContextTyped, GoalTyped, InPlace, Leaving, MemoryTyped, MoverLimits,
       Movers, OneAtWork, StepTyped, TimersTyped, TurnTyped, Unmoved, Waited, WaitsTyped, Working
  <2>9. MoverLimits(k) /\ Movers => InPlace'
    BY <1>2, <1>a, <1>c, <2>1, <2>7 DEF ContextTyped, GoalTyped, InPlace, Leaving, MemoryTyped, MoverLimits,
       Movers, OneAtWork, StepTyped, TimersTyped, TurnTyped, Unmoved, Waited, WaitsTyped, Working
  <2>10. StrandLimits(k) /\ Strand => Strand'
    BY <1>2, <1>a, <1>c, <2>1 DEF ContextTyped, GoalTyped, MemoryTyped, Pending, Points, StepTyped, Strand,
       StrandLimits, TimersTyped, TurnTyped, UnderWay, WaitsTyped
  <2> QED
    BY <2>6, <2>7, <2>8, <2>9, <2>10 DEF Kept, Movers
<1>3. CASE Way(k)!SafeHold("converge")
  BY <1>a, <1>3, SafeHoldKeeps DEF Working
<1>4. CASE /\ k.route[step.i].yaw /\ mem.conv < k.conv /\ mem' = [mem EXCEPT !.conv = @ + 1]
          /\ ctx' = Way(k)!Staged(ctx, step.i, "heading_pending") /\ step' = Way(k)!Idle
          /\ Turned(k, step.i, 0, TRUE) /\ nav' = [nav EXCEPT !.offset = step.i] /\ UNCHANGED <<pause, adjust>>
  <2>1. /\ ctx'.stage # NoStage /\ ctx'.at = step.i /\ ctx'.wp = ctx.wp /\ ctx'.state = ctx.state
        /\ ctx'.effects = ctx.effects /\ ctx'.hold = ctx.hold
        /\ step'.op = "idle"
        /\ mem'.ready = mem.ready /\ turn'.at = step.i /\ turn'.cruise = 0 /\ turn'.arrival
        /\ nav'.gen = nav.gen /\ nav'.goalGen = nav.goalGen /\ nav'.live = nav.live /\ nav'.offset = step.i
    BY <1>4, <1>a, <1>c
       DEF ContextTyped, GoalTyped, MemoryTyped, Stages, StepTyped, Turned, Way!Idle, Way!None, Way!Staged
  <2>2. ContextTyped(k)'
    BY <1>4, <1>a, <2>1
       DEF ContextTyped, Operations, Places, Points, StepTyped, Turned, Way!Idle, Way!None, Way!Staged
  <2>3. MemoryTyped(k)'
    BY <1>4, <1>a, <2>1 DEF ContextTyped, MemoryTyped, Operations, Places, Points, StepTyped, Turned,
       Way!Idle, Way!None, Way!Staged
  <2>4. GoalTyped(k)'
    BY <1>4, <1>a, <2>1 DEF ContextTyped, GoalTyped, Operations, Places, Points, StepTyped, Turned, Way!Idle,
       Way!None, Way!Staged
  <2>5. TurnTyped(k)'
    BY <1>4, <1>a, <2>1 DEF ContextTyped, Operations, Places, Points, StepTyped, TurnTyped, Turned, Way!Idle,
       Way!None, Way!Staged
  <2>6. StepTyped(k)'
    BY <1>4, <1>a, <2>1
       DEF ContextTyped, Operations, Places, Points, StepTyped, Turned, Way!Idle, Way!None, Way!Staged
  <2>7. WaitsTyped(k)' /\ TimersTyped'
    BY <1>4, <1>a, <1>c, <2>1 DEF TimersTyped, WaitsTyped
  <2>8. WayTyped(k)'
    BY <1>4, <1>a, <1>c, <2>1, <2>2, <2>3, <2>4, <2>5, <2>6, <2>7
       DEF Operations, Places, Points, StepTyped, Turned, Way!None
  <2>9. MoverLimits(k) /\ Movers => ResultsInv' /\ (Pending' <=> Pending)
    BY <1>4, <1>a, <1>c, <2>1, SameResults DEF GoalTyped, InPlace, Leaving, MoverLimits, Movers, OneAtWork,
       TimersTyped, Turned, Unmoved, Waited, Working, Way!None
  <2>10. MoverLimits(k) /\ Movers => OneAtWork'
    BY <1>4, <1>a, <1>c, <2>1, <2>9 DEF ContextTyped, GoalTyped, InPlace, Leaving, MemoryTyped, MoverLimits,
       Movers, OneAtWork, StepTyped, TimersTyped, TurnTyped, Turned, Unmoved, Waited, WaitsTyped, Working,
       Way!None
  <2>11. MoverLimits(k) /\ Movers => InPlace'
    BY <1>4, <1>a, <1>c, <2>1, <2>9 DEF ContextTyped, GoalTyped, InPlace, Leaving, MemoryTyped, MoverLimits,
       Movers, OneAtWork, StepTyped, TimersTyped, TurnTyped, Turned, Unmoved, Waited, WaitsTyped, Working,
       Way!None
  <2>12. StrandLimits(k) => ~Strand
    BY <1>4, <1>a, <1>c, <2>1 DEF ContextTyped, GoalTyped, MemoryTyped, Points, StepTyped, Strand,
       StrandLimits, TurnTyped, Turned, UnderWay, WaitsTyped, Way!None
  <2> QED
    BY <2>8, <2>9, <2>10, <2>11, <2>12 DEF Kept, Movers
<1>5. turn' = [at |-> step.i, cruise |-> 0, arrival |-> TRUE, worker |-> TRUE, timer |-> TRUE] => Turned(k, step.i, 0, TRUE)
  <2>1. 0 \in Places(k)
    BY DEF Places
  <2>2. TRUE \in BOOLEAN
    OBVIOUS
  <2> QED
    BY <1>a, <2>1, <2>2, TurningTurns
<1>6. k.route[step.i].yaw /\ mem.headed # step.i =>
         \/ /\ ctx' = Way(k)!Staged(ctx, step.i, "heading_aligned") /\ mem' = [mem EXCEPT !.headed = step.i]
            /\ Way(k)!Go("pose", step.i) /\ UNCHANGED <<pause, nav, turn, adjust>>
         \/ Way(k)!SafeHold("converge")
         \/ /\ ~Way(k)!HeadingSpent /\ mem' = [mem EXCEPT !.conv = @ + 1]
            /\ ctx' = Way(k)!Staged(ctx, step.i, "heading_pending") /\ Way(k)!Return
            /\ turn' = [at |-> step.i, cruise |-> Way(k)!None, arrival |-> TRUE, worker |-> TRUE, timer |-> TRUE]
            /\ nav' = [nav EXCEPT !.offset = step.i] /\ UNCHANGED <<pause, adjust>>
  BY DEF Way!AlignHeading
<1>7. ~Way(k)!HeadingSpent => mem.conv < k.conv
  BY DEF MemoryTyped, Way!HeadingSpent
<1>8. CASE k.route[step.i].yaw /\ mem.headed # step.i
  BY <1>2, <1>3, <1>4, <1>5, <1>6, <1>7, <1>8 DEF Way!Go, Way!Return, Way!None
<1>9. CASE Way(k)!Go("pose", step.i) /\ UNCHANGED <<ctx, mem, pause, nav, turn, adjust>>
  BY <1>1, <1>9 DEF Way!Go
<1> QED
  BY <1>8, <1>9 DEF Way!AlignHeading

\* The check of the pose continues, turns again or holds.
LEMMA VerifyPoseKeeps ==
    ASSUME NEW k, WayLimits(k), WayTyped(k), Way(k)!VerifyPose
    PROVE  Kept(k)
<1> USE DEF WayLimits, WayBounds, WayTyped
<1>a. step.op = "pose" /\ step.i \in Points(k) /\ UNCHANGED <<nav, results, turn, waits, timers>>
  BY DEF Places, Points, StepTyped, Way!At, Way!OutOfPose, Way!SafeHold, Way!VerifyPose
<1>b. Way(k)!Active(step.i) <=> ctx.stage # NoStage /\ ctx.at = step.i
  BY WhenActive
<1>c. NoStage \notin Stages
  BY StagesAreNamed
<1>1. CASE step' = [op |-> "stable", i |-> step.i] /\ UNCHANGED <<ctx, mem, pause, adjust>>
  <2>1. StepTyped(k)'
    BY <1>1, <1>a DEF ContextTyped, Operations, Places, Points, StepTyped
  <2>2. ContextTyped(k)' /\ MemoryTyped(k)' /\ GoalTyped(k)' /\ TurnTyped(k)' /\ WaitsTyped(k)' /\ TimersTyped'
    BY <1>1, <1>a DEF ContextTyped, GoalTyped, MemoryTyped, TimersTyped, TurnTyped, WaitsTyped
  <2>3. WayTyped(k)'
    BY <1>1, <1>a, <2>1, <2>2 DEF Operations, Places, Points, StepTyped
  <2>4. MoverLimits(k) /\ Movers => ResultsInv' /\ (Pending' <=> Pending)
    BY <1>1, <1>a, SameResults
       DEF GoalTyped, InPlace, Leaving, MoverLimits, Movers, OneAtWork, TimersTyped, Unmoved, Waited, Working
  <2>5. MoverLimits(k) /\ Movers => OneAtWork'
    BY <1>1, <1>a, <2>4 DEF ContextTyped, GoalTyped, InPlace, Leaving, MemoryTyped, MoverLimits, Movers,
       OneAtWork, StepTyped, TimersTyped, TurnTyped, Unmoved, Waited, WaitsTyped, Working
  <2>6. MoverLimits(k) /\ Movers => InPlace'
    BY <1>1, <1>a, <2>4 DEF ContextTyped, GoalTyped, InPlace, Leaving, MemoryTyped, MoverLimits, Movers,
       OneAtWork, StepTyped, TimersTyped, TurnTyped, Unmoved, Waited, WaitsTyped, Working
  <2>7. StrandLimits(k) /\ Strand => Strand'
    BY <1>1, <1>a DEF ContextTyped, GoalTyped, MemoryTyped, Pending, Points, StepTyped, Strand, StrandLimits,
       TimersTyped, TurnTyped, UnderWay, WaitsTyped
  <2> QED
    BY <2>3, <2>4, <2>5, <2>6, <2>7 DEF Kept, Movers
<1>2. CASE \E code \in {"pose", "converge", "micro", "post_yaw"} : Way(k)!SafeHold(code)
  BY <1>a, <1>2, SafeHoldKeeps DEF Working
<1>3. CASE /\ mem' = [mem EXCEPT !.headed = 0] /\ ctx' = Way(k)!Staged(ctx, step.i, "xy_adjusted")
          /\ step' = [op |-> "result", i |-> step.i] /\ UNCHANGED <<pause, adjust>>
  <2>1. /\ ctx'.stage # NoStage /\ ctx'.at = step.i /\ ctx'.wp = ctx.wp /\ ctx'.state = ctx.state
        /\ ctx'.effects = ctx.effects /\ ctx'.hold = ctx.hold
        /\ step'.op = "result" /\ step'.i = step.i
        /\ mem'.ready = mem.ready
    BY <1>3, <1>a, <1>c DEF ContextTyped, MemoryTyped, Stages, StepTyped, Way!Staged
  <2>2. ContextTyped(k)'
    BY <1>3, <1>a, <2>1 DEF ContextTyped, Operations, Places, Points, StepTyped, Way!Staged
  <2>3. MemoryTyped(k)'
    BY <1>3, <1>a, <2>1 DEF ContextTyped, MemoryTyped, Operations, Places, Points, StepTyped, Way!Staged
  <2>4. StepTyped(k)'
    BY <1>3, <1>a, <2>1 DEF ContextTyped, Operations, Places, Points, StepTyped, Way!Staged
  <2>5. GoalTyped(k)' /\ TurnTyped(k)' /\ WaitsTyped(k)' /\ TimersTyped'
    BY <1>3, <1>a, <1>c, <2>1 DEF GoalTyped, TimersTyped, TurnTyped, WaitsTyped
  <2>6. WayTyped(k)'
    BY <1>3, <1>a, <1>c, <2>1, <2>2, <2>3, <2>4, <2>5 DEF Operations, Places, Points, StepTyped
  <2>7. MoverLimits(k) /\ Movers => ResultsInv' /\ (Pending' <=> Pending)
    BY <1>3, <1>a, <1>c, <2>1, SameResults
       DEF GoalTyped, InPlace, Leaving, MoverLimits, Movers, OneAtWork, TimersTyped, Unmoved, Waited, Working
  <2>8. MoverLimits(k) /\ Movers => OneAtWork'
    BY <1>3, <1>a, <1>c, <2>1, <2>7 DEF ContextTyped, GoalTyped, InPlace, Leaving, MemoryTyped, MoverLimits,
       Movers, OneAtWork, StepTyped, TimersTyped, TurnTyped, Unmoved, Waited, WaitsTyped, Working
  <2>9. MoverLimits(k) /\ Movers => InPlace'
    BY <1>3, <1>a, <1>c, <2>1, <2>7 DEF ContextTyped, GoalTyped, InPlace, Leaving, MemoryTyped, MoverLimits,
       Movers, OneAtWork, StepTyped, TimersTyped, TurnTyped, Unmoved, Waited, WaitsTyped, Working
  <2>10. StrandLimits(k) /\ Strand => Strand'
    BY <1>3, <1>a, <1>c, <2>1 DEF ContextTyped, GoalTyped, MemoryTyped, Pending, Points, StepTyped, Strand,
       StrandLimits, TimersTyped, TurnTyped, UnderWay, WaitsTyped
  <2> QED
    BY <2>6, <2>7, <2>8, <2>9, <2>10 DEF Kept, Movers
<1>4. CASE /\ ctx' = [Way(k)!Staged(Way(k)!Forgotten(ctx), step.i, "ready") EXCEPT !.coarse = TRUE, !.segs = 0]
          /\ mem' = [mem EXCEPT !.corrected = step.i] /\ adjust' = 0
          /\ step' = [op |-> "effects", i |-> step.i] /\ UNCHANGED pause
  <2>1. /\ ctx'.stage # NoStage /\ ctx'.stage = "ready" /\ ctx'.at = step.i /\ ctx'.wp = ctx.wp /\ ctx'.state = ctx.state
        /\ ctx'.effects = ctx.effects /\ ctx'.hold = ctx.hold
        /\ step'.op = "effects" /\ step'.i = step.i
        /\ mem'.ready = mem.ready
    BY <1>4, <1>a, <1>c DEF ContextTyped, MemoryTyped, Stages, StepTyped, Way!Forgotten, Way!None, Way!Staged
  <2>2. ContextTyped(k)'
    BY <1>4, <1>a, <2>1
       DEF ContextTyped, Operations, Places, Points, StepTyped, Way!Forgotten, Way!None, Way!Staged
  <2>3. MemoryTyped(k)'
    BY <1>4, <1>a, <2>1 DEF ContextTyped, MemoryTyped, Operations, Places, Points, StepTyped, Way!Forgotten,
       Way!None, Way!Staged
  <2>4. StepTyped(k)'
    BY <1>4, <1>a, <2>1
       DEF ContextTyped, Operations, Places, Points, StepTyped, Way!Forgotten, Way!None, Way!Staged
  <2>5. GoalTyped(k)' /\ TurnTyped(k)' /\ WaitsTyped(k)' /\ TimersTyped'
    BY <1>4, <1>a, <1>c, <2>1 DEF GoalTyped, TimersTyped, TurnTyped, WaitsTyped
  <2>6. WayTyped(k)'
    BY <1>4, <1>a, <1>c, <2>1, <2>2, <2>3, <2>4, <2>5 DEF Operations, Places, Points, StepTyped, Way!None
  <2>7. MoverLimits(k) /\ Movers => ResultsInv' /\ (Pending' <=> Pending)
    BY <1>4, <1>a, <1>c, <2>1, SameResults DEF GoalTyped, InPlace, Leaving, MoverLimits, Movers, OneAtWork,
       TimersTyped, Unmoved, Waited, Working, Way!None
  <2>8. MoverLimits(k) /\ Movers => OneAtWork'
    BY <1>4, <1>a, <1>c, <2>1, <2>7 DEF ContextTyped, GoalTyped, InPlace, Leaving, MemoryTyped, MoverLimits,
       Movers, OneAtWork, StepTyped, TimersTyped, TurnTyped, Unmoved, Waited, WaitsTyped, Working, Way!None
  <2>9. MoverLimits(k) /\ Movers => InPlace'
    BY <1>4, <1>a, <1>c, <2>1, <2>7 DEF ContextTyped, GoalTyped, InPlace, Leaving, MemoryTyped, MoverLimits,
       Movers, OneAtWork, StepTyped, TimersTyped, TurnTyped, Unmoved, Waited, WaitsTyped, Working, Way!None
  <2>10. StrandLimits(k) /\ Strand => Strand'
    BY <1>4, <1>a, <1>c, <2>1 DEF ContextTyped, GoalTyped, MemoryTyped, Pending, Points, StepTyped, Strand,
       StrandLimits, TimersTyped, TurnTyped, UnderWay, WaitsTyped, Way!None
  <2> QED
    BY <2>6, <2>7, <2>8, <2>9, <2>10 DEF Kept, Movers
<1>5. CASE /\ "adjust" \in k.faults /\ adjust' = step.i /\ mem' = [mem EXCEPT !.gen = nav.gen]
          /\ ctx' = [Way(k)!Staged(ctx, step.i, "xy_adjusting") EXCEPT !.segs = IF @ = 0 THEN 1 ELSE @]
          /\ step' = Way(k)!Idle /\ UNCHANGED pause
  <2>1. /\ ctx'.stage # NoStage /\ ctx'.at = step.i /\ ctx'.wp = ctx.wp /\ ctx'.state = ctx.state
        /\ ctx'.effects = ctx.effects /\ ctx'.hold = ctx.hold
        /\ step'.op = "idle"
        /\ mem'.ready = mem.ready
    BY <1>5, <1>a, <1>c DEF ContextTyped, MemoryTyped, Stages, StepTyped, Way!Idle, Way!None, Way!Staged
  <2>2. ContextTyped(k)'
    BY <1>5, <1>a, <2>1
       DEF ContextTyped, Operations, Places, Points, StepTyped, Way!Idle, Way!None, Way!Staged
  <2>3. MemoryTyped(k)'
    BY <1>5, <1>a, <2>1
       DEF ContextTyped, MemoryTyped, Operations, Places, Points, StepTyped, Way!Idle, Way!None, Way!Staged
  <2>4. StepTyped(k)'
    BY <1>5, <1>a, <2>1
       DEF ContextTyped, Operations, Places, Points, StepTyped, Way!Idle, Way!None, Way!Staged
  <2>5. GoalTyped(k)' /\ TurnTyped(k)' /\ WaitsTyped(k)' /\ TimersTyped'
    BY <1>5, <1>a, <1>c, <2>1 DEF GoalTyped, TimersTyped, TurnTyped, WaitsTyped
  <2>6. WayTyped(k)'
    BY <1>5, <1>a, <1>c, <2>1, <2>2, <2>3, <2>4, <2>5 DEF Operations, Places, Points, StepTyped, Way!None
  <2>7. MoverLimits(k) /\ Movers => ResultsInv' /\ (Pending' <=> Pending)
    BY <1>5, <1>a, <1>c, <2>1, SameResults DEF GoalTyped, InPlace, Leaving, MoverLimits, Movers, OneAtWork,
       TimersTyped, Unmoved, Waited, Working, Way!None
  <2>8. MoverLimits(k) /\ Movers => OneAtWork'
    BY <1>5, <1>a, <1>c, <2>1, <2>7 DEF ContextTyped, GoalTyped, InPlace, Leaving, MemoryTyped, MoverLimits,
       Movers, OneAtWork, StepTyped, TimersTyped, TurnTyped, Unmoved, Waited, WaitsTyped, Working, Way!None
  <2>9. MoverLimits(k) /\ Movers => InPlace'
    BY <1>5, <1>a, <1>c, <2>1, <2>7 DEF ContextTyped, GoalTyped, InPlace, Leaving, MemoryTyped, MoverLimits,
       Movers, OneAtWork, StepTyped, TimersTyped, TurnTyped, Unmoved, Waited, WaitsTyped, Working, Way!None
  <2>10. StrandLimits(k) => ~Strand
    BY <1>5, <1>a, <1>c, <2>1 DEF ContextTyped, GoalTyped, MemoryTyped, Points, StepTyped, Strand,
       StrandLimits, TurnTyped, UnderWay, WaitsTyped, Way!None
  <2> QED
    BY <2>6, <2>7, <2>8, <2>9, <2>10 DEF Kept, Movers
<1>6. ASSUME NEW d, Way(k)!OutOfPose(step.i, d)
      PROVE  Kept(k)
  BY <1>6, <1>2, <1>3, <1>4, <1>5 DEF Way!OutOfPose, Way!MayAdjust, Way!Go, Way!Return, Way!None
<1> QED
  BY <1>a, <1>1, <1>6 DEF Way!VerifyPose, Way!Go

\* A stable pose makes the arrival ready.
LEMMA ConfirmPoseKeeps ==
    ASSUME NEW k, WayLimits(k), WayTyped(k), Way(k)!ConfirmPose
    PROVE  Kept(k)
<1> USE DEF WayLimits, WayBounds, WayTyped
<1>a. step.op = "stable" /\ step.i \in Points(k) /\ UNCHANGED <<mem, pause, nav, results, turn, adjust, waits, timers>>
  BY DEF Places, Points, StepTyped, Way!At, Way!ConfirmPose
<1>b. Way(k)!Active(step.i) <=> ctx.stage # NoStage /\ ctx.at = step.i
  BY WhenActive
<1>c. NoStage \notin Stages
  BY StagesAreNamed
<1>1. CASE ctx' = Way(k)!Staged(Way(k)!Forgotten(ctx), step.i, "ready") /\ step' = [op |-> "effects", i |-> step.i]
  <2>1. /\ ctx'.stage # NoStage /\ ctx'.stage = "ready" /\ ctx'.at = step.i /\ ctx'.wp = ctx.wp /\ ctx'.state = ctx.state
        /\ ctx'.effects = ctx.effects /\ ctx'.hold = ctx.hold
        /\ step'.op = "effects" /\ step'.i = step.i
    BY <1>1, <1>a, <1>c DEF ContextTyped, MemoryTyped, Stages, StepTyped, Way!Forgotten, Way!None, Way!Staged
  <2>2. ContextTyped(k)'
    BY <1>1, <1>a, <2>1
       DEF ContextTyped, Operations, Places, Points, StepTyped, Way!Forgotten, Way!None, Way!Staged
  <2>3. StepTyped(k)'
    BY <1>1, <1>a, <2>1
       DEF ContextTyped, Operations, Places, Points, StepTyped, Way!Forgotten, Way!None, Way!Staged
  <2>4. MemoryTyped(k)' /\ GoalTyped(k)' /\ TurnTyped(k)' /\ WaitsTyped(k)' /\ TimersTyped'
    BY <1>1, <1>a, <1>c, <2>1 DEF GoalTyped, MemoryTyped, TimersTyped, TurnTyped, WaitsTyped
  <2>5. WayTyped(k)'
    BY <1>1, <1>a, <1>c, <2>1, <2>2, <2>3, <2>4 DEF Operations, Places, Points, StepTyped, Way!None
  <2>6. MoverLimits(k) /\ Movers => ResultsInv' /\ (Pending' <=> Pending)
    BY <1>1, <1>a, <1>c, <2>1, SameResults DEF GoalTyped, InPlace, Leaving, MoverLimits, Movers, OneAtWork,
       TimersTyped, Unmoved, Waited, Working, Way!None
  <2>7. MoverLimits(k) /\ Movers => OneAtWork'
    BY <1>1, <1>a, <1>c, <2>1, <2>6 DEF ContextTyped, GoalTyped, InPlace, Leaving, MemoryTyped, MoverLimits,
       Movers, OneAtWork, StepTyped, TimersTyped, TurnTyped, Unmoved, Waited, WaitsTyped, Working, Way!None
  <2>8. MoverLimits(k) /\ Movers => InPlace'
    BY <1>1, <1>a, <1>c, <2>1, <2>6 DEF ContextTyped, GoalTyped, InPlace, Leaving, MemoryTyped, MoverLimits,
       Movers, OneAtWork, StepTyped, TimersTyped, TurnTyped, Unmoved, Waited, WaitsTyped, Working, Way!None
  <2>9. StrandLimits(k) /\ Strand => Strand'
    BY <1>1, <1>a, <1>c, <2>1 DEF ContextTyped, GoalTyped, MemoryTyped, Pending, Points, StepTyped, Strand,
       StrandLimits, TimersTyped, TurnTyped, UnderWay, WaitsTyped, Way!None
  <2> QED
    BY <2>5, <2>6, <2>7, <2>8, <2>9 DEF Kept, Movers
<1>2. CASE ctx' = [ctx EXCEPT !.state = "paused", !.wp = step.i] /\ step' = Way(k)!Idle
  <2>1. /\ ctx'.state = "paused" /\ ctx'.wp = step.i /\ ctx'.stage = ctx.stage /\ ctx'.at = ctx.at
        /\ ctx'.effects = ctx.effects /\ ctx'.hold = ctx.hold /\ step'.op = "idle"
    BY <1>2, <1>a DEF ContextTyped, StepTyped, Way!Idle, Way!None
  <2>2. ContextTyped(k)'
    BY <1>2, <1>a, <2>1 DEF ContextTyped, Operations, Places, Points, StepTyped, Way!Idle, Way!None
  <2>3. StepTyped(k)'
    BY <1>2, <1>a, <2>1 DEF ContextTyped, Operations, Places, Points, StepTyped, Way!Idle, Way!None
  <2>4. MemoryTyped(k)' /\ GoalTyped(k)' /\ TurnTyped(k)' /\ WaitsTyped(k)' /\ TimersTyped'
    BY <1>2, <1>a, <2>1 DEF GoalTyped, MemoryTyped, TimersTyped, TurnTyped, WaitsTyped
  <2>5. WayTyped(k)'
    BY <1>2, <1>a, <2>1, <2>2, <2>3, <2>4 DEF Operations, Places, Points, StepTyped, Way!None
  <2>6. MoverLimits(k) /\ Movers => ResultsInv' /\ (Pending' <=> Pending)
    BY <1>2, <1>a, <2>1, SameResults DEF GoalTyped, InPlace, Leaving, MoverLimits, Movers, OneAtWork,
       TimersTyped, Unmoved, Waited, Working, Way!None
  <2>7. MoverLimits(k) /\ Movers => OneAtWork'
    BY <1>2, <1>a, <2>1, <2>6 DEF ContextTyped, GoalTyped, InPlace, Leaving, MemoryTyped, MoverLimits,
       Movers, OneAtWork, StepTyped, TimersTyped, TurnTyped, Unmoved, Waited, WaitsTyped, Working, Way!None
  <2>8. MoverLimits(k) /\ Movers => InPlace'
    BY <1>2, <1>a, <2>1, <2>6 DEF ContextTyped, GoalTyped, InPlace, Leaving, MemoryTyped, MoverLimits,
       Movers, OneAtWork, StepTyped, TimersTyped, TurnTyped, Unmoved, Waited, WaitsTyped, Working, Way!None
  <2>9. StrandLimits(k) /\ Strand => Strand'
    BY <1>2, <1>a, <2>1 DEF ContextTyped, GoalTyped, MemoryTyped, Pending, Points, StepTyped, Strand,
       StrandLimits, TimersTyped, TurnTyped, UnderWay, WaitsTyped, Way!None
  <2> QED
    BY <2>5, <2>6, <2>7, <2>8, <2>9 DEF Kept, Movers
<1> QED
  BY <1>a, <1>1, <1>2 DEF ContextTyped, StepTyped, Way!ConfirmPose, Way!Go, Way!Return

\* The side effects of a stop (_start_arrival_side_effects) start at the verified pose.
LEMMA StartEffectsKeeps ==
    ASSUME NEW k, WayLimits(k), WayTyped(k), Way(k)!StartEffects
    PROVE  Kept(k)
<1> USE DEF WayLimits, WayBounds, WayTyped
<1>a. step.op = "effects" /\ step.i \in Points(k) /\ UNCHANGED <<pause, nav, results, turn, adjust, timers>>
       /\ mem' = [mem EXCEPT !.ready = step.i, !.reached = step.i] /\ step' = [op |-> "maybe", i |-> step.i]
  BY DEF Places, Points, StepTyped, Way!At, Way!Go, Way!StartEffects
<1>b. Way(k)!Active(step.i) <=> ctx.stage # NoStage /\ ctx.at = step.i
  BY WhenActive
<1>c. NoStage \notin Stages
  BY StagesAreNamed
<1>1. CASE UNCHANGED <<ctx, waits>>
  <2>1. mem'.ready = step.i /\ step'.op = "maybe" /\ step'.i = step.i
    BY <1>1, <1>a, <1>c DEF ContextTyped, MemoryTyped, Stages, StepTyped
  <2>2. MemoryTyped(k)'
    BY <1>1, <1>a, <2>1 DEF ContextTyped, MemoryTyped, Operations, Places, Points, Stages, StepTyped
  <2>3. StepTyped(k)'
    BY <1>1, <1>a, <2>1 DEF ContextTyped, Operations, Places, Points, Stages, StepTyped
  <2>4. ContextTyped(k)' /\ GoalTyped(k)' /\ TurnTyped(k)' /\ WaitsTyped(k)' /\ TimersTyped'
    BY <1>1, <1>a, <1>c, <2>1 DEF ContextTyped, GoalTyped, TimersTyped, TurnTyped, WaitsTyped
  <2>5. WayTyped(k)'
    BY <1>1, <1>a, <1>c, <2>1, <2>2, <2>3, <2>4 DEF Operations, Places, Points, Stages, StepTyped
  <2>6. MoverLimits(k) /\ Movers => ResultsInv' /\ (Pending' <=> Pending)
    BY <1>1, <1>a, <1>c, <2>1, SameResults DEF GoalTyped, InPlace, Leaving, MoverLimits, Movers, OneAtWork,
       Stages, TimersTyped, Unmoved, Waited, Working
  <2>7. MoverLimits(k) /\ Movers => OneAtWork'
    BY <1>1, <1>a, <1>c, <2>1, <2>6 DEF ContextTyped, GoalTyped, InPlace, Leaving, MemoryTyped, MoverLimits,
       Movers, OneAtWork, Stages, StepTyped, TimersTyped, TurnTyped, Unmoved, Waited, WaitsTyped, Working
  <2>8. MoverLimits(k) /\ Movers => InPlace'
    BY <1>1, <1>a, <1>c, <2>1, <2>6 DEF ContextTyped, GoalTyped, InPlace, Leaving, MemoryTyped, MoverLimits,
       Movers, OneAtWork, Stages, StepTyped, TimersTyped, TurnTyped, Unmoved, Waited, WaitsTyped, Working
  <2>9. StrandLimits(k) /\ Strand => Strand'
    BY <1>1, <1>a, <1>c, <2>1 DEF ContextTyped, GoalTyped, MemoryTyped, Pending, Points, Stages, StepTyped,
       Strand, StrandLimits, TimersTyped, TurnTyped, UnderWay, WaitsTyped
  <2> QED
    BY <2>5, <2>6, <2>7, <2>8, <2>9 DEF Kept, Movers
<1>2. CASE ctx' = [ctx EXCEPT !.effects = TRUE] /\ Begun(k, step.i)
  <2>1. /\ ctx'.stage = ctx.stage /\ ctx'.at = ctx.at /\ ctx'.wp = ctx.wp /\ ctx'.state = ctx.state /\ ctx'.hold = ctx.hold
        /\ mem'.ready = step.i /\ step'.op = "maybe" /\ step'.i = step.i
    BY <1>2, <1>a, <1>c DEF Begun, ContextTyped, MemoryTyped, Stages, StepTyped
  <2>2. ContextTyped(k)'
    BY <1>2, <1>a, <2>1 DEF Begun, ContextTyped, Operations, Places, Points, Stages, StepTyped
  <2>3. MemoryTyped(k)'
    BY <1>2, <1>a, <2>1 DEF Begun, ContextTyped, MemoryTyped, Operations, Places, Points, Stages, StepTyped
  <2>4. WaitsTyped(k)'
    BY <1>2, <1>a, <2>1 DEF Begun, ContextTyped, Operations, Places, Points, Stages, StepTyped, WaitsTyped
  <2>5. StepTyped(k)'
    BY <1>2, <1>a, <2>1 DEF Begun, ContextTyped, Operations, Places, Points, Stages, StepTyped
  <2>6. GoalTyped(k)' /\ TurnTyped(k)' /\ TimersTyped'
    BY <1>2, <1>a, <1>c, <2>1 DEF GoalTyped, TimersTyped, TurnTyped
  <2>7. WayTyped(k)'
    BY <1>2, <1>a, <1>c, <2>1, <2>2, <2>3, <2>4, <2>5, <2>6
       DEF Begun, Operations, Places, Points, Stages, StepTyped
  <2>8. MoverLimits(k) /\ Movers => ResultsInv' /\ (Pending' <=> Pending)
    BY <1>2, <1>a, <1>c, <2>1, SameResults DEF Begun, GoalTyped, InPlace, Leaving, MoverLimits, Movers,
       OneAtWork, Stages, TimersTyped, Unmoved, Waited, Working
  <2>9. MoverLimits(k) /\ Movers => OneAtWork'
    BY <1>2, <1>a, <1>c, <2>1, <2>8 DEF Begun, ContextTyped, GoalTyped, InPlace, Leaving, MemoryTyped,
       MoverLimits, Movers, OneAtWork, Stages, StepTyped, TimersTyped, TurnTyped, Unmoved, Waited,
       WaitsTyped, Working
  <2>10. MoverLimits(k) /\ Movers => InPlace'
    BY <1>2, <1>a, <1>c, <2>1, <2>8 DEF Begun, ContextTyped, GoalTyped, InPlace, Leaving, MemoryTyped,
       MoverLimits, Movers, OneAtWork, Stages, StepTyped, TimersTyped, TurnTyped, Unmoved, Waited,
       WaitsTyped, Working
  <2>11. StrandLimits(k) /\ Strand => Strand'
    BY <1>2, <1>a, <1>c, <2>1 DEF Begun, ContextTyped, GoalTyped, MemoryTyped, Pending, Points, Stages,
       StepTyped, Strand, StrandLimits, TimersTyped, TurnTyped, UnderWay, WaitsTyped
  <2> QED
    BY <2>7, <2>8, <2>9, <2>10, <2>11 DEF Kept, Movers
<1> QED
  BY <1>a, <1>1, <1>2, EffectsBegin DEF ContextTyped, StepTyped, Way!None, Way!StartEffects

\* An approach of the same waypoint starts over with its arrival left behind.
LEMMA ReapproachKeeps ==
    ASSUME NEW k, WayLimits(k), WayTyped(k), Way(k)!Reapproach
    PROVE  Kept(k)
<1> USE DEF WayLimits, WayBounds, WayTyped
<1>a. step.op \in {"reapproach", "reapproach_recovered"} /\ step.i \in Points(k)
       /\ UNCHANGED <<nav, results, turn, waits, timers>>
  BY DEF Places, Points, StepTyped, Way!HoldForPrecision, Way!Reapproach
<1>c. NoStage \notin Stages
  BY StagesAreNamed
<1>1. CASE /\ ctx' = Way(k)!Held(ctx, "xy") /\ pause' = "absolute" /\ adjust' = 0
          /\ step' = Way(k)!Idle /\ mem' = mem
  <2>1. /\ (ctx.state \in {"running", "resuming"} => ctx'.state = "paused") /\ ctx'.state \notin {"running", "resuming"}
        /\ (ctx'.state # "paused" => ctx'.state = ctx.state)
        /\ ctx'.stage = ctx.stage /\ ctx'.at = ctx.at /\ ctx'.wp = ctx.wp /\ ctx'.effects = ctx.effects /\ ctx'.hold = "xy"
        /\ step'.op = "idle"
    BY <1>1, <1>a DEF ContextTyped, StepTyped, Way!Held, Way!Idle, Way!None, Way!Terminal
  <2>2. ContextTyped(k)'
    BY <1>1, <1>a, <2>1
       DEF ContextTyped, Operations, Places, Points, StepTyped, Way!Held, Way!Idle, Way!None, Way!Terminal
  <2>3. StepTyped(k)'
    BY <1>1, <1>a, <2>1
       DEF ContextTyped, Operations, Places, Points, StepTyped, Way!Held, Way!Idle, Way!None, Way!Terminal
  <2>4. MemoryTyped(k)' /\ GoalTyped(k)' /\ TurnTyped(k)' /\ WaitsTyped(k)' /\ TimersTyped'
    BY <1>1, <1>a, <2>1 DEF GoalTyped, MemoryTyped, TimersTyped, TurnTyped, WaitsTyped
  <2>5. WayTyped(k)'
    BY <1>1, <1>a, <2>1, <2>2, <2>3, <2>4 DEF Operations, Places, Points, StepTyped, Way!None
  <2>6. MoverLimits(k) /\ Movers => ResultsInv' /\ (Pending' <=> Pending)
    BY <1>1, <1>a, <2>1, SameResults DEF GoalTyped, InPlace, Leaving, MoverLimits, Movers, OneAtWork,
       TimersTyped, Unmoved, Waited, Working, Way!None
  <2>7. MoverLimits(k) /\ Movers => OneAtWork'
    BY <1>1, <1>a, <2>1, <2>6 DEF ContextTyped, GoalTyped, InPlace, Leaving, MemoryTyped, MoverLimits,
       Movers, OneAtWork, StepTyped, TimersTyped, TurnTyped, Unmoved, Waited, WaitsTyped, Working, Way!None
  <2>8. MoverLimits(k) /\ Movers => InPlace'
    BY <1>1, <1>a, <2>1, <2>6 DEF ContextTyped, GoalTyped, InPlace, Leaving, MemoryTyped, MoverLimits,
       Movers, OneAtWork, StepTyped, TimersTyped, TurnTyped, Unmoved, Waited, WaitsTyped, Working, Way!None
  <2>9. StrandLimits(k) /\ Strand => Strand'
    BY <1>1, <1>a, <2>1 DEF ContextTyped, GoalTyped, MemoryTyped, Pending, Points, StepTyped, Strand,
       StrandLimits, TimersTyped, TurnTyped, UnderWay, WaitsTyped, Way!None
  <2> QED
    BY <2>5, <2>6, <2>7, <2>8, <2>9 DEF Kept, Movers
<1>2. CASE /\ ctx' = [Way(k)!Staged(Way(k)!Forgotten(ctx), step.i, "xy_verified") EXCEPT !.coarse = TRUE, !.segs = 0]
          /\ mem' = [mem EXCEPT !.headed = 0, !.conv = 0] /\ adjust' = 0
          /\ step' = [op |-> "result", i |-> step.i] /\ UNCHANGED pause
  <2>1. /\ ctx'.stage # NoStage /\ ctx'.at = step.i /\ ctx'.wp = ctx.wp /\ ctx'.state = ctx.state
        /\ ctx'.effects = ctx.effects /\ ctx'.hold = ctx.hold
        /\ step'.op = "result" /\ step'.i = step.i
        /\ mem'.ready = mem.ready
    BY <1>2, <1>a, <1>c DEF ContextTyped, MemoryTyped, Stages, StepTyped, Way!Forgotten, Way!None, Way!Staged
  <2>2. ContextTyped(k)'
    BY <1>2, <1>a, <2>1
       DEF ContextTyped, Operations, Places, Points, StepTyped, Way!Forgotten, Way!None, Way!Staged
  <2>3. MemoryTyped(k)'
    BY <1>2, <1>a, <2>1 DEF ContextTyped, MemoryTyped, Operations, Places, Points, StepTyped, Way!Forgotten,
       Way!None, Way!Staged
  <2>4. StepTyped(k)'
    BY <1>2, <1>a, <2>1
       DEF ContextTyped, Operations, Places, Points, StepTyped, Way!Forgotten, Way!None, Way!Staged
  <2>5. GoalTyped(k)' /\ TurnTyped(k)' /\ WaitsTyped(k)' /\ TimersTyped'
    BY <1>2, <1>a, <1>c, <2>1 DEF GoalTyped, TimersTyped, TurnTyped, WaitsTyped
  <2>6. WayTyped(k)'
    BY <1>2, <1>a, <1>c, <2>1, <2>2, <2>3, <2>4, <2>5 DEF Operations, Places, Points, StepTyped, Way!None
  <2>7. MoverLimits(k) /\ Movers => ResultsInv' /\ (Pending' <=> Pending)
    BY <1>2, <1>a, <1>c, <2>1, SameResults DEF GoalTyped, InPlace, Leaving, MoverLimits, Movers, OneAtWork,
       TimersTyped, Unmoved, Waited, Working, Way!None
  <2>8. MoverLimits(k) /\ Movers => OneAtWork'
    BY <1>2, <1>a, <1>c, <2>1, <2>7 DEF ContextTyped, GoalTyped, InPlace, Leaving, MemoryTyped, MoverLimits,
       Movers, OneAtWork, StepTyped, TimersTyped, TurnTyped, Unmoved, Waited, WaitsTyped, Working, Way!None
  <2>9. MoverLimits(k) /\ Movers => InPlace'
    BY <1>2, <1>a, <1>c, <2>1, <2>7 DEF ContextTyped, GoalTyped, InPlace, Leaving, MemoryTyped, MoverLimits,
       Movers, OneAtWork, StepTyped, TimersTyped, TurnTyped, Unmoved, Waited, WaitsTyped, Working, Way!None
  <2>10. StrandLimits(k) /\ Strand => Strand'
    BY <1>2, <1>a, <1>c, <2>1 DEF ContextTyped, GoalTyped, MemoryTyped, Pending, Points, StepTyped, Strand,
       StrandLimits, TimersTyped, TurnTyped, UnderWay, WaitsTyped, Way!None
  <2> QED
    BY <2>6, <2>7, <2>8, <2>9, <2>10 DEF Kept, Movers
<1>3. CASE /\ ctx' = Way(k)!Held(Way(k)!Forgotten(ctx), "re_exhausted")
          /\ adjust' = 0 /\ step' = Way(k)!Idle /\ UNCHANGED <<mem, pause>>
  <2>1. /\ (ctx.state \in {"running", "resuming"} => ctx'.state = "paused") /\ ctx'.state \notin {"running", "resuming"}
        /\ (ctx'.state # "paused" => ctx'.state = ctx.state)
        /\ ctx'.stage = ctx.stage /\ ctx'.at = ctx.at /\ ctx'.wp = ctx.wp /\ ctx'.effects = ctx.effects /\ ctx'.hold = "re_exhausted"
        /\ step'.op = "idle"
    BY <1>3, <1>a DEF ContextTyped, StepTyped, Way!Forgotten, Way!Held, Way!Idle, Way!None, Way!Terminal
  <2>2. ContextTyped(k)'
    BY <1>3, <1>a, <2>1 DEF ContextTyped, Operations, Places, Points, StepTyped, Way!Forgotten, Way!Held,
       Way!Idle, Way!None, Way!Terminal
  <2>3. StepTyped(k)'
    BY <1>3, <1>a, <2>1 DEF ContextTyped, Operations, Places, Points, StepTyped, Way!Forgotten, Way!Held,
       Way!Idle, Way!None, Way!Terminal
  <2>4. MemoryTyped(k)' /\ GoalTyped(k)' /\ TurnTyped(k)' /\ WaitsTyped(k)' /\ TimersTyped'
    BY <1>3, <1>a, <2>1 DEF GoalTyped, MemoryTyped, TimersTyped, TurnTyped, WaitsTyped
  <2>5. WayTyped(k)'
    BY <1>3, <1>a, <2>1, <2>2, <2>3, <2>4 DEF Operations, Places, Points, StepTyped, Way!None
  <2>6. MoverLimits(k) /\ Movers => ResultsInv' /\ (Pending' <=> Pending)
    BY <1>3, <1>a, <2>1, SameResults DEF GoalTyped, InPlace, Leaving, MoverLimits, Movers, OneAtWork,
       TimersTyped, Unmoved, Waited, Working, Way!None
  <2>7. MoverLimits(k) /\ Movers => OneAtWork'
    BY <1>3, <1>a, <2>1, <2>6 DEF ContextTyped, GoalTyped, InPlace, Leaving, MemoryTyped, MoverLimits,
       Movers, OneAtWork, StepTyped, TimersTyped, TurnTyped, Unmoved, Waited, WaitsTyped, Working, Way!None
  <2>8. MoverLimits(k) /\ Movers => InPlace'
    BY <1>3, <1>a, <2>1, <2>6 DEF ContextTyped, GoalTyped, InPlace, Leaving, MemoryTyped, MoverLimits,
       Movers, OneAtWork, StepTyped, TimersTyped, TurnTyped, Unmoved, Waited, WaitsTyped, Working, Way!None
  <2>9. StrandLimits(k) /\ Strand => Strand'
    BY <1>3, <1>a, <2>1 DEF ContextTyped, GoalTyped, MemoryTyped, Pending, Points, StepTyped, Strand,
       StrandLimits, TimersTyped, TurnTyped, UnderWay, WaitsTyped, Way!None
  <2> QED
    BY <2>5, <2>6, <2>7, <2>8, <2>9 DEF Kept, Movers
<1>4. CASE /\ ctx' = Way(k)!Held(Way(k)!Staged(Way(k)!Forgotten(ctx), step.i, "coarse_pending"), "re_coarse")
          /\ adjust' = 0 /\ step' = Way(k)!Idle /\ UNCHANGED <<mem, pause>>
  <2>1. /\ (ctx.state \in {"running", "resuming"} => ctx'.state = "paused") /\ ctx'.state \notin {"running", "resuming"}
        /\ (ctx'.state # "paused" => ctx'.state = ctx.state)
        /\ ctx'.stage # NoStage /\ ctx'.at = step.i /\ ctx'.wp = ctx.wp /\ ctx'.effects = ctx.effects /\ ctx'.hold = "re_coarse"
        /\ step'.op = "idle"
    BY <1>4, <1>a, <1>c DEF ContextTyped, Stages, StepTyped, Way!Forgotten, Way!Held, Way!Idle, Way!None,
       Way!Staged, Way!Terminal
  <2>2. ContextTyped(k)'
    BY <1>4, <1>a, <2>1 DEF ContextTyped, Operations, Places, Points, StepTyped, Way!Forgotten, Way!Held,
       Way!Idle, Way!None, Way!Staged, Way!Terminal
  <2>3. StepTyped(k)'
    BY <1>4, <1>a, <2>1 DEF ContextTyped, Operations, Places, Points, StepTyped, Way!Forgotten, Way!Held,
       Way!Idle, Way!None, Way!Staged, Way!Terminal
  <2>4. MemoryTyped(k)' /\ GoalTyped(k)' /\ TurnTyped(k)' /\ WaitsTyped(k)' /\ TimersTyped'
    BY <1>4, <1>a, <1>c, <2>1 DEF GoalTyped, MemoryTyped, TimersTyped, TurnTyped, WaitsTyped
  <2>5. WayTyped(k)'
    BY <1>4, <1>a, <1>c, <2>1, <2>2, <2>3, <2>4 DEF Operations, Places, Points, StepTyped, Way!None
  <2>6. MoverLimits(k) /\ Movers => ResultsInv' /\ (Pending' <=> Pending)
    BY <1>4, <1>a, <1>c, <2>1, SameResults DEF GoalTyped, InPlace, Leaving, MoverLimits, Movers, OneAtWork,
       TimersTyped, Unmoved, Waited, Working, Way!None
  <2>7. MoverLimits(k) /\ Movers => OneAtWork'
    BY <1>4, <1>a, <1>c, <2>1, <2>6 DEF ContextTyped, GoalTyped, InPlace, Leaving, MemoryTyped, MoverLimits,
       Movers, OneAtWork, StepTyped, TimersTyped, TurnTyped, Unmoved, Waited, WaitsTyped, Working, Way!None
  <2>8. MoverLimits(k) /\ Movers => InPlace'
    BY <1>4, <1>a, <1>c, <2>1, <2>6 DEF ContextTyped, GoalTyped, InPlace, Leaving, MemoryTyped, MoverLimits,
       Movers, OneAtWork, StepTyped, TimersTyped, TurnTyped, Unmoved, Waited, WaitsTyped, Working, Way!None
  <2>9. StrandLimits(k) /\ Strand => Strand'
    BY <1>4, <1>a, <1>c, <2>1 DEF ContextTyped, GoalTyped, MemoryTyped, Pending, Points, StepTyped, Strand,
       StrandLimits, TimersTyped, TurnTyped, UnderWay, WaitsTyped, Way!None
  <2> QED
    BY <2>5, <2>6, <2>7, <2>8, <2>9 DEF Kept, Movers
<1>5. CASE /\ ctx.reN < k.reapproach
          /\ ctx' = [ctx EXCEPT !.reAt = step.i, !.reN = @ + 1, !.wp = step.i, !.state = "running", !.segs = 0]
          /\ mem' = [mem EXCEPT !.corrected = 0, !.headed = 0, !.conv = 0] /\ adjust' = 0
          /\ step' = [op |-> "redispatch", i |-> step.i] /\ UNCHANGED pause
  <2>1. /\ ctx'.stage = ctx.stage /\ ctx'.at = ctx.at /\ ctx'.wp = step.i /\ ctx'.state = "running"
        /\ ctx'.effects = ctx.effects /\ ctx'.hold = ctx.hold
        /\ step'.op = "redispatch" /\ step'.i = step.i
        /\ mem'.ready = mem.ready
    BY <1>5, <1>a DEF ContextTyped, MemoryTyped, StepTyped, Way!None
  <2>2. ContextTyped(k)'
    BY <1>5, <1>a, <2>1 DEF ContextTyped, Operations, Places, Points, StepTyped, Way!None
  <2>3. MemoryTyped(k)'
    BY <1>5, <1>a, <2>1 DEF ContextTyped, MemoryTyped, Operations, Places, Points, StepTyped, Way!None
  <2>4. StepTyped(k)'
    BY <1>5, <1>a, <2>1 DEF ContextTyped, Operations, Places, Points, StepTyped, Way!None
  <2>5. GoalTyped(k)' /\ TurnTyped(k)' /\ WaitsTyped(k)' /\ TimersTyped'
    BY <1>5, <1>a, <2>1 DEF GoalTyped, TimersTyped, TurnTyped, WaitsTyped
  <2>6. WayTyped(k)'
    BY <1>5, <1>a, <2>1, <2>2, <2>3, <2>4, <2>5 DEF Operations, Places, Points, StepTyped, Way!None
  <2>7. MoverLimits(k) /\ Movers => ResultsInv' /\ (Pending' <=> Pending)
    BY <1>5, <1>a, <2>1, SameResults DEF GoalTyped, InPlace, Leaving, MoverLimits, Movers, OneAtWork,
       TimersTyped, Unmoved, Waited, Working, Way!None
  <2>8. MoverLimits(k) /\ Movers => OneAtWork'
    BY <1>5, <1>a, <2>1, <2>7 DEF ContextTyped, GoalTyped, InPlace, Leaving, MemoryTyped, MoverLimits,
       Movers, OneAtWork, StepTyped, TimersTyped, TurnTyped, Unmoved, Waited, WaitsTyped, Working, Way!None
  <2>9. MoverLimits(k) /\ Movers => InPlace'
    BY <1>5, <1>a, <2>1, <2>7 DEF ContextTyped, GoalTyped, InPlace, Leaving, MemoryTyped, MoverLimits,
       Movers, OneAtWork, StepTyped, TimersTyped, TurnTyped, Unmoved, Waited, WaitsTyped, Working, Way!None
  <2>10. StrandLimits(k) /\ Strand => Strand'
    BY <1>5, <1>a, <2>1 DEF ContextTyped, GoalTyped, MemoryTyped, Pending, Points, StepTyped, Strand,
       StrandLimits, TimersTyped, TurnTyped, UnderWay, WaitsTyped, Way!None
  <2> QED
    BY <2>6, <2>7, <2>8, <2>9, <2>10 DEF Kept, Movers
<1>6. ASSUME NEW d, NEW precise \in BOOLEAN,
             \/ precise /\ Way(k)!HoldForPrecision("xy") /\ UNCHANGED <<mem, nav, turn>>
             \/ /\ ctx.reN >= k.reapproach
                /\ \/ /\ ctx' = [Way(k)!Staged(Way(k)!Forgotten(ctx), step.i, "xy_verified") EXCEPT !.coarse = TRUE, !.segs = 0]
                      /\ mem' = [mem EXCEPT !.headed = Way(k)!None, !.conv = 0] /\ adjust' = Way(k)!None
                      /\ Way(k)!Go("result", step.i) /\ UNCHANGED <<pause, nav, turn>>
                   \/ /\ ctx' = Way(k)!Held(IF d \in Way(k)!Near THEN Way(k)!Forgotten(ctx)
                                            ELSE Way(k)!Staged(Way(k)!Forgotten(ctx), step.i, "coarse_pending"),
                                            IF d \in Way(k)!Near THEN "re_exhausted" ELSE "re_coarse")
                      /\ adjust' = Way(k)!None /\ Way(k)!Return /\ UNCHANGED <<mem, pause, nav, turn>>
             \/ /\ ~(ctx.reN >= k.reapproach)
                /\ ctx' = [ctx EXCEPT !.reAt = step.i, !.reN = @ + 1, !.wp = step.i, !.state = "running", !.segs = 0]
                /\ mem' = [mem EXCEPT !.corrected = Way(k)!None, !.headed = Way(k)!None, !.conv = 0] /\ adjust' = Way(k)!None
                /\ Way(k)!Go("redispatch", step.i) /\ UNCHANGED <<pause, nav, turn>>
      PROVE  Kept(k)
  <2>1. CASE Way(k)!HoldForPrecision("xy") /\ UNCHANGED mem
    BY <1>1, <2>1 DEF Way!HoldForPrecision, Way!Return, Way!None
  <2>2. CASE ~(ctx.reN >= k.reapproach)
    BY <1>5, <1>6, <2>1, <2>2 DEF ContextTyped, Way!Go, Way!None
  <2>3. CASE d \in Way(k)!Near /\ ctx.reN >= k.reapproach
    BY <1>2, <1>3, <1>6, <2>1, <2>3 DEF Way!Go, Way!Return, Way!None
  <2>4. CASE d \notin Way(k)!Near /\ ctx.reN >= k.reapproach
    BY <1>2, <1>4, <1>6, <2>1, <2>4 DEF Way!Go, Way!Return, Way!None
  <2> QED
    BY <2>2, <2>3, <2>4
<1> QED
  BY <1>6 DEF Way!Reapproach, Way!At

\* A turn that is aligned ends and has its goal dispatched or its arrival go on.
LEMMA TurnAlignedKeeps ==
    ASSUME NEW k, WayLimits(k), WayTyped(k), Way(k)!TurnAligned
    PROVE  Kept(k)
<1> USE DEF WayLimits, WayBounds, WayTyped
<1>a. step.op = "idle" /\ turn.worker /\ turn' = NoTurn /\ ctx.state \notin {"pausing", "paused", "completed", "failed"}
       /\ UNCHANGED <<pause, nav, results, adjust, waits, timers>>
  BY DEF NoTurn, Places, Points, StepTyped, Way!Idle, Way!Moving, Way!NoTurn, Way!None, Way!Terminal,
     Way!TurnAligned
<1>b. turn.at \in Points(k) /\ turn.at # 0
  BY <1>a DEF TurnTyped, NoTurn, Places, Points
<1>c. NoStage \notin Stages
  BY StagesAreNamed
<1>1. CASE /\ turn.arrival /\ mem' = [mem EXCEPT !.headed = turn.at, !.departed = 0]
          /\ ctx' = Way(k)!Staged(ctx, turn.at, "heading_aligned") /\ step' = [op |-> "result", i |-> turn.at]
  <2>1. /\ ctx'.stage # NoStage /\ ctx'.at = turn.at /\ ctx'.wp = ctx.wp /\ ctx'.state = ctx.state
        /\ ctx'.effects = ctx.effects /\ ctx'.hold = ctx.hold
        /\ step'.op = "result" /\ step'.i = turn.at
        /\ mem'.ready = mem.ready
    BY <1>1, <1>a, <1>b, <1>c
       DEF ContextTyped, MemoryTyped, NoTurn, Stages, StepTyped, Way!NoTurn, Way!None, Way!Staged
  <2>2. ContextTyped(k)'
    BY <1>1, <1>a, <2>1 DEF ContextTyped, NoTurn, Operations, Places, Points, StepTyped, TurnTyped,
       Way!NoTurn, Way!None, Way!Staged
  <2>3. MemoryTyped(k)'
    BY <1>1, <1>a, <2>1 DEF ContextTyped, MemoryTyped, NoTurn, Operations, Places, Points, StepTyped,
       TurnTyped, Way!NoTurn, Way!None, Way!Staged
  <2>4. TurnTyped(k)'
    BY <1>1, <1>a, <2>1 DEF ContextTyped, NoTurn, Operations, Places, Points, StepTyped, TurnTyped,
       Way!NoTurn, Way!None, Way!Staged
  <2>5. StepTyped(k)'
    BY <1>1, <1>a, <2>1 DEF ContextTyped, NoTurn, Operations, Places, Points, StepTyped, TurnTyped,
       Way!NoTurn, Way!None, Way!Staged
  <2>6. GoalTyped(k)' /\ WaitsTyped(k)' /\ TimersTyped'
    BY <1>1, <1>a, <1>b, <1>c, <2>1 DEF GoalTyped, TimersTyped, WaitsTyped
  <2>7. WayTyped(k)'
    BY <1>1, <1>a, <1>b, <1>c, <2>1, <2>2, <2>3, <2>4, <2>5, <2>6
       DEF NoTurn, Operations, Places, Points, StepTyped, Way!NoTurn, Way!None
  <2>8. MoverLimits(k) /\ Movers => ResultsInv' /\ (Pending' <=> Pending)
    BY <1>1, <1>a, <1>b, <1>c, <2>1, SameResults DEF GoalTyped, InPlace, Leaving, MoverLimits, Movers,
       NoTurn, OneAtWork, TimersTyped, Unmoved, Waited, Working, Way!NoTurn, Way!None
  <2>9. MoverLimits(k) /\ Movers => OneAtWork'
    BY <1>1, <1>a, <1>b, <1>c, <2>1, <2>8 DEF ContextTyped, GoalTyped, InPlace, Leaving, MemoryTyped,
       MoverLimits, Movers, NoTurn, OneAtWork, StepTyped, TimersTyped, TurnTyped, Unmoved, Waited,
       WaitsTyped, Working, Way!NoTurn, Way!None
  <2>10. MoverLimits(k) /\ Movers => InPlace'
    BY <1>1, <1>a, <1>b, <1>c, <2>1, <2>8 DEF ContextTyped, GoalTyped, InPlace, Leaving, MemoryTyped,
       MoverLimits, Movers, NoTurn, OneAtWork, StepTyped, TimersTyped, TurnTyped, Unmoved, Waited,
       WaitsTyped, Working, Way!NoTurn, Way!None
  <2>11. StrandLimits(k) => ~Strand
    BY <1>1, <1>a, <1>b, <1>c, <2>1 DEF ContextTyped, GoalTyped, MemoryTyped, NoTurn, Points, StepTyped,
       Strand, StrandLimits, TurnTyped, UnderWay, WaitsTyped, Way!NoTurn, Way!None
  <2> QED
    BY <2>7, <2>8, <2>9, <2>10, <2>11 DEF Kept, Movers
<1>2. CASE /\ ~turn.arrival /\ turn.cruise # 0
          /\ UNCHANGED <<ctx, mem>> /\ step' = [op |-> "dispatch", i |-> turn.cruise]
  <2>1. TurnTyped(k)'
    BY <1>2, <1>a
       DEF ContextTyped, NoTurn, Operations, Places, Points, StepTyped, TurnTyped, Way!NoTurn, Way!None
  <2>2. StepTyped(k)'
    BY <1>2, <1>a
       DEF ContextTyped, NoTurn, Operations, Places, Points, StepTyped, TurnTyped, Way!NoTurn, Way!None
  <2>3. ContextTyped(k)' /\ MemoryTyped(k)' /\ GoalTyped(k)' /\ WaitsTyped(k)' /\ TimersTyped'
    BY <1>2, <1>a, <1>b DEF ContextTyped, GoalTyped, MemoryTyped, TimersTyped, WaitsTyped
  <2>4. WayTyped(k)'
    BY <1>2, <1>a, <1>b, <2>1, <2>2, <2>3
       DEF NoTurn, Operations, Places, Points, StepTyped, Way!NoTurn, Way!None
  <2>5. MoverLimits(k) /\ Movers => ResultsInv' /\ (Pending' <=> Pending)
    BY <1>2, <1>a, <1>b, SameResults DEF GoalTyped, InPlace, Leaving, MoverLimits, Movers, NoTurn, OneAtWork,
       TimersTyped, Unmoved, Waited, Working, Way!NoTurn, Way!None
  <2>6. MoverLimits(k) /\ Movers => OneAtWork'
    BY <1>2, <1>a, <1>b, <2>5 DEF ContextTyped, GoalTyped, InPlace, Leaving, MemoryTyped, MoverLimits,
       Movers, NoTurn, OneAtWork, StepTyped, TimersTyped, TurnTyped, Unmoved, Waited, WaitsTyped, Working,
       Way!NoTurn, Way!None
  <2>7. MoverLimits(k) /\ Movers => InPlace'
    BY <1>2, <1>a, <1>b, <2>5 DEF ContextTyped, GoalTyped, InPlace, Leaving, MemoryTyped, MoverLimits,
       Movers, NoTurn, OneAtWork, StepTyped, TimersTyped, TurnTyped, Unmoved, Waited, WaitsTyped, Working,
       Way!NoTurn, Way!None
  <2>8. StrandLimits(k) => ~Strand
    BY <1>2, <1>a, <1>b DEF ContextTyped, GoalTyped, MemoryTyped, NoTurn, Points, StepTyped, Strand,
       StrandLimits, TurnTyped, UnderWay, WaitsTyped, Way!NoTurn, Way!None
  <2> QED
    BY <2>4, <2>5, <2>6, <2>7, <2>8 DEF Kept, Movers
<1>3. CASE /\ ~turn.arrival /\ turn.cruise = 0 /\ ctx' = ctx
          /\ mem' = [mem EXCEPT !.departed = turn.at] /\ step' = [op |-> "continue", i |-> turn.at]
  <2>1. /\ step'.op = "continue" /\ step'.i = turn.at
        /\ mem'.ready = mem.ready
    BY <1>3, <1>a, <1>b DEF ContextTyped, MemoryTyped, NoTurn, StepTyped, Way!NoTurn, Way!None
  <2>2. MemoryTyped(k)'
    BY <1>3, <1>a, <2>1 DEF ContextTyped, MemoryTyped, NoTurn, Operations, Places, Points, StepTyped,
       TurnTyped, Way!NoTurn, Way!None
  <2>3. TurnTyped(k)'
    BY <1>3, <1>a, <2>1
       DEF ContextTyped, NoTurn, Operations, Places, Points, StepTyped, TurnTyped, Way!NoTurn, Way!None
  <2>4. StepTyped(k)'
    BY <1>3, <1>a, <2>1
       DEF ContextTyped, NoTurn, Operations, Places, Points, StepTyped, TurnTyped, Way!NoTurn, Way!None
  <2>5. ContextTyped(k)' /\ GoalTyped(k)' /\ WaitsTyped(k)' /\ TimersTyped'
    BY <1>3, <1>a, <1>b, <2>1 DEF ContextTyped, GoalTyped, TimersTyped, WaitsTyped
  <2>6. WayTyped(k)'
    BY <1>3, <1>a, <1>b, <2>1, <2>2, <2>3, <2>4, <2>5
       DEF NoTurn, Operations, Places, Points, StepTyped, Way!NoTurn, Way!None
  <2>7. MoverLimits(k) /\ Movers => ResultsInv' /\ (Pending' <=> Pending)
    BY <1>3, <1>a, <1>b, <2>1, SameResults DEF GoalTyped, InPlace, Leaving, MoverLimits, Movers, NoTurn,
       OneAtWork, TimersTyped, Unmoved, Waited, Working, Way!NoTurn, Way!None
  <2>8. MoverLimits(k) /\ Movers => OneAtWork'
    BY <1>3, <1>a, <1>b, <2>1, <2>7 DEF ContextTyped, GoalTyped, InPlace, Leaving, MemoryTyped, MoverLimits,
       Movers, NoTurn, OneAtWork, StepTyped, TimersTyped, TurnTyped, Unmoved, Waited, WaitsTyped, Working,
       Way!NoTurn, Way!None
  <2>9. MoverLimits(k) /\ Movers => InPlace'
    BY <1>3, <1>a, <1>b, <2>1, <2>7 DEF ContextTyped, GoalTyped, InPlace, Leaving, MemoryTyped, MoverLimits,
       Movers, NoTurn, OneAtWork, StepTyped, TimersTyped, TurnTyped, Unmoved, Waited, WaitsTyped, Working,
       Way!NoTurn, Way!None
  <2>10. StrandLimits(k) => ~Strand
    BY <1>3, <1>a, <1>b, <2>1 DEF ContextTyped, GoalTyped, MemoryTyped, NoTurn, Points, StepTyped, Strand,
       StrandLimits, TurnTyped, UnderWay, WaitsTyped, Way!NoTurn, Way!None
  <2> QED
    BY <2>6, <2>7, <2>8, <2>9, <2>10 DEF Kept, Movers
<1> QED
  BY <1>a, <1>1, <1>2, <1>3 DEF ContextTyped, StepTyped, Way!Go, Way!None, Way!TurnAligned

\* The turn worker gives up: its timeout is left.
LEMMA TurnWorkerEndsKeeps ==
    ASSUME NEW k, WayLimits(k), WayTyped(k), Way(k)!TurnWorkerEnds
    PROVE  Kept(k)
<1> USE DEF WayLimits, WayBounds, WayTyped
<1>a. turn.worker /\ UNCHANGED <<ctx, mem, pause, nav, results, adjust, waits, timers, step>>
  BY DEF Places, Points, StepTyped, Way!TurnWorkerEnds
<1>b. turn.at \in Points(k) /\ turn.at # 0
  BY <1>a DEF TurnTyped, NoTurn, Places, Points
<1>1. CASE turn' = [turn EXCEPT !.worker = FALSE]
  <2>1. turn'.at = turn.at /\ turn'.cruise = turn.cruise /\ turn'.arrival = turn.arrival
    BY <1>1, <1>a, <1>b DEF ContextTyped, StepTyped, TurnTyped
  <2>2. TurnTyped(k)'
    BY <1>1, <1>a, <2>1 DEF ContextTyped, NoTurn, Operations, Places, Points, StepTyped, TurnTyped
  <2>3. ContextTyped(k)' /\ MemoryTyped(k)' /\ GoalTyped(k)' /\ WaitsTyped(k)' /\ TimersTyped' /\ StepTyped(k)'
    BY <1>1, <1>a, <1>b, <2>1 DEF ContextTyped, GoalTyped, MemoryTyped, StepTyped, TimersTyped, WaitsTyped
  <2>4. WayTyped(k)'
    BY <1>1, <1>a, <1>b, <2>1, <2>2, <2>3 DEF Operations, Places, Points, StepTyped
  <2>5. MoverLimits(k) /\ Movers => ResultsInv' /\ (Pending' <=> Pending)
    BY <1>1, <1>a, <1>b, <2>1, SameResults
       DEF GoalTyped, InPlace, Leaving, MoverLimits, Movers, OneAtWork, TimersTyped, Unmoved, Waited, Working
  <2>6. MoverLimits(k) /\ Movers => OneAtWork'
    BY <1>1, <1>a, <1>b, <2>1, <2>5 DEF ContextTyped, GoalTyped, InPlace, Leaving, MemoryTyped, MoverLimits,
       Movers, OneAtWork, StepTyped, TimersTyped, TurnTyped, Unmoved, Waited, WaitsTyped, Working
  <2>7. MoverLimits(k) /\ Movers => InPlace'
    BY <1>1, <1>a, <1>b, <2>1, <2>5 DEF ContextTyped, GoalTyped, InPlace, Leaving, MemoryTyped, MoverLimits,
       Movers, OneAtWork, StepTyped, TimersTyped, TurnTyped, Unmoved, Waited, WaitsTyped, Working
  <2>8. StrandLimits(k) => ~Strand
    BY <1>1, <1>a, <1>b, <2>1 DEF ContextTyped, GoalTyped, MemoryTyped, Points, StepTyped, Strand,
       StrandLimits, TurnTyped, UnderWay, WaitsTyped
  <2> QED
    BY <2>4, <2>5, <2>6, <2>7, <2>8 DEF Kept, Movers
<1> QED
  BY <1>a, <1>1 DEF ContextTyped, StepTyped, Way!TurnWorkerEnds

\* The timeout of a turn ends it and has the task go on.
LEMMA TurnTimeoutKeeps ==
    ASSUME NEW k, WayLimits(k), WayTyped(k), Way(k)!TurnTimeout
    PROVE  Kept(k)
<1> USE DEF WayLimits, WayBounds, WayTyped
<1>a. step.op = "idle" /\ turn.timer /\ UNCHANGED <<pause, results, waits, timers>>
  BY DEF Places, Points, StepTyped, Way!Idle, Way!TurnTimeout
<1>b. turn.at \in Points(k) /\ turn.at # 0
  BY <1>a DEF TurnTyped, NoTurn, Places, Points
<1>1. CASE /\ turn' = [turn EXCEPT !.timer = FALSE]
          /\ UNCHANGED <<ctx, mem, nav, adjust, step>>
  <2>1. turn'.at = turn.at /\ turn'.cruise = turn.cruise /\ turn'.arrival = turn.arrival
    BY <1>1, <1>a, <1>b DEF ContextTyped, StepTyped, TurnTyped
  <2>2. TurnTyped(k)'
    BY <1>1, <1>a, <2>1 DEF ContextTyped, NoTurn, Operations, Places, Points, StepTyped, TurnTyped
  <2>3. ContextTyped(k)' /\ MemoryTyped(k)' /\ GoalTyped(k)' /\ WaitsTyped(k)' /\ TimersTyped' /\ StepTyped(k)'
    BY <1>1, <1>a, <1>b, <2>1 DEF ContextTyped, GoalTyped, MemoryTyped, StepTyped, TimersTyped, WaitsTyped
  <2>4. WayTyped(k)'
    BY <1>1, <1>a, <1>b, <2>1, <2>2, <2>3 DEF Operations, Places, Points, StepTyped
  <2>5. MoverLimits(k) /\ Movers => ResultsInv' /\ (Pending' <=> Pending)
    BY <1>1, <1>a, <1>b, <2>1, SameResults
       DEF GoalTyped, InPlace, Leaving, MoverLimits, Movers, OneAtWork, TimersTyped, Unmoved, Waited, Working
  <2>6. MoverLimits(k) /\ Movers => OneAtWork'
    BY <1>1, <1>a, <1>b, <2>1, <2>5 DEF ContextTyped, GoalTyped, InPlace, Leaving, MemoryTyped, MoverLimits,
       Movers, OneAtWork, StepTyped, TimersTyped, TurnTyped, Unmoved, Waited, WaitsTyped, Working
  <2>7. MoverLimits(k) /\ Movers => InPlace'
    BY <1>1, <1>a, <1>b, <2>1, <2>5 DEF ContextTyped, GoalTyped, InPlace, Leaving, MemoryTyped, MoverLimits,
       Movers, OneAtWork, StepTyped, TimersTyped, TurnTyped, Unmoved, Waited, WaitsTyped, Working
  <2>8. StrandLimits(k) => ~Strand
    BY <1>1, <1>a, <1>b, <2>1 DEF ContextTyped, GoalTyped, MemoryTyped, Points, StepTyped, Strand,
       StrandLimits, TurnTyped, UnderWay, WaitsTyped
  <2> QED
    BY <2>4, <2>5, <2>6, <2>7, <2>8 DEF Kept, Movers
<1>2. CASE /\ ctx.state \notin {"pausing", "paused", "completed", "failed"}
          /\ turn' = NoTurn /\ nav' = Way(k)!Invalidated /\ mem' = [mem EXCEPT !.headed = 0, !.departed = 0]
          /\ ctx' = [ctx EXCEPT !.state = "paused"] /\ step' = Way(k)!Idle /\ UNCHANGED adjust
  <2>1. /\ ctx'.state = "paused" /\ ctx'.wp = ctx.wp /\ ctx'.stage = ctx.stage /\ ctx'.at = ctx.at
        /\ ctx'.effects = ctx.effects /\ ctx'.hold = ctx.hold /\ step'.op = "idle"
        /\ mem'.ready = mem.ready
        /\ nav'.gen = nav.gen + 1 /\ nav'.live = nav.live /\ nav'.offset = nav.offset /\ turn'.at = 0
    BY <1>2, <1>a, <1>b DEF ContextTyped, GoalTyped, MemoryTyped, NoTurn, StepTyped, Way!Idle,
       Way!Invalidated, Way!NoTurn, Way!None
  <2>2. ContextTyped(k)'
    BY <1>2, <1>a, <2>1 DEF ContextTyped, NoTurn, Operations, Places, Points, StepTyped, Way!Idle,
       Way!Invalidated, Way!NoTurn, Way!None
  <2>3. MemoryTyped(k)'
    BY <1>2, <1>a, <2>1 DEF ContextTyped, MemoryTyped, NoTurn, Operations, Places, Points, StepTyped,
       Way!Idle, Way!Invalidated, Way!NoTurn, Way!None
  <2>4. GoalTyped(k)'
    BY <1>2, <1>a, <2>1 DEF ContextTyped, GoalTyped, NoTurn, Operations, Places, Points, StepTyped, Way!Idle,
       Way!Invalidated, Way!NoTurn, Way!None
  <2>5. TurnTyped(k)'
    BY <1>2, <1>a, <2>1 DEF ContextTyped, NoTurn, Operations, Places, Points, StepTyped, TurnTyped, Way!Idle,
       Way!Invalidated, Way!NoTurn, Way!None
  <2>6. StepTyped(k)'
    BY <1>2, <1>a, <2>1 DEF ContextTyped, NoTurn, Operations, Places, Points, StepTyped, Way!Idle,
       Way!Invalidated, Way!NoTurn, Way!None
  <2>7. WaitsTyped(k)' /\ TimersTyped'
    BY <1>2, <1>a, <1>b, <2>1 DEF TimersTyped, WaitsTyped
  <2>8. WayTyped(k)'
    BY <1>2, <1>a, <1>b, <2>1, <2>2, <2>3, <2>4, <2>5, <2>6, <2>7 DEF Operations, Places, Points, StepTyped
  <2>9. MoverLimits(k) /\ Movers => ResultsInv' /\ ~Pending' /\ ~nav'.live
    BY <1>2, <1>a, <1>b, <2>1, Overtaken
       DEF GoalTyped, InPlace, Leaving, MoverLimits, Movers, OneAtWork, TimersTyped, Unmoved, Waited, Working
  <2>10. MoverLimits(k) /\ Movers => OneAtWork'
    BY <1>2, <1>a, <1>b, <2>1, <2>9 DEF ContextTyped, GoalTyped, InPlace, Leaving, MemoryTyped, MoverLimits,
       Movers, OneAtWork, StepTyped, TimersTyped, TurnTyped, Unmoved, Waited, WaitsTyped, Working
  <2>11. MoverLimits(k) /\ Movers => InPlace'
    BY <1>2, <1>a, <1>b, <2>1, <2>9 DEF ContextTyped, GoalTyped, InPlace, Leaving, MemoryTyped, MoverLimits,
       Movers, OneAtWork, StepTyped, TimersTyped, TurnTyped, Unmoved, Waited, WaitsTyped, Working
  <2>12. StrandLimits(k) => ~Strand
    BY <1>2, <1>a, <1>b, <2>1 DEF ContextTyped, GoalTyped, MemoryTyped, Points, StepTyped, Strand,
       StrandLimits, TurnTyped, UnderWay, WaitsTyped
  <2> QED
    BY <2>8, <2>9, <2>10, <2>11, <2>12 DEF Kept, Movers
<1>3. CASE /\ ctx.state \notin {"pausing", "paused", "completed", "failed"} /\ turn.arrival
          /\ turn' = NoTurn /\ nav' = Way(k)!Invalidated /\ mem' = [mem EXCEPT !.headed = 0, !.departed = 0]
          /\ step' = [op |-> "result", i |-> turn.at] /\ UNCHANGED <<ctx, adjust>>
  <2>1. /\ step'.op = "result" /\ step'.i = turn.at
        /\ mem'.ready = mem.ready
        /\ nav'.gen = nav.gen + 1 /\ nav'.live = nav.live /\ nav'.offset = nav.offset /\ turn'.at = 0
    BY <1>3, <1>a, <1>b
       DEF ContextTyped, GoalTyped, MemoryTyped, NoTurn, StepTyped, Way!Invalidated, Way!NoTurn, Way!None
  <2>2. ContextTyped(k)'
    BY <1>3, <1>a, <2>1 DEF ContextTyped, NoTurn, Operations, Places, Points, StepTyped, TurnTyped,
       Way!Invalidated, Way!NoTurn, Way!None
  <2>3. MemoryTyped(k)'
    BY <1>3, <1>a, <2>1 DEF ContextTyped, MemoryTyped, NoTurn, Operations, Places, Points, StepTyped,
       TurnTyped, Way!Invalidated, Way!NoTurn, Way!None
  <2>4. GoalTyped(k)'
    BY <1>3, <1>a, <2>1 DEF ContextTyped, GoalTyped, NoTurn, Operations, Places, Points, StepTyped,
       TurnTyped, Way!Invalidated, Way!NoTurn, Way!None
  <2>5. TurnTyped(k)'
    BY <1>3, <1>a, <2>1 DEF ContextTyped, NoTurn, Operations, Places, Points, StepTyped, TurnTyped,
       Way!Invalidated, Way!NoTurn, Way!None
  <2>6. StepTyped(k)'
    BY <1>3, <1>a, <2>1 DEF ContextTyped, NoTurn, Operations, Places, Points, StepTyped, TurnTyped,
       Way!Invalidated, Way!NoTurn, Way!None
  <2>7. WaitsTyped(k)' /\ TimersTyped'
    BY <1>3, <1>a, <1>b, <2>1 DEF TimersTyped, WaitsTyped
  <2>8. WayTyped(k)'
    BY <1>3, <1>a, <1>b, <2>1, <2>2, <2>3, <2>4, <2>5, <2>6, <2>7 DEF Operations, Places, Points, StepTyped
  <2>9. MoverLimits(k) /\ Movers => ResultsInv' /\ ~Pending' /\ ~nav'.live
    BY <1>3, <1>a, <1>b, <2>1, Overtaken
       DEF GoalTyped, InPlace, Leaving, MoverLimits, Movers, OneAtWork, TimersTyped, Unmoved, Waited, Working
  <2>10. MoverLimits(k) /\ Movers => OneAtWork'
    BY <1>3, <1>a, <1>b, <2>1, <2>9 DEF ContextTyped, GoalTyped, InPlace, Leaving, MemoryTyped, MoverLimits,
       Movers, OneAtWork, StepTyped, TimersTyped, TurnTyped, Unmoved, Waited, WaitsTyped, Working
  <2>11. MoverLimits(k) /\ Movers => InPlace'
    BY <1>3, <1>a, <1>b, <2>1, <2>9 DEF ContextTyped, GoalTyped, InPlace, Leaving, MemoryTyped, MoverLimits,
       Movers, OneAtWork, StepTyped, TimersTyped, TurnTyped, Unmoved, Waited, WaitsTyped, Working
  <2>12. StrandLimits(k) => ~Strand
    BY <1>3, <1>a, <1>b, <2>1 DEF ContextTyped, GoalTyped, MemoryTyped, Points, StepTyped, Strand,
       StrandLimits, TurnTyped, UnderWay, WaitsTyped
  <2> QED
    BY <2>8, <2>9, <2>10, <2>11, <2>12 DEF Kept, Movers
<1>4. CASE /\ ctx.state \notin {"pausing", "paused", "completed", "failed"}
          /\ turn' = NoTurn /\ nav' = Way(k)!Invalidated /\ mem' = [mem EXCEPT !.headed = 0, !.departed = 0]
          /\ ctx' = Way(k)!Held(ctx, "converge") /\ adjust' = 0 /\ step' = Way(k)!Idle
  <2>1. /\ (ctx.state \in {"running", "resuming"} => ctx'.state = "paused") /\ ctx'.state \notin {"running", "resuming"}
        /\ (ctx'.state # "paused" => ctx'.state = ctx.state)
        /\ ctx'.stage = ctx.stage /\ ctx'.at = ctx.at /\ ctx'.wp = ctx.wp /\ ctx'.effects = ctx.effects /\ ctx'.hold = "converge"
        /\ step'.op = "idle"
        /\ mem'.ready = mem.ready
        /\ nav'.gen = nav.gen + 1 /\ nav'.live = nav.live /\ nav'.offset = nav.offset /\ turn'.at = 0
    BY <1>4, <1>a, <1>b DEF ContextTyped, GoalTyped, MemoryTyped, NoTurn, StepTyped, Way!Held, Way!Idle,
       Way!Invalidated, Way!NoTurn, Way!None, Way!Terminal
  <2>2. ContextTyped(k)'
    BY <1>4, <1>a, <2>1 DEF ContextTyped, NoTurn, Operations, Places, Points, StepTyped, Way!Held, Way!Idle,
       Way!Invalidated, Way!NoTurn, Way!None, Way!Terminal
  <2>3. MemoryTyped(k)'
    BY <1>4, <1>a, <2>1 DEF ContextTyped, MemoryTyped, NoTurn, Operations, Places, Points, StepTyped,
       Way!Held, Way!Idle, Way!Invalidated, Way!NoTurn, Way!None, Way!Terminal
  <2>4. GoalTyped(k)'
    BY <1>4, <1>a, <2>1 DEF ContextTyped, GoalTyped, NoTurn, Operations, Places, Points, StepTyped, Way!Held,
       Way!Idle, Way!Invalidated, Way!NoTurn, Way!None, Way!Terminal
  <2>5. TurnTyped(k)'
    BY <1>4, <1>a, <2>1 DEF ContextTyped, NoTurn, Operations, Places, Points, StepTyped, TurnTyped, Way!Held,
       Way!Idle, Way!Invalidated, Way!NoTurn, Way!None, Way!Terminal
  <2>6. StepTyped(k)'
    BY <1>4, <1>a, <2>1 DEF ContextTyped, NoTurn, Operations, Places, Points, StepTyped, Way!Held, Way!Idle,
       Way!Invalidated, Way!NoTurn, Way!None, Way!Terminal
  <2>7. WaitsTyped(k)' /\ TimersTyped'
    BY <1>4, <1>a, <1>b, <2>1 DEF TimersTyped, WaitsTyped
  <2>8. WayTyped(k)'
    BY <1>4, <1>a, <1>b, <2>1, <2>2, <2>3, <2>4, <2>5, <2>6, <2>7 DEF Operations, Places, Points, StepTyped
  <2>9. MoverLimits(k) /\ Movers => ResultsInv' /\ ~Pending' /\ ~nav'.live
    BY <1>4, <1>a, <1>b, <2>1, Overtaken
       DEF GoalTyped, InPlace, Leaving, MoverLimits, Movers, OneAtWork, TimersTyped, Unmoved, Waited, Working
  <2>10. MoverLimits(k) /\ Movers => OneAtWork'
    BY <1>4, <1>a, <1>b, <2>1, <2>9 DEF ContextTyped, GoalTyped, InPlace, Leaving, MemoryTyped, MoverLimits,
       Movers, OneAtWork, StepTyped, TimersTyped, TurnTyped, Unmoved, Waited, WaitsTyped, Working
  <2>11. MoverLimits(k) /\ Movers => InPlace'
    BY <1>4, <1>a, <1>b, <2>1, <2>9 DEF ContextTyped, GoalTyped, InPlace, Leaving, MemoryTyped, MoverLimits,
       Movers, OneAtWork, StepTyped, TimersTyped, TurnTyped, Unmoved, Waited, WaitsTyped, Working
  <2>12. StrandLimits(k) => ~Strand
    BY <1>4, <1>a, <1>b, <2>1 DEF ContextTyped, GoalTyped, MemoryTyped, Points, StepTyped, Strand,
       StrandLimits, TurnTyped, UnderWay, WaitsTyped
  <2> QED
    BY <2>8, <2>9, <2>10, <2>11, <2>12 DEF Kept, Movers
<1>5. turn # Way(k)!NoTurn
  BY <1>b DEF Way!NoTurn, Way!None
<1>6. Way(k)!Moving => ctx.state \notin {"pausing", "paused", "completed", "failed"}
  BY DEF Way!Moving, Way!Terminal
<1> QED
  BY <1>a, <1>1, <1>2, <1>3, <1>4, <1>5, <1>6
     DEF Way!TurnTimeout, Way!TurnCleared, Way!Go, Way!Return, Way!None, Way!NoTurn, NoTurn

\* A micro adjustment ends: its arrival goes on, or the task is held.
LEMMA AdjustEndsKeeps ==
    ASSUME NEW k, WayLimits(k), WayTyped(k), Way(k)!AdjustEnds
    PROVE  Kept(k)
<1> USE DEF WayLimits, WayBounds, WayTyped
<1>a. step.op = "idle" /\ adjust # 0 /\ adjust' = 0 /\ UNCHANGED <<pause, nav, results, turn, waits, timers>>
  BY DEF Places, Points, StepTyped, Way!AdjustEnds, Way!Idle, Way!None
<1>b. adjust \in Points(k) /\ ~Strand
  BY <1>a DEF Places, Points, Strand
<1>c. NoStage \notin Stages
  BY StagesAreNamed
<1>1. CASE UNCHANGED <<ctx, mem>> /\ step' = Way(k)!Idle
  <2>1. StepTyped(k)'
    BY <1>1, <1>a DEF ContextTyped, Operations, Places, Points, StepTyped, Way!Idle, Way!None
  <2>2. ContextTyped(k)' /\ MemoryTyped(k)' /\ GoalTyped(k)' /\ TurnTyped(k)' /\ WaitsTyped(k)' /\ TimersTyped'
    BY <1>1, <1>a DEF ContextTyped, GoalTyped, MemoryTyped, TimersTyped, TurnTyped, WaitsTyped
  <2>3. WayTyped(k)'
    BY <1>1, <1>a, <2>1, <2>2 DEF Operations, Places, Points, StepTyped, Way!Idle, Way!None
  <2>4. MoverLimits(k) /\ Movers => ResultsInv' /\ (Pending' <=> Pending)
    BY <1>1, <1>a, SameResults DEF GoalTyped, InPlace, Leaving, MoverLimits, Movers, OneAtWork, TimersTyped,
       Unmoved, Waited, Working, Way!Idle, Way!None
  <2>5. MoverLimits(k) /\ Movers => OneAtWork'
    BY <1>1, <1>a, <2>4 DEF ContextTyped, GoalTyped, InPlace, Leaving, MemoryTyped, MoverLimits, Movers,
       OneAtWork, StepTyped, TimersTyped, TurnTyped, Unmoved, Waited, WaitsTyped, Working, Way!Idle, Way!None
  <2>6. MoverLimits(k) /\ Movers => InPlace'
    BY <1>1, <1>a, <2>4 DEF ContextTyped, GoalTyped, InPlace, Leaving, MemoryTyped, MoverLimits, Movers,
       OneAtWork, StepTyped, TimersTyped, TurnTyped, Unmoved, Waited, WaitsTyped, Working, Way!Idle, Way!None
  <2>7. StrandLimits(k) => ~Strand
    BY <1>1, <1>a DEF ContextTyped, GoalTyped, MemoryTyped, Points, StepTyped, Strand, StrandLimits,
       TurnTyped, UnderWay, WaitsTyped, Way!Idle, Way!None
  <2> QED
    BY <2>3, <2>4, <2>5, <2>6, <2>7 DEF Kept, Movers
<1>2. CASE ctx.state = "running" /\ ctx.wp = adjust
          /\ ctx' = Way(k)!Staged(ctx, adjust, "ready") /\ mem' = mem /\ step' = [op |-> "result", i |-> adjust]
  <2>1. /\ ctx'.stage # NoStage /\ ctx'.at = adjust /\ ctx'.wp = ctx.wp /\ ctx'.state = ctx.state
        /\ ctx'.effects = ctx.effects /\ ctx'.hold = ctx.hold
        /\ step'.op = "result" /\ step'.i = adjust
        /\ mem'.ready = mem.ready
    BY <1>2, <1>a, <1>b, <1>c DEF ContextTyped, MemoryTyped, Stages, StepTyped, Way!Staged
  <2>2. ContextTyped(k)'
    BY <1>2, <1>a, <2>1 DEF ContextTyped, Operations, Places, Points, StepTyped, Way!Staged
  <2>3. StepTyped(k)'
    BY <1>2, <1>a, <2>1 DEF ContextTyped, Operations, Places, Points, StepTyped, Way!Staged
  <2>4. MemoryTyped(k)' /\ GoalTyped(k)' /\ TurnTyped(k)' /\ WaitsTyped(k)' /\ TimersTyped'
    BY <1>2, <1>a, <1>b, <1>c, <2>1 DEF GoalTyped, MemoryTyped, TimersTyped, TurnTyped, WaitsTyped
  <2>5. WayTyped(k)'
    BY <1>2, <1>a, <1>b, <1>c, <2>1, <2>2, <2>3, <2>4 DEF Operations, Places, Points, StepTyped
  <2>6. MoverLimits(k) /\ Movers => ResultsInv' /\ (Pending' <=> Pending)
    BY <1>2, <1>a, <1>b, <1>c, <2>1, SameResults
       DEF GoalTyped, InPlace, Leaving, MoverLimits, Movers, OneAtWork, TimersTyped, Unmoved, Waited, Working
  <2>7. MoverLimits(k) /\ Movers => OneAtWork'
    BY <1>2, <1>a, <1>b, <1>c, <2>1, <2>6 DEF ContextTyped, GoalTyped, InPlace, Leaving, MemoryTyped,
       MoverLimits, Movers, OneAtWork, StepTyped, TimersTyped, TurnTyped, Unmoved, Waited, WaitsTyped, Working
  <2>8. MoverLimits(k) /\ Movers => InPlace'
    BY <1>2, <1>a, <1>b, <1>c, <2>1, <2>6 DEF ContextTyped, GoalTyped, InPlace, Leaving, MemoryTyped,
       MoverLimits, Movers, OneAtWork, StepTyped, TimersTyped, TurnTyped, Unmoved, Waited, WaitsTyped, Working
  <2>9. StrandLimits(k) => ~Strand
    BY <1>2, <1>a, <1>b, <1>c, <2>1 DEF ContextTyped, GoalTyped, MemoryTyped, Points, StepTyped, Strand,
       StrandLimits, TurnTyped, UnderWay, WaitsTyped
  <2> QED
    BY <2>5, <2>6, <2>7, <2>8, <2>9 DEF Kept, Movers
<1>3. CASE ctx.state = "running" /\ ctx.wp = adjust
          /\ ctx' = Way(k)!Staged(ctx, adjust, "ready") /\ mem' = mem /\ step' = Way(k)!Idle
  <2>1. /\ ctx'.stage # NoStage /\ ctx'.at = adjust /\ ctx'.wp = ctx.wp /\ ctx'.state = ctx.state
        /\ ctx'.effects = ctx.effects /\ ctx'.hold = ctx.hold
        /\ step'.op = "idle"
        /\ mem'.ready = mem.ready
    BY <1>3, <1>a, <1>b, <1>c DEF ContextTyped, MemoryTyped, Stages, StepTyped, Way!Idle, Way!None, Way!Staged
  <2>2. ContextTyped(k)'
    BY <1>3, <1>a, <2>1
       DEF ContextTyped, Operations, Places, Points, StepTyped, Way!Idle, Way!None, Way!Staged
  <2>3. StepTyped(k)'
    BY <1>3, <1>a, <2>1
       DEF ContextTyped, Operations, Places, Points, StepTyped, Way!Idle, Way!None, Way!Staged
  <2>4. MemoryTyped(k)' /\ GoalTyped(k)' /\ TurnTyped(k)' /\ WaitsTyped(k)' /\ TimersTyped'
    BY <1>3, <1>a, <1>b, <1>c, <2>1 DEF GoalTyped, MemoryTyped, TimersTyped, TurnTyped, WaitsTyped
  <2>5. WayTyped(k)'
    BY <1>3, <1>a, <1>b, <1>c, <2>1, <2>2, <2>3, <2>4
       DEF Operations, Places, Points, StepTyped, Way!Idle, Way!None
  <2>6. MoverLimits(k) /\ Movers => ResultsInv' /\ (Pending' <=> Pending)
    BY <1>3, <1>a, <1>b, <1>c, <2>1, SameResults DEF GoalTyped, InPlace, Leaving, MoverLimits, Movers,
       OneAtWork, TimersTyped, Unmoved, Waited, Working, Way!Idle, Way!None
  <2>7. MoverLimits(k) /\ Movers => OneAtWork'
    BY <1>3, <1>a, <1>b, <1>c, <2>1, <2>6 DEF ContextTyped, GoalTyped, InPlace, Leaving, MemoryTyped,
       MoverLimits, Movers, OneAtWork, StepTyped, TimersTyped, TurnTyped, Unmoved, Waited, WaitsTyped,
       Working, Way!Idle, Way!None
  <2>8. MoverLimits(k) /\ Movers => InPlace'
    BY <1>3, <1>a, <1>b, <1>c, <2>1, <2>6 DEF ContextTyped, GoalTyped, InPlace, Leaving, MemoryTyped,
       MoverLimits, Movers, OneAtWork, StepTyped, TimersTyped, TurnTyped, Unmoved, Waited, WaitsTyped,
       Working, Way!Idle, Way!None
  <2>9. StrandLimits(k) => ~Strand
    BY <1>3, <1>a, <1>b, <1>c, <2>1 DEF ContextTyped, GoalTyped, MemoryTyped, Points, StepTyped, Strand,
       StrandLimits, TurnTyped, UnderWay, WaitsTyped, Way!Idle, Way!None
  <2> QED
    BY <2>5, <2>6, <2>7, <2>8, <2>9 DEF Kept, Movers
<1>4. CASE ctx.state = "running" /\ ctx.wp = adjust
          /\ ctx' = [Way(k)!Staged(ctx, adjust, "recheck") EXCEPT !.segs = @ + 1]
          /\ mem' = [mem EXCEPT !.corrected = 0] /\ step' = [op |-> "result", i |-> adjust]
  <2>1. /\ ctx'.stage # NoStage /\ ctx'.at = adjust /\ ctx'.wp = ctx.wp /\ ctx'.state = ctx.state
        /\ ctx'.effects = ctx.effects /\ ctx'.hold = ctx.hold
        /\ step'.op = "result" /\ step'.i = adjust
        /\ mem'.ready = mem.ready
    BY <1>4, <1>a, <1>b, <1>c DEF ContextTyped, MemoryTyped, Stages, StepTyped, Way!Staged
  <2>2. ContextTyped(k)'
    BY <1>4, <1>a, <2>1 DEF ContextTyped, Operations, Places, Points, StepTyped, Way!Staged
  <2>3. MemoryTyped(k)'
    BY <1>4, <1>a, <2>1 DEF ContextTyped, MemoryTyped, Operations, Places, Points, StepTyped, Way!Staged
  <2>4. StepTyped(k)'
    BY <1>4, <1>a, <2>1 DEF ContextTyped, Operations, Places, Points, StepTyped, Way!Staged
  <2>5. GoalTyped(k)' /\ TurnTyped(k)' /\ WaitsTyped(k)' /\ TimersTyped'
    BY <1>4, <1>a, <1>b, <1>c, <2>1 DEF GoalTyped, TimersTyped, TurnTyped, WaitsTyped
  <2>6. WayTyped(k)'
    BY <1>4, <1>a, <1>b, <1>c, <2>1, <2>2, <2>3, <2>4, <2>5 DEF Operations, Places, Points, StepTyped
  <2>7. MoverLimits(k) /\ Movers => ResultsInv' /\ (Pending' <=> Pending)
    BY <1>4, <1>a, <1>b, <1>c, <2>1, SameResults
       DEF GoalTyped, InPlace, Leaving, MoverLimits, Movers, OneAtWork, TimersTyped, Unmoved, Waited, Working
  <2>8. MoverLimits(k) /\ Movers => OneAtWork'
    BY <1>4, <1>a, <1>b, <1>c, <2>1, <2>7 DEF ContextTyped, GoalTyped, InPlace, Leaving, MemoryTyped,
       MoverLimits, Movers, OneAtWork, StepTyped, TimersTyped, TurnTyped, Unmoved, Waited, WaitsTyped, Working
  <2>9. MoverLimits(k) /\ Movers => InPlace'
    BY <1>4, <1>a, <1>b, <1>c, <2>1, <2>7 DEF ContextTyped, GoalTyped, InPlace, Leaving, MemoryTyped,
       MoverLimits, Movers, OneAtWork, StepTyped, TimersTyped, TurnTyped, Unmoved, Waited, WaitsTyped, Working
  <2>10. StrandLimits(k) => ~Strand
    BY <1>4, <1>a, <1>b, <1>c, <2>1 DEF ContextTyped, GoalTyped, MemoryTyped, Points, StepTyped, Strand,
       StrandLimits, TurnTyped, UnderWay, WaitsTyped
  <2> QED
    BY <2>6, <2>7, <2>8, <2>9, <2>10 DEF Kept, Movers
<1>5. CASE ctx.state = "running" /\ ctx.wp = adjust
          /\ ctx' = [Way(k)!Staged(ctx, adjust, "recheck") EXCEPT !.segs = @ + 1]
          /\ mem' = [mem EXCEPT !.corrected = 0] /\ step' = Way(k)!Idle
  <2>1. /\ ctx'.stage # NoStage /\ ctx'.at = adjust /\ ctx'.wp = ctx.wp /\ ctx'.state = ctx.state
        /\ ctx'.effects = ctx.effects /\ ctx'.hold = ctx.hold
        /\ step'.op = "idle"
        /\ mem'.ready = mem.ready
    BY <1>5, <1>a, <1>b, <1>c DEF ContextTyped, MemoryTyped, Stages, StepTyped, Way!Idle, Way!None, Way!Staged
  <2>2. ContextTyped(k)'
    BY <1>5, <1>a, <2>1
       DEF ContextTyped, Operations, Places, Points, StepTyped, Way!Idle, Way!None, Way!Staged
  <2>3. MemoryTyped(k)'
    BY <1>5, <1>a, <2>1
       DEF ContextTyped, MemoryTyped, Operations, Places, Points, StepTyped, Way!Idle, Way!None, Way!Staged
  <2>4. StepTyped(k)'
    BY <1>5, <1>a, <2>1
       DEF ContextTyped, Operations, Places, Points, StepTyped, Way!Idle, Way!None, Way!Staged
  <2>5. GoalTyped(k)' /\ TurnTyped(k)' /\ WaitsTyped(k)' /\ TimersTyped'
    BY <1>5, <1>a, <1>b, <1>c, <2>1 DEF GoalTyped, TimersTyped, TurnTyped, WaitsTyped
  <2>6. WayTyped(k)'
    BY <1>5, <1>a, <1>b, <1>c, <2>1, <2>2, <2>3, <2>4, <2>5
       DEF Operations, Places, Points, StepTyped, Way!Idle, Way!None
  <2>7. MoverLimits(k) /\ Movers => ResultsInv' /\ (Pending' <=> Pending)
    BY <1>5, <1>a, <1>b, <1>c, <2>1, SameResults DEF GoalTyped, InPlace, Leaving, MoverLimits, Movers,
       OneAtWork, TimersTyped, Unmoved, Waited, Working, Way!Idle, Way!None
  <2>8. MoverLimits(k) /\ Movers => OneAtWork'
    BY <1>5, <1>a, <1>b, <1>c, <2>1, <2>7 DEF ContextTyped, GoalTyped, InPlace, Leaving, MemoryTyped,
       MoverLimits, Movers, OneAtWork, StepTyped, TimersTyped, TurnTyped, Unmoved, Waited, WaitsTyped,
       Working, Way!Idle, Way!None
  <2>9. MoverLimits(k) /\ Movers => InPlace'
    BY <1>5, <1>a, <1>b, <1>c, <2>1, <2>7 DEF ContextTyped, GoalTyped, InPlace, Leaving, MemoryTyped,
       MoverLimits, Movers, OneAtWork, StepTyped, TimersTyped, TurnTyped, Unmoved, Waited, WaitsTyped,
       Working, Way!Idle, Way!None
  <2>10. StrandLimits(k) => ~Strand
    BY <1>5, <1>a, <1>b, <1>c, <2>1 DEF ContextTyped, GoalTyped, MemoryTyped, Points, StepTyped, Strand,
       StrandLimits, TurnTyped, UnderWay, WaitsTyped, Way!Idle, Way!None
  <2> QED
    BY <2>6, <2>7, <2>8, <2>9, <2>10 DEF Kept, Movers
<1>6. CASE /\ ctx' = Way(k)!Held(ctx, "converge") /\ mem' = mem /\ step' = Way(k)!Idle
  <2>1. /\ (ctx.state \in {"running", "resuming"} => ctx'.state = "paused") /\ ctx'.state \notin {"running", "resuming"}
        /\ (ctx'.state # "paused" => ctx'.state = ctx.state)
        /\ ctx'.stage = ctx.stage /\ ctx'.at = ctx.at /\ ctx'.wp = ctx.wp /\ ctx'.effects = ctx.effects /\ ctx'.hold = "converge"
        /\ step'.op = "idle"
    BY <1>6, <1>a DEF ContextTyped, StepTyped, Way!Held, Way!Idle, Way!None, Way!Terminal
  <2>2. ContextTyped(k)'
    BY <1>6, <1>a, <2>1
       DEF ContextTyped, Operations, Places, Points, StepTyped, Way!Held, Way!Idle, Way!None, Way!Terminal
  <2>3. StepTyped(k)'
    BY <1>6, <1>a, <2>1
       DEF ContextTyped, Operations, Places, Points, StepTyped, Way!Held, Way!Idle, Way!None, Way!Terminal
  <2>4. MemoryTyped(k)' /\ GoalTyped(k)' /\ TurnTyped(k)' /\ WaitsTyped(k)' /\ TimersTyped'
    BY <1>6, <1>a, <2>1 DEF GoalTyped, MemoryTyped, TimersTyped, TurnTyped, WaitsTyped
  <2>5. WayTyped(k)'
    BY <1>6, <1>a, <2>1, <2>2, <2>3, <2>4 DEF Operations, Places, Points, StepTyped, Way!None
  <2>6. MoverLimits(k) /\ Movers => ResultsInv' /\ (Pending' <=> Pending)
    BY <1>6, <1>a, <2>1, SameResults DEF GoalTyped, InPlace, Leaving, MoverLimits, Movers, OneAtWork,
       TimersTyped, Unmoved, Waited, Working, Way!None
  <2>7. MoverLimits(k) /\ Movers => OneAtWork'
    BY <1>6, <1>a, <2>1, <2>6 DEF ContextTyped, GoalTyped, InPlace, Leaving, MemoryTyped, MoverLimits,
       Movers, OneAtWork, StepTyped, TimersTyped, TurnTyped, Unmoved, Waited, WaitsTyped, Working, Way!None
  <2>8. MoverLimits(k) /\ Movers => InPlace'
    BY <1>6, <1>a, <2>1, <2>6 DEF ContextTyped, GoalTyped, InPlace, Leaving, MemoryTyped, MoverLimits,
       Movers, OneAtWork, StepTyped, TimersTyped, TurnTyped, Unmoved, Waited, WaitsTyped, Working, Way!None
  <2>9. StrandLimits(k) => ~Strand
    BY <1>6, <1>a, <2>1 DEF ContextTyped, GoalTyped, MemoryTyped, Points, StepTyped, Strand, StrandLimits,
       TurnTyped, UnderWay, WaitsTyped, Way!None
  <2> QED
    BY <2>5, <2>6, <2>7, <2>8, <2>9 DEF Kept, Movers
<1>7. CASE ctx.state = "running" /\ ctx.wp = adjust
          /\ ctx' = Way(k)!Held(ctx, "post_yaw") /\ mem' = mem /\ step' = Way(k)!Idle
  <2>1. /\ (ctx.state \in {"running", "resuming"} => ctx'.state = "paused") /\ ctx'.state \notin {"running", "resuming"}
        /\ (ctx'.state # "paused" => ctx'.state = ctx.state)
        /\ ctx'.stage = ctx.stage /\ ctx'.at = ctx.at /\ ctx'.wp = ctx.wp /\ ctx'.effects = ctx.effects /\ ctx'.hold = "post_yaw"
        /\ step'.op = "idle"
    BY <1>7, <1>a DEF ContextTyped, StepTyped, Way!Held, Way!Idle, Way!None, Way!Terminal
  <2>2. ContextTyped(k)'
    BY <1>7, <1>a, <2>1
       DEF ContextTyped, Operations, Places, Points, StepTyped, Way!Held, Way!Idle, Way!None, Way!Terminal
  <2>3. StepTyped(k)'
    BY <1>7, <1>a, <2>1
       DEF ContextTyped, Operations, Places, Points, StepTyped, Way!Held, Way!Idle, Way!None, Way!Terminal
  <2>4. MemoryTyped(k)' /\ GoalTyped(k)' /\ TurnTyped(k)' /\ WaitsTyped(k)' /\ TimersTyped'
    BY <1>7, <1>a, <2>1 DEF GoalTyped, MemoryTyped, TimersTyped, TurnTyped, WaitsTyped
  <2>5. WayTyped(k)'
    BY <1>7, <1>a, <2>1, <2>2, <2>3, <2>4 DEF Operations, Places, Points, StepTyped, Way!None
  <2>6. MoverLimits(k) /\ Movers => ResultsInv' /\ (Pending' <=> Pending)
    BY <1>7, <1>a, <2>1, SameResults DEF GoalTyped, InPlace, Leaving, MoverLimits, Movers, OneAtWork,
       TimersTyped, Unmoved, Waited, Working, Way!None
  <2>7. MoverLimits(k) /\ Movers => OneAtWork'
    BY <1>7, <1>a, <2>1, <2>6 DEF ContextTyped, GoalTyped, InPlace, Leaving, MemoryTyped, MoverLimits,
       Movers, OneAtWork, StepTyped, TimersTyped, TurnTyped, Unmoved, Waited, WaitsTyped, Working, Way!None
  <2>8. MoverLimits(k) /\ Movers => InPlace'
    BY <1>7, <1>a, <2>1, <2>6 DEF ContextTyped, GoalTyped, InPlace, Leaving, MemoryTyped, MoverLimits,
       Movers, OneAtWork, StepTyped, TimersTyped, TurnTyped, Unmoved, Waited, WaitsTyped, Working, Way!None
  <2>9. StrandLimits(k) => ~Strand
    BY <1>7, <1>a, <2>1 DEF ContextTyped, GoalTyped, MemoryTyped, Points, StepTyped, Strand, StrandLimits,
       TurnTyped, UnderWay, WaitsTyped, Way!None
  <2> QED
    BY <2>5, <2>6, <2>7, <2>8, <2>9 DEF Kept, Movers
<1>8. CASE ctx.state # "running" \/ ctx.wp # adjust
  BY <1>1, <1>8 DEF Way!AdjustEnds, Way!Return
<1>9. CASE ctx.state = "running" /\ ctx.wp = adjust /\ Way(k)!AdjustDone(adjust)
  BY <1>2, <1>3, <1>4, <1>5, <1>9 DEF Way!AdjustDone, Way!Go, Way!Return, Way!None
<1>10. CASE ctx.state = "running" /\ ctx.wp = adjust /\ Way(k)!AdjustGivesUp(adjust)
  BY <1>6, <1>7, <1>10 DEF Way!AdjustGivesUp, Way!Return
<1> QED
  BY <1>8, <1>9, <1>10 DEF Way!AdjustEnds

\* A speech ends, and with the dwell over the stop is left.
LEMMA SpeechEndsKeeps ==
    ASSUME NEW k, WayLimits(k), WayTyped(k), Way(k)!SpeechEnds
    PROVE  Kept(k)
<1> USE DEF WayLimits, WayBounds, WayTyped
<1>a. step.op = "idle" /\ UNCHANGED <<ctx, mem, pause, nav, results, turn, adjust, timers>>
  BY DEF Places, Points, StepTyped, Way!Idle, Way!SpeechEnds
<1>b. PICK i \in waits.threads :
          /\ waits' = [waits EXCEPT !.threads = @ \ {i}, !.spoken = @ \/ ctx.state \in {"running", "paused"}]
          /\ IF ctx.state = "running" THEN Way(k)!Go("maybe", i) ELSE Way(k)!Return
  BY DEF Way!SpeechEnds
<1>c. i \in Points(k) /\ waits.threads # {} /\ WaitsTyped(k)' /\ waits'.speech = waits.speech /\ waits'.dwell = waits.dwell
  BY <1>b DEF WaitsTyped
<1>1. CASE i \in Points(k) /\ step' = [op |-> "maybe", i |-> i]
  <2>1. StepTyped(k)'
    BY <1>1, <1>a DEF ContextTyped, Operations, Places, Points, StepTyped
  <2>2. ContextTyped(k)' /\ MemoryTyped(k)' /\ GoalTyped(k)' /\ TurnTyped(k)' /\ TimersTyped'
    BY <1>1, <1>a, <1>c DEF ContextTyped, GoalTyped, MemoryTyped, TimersTyped, TurnTyped, WaitsTyped
  <2>3. WayTyped(k)'
    BY <1>1, <1>a, <1>c, <2>1, <2>2 DEF Operations, Places, Points, StepTyped
  <2>4. MoverLimits(k) /\ Movers => ResultsInv' /\ (Pending' <=> Pending)
    BY <1>1, <1>a, <1>c, SameResults
       DEF GoalTyped, InPlace, Leaving, MoverLimits, Movers, OneAtWork, TimersTyped, Unmoved, Waited, Working
  <2>5. MoverLimits(k) /\ Movers => OneAtWork'
    BY <1>1, <1>a, <1>c, <2>4 DEF ContextTyped, GoalTyped, InPlace, Leaving, MemoryTyped, MoverLimits,
       Movers, OneAtWork, StepTyped, TimersTyped, TurnTyped, Unmoved, Waited, WaitsTyped, Working
  <2>6. MoverLimits(k) /\ Movers => InPlace'
    BY <1>1, <1>a, <1>c, <2>4 DEF ContextTyped, GoalTyped, InPlace, Leaving, MemoryTyped, MoverLimits,
       Movers, OneAtWork, StepTyped, TimersTyped, TurnTyped, Unmoved, Waited, WaitsTyped, Working
  <2>7. StrandLimits(k) => ~Strand
    BY <1>1, <1>a, <1>c DEF ContextTyped, GoalTyped, MemoryTyped, Points, StepTyped, Strand, StrandLimits,
       TurnTyped, UnderWay, WaitsTyped
  <2> QED
    BY <2>3, <2>4, <2>5, <2>6, <2>7 DEF Kept, Movers
<1>2. CASE step' = Way(k)!Idle
  <2>1. StepTyped(k)'
    BY <1>2, <1>a DEF ContextTyped, Operations, Places, Points, StepTyped, Way!Idle, Way!None
  <2>2. ContextTyped(k)' /\ MemoryTyped(k)' /\ GoalTyped(k)' /\ TurnTyped(k)' /\ TimersTyped'
    BY <1>2, <1>a, <1>c DEF ContextTyped, GoalTyped, MemoryTyped, TimersTyped, TurnTyped, WaitsTyped
  <2>3. WayTyped(k)'
    BY <1>2, <1>a, <1>c, <2>1, <2>2 DEF Operations, Places, Points, StepTyped, Way!Idle, Way!None
  <2>4. MoverLimits(k) /\ Movers => ResultsInv' /\ (Pending' <=> Pending)
    BY <1>2, <1>a, <1>c, SameResults DEF GoalTyped, InPlace, Leaving, MoverLimits, Movers, OneAtWork,
       TimersTyped, Unmoved, Waited, Working, Way!Idle, Way!None
  <2>5. MoverLimits(k) /\ Movers => OneAtWork'
    BY <1>2, <1>a, <1>c, <2>4 DEF ContextTyped, GoalTyped, InPlace, Leaving, MemoryTyped, MoverLimits,
       Movers, OneAtWork, StepTyped, TimersTyped, TurnTyped, Unmoved, Waited, WaitsTyped, Working, Way!Idle,
       Way!None
  <2>6. MoverLimits(k) /\ Movers => InPlace'
    BY <1>2, <1>a, <1>c, <2>4 DEF ContextTyped, GoalTyped, InPlace, Leaving, MemoryTyped, MoverLimits,
       Movers, OneAtWork, StepTyped, TimersTyped, TurnTyped, Unmoved, Waited, WaitsTyped, Working, Way!Idle,
       Way!None
  <2>7. StrandLimits(k) => ~Strand
    BY <1>2, <1>a, <1>c DEF ContextTyped, GoalTyped, MemoryTyped, Points, StepTyped, Strand, StrandLimits,
       TurnTyped, UnderWay, WaitsTyped, Way!Idle, Way!None
  <2> QED
    BY <2>3, <2>4, <2>5, <2>6, <2>7 DEF Kept, Movers
<1> QED
  BY <1>a, <1>1, <1>2, <1>b, <1>c DEF ContextTyped, StepTyped, Way!Go, Way!Return, Way!SpeechEnds

\* A dwell ends, and with the speech over the stop is left.
LEMMA DwellEndsKeeps ==
    ASSUME NEW k, WayLimits(k), WayTyped(k), Way(k)!DwellEnds
    PROVE  Kept(k)
<1> USE DEF WayLimits, WayBounds, WayTyped
<1>a. step.op = "idle" /\ waits.dwell # 0 /\ UNCHANGED <<ctx, mem, pause, nav, results, turn, adjust, timers>>
  BY DEF Places, Points, StepTyped, Way!DwellEnds, Way!Idle, Way!None
<1>1. CASE /\ waits' = [waits EXCEPT !.dwelt = TRUE] /\ step' = [op |-> "maybe", i |-> waits.dwell]
  <2>1. waits'.speech = waits.speech /\ waits'.dwell = waits.dwell /\ step'.op = "maybe"
    BY <1>1, <1>a DEF ContextTyped, StepTyped, WaitsTyped
  <2>2. WaitsTyped(k)'
    BY <1>1, <1>a, <2>1 DEF ContextTyped, Operations, Places, Points, StepTyped, WaitsTyped
  <2>3. StepTyped(k)'
    BY <1>1, <1>a, <2>1 DEF ContextTyped, Operations, Places, Points, StepTyped, WaitsTyped
  <2>4. ContextTyped(k)' /\ MemoryTyped(k)' /\ GoalTyped(k)' /\ TurnTyped(k)' /\ TimersTyped'
    BY <1>1, <1>a, <2>1 DEF ContextTyped, GoalTyped, MemoryTyped, TimersTyped, TurnTyped
  <2>5. WayTyped(k)'
    BY <1>1, <1>a, <2>1, <2>2, <2>3, <2>4 DEF Operations, Places, Points, StepTyped
  <2>6. MoverLimits(k) /\ Movers => ResultsInv' /\ (Pending' <=> Pending)
    BY <1>1, <1>a, <2>1, SameResults
       DEF GoalTyped, InPlace, Leaving, MoverLimits, Movers, OneAtWork, TimersTyped, Unmoved, Waited, Working
  <2>7. MoverLimits(k) /\ Movers => OneAtWork'
    BY <1>1, <1>a, <2>1, <2>6 DEF ContextTyped, GoalTyped, InPlace, Leaving, MemoryTyped, MoverLimits,
       Movers, OneAtWork, StepTyped, TimersTyped, TurnTyped, Unmoved, Waited, WaitsTyped, Working
  <2>8. MoverLimits(k) /\ Movers => InPlace'
    BY <1>1, <1>a, <2>1, <2>6 DEF ContextTyped, GoalTyped, InPlace, Leaving, MemoryTyped, MoverLimits,
       Movers, OneAtWork, StepTyped, TimersTyped, TurnTyped, Unmoved, Waited, WaitsTyped, Working
  <2>9. StrandLimits(k) => ~Strand
    BY <1>1, <1>a, <2>1 DEF ContextTyped, GoalTyped, MemoryTyped, Points, StepTyped, Strand, StrandLimits,
       TurnTyped, UnderWay, WaitsTyped
  <2> QED
    BY <2>5, <2>6, <2>7, <2>8, <2>9 DEF Kept, Movers
<1> QED
  BY <1>a, <1>1 DEF ContextTyped, StepTyped, Way!DwellEnds, Way!Go

\* A stop that is ready is left only when neither wait is open (_maybe_continue).
LEMMA MaybeContinueKeeps ==
    ASSUME NEW k, WayLimits(k), WayTyped(k), Way(k)!MaybeContinue
    PROVE  Kept(k)
<1> USE DEF WayLimits, WayBounds, WayTyped
<1>a. step.op = "maybe" /\ step.i \in Points(k) /\ UNCHANGED <<pause, nav, results, turn, adjust, timers>>
  BY DEF Places, Points, StepTyped, Way!At, Way!MaybeContinue
<1>c. NoStage \notin Stages
  BY StagesAreNamed
<1>1. CASE /\ ~(ctx.state = "running" /\ mem.ready = step.i /\ waits.speech # step.i /\ waits.dwell # step.i)
          /\ UNCHANGED <<ctx, mem, waits>> /\ step' = Way(k)!Idle
  <2>1. StepTyped(k)'
    BY <1>1, <1>a DEF ContextTyped, Operations, Places, Points, StepTyped, Way!Idle, Way!None
  <2>2. ContextTyped(k)' /\ MemoryTyped(k)' /\ GoalTyped(k)' /\ TurnTyped(k)' /\ WaitsTyped(k)' /\ TimersTyped'
    BY <1>1, <1>a DEF ContextTyped, GoalTyped, MemoryTyped, TimersTyped, TurnTyped, WaitsTyped
  <2>3. WayTyped(k)'
    BY <1>1, <1>a, <2>1, <2>2 DEF Operations, Places, Points, StepTyped, Way!Idle, Way!None
  <2>4. MoverLimits(k) /\ Movers => ResultsInv' /\ (Pending' <=> Pending)
    BY <1>1, <1>a, SameResults DEF GoalTyped, InPlace, Leaving, MoverLimits, Movers, OneAtWork, TimersTyped,
       Unmoved, Waited, Working, Way!Idle, Way!None
  <2>5. MoverLimits(k) /\ Movers => OneAtWork'
    BY <1>1, <1>a, <2>4 DEF ContextTyped, GoalTyped, InPlace, Leaving, MemoryTyped, MoverLimits, Movers,
       OneAtWork, StepTyped, TimersTyped, TurnTyped, Unmoved, Waited, WaitsTyped, Working, Way!Idle, Way!None
  <2>6. MoverLimits(k) /\ Movers => InPlace'
    BY <1>1, <1>a, <2>4 DEF ContextTyped, GoalTyped, InPlace, Leaving, MemoryTyped, MoverLimits, Movers,
       OneAtWork, StepTyped, TimersTyped, TurnTyped, Unmoved, Waited, WaitsTyped, Working, Way!Idle, Way!None
  <2>7. StrandLimits(k) /\ Strand => Strand'
    BY <1>1, <1>a DEF ContextTyped, GoalTyped, MemoryTyped, Pending, Points, StepTyped, Strand, StrandLimits,
       TimersTyped, TurnTyped, UnderWay, WaitsTyped, Way!Idle, Way!None
  <2> QED
    BY <2>3, <2>4, <2>5, <2>6, <2>7 DEF Kept, Movers
<1>2. CASE /\ ctx.state = "running" /\ mem.ready = step.i
          /\ waits' = [waits EXCEPT !.speech = IF @ = step.i THEN 0 ELSE @, !.spoken = @ /\ waits.speech # step.i,
                                    !.dwell = IF @ = step.i THEN 0 ELSE @, !.dwelt = @ /\ waits.dwell # step.i]
          /\ mem' = [mem EXCEPT !.ready = 0] /\ ctx' = Way(k)!Staged(ctx, step.i, "postprocessed")
          /\ step' = [op |-> "continue", i |-> step.i]
  <2>1. /\ ctx'.stage # NoStage /\ ctx'.at = step.i /\ ctx'.wp = ctx.wp /\ ctx'.state = ctx.state
        /\ ctx'.effects = ctx.effects /\ ctx'.hold = ctx.hold
        /\ step'.op = "continue" /\ step'.i = step.i
        /\ mem'.ready = 0 /\ waits'.threads = waits.threads
        /\ waits'.speech = (IF waits.speech = step.i THEN 0 ELSE waits.speech)
        /\ waits'.dwell = (IF waits.dwell = step.i THEN 0 ELSE waits.dwell)
    BY <1>2, <1>a, <1>c DEF ContextTyped, MemoryTyped, Stages, StepTyped, WaitsTyped, Way!Staged
  <2>2. ContextTyped(k)'
    BY <1>2, <1>a, <2>1 DEF ContextTyped, Operations, Places, Points, StepTyped, Way!Staged
  <2>3. MemoryTyped(k)'
    BY <1>2, <1>a, <2>1 DEF ContextTyped, MemoryTyped, Operations, Places, Points, StepTyped, Way!Staged
  <2>4. WaitsTyped(k)'
    BY <1>2, <1>a, <2>1 DEF ContextTyped, Operations, Places, Points, StepTyped, WaitsTyped, Way!Staged
  <2>5. StepTyped(k)'
    BY <1>2, <1>a, <2>1 DEF ContextTyped, Operations, Places, Points, StepTyped, Way!Staged
  <2>6. GoalTyped(k)' /\ TurnTyped(k)' /\ TimersTyped'
    BY <1>2, <1>a, <1>c, <2>1 DEF GoalTyped, TimersTyped, TurnTyped
  <2>7. WayTyped(k)'
    BY <1>2, <1>a, <1>c, <2>1, <2>2, <2>3, <2>4, <2>5, <2>6 DEF Operations, Places, Points, StepTyped
  <2>8. MoverLimits(k) /\ Movers => ResultsInv' /\ (Pending' <=> Pending)
    BY <1>2, <1>a, <1>c, <2>1, SameResults
       DEF GoalTyped, InPlace, Leaving, MoverLimits, Movers, OneAtWork, TimersTyped, Unmoved, Waited, Working
  <2>9. MoverLimits(k) /\ Movers => OneAtWork'
    BY <1>2, <1>a, <1>c, <2>1, <2>8 DEF ContextTyped, GoalTyped, InPlace, Leaving, MemoryTyped, MoverLimits,
       Movers, OneAtWork, StepTyped, TimersTyped, TurnTyped, Unmoved, Waited, WaitsTyped, Working
  <2>10. MoverLimits(k) /\ Movers => InPlace'
    BY <1>2, <1>a, <1>c, <2>1, <2>8 DEF ContextTyped, GoalTyped, InPlace, Leaving, MemoryTyped, MoverLimits,
       Movers, OneAtWork, StepTyped, TimersTyped, TurnTyped, Unmoved, Waited, WaitsTyped, Working
  <2>11. StrandLimits(k) /\ Strand => Strand'
    BY <1>2, <1>a, <1>c, <2>1 DEF ContextTyped, GoalTyped, MemoryTyped, Pending, Points, StepTyped, Strand,
       StrandLimits, TimersTyped, TurnTyped, UnderWay, WaitsTyped
  <2> QED
    BY <2>7, <2>8, <2>9, <2>10, <2>11 DEF Kept, Movers
<1> QED
  BY <1>a, <1>1, <1>2 DEF ContextTyped, StepTyped, Way!Go, Way!MaybeContinue, Way!None, Way!Return

\* Leaving a stop advances to the next waypoint, round or end of the task.
LEMMA ContinueKeeps ==
    ASSUME NEW k, WayLimits(k), WayTyped(k), Way(k)!Continue
    PROVE  Kept(k)
<1> USE DEF WayLimits, WayBounds, WayTyped
<1>a. step.op = "continue" /\ step.i \in Points(k) /\ UNCHANGED results
  BY DEF Places, Points, StepTyped, Way!At, Way!Continue
<1>c. LeftBehind(k, Way(k)!Cleared(Way(k)!Forgotten(ctx)))
  BY WhenCleared
<1>1. CASE /\ ctx.state # "running" /\ step' = Way(k)!Idle
          /\ UNCHANGED <<ctx, mem, nav, turn, adjust, waits, timers, pause>>
  <2>1. StepTyped(k)'
    BY <1>1, <1>a DEF ContextTyped, Operations, Places, Points, StepTyped, Way!Idle, Way!None
  <2>2. ContextTyped(k)' /\ MemoryTyped(k)' /\ GoalTyped(k)' /\ TurnTyped(k)' /\ WaitsTyped(k)' /\ TimersTyped'
    BY <1>1, <1>a DEF ContextTyped, GoalTyped, MemoryTyped, TimersTyped, TurnTyped, WaitsTyped
  <2>3. WayTyped(k)'
    BY <1>1, <1>a, <2>1, <2>2 DEF Operations, Places, Points, StepTyped, Way!Idle, Way!None
  <2>4. MoverLimits(k) /\ Movers => ResultsInv' /\ (Pending' <=> Pending)
    BY <1>1, <1>a, SameResults DEF GoalTyped, InPlace, Leaving, MoverLimits, Movers, OneAtWork, TimersTyped,
       Unmoved, Waited, Working, Way!Idle, Way!None
  <2>5. MoverLimits(k) /\ Movers => OneAtWork'
    BY <1>1, <1>a, <2>4 DEF ContextTyped, GoalTyped, InPlace, Leaving, MemoryTyped, MoverLimits, Movers,
       OneAtWork, StepTyped, TimersTyped, TurnTyped, Unmoved, Waited, WaitsTyped, Working, Way!Idle, Way!None
  <2>6. MoverLimits(k) /\ Movers => InPlace'
    BY <1>1, <1>a, <2>4 DEF ContextTyped, GoalTyped, InPlace, Leaving, MemoryTyped, MoverLimits, Movers,
       OneAtWork, StepTyped, TimersTyped, TurnTyped, Unmoved, Waited, WaitsTyped, Working, Way!Idle, Way!None
  <2>7. StrandLimits(k) /\ Strand => Strand'
    BY <1>1, <1>a DEF ContextTyped, GoalTyped, MemoryTyped, Pending, Points, StepTyped, Strand, StrandLimits,
       TimersTyped, TurnTyped, UnderWay, WaitsTyped, Way!Idle, Way!None
  <2> QED
    BY <2>3, <2>4, <2>5, <2>6, <2>7 DEF Kept, Movers
<1>2. CASE /\ "turn" \in k.faults /\ mem' = [mem EXCEPT !.corrected = 0, !.conv = 0] /\ adjust' = 0
          /\ Turned(k, step.i, 0, FALSE) /\ Stopped(k, step.i) /\ ctx' = Way(k)!Forgotten(ctx)
          /\ step' = Way(k)!Idle /\ UNCHANGED <<pause, waits, timers>>
  <2>1. /\ ctx'.state = ctx.state /\ ctx'.stage = ctx.stage /\ ctx'.at = ctx.at /\ ctx'.wp = ctx.wp /\ ctx'.effects = ctx.effects
        /\ ctx'.hold = ctx.hold /\ step'.op = "idle"
        /\ mem'.ready = mem.ready
    BY <1>2, <1>a DEF ContextTyped, MemoryTyped, StepTyped, Stopped, Turned, Way!Forgotten, Way!Idle, Way!None
  <2>2. ContextTyped(k)'
    BY <1>2, <1>a, <2>1 DEF ContextTyped, Operations, Places, Points, StepTyped, Stopped, Turned,
       Way!Forgotten, Way!Idle, Way!None
  <2>3. MemoryTyped(k)'
    BY <1>2, <1>a, <2>1 DEF ContextTyped, MemoryTyped, Operations, Places, Points, StepTyped, Stopped,
       Turned, Way!Forgotten, Way!Idle, Way!None
  <2>4. GoalTyped(k)'
    BY <1>2, <1>a, <2>1 DEF ContextTyped, GoalTyped, Operations, Places, Points, StepTyped, Stopped, Turned,
       Way!Forgotten, Way!Idle, Way!None
  <2>5. TurnTyped(k)'
    BY <1>2, <1>a, <2>1 DEF ContextTyped, Operations, Places, Points, StepTyped, Stopped, TurnTyped, Turned,
       Way!Forgotten, Way!Idle, Way!None
  <2>6. StepTyped(k)'
    BY <1>2, <1>a, <2>1 DEF ContextTyped, Operations, Places, Points, StepTyped, Stopped, Turned,
       Way!Forgotten, Way!Idle, Way!None
  <2>7. WaitsTyped(k)' /\ TimersTyped'
    BY <1>2, <1>a, <2>1 DEF TimersTyped, WaitsTyped
  <2>8. WayTyped(k)'
    BY <1>2, <1>a, <2>1, <2>2, <2>3, <2>4, <2>5, <2>6, <2>7
       DEF Operations, Places, Points, StepTyped, Stopped, Turned, Way!None
  <2>9. MoverLimits(k) /\ Movers => ResultsInv' /\ ~Pending' /\ ~nav'.live
    BY <1>2, <1>a, <2>1, Overtaken DEF GoalTyped, InPlace, Leaving, MoverLimits, Movers, OneAtWork, Stopped,
       TimersTyped, Turned, Unmoved, Waited, Working, Way!None
  <2>10. MoverLimits(k) /\ Movers => OneAtWork'
    BY <1>2, <1>a, <2>1, <2>9 DEF ContextTyped, GoalTyped, InPlace, Leaving, MemoryTyped, MoverLimits,
       Movers, OneAtWork, StepTyped, Stopped, TimersTyped, TurnTyped, Turned, Unmoved, Waited, WaitsTyped,
       Working, Way!None
  <2>11. MoverLimits(k) /\ Movers => InPlace'
    BY <1>2, <1>a, <2>1, <2>9 DEF ContextTyped, GoalTyped, InPlace, Leaving, MemoryTyped, MoverLimits,
       Movers, OneAtWork, StepTyped, Stopped, TimersTyped, TurnTyped, Turned, Unmoved, Waited, WaitsTyped,
       Working, Way!None
  <2>12. StrandLimits(k) => ~Strand
    BY <1>2, <1>a, <2>1 DEF ContextTyped, GoalTyped, MemoryTyped, Points, StepTyped, Stopped, Strand,
       StrandLimits, TurnTyped, Turned, UnderWay, WaitsTyped, Way!None
  <2> QED
    BY <2>8, <2>9, <2>10, <2>11, <2>12 DEF Kept, Movers
<1>3. CASE /\ step.i < Len(k.route) /\ ctx' = [Way(k)!Cleared(Way(k)!Forgotten(ctx)) EXCEPT !.wp = step.i + 1]
          /\ step' = [op |-> "send", i |-> step.i + 1] /\ DOMAIN mem' = DOMAIN mem /\ mem'.ready = mem.ready /\ mem'.conv = 0 /\ adjust' = 0
          /\ UNCHANGED <<nav, pause, turn, waits, timers>>
  <2>1. /\ ctx'.state = ctx.state /\ ctx'.stage = NoStage /\ ctx'.at = 0 /\ ctx'.wp = step.i + 1 /\ ctx'.effects = FALSE
        /\ ctx'.hold = ctx.hold /\ DOMAIN ctx' = DOMAIN ctx /\ ctx'.reN = 0 /\ ctx'.segs = 0 /\ ctx'.round \in 1 .. k.rounds
        /\ step'.op = "send" /\ step'.i = step.i + 1 /\ step.i + 1 \in Points(k)
    BY <1>3, <1>a, <1>c DEF ContextTyped, LeftBehind, Points, StepTyped
  <2>2. ContextTyped(k)'
    BY <1>a, <2>1, ClearedTyped DEF ContextTyped
  <2>3. MemoryTyped(k)'
    BY <1>3, <1>a, <2>1 DEF ContextTyped, LeftBehind, MemoryTyped, Operations, Places, Points, StepTyped
  <2>4. StepTyped(k)'
    BY <1>3, <1>a, <2>1 DEF ContextTyped, LeftBehind, Operations, Places, Points, StepTyped
  <2>5. GoalTyped(k)' /\ TurnTyped(k)' /\ WaitsTyped(k)' /\ TimersTyped'
    BY <1>3, <1>a, <2>1 DEF GoalTyped, TimersTyped, TurnTyped, WaitsTyped
  <2>6. WayTyped(k)'
    BY <1>3, <1>a, <2>1, <2>2, <2>3, <2>4, <2>5 DEF Operations, Places, Points, StepTyped
  <2>7. MoverLimits(k) /\ Movers => ResultsInv' /\ (Pending' <=> Pending)
    BY <1>3, <1>a, <2>1, SameResults
       DEF GoalTyped, InPlace, Leaving, MoverLimits, Movers, OneAtWork, TimersTyped, Unmoved, Waited, Working
  <2>8. MoverLimits(k) /\ Movers => OneAtWork'
    BY <1>3, <1>a, <2>1, <2>7 DEF ContextTyped, GoalTyped, InPlace, Leaving, MemoryTyped, MoverLimits,
       Movers, OneAtWork, StepTyped, TimersTyped, TurnTyped, Unmoved, Waited, WaitsTyped, Working
  <2>9. MoverLimits(k) /\ Movers => InPlace'
    BY <1>3, <1>a, <2>1, <2>7 DEF ContextTyped, GoalTyped, InPlace, Leaving, MemoryTyped, MoverLimits,
       Movers, OneAtWork, StepTyped, TimersTyped, TurnTyped, Unmoved, Waited, WaitsTyped, Working
  <2>10. StrandLimits(k) /\ Strand => Strand'
    BY <1>3, <1>a, <2>1 DEF ContextTyped, GoalTyped, MemoryTyped, Pending, Points, StepTyped, Strand,
       StrandLimits, TimersTyped, TurnTyped, UnderWay, WaitsTyped
  <2> QED
    BY <2>6, <2>7, <2>8, <2>9, <2>10 DEF Kept, Movers
<1>4. CASE /\ ctx.round < k.rounds /\ ctx.state = "running"
          /\ \E first \in Points(k) :
                /\ ctx' = [Way(k)!Cleared(Way(k)!Forgotten(ctx)) EXCEPT !.round = @ + 1, !.wp = first]
                /\ step' = [op |-> "dispatch", i |-> first]
          /\ nav' = [nav EXCEPT !.offset = 1] /\ DOMAIN mem' = DOMAIN mem /\ mem'.ready = mem.ready /\ mem'.conv = 0 /\ adjust' = 0
          /\ UNCHANGED <<pause, turn, waits, timers>>
  <2>1. /\ ctx'.state = ctx.state /\ ctx'.stage = NoStage /\ ctx'.at = 0 /\ ctx'.wp = step'.i /\ ctx'.effects = FALSE
        /\ ctx'.hold = ctx.hold /\ DOMAIN ctx' = DOMAIN ctx /\ ctx'.reN = 0 /\ ctx'.segs = 0 /\ ctx'.round \in 1 .. k.rounds
        /\ step'.op = "dispatch" /\ step'.i \in Points(k)
        /\ nav'.gen = nav.gen /\ nav'.goalGen = nav.goalGen /\ nav'.live = nav.live
    BY <1>4, <1>a, <1>c DEF ContextTyped, GoalTyped, LeftBehind, StepTyped
  <2>2. ContextTyped(k)'
    BY <1>a, <2>1, ClearedTyped DEF ContextTyped
  <2>3. MemoryTyped(k)'
    BY <1>4, <1>a, <2>1 DEF ContextTyped, LeftBehind, MemoryTyped, Operations, Places, Points, StepTyped
  <2>4. GoalTyped(k)'
    BY <1>4, <1>a, <2>1 DEF ContextTyped, GoalTyped, LeftBehind, Operations, Places, Points, StepTyped
  <2>5. StepTyped(k)'
    BY <1>4, <1>a, <2>1 DEF ContextTyped, LeftBehind, Operations, Places, Points, StepTyped
  <2>6. TurnTyped(k)' /\ WaitsTyped(k)' /\ TimersTyped'
    BY <1>4, <1>a, <2>1 DEF TimersTyped, TurnTyped, WaitsTyped
  <2>7. WayTyped(k)'
    BY <1>4, <1>a, <2>1, <2>2, <2>3, <2>4, <2>5, <2>6 DEF Operations, Places, Points, StepTyped
  <2>8. MoverLimits(k) /\ Movers => ResultsInv' /\ (Pending' <=> Pending)
    BY <1>4, <1>a, <2>1, SameResults
       DEF GoalTyped, InPlace, Leaving, MoverLimits, Movers, OneAtWork, TimersTyped, Unmoved, Waited, Working
  <2>9. MoverLimits(k) /\ Movers => OneAtWork'
    BY <1>4, <1>a, <2>1, <2>8 DEF ContextTyped, GoalTyped, InPlace, Leaving, MemoryTyped, MoverLimits,
       Movers, OneAtWork, StepTyped, TimersTyped, TurnTyped, Unmoved, Waited, WaitsTyped, Working
  <2>10. MoverLimits(k) /\ Movers => InPlace'
    BY <1>4, <1>a, <2>1, <2>8 DEF ContextTyped, GoalTyped, InPlace, Leaving, MemoryTyped, MoverLimits,
       Movers, OneAtWork, StepTyped, TimersTyped, TurnTyped, Unmoved, Waited, WaitsTyped, Working
  <2>11. StrandLimits(k) /\ Strand => Strand'
    BY <1>4, <1>a, <2>1 DEF ContextTyped, GoalTyped, MemoryTyped, Pending, Points, StepTyped, Strand,
       StrandLimits, TimersTyped, TurnTyped, UnderWay, WaitsTyped
  <2> QED
    BY <2>7, <2>8, <2>9, <2>10, <2>11 DEF Kept, Movers
<1>5. CASE /\ ctx' = [Way(k)!Cleared(Way(k)!Forgotten(ctx)) EXCEPT !.state = "completed"]
          /\ nav' = Way(k)!Invalidated /\ step' = Way(k)!Idle /\ DOMAIN mem' = DOMAIN mem /\ mem'.ready = mem.ready /\ mem'.conv = 0 /\ adjust' = 0
          /\ UNCHANGED <<pause, turn, waits, timers>>
  <2>1. /\ ctx'.state = "completed" /\ ctx'.stage = NoStage /\ ctx'.at = 0 /\ ctx'.wp = ctx.wp /\ ctx'.effects = FALSE
        /\ ctx'.hold = ctx.hold /\ DOMAIN ctx' = DOMAIN ctx /\ ctx'.reN = 0 /\ ctx'.segs = 0 /\ ctx'.round \in 1 .. k.rounds
        /\ step'.op = "idle"
        /\ nav'.gen = nav.gen + 1 /\ nav'.live = nav.live /\ nav'.offset = nav.offset
    BY <1>5, <1>a, <1>c
       DEF ContextTyped, GoalTyped, LeftBehind, StepTyped, Way!Idle, Way!Invalidated, Way!None
  <2>2. ContextTyped(k)'
    BY <1>a, <2>1, ClearedTyped DEF ContextTyped
  <2>3. MemoryTyped(k)'
    BY <1>5, <1>a, <2>1 DEF ContextTyped, LeftBehind, MemoryTyped, Operations, Places, Points, StepTyped,
       Way!Idle, Way!Invalidated, Way!None
  <2>4. GoalTyped(k)'
    BY <1>5, <1>a, <2>1 DEF ContextTyped, GoalTyped, LeftBehind, Operations, Places, Points, StepTyped,
       Way!Idle, Way!Invalidated, Way!None
  <2>5. StepTyped(k)'
    BY <1>5, <1>a, <2>1 DEF ContextTyped, LeftBehind, Operations, Places, Points, StepTyped, Way!Idle,
       Way!Invalidated, Way!None
  <2>6. TurnTyped(k)' /\ WaitsTyped(k)' /\ TimersTyped'
    BY <1>5, <1>a, <2>1 DEF TimersTyped, TurnTyped, WaitsTyped
  <2>7. WayTyped(k)'
    BY <1>5, <1>a, <2>1, <2>2, <2>3, <2>4, <2>5, <2>6 DEF Operations, Places, Points, StepTyped, Way!None
  <2>8. MoverLimits(k) /\ Movers => ResultsInv' /\ ~Pending' /\ ~nav'.live
    BY <1>5, <1>a, <2>1, Overtaken DEF GoalTyped, InPlace, Leaving, MoverLimits, Movers, OneAtWork,
       TimersTyped, Unmoved, Waited, Working, Way!None
  <2>9. MoverLimits(k) /\ Movers => OneAtWork'
    BY <1>5, <1>a, <2>1, <2>8 DEF ContextTyped, GoalTyped, InPlace, Leaving, MemoryTyped, MoverLimits,
       Movers, OneAtWork, StepTyped, TimersTyped, TurnTyped, Unmoved, Waited, WaitsTyped, Working, Way!None
  <2>10. MoverLimits(k) /\ Movers => InPlace'
    BY <1>5, <1>a, <2>1, <2>8 DEF ContextTyped, GoalTyped, InPlace, Leaving, MemoryTyped, MoverLimits,
       Movers, OneAtWork, StepTyped, TimersTyped, TurnTyped, Unmoved, Waited, WaitsTyped, Working, Way!None
  <2>11. StrandLimits(k) /\ Strand => Strand'
    BY <1>5, <1>a, <2>1 DEF ContextTyped, GoalTyped, MemoryTyped, Pending, Points, StepTyped, Strand,
       StrandLimits, TimersTyped, TurnTyped, UnderWay, WaitsTyped, Way!None
  <2> QED
    BY <2>7, <2>8, <2>9, <2>10, <2>11 DEF Kept, Movers
<1>6. CASE Way(k)!FailTask
  BY <1>a, <1>6, FailTaskKeeps DEF Working
<1>7. CASE ctx.state # "running"
  BY <1>1, <1>7 DEF Way!Continue, Way!Return
<1>8. CASE /\ Way(k)!DepartsTurned(step.i)
           /\ mem' = [mem EXCEPT !.corrected = Way(k)!None, !.conv = 0] /\ adjust' = Way(k)!None
           /\ turn' = [at |-> step.i, cruise |-> Way(k)!None, arrival |-> FALSE, worker |-> TRUE, timer |-> TRUE]
           /\ \E ok \in Way(k)!CancelOutcomes : nav' = [Way(k)!Cancelled(ok) EXCEPT !.offset = step.i]
           /\ ctx' = Way(k)!Forgotten(ctx) /\ Way(k)!Return /\ UNCHANGED <<pause, waits, timers>>
  <2>1. 0 \in Places(k) /\ FALSE \in BOOLEAN
    BY DEF Places
  <2>2. turn' = [at |-> step.i, cruise |-> 0, arrival |-> FALSE, worker |-> TRUE, timer |-> TRUE]
    BY <1>8 DEF Way!None
  <2>3. Turned(k, step.i, 0, FALSE)
    BY <1>a, <2>1, <2>2, TurningTurns
  <2>4. Stopped(k, step.i)
    BY <1>8, TurnStops
  <2> QED
    BY <1>2, <1>8, <2>3, <2>4 DEF Way!DepartsTurned, Way!Return, Way!None
<1>9. CASE /\ ctx.state = "running"
           /\ \/ /\ step.i < Way(k)!N /\ ctx' = [Way(k)!Cleared(Way(k)!Forgotten(ctx)) EXCEPT !.wp = step.i + 1]
                 /\ Way(k)!Go("send", step.i + 1) /\ UNCHANGED nav
              \/ /\ step.i = Way(k)!N /\ ctx.round < k.rounds /\ \E anchored \in BOOLEAN : Way(k)!NextRound(anchored)
              \/ Way(k)!Completed
           /\ mem' = [mem EXCEPT !.corrected = Way(k)!None, !.headed = Way(k)!None, !.conv = 0,
                                 !.reached = IF step.i = Way(k)!N THEN ctx'.wp - 1 ELSE @,
                                 !.departed = IF @ = step.i THEN Way(k)!None ELSE @]
           /\ adjust' = Way(k)!None /\ UNCHANGED <<pause, turn, waits, timers>>
  <2>1. DOMAIN mem' = DOMAIN mem /\ mem'.ready = mem.ready /\ mem'.conv = 0 /\ adjust' = 0
    BY <1>9 DEF MemoryTyped, Way!None
  <2>2. CASE /\ step.i < Way(k)!N /\ ctx' = [Way(k)!Cleared(Way(k)!Forgotten(ctx)) EXCEPT !.wp = step.i + 1]
             /\ Way(k)!Go("send", step.i + 1) /\ UNCHANGED nav
    BY <1>3, <1>9, <2>1, <2>2 DEF Way!N, Way!Go
  <2>3. CASE ctx.round < k.rounds /\ \E anchored \in BOOLEAN : Way(k)!NextRound(anchored)
    <3>1. PICK anchored \in BOOLEAN : Way(k)!NextRound(anchored)
      BY <2>3
    <3>2. (IF anchored THEN 2 ELSE 1) \in Points(k)
      BY <3>1 DEF Way!NextRound, Way!N, Points
    <3> QED
      BY <1>4, <1>9, <2>1, <2>3, <3>1, <3>2 DEF Way!NextRound, Way!Go
  <2>4. CASE Way(k)!Completed
    BY <1>5, <1>9, <2>1, <2>4 DEF Way!Completed, Way!Return
  <2> QED
    BY <1>9, <2>2, <2>3, <2>4
<1> QED
  BY <1>6, <1>7, <1>8, <1>9 DEF Way!Continue

\* A loss of localization pauses the task and stops what moves.
LEMMA LocalizationLostKeeps ==
    ASSUME NEW k, WayLimits(k), WayTyped(k), Way(k)!LocalizationLost
    PROVE  Kept(k)
<1> USE DEF WayLimits, WayBounds, WayTyped
<1>a. step.op = "idle" /\ ctx.state = "running" /\ ctx' = [ctx EXCEPT !.state = "paused"]
       /\ pause' = "lost" /\ mem' = [mem EXCEPT !.conv = 0, !.headed = 0, !.departed = 0] /\ turn' = NoTurn /\ adjust' = 0
       /\ UNCHANGED <<results, waits, timers, step>>
  BY DEF NoTurn, Places, Points, StepTyped, Way!Idle, Way!LocalizationLost, Way!NoTurn, Way!None
<1>1. CASE (waits.speech # 0 \/ waits.dwell # 0) /\ nav' = nav
  <2>1. DOMAIN ctx' = DOMAIN ctx /\ ctx'.state = "paused" /\ ctx'.stage = ctx.stage /\ ctx'.at = ctx.at /\ ctx'.wp = ctx.wp
        /\ ctx'.effects = ctx.effects /\ ctx'.hold = ctx.hold
        /\ mem'.ready = mem.ready /\ turn'.at = 0
    BY <1>1, <1>a DEF ContextTyped, MemoryTyped, NoTurn, StepTyped, Way!NoTurn, Way!None
  <2>2. ContextTyped(k)'
    BY <1>1, <1>a, <2>1 DEF ContextTyped, NoTurn, Operations, Places, Points, StepTyped, Way!NoTurn, Way!None
  <2>3. MemoryTyped(k)'
    BY <1>1, <1>a, <2>1
       DEF ContextTyped, MemoryTyped, NoTurn, Operations, Places, Points, StepTyped, Way!NoTurn, Way!None
  <2>4. TurnTyped(k)'
    BY <1>1, <1>a, <2>1
       DEF ContextTyped, NoTurn, Operations, Places, Points, StepTyped, TurnTyped, Way!NoTurn, Way!None
  <2>5. GoalTyped(k)' /\ WaitsTyped(k)' /\ TimersTyped' /\ StepTyped(k)'
    BY <1>1, <1>a, <2>1 DEF GoalTyped, StepTyped, TimersTyped, WaitsTyped
  <2>6. WayTyped(k)'
    BY <1>1, <1>a, <2>1, <2>2, <2>3, <2>4, <2>5 DEF Operations, Places, Points, StepTyped
  <2>7. MoverLimits(k) /\ Movers => ResultsInv' /\ (Pending' <=> Pending)
    BY <1>1, <1>a, <2>1, SameResults
       DEF GoalTyped, InPlace, Leaving, MoverLimits, Movers, OneAtWork, TimersTyped, Unmoved, Waited, Working
  <2>8. MoverLimits(k) /\ Movers => OneAtWork'
    BY <1>1, <1>a, <2>1, <2>7 DEF ContextTyped, GoalTyped, InPlace, Leaving, MemoryTyped, MoverLimits,
       Movers, OneAtWork, StepTyped, TimersTyped, TurnTyped, Unmoved, Waited, WaitsTyped, Working
  <2>9. MoverLimits(k) /\ Movers => InPlace'
    BY <1>1, <1>a, <2>1, <2>7 DEF ContextTyped, GoalTyped, InPlace, Leaving, MemoryTyped, MoverLimits,
       Movers, OneAtWork, StepTyped, TimersTyped, TurnTyped, Unmoved, Waited, WaitsTyped, Working
  <2>10. StrandLimits(k) /\ Strand => Strand'
    BY <1>1, <1>a, <2>1 DEF ContextTyped, GoalTyped, MemoryTyped, Pending, Points, StepTyped, Strand,
       StrandLimits, TimersTyped, TurnTyped, UnderWay, WaitsTyped
  <2> QED
    BY <2>6, <2>7, <2>8, <2>9, <2>10 DEF Kept, Movers
<1>2. CASE Stopped(k, nav.offset)
  <2>1. DOMAIN ctx' = DOMAIN ctx /\ ctx'.state = "paused" /\ ctx'.stage = ctx.stage /\ ctx'.at = ctx.at /\ ctx'.wp = ctx.wp
        /\ ctx'.effects = ctx.effects /\ ctx'.hold = ctx.hold
        /\ mem'.ready = mem.ready /\ turn'.at = 0
    BY <1>2, <1>a DEF ContextTyped, MemoryTyped, NoTurn, StepTyped, Stopped, Way!NoTurn, Way!None
  <2>2. ContextTyped(k)'
    BY <1>2, <1>a, <2>1
       DEF ContextTyped, NoTurn, Operations, Places, Points, StepTyped, Stopped, Way!NoTurn, Way!None
  <2>3. MemoryTyped(k)'
    BY <1>2, <1>a, <2>1 DEF ContextTyped, MemoryTyped, NoTurn, Operations, Places, Points, StepTyped,
       Stopped, Way!NoTurn, Way!None
  <2>4. GoalTyped(k)'
    BY <1>2, <1>a, <2>1 DEF ContextTyped, GoalTyped, NoTurn, Operations, Places, Points, StepTyped, Stopped,
       Way!NoTurn, Way!None
  <2>5. TurnTyped(k)'
    BY <1>2, <1>a, <2>1 DEF ContextTyped, NoTurn, Operations, Places, Points, StepTyped, Stopped, TurnTyped,
       Way!NoTurn, Way!None
  <2>6. WaitsTyped(k)' /\ TimersTyped' /\ StepTyped(k)'
    BY <1>2, <1>a, <2>1 DEF StepTyped, TimersTyped, WaitsTyped
  <2>7. WayTyped(k)'
    BY <1>2, <1>a, <2>1, <2>2, <2>3, <2>4, <2>5, <2>6 DEF Operations, Places, Points, StepTyped, Stopped
  <2>8. MoverLimits(k) /\ Movers => ResultsInv' /\ ~Pending' /\ ~nav'.live
    BY <1>2, <1>a, <2>1, Overtaken DEF GoalTyped, InPlace, Leaving, MoverLimits, Movers, OneAtWork, Stopped,
       TimersTyped, Unmoved, Waited, Working
  <2>9. MoverLimits(k) /\ Movers => OneAtWork'
    BY <1>2, <1>a, <2>1, <2>8 DEF ContextTyped, GoalTyped, InPlace, Leaving, MemoryTyped, MoverLimits,
       Movers, OneAtWork, StepTyped, Stopped, TimersTyped, TurnTyped, Unmoved, Waited, WaitsTyped, Working
  <2>10. MoverLimits(k) /\ Movers => InPlace'
    BY <1>2, <1>a, <2>1, <2>8 DEF ContextTyped, GoalTyped, InPlace, Leaving, MemoryTyped, MoverLimits,
       Movers, OneAtWork, StepTyped, Stopped, TimersTyped, TurnTyped, Unmoved, Waited, WaitsTyped, Working
  <2>11. StrandLimits(k) /\ Strand => Strand'
    BY <1>2, <1>a, <2>1 DEF ContextTyped, GoalTyped, MemoryTyped, Pending, Points, StepTyped, Stopped,
       Strand, StrandLimits, TimersTyped, TurnTyped, UnderWay, WaitsTyped
  <2> QED
    BY <2>7, <2>8, <2>9, <2>10, <2>11 DEF Kept, Movers
<1> QED
  BY <1>a, <1>1, <1>2, CancelStops DEF ContextTyped, StepTyped, Way!LocalizationLost, Way!None, Way!Waiting

\* A turn that is cleared invalidates the results.
LEMMA TurnClears ==
    ASSUME NEW k, GoalTyped(k), TurnTyped(k), Way(k)!TurnCleared
    PROVE  turn' = NoTurn /\ GoalTyped(k)' /\ (turn.at = 0 => nav' = nav)
<1>1. Way(k)!NoTurn = NoTurn
  BY DEF Way!NoTurn, Way!None, NoTurn
<1>2. turn' = NoTurn /\ (turn = NoTurn => nav' = nav) /\ (turn # NoTurn => nav' = [nav EXCEPT !.gen = @ + 1])
  BY <1>1 DEF Way!TurnCleared, Way!Invalidated
<1>3. GoalTyped(k)'
  BY <1>2 DEF GoalTyped
<1> QED
  BY <1>2, <1>3 DEF TurnTyped

\* A localization that recovered resumes the task it paused.
LEMMA OnRecoveredKeeps ==
    ASSUME NEW k, WayLimits(k), WayTyped(k), Way(k)!OnRecovered
    PROVE  Kept(k)
<1> USE DEF WayLimits, WayBounds, WayTyped
<1>a. step.op = "idle" /\ ctx.state = "paused" /\ pause # "no" /\ pause' = "no"
       /\ UNCHANGED <<results, adjust, waits, timers>>
  BY DEF Places, Points, StepTyped, Way!Idle, Way!None, Way!OnRecovered
<1>b. Way(k)!Active(ctx.wp) <=> ctx.stage # NoStage /\ ctx.at = ctx.wp
  BY WhenActive
<1>d. Way(k)!TurnCleared => turn' = NoTurn /\ GoalTyped(k)' /\ (turn.at = 0 => nav' = nav)
  BY TurnClears
<1>e. ctx.wp \in Points(k) /\ ctx.wp # 0
  BY DEF ContextTyped, Points
<1>1. CASE /\ ctx.hold \in {"post_yaw", "re_coarse"} /\ ctx' = [ctx EXCEPT !.state = "running"]
          /\ step' = [op |-> "coarse", i |-> ctx.wp] /\ UNCHANGED <<mem, nav, turn>>
  <2>1. ContextTyped(k)'
    BY <1>1, <1>a DEF ContextTyped, Operations, Places, Points, StepTyped
  <2>2. StepTyped(k)'
    BY <1>1, <1>a DEF ContextTyped, Operations, Places, Points, StepTyped
  <2>3. MemoryTyped(k)' /\ GoalTyped(k)' /\ TurnTyped(k)' /\ WaitsTyped(k)' /\ TimersTyped'
    BY <1>1, <1>a, <1>e DEF GoalTyped, MemoryTyped, TimersTyped, TurnTyped, WaitsTyped
  <2>4. WayTyped(k)'
    BY <1>1, <1>a, <1>e, <2>1, <2>2, <2>3 DEF Operations, Places, Points, StepTyped
  <2>5. MoverLimits(k) => ~Movers
    BY <1>1, <1>a, <1>e DEF ContextTyped, GoalTyped, InPlace, Leaving, MemoryTyped, MoverLimits, Movers,
       OneAtWork, StepTyped, TimersTyped, TurnTyped, Unmoved, Waited, WaitsTyped, Working
  <2>6. StrandLimits(k) /\ Strand => Strand'
    BY <1>1, <1>a, <1>e DEF ContextTyped, GoalTyped, MemoryTyped, Pending, Points, StepTyped, Strand,
       StrandLimits, TimersTyped, TurnTyped, UnderWay, WaitsTyped
  <2> QED
    BY <2>4, <2>5, <2>6 DEF Kept, Movers
<1>2. CASE /\ ctx.stage # NoStage /\ ctx' = [ctx EXCEPT !.state = "running"]
          /\ step' = [op |-> "resume_post", i |-> ctx.wp] /\ UNCHANGED <<mem, nav, turn>>
  <2>1. DOMAIN ctx' = DOMAIN ctx /\ ctx'.state = "running" /\ ctx'.stage = ctx.stage /\ ctx'.at = ctx.at /\ ctx'.wp = ctx.wp
        /\ ctx'.effects = ctx.effects /\ ctx'.hold = ctx.hold
        /\ step'.op = "resume_post" /\ step'.i = ctx.wp
    BY <1>2, <1>a, <1>e DEF ContextTyped, StepTyped
  <2>2. ContextTyped(k)'
    BY <1>2, <1>a, <2>1 DEF ContextTyped, Operations, Places, Points, StepTyped
  <2>3. StepTyped(k)'
    BY <1>2, <1>a, <2>1 DEF ContextTyped, Operations, Places, Points, StepTyped
  <2>4. MemoryTyped(k)' /\ GoalTyped(k)' /\ TurnTyped(k)' /\ WaitsTyped(k)' /\ TimersTyped'
    BY <1>2, <1>a, <1>e, <2>1 DEF GoalTyped, MemoryTyped, TimersTyped, TurnTyped, WaitsTyped
  <2>5. WayTyped(k)'
    BY <1>2, <1>a, <1>e, <2>1, <2>2, <2>3, <2>4 DEF Operations, Places, Points, StepTyped
  <2>6. MoverLimits(k) /\ Movers => ResultsInv' /\ (Pending' <=> Pending)
    BY <1>2, <1>a, <1>e, <2>1, SameResults
       DEF GoalTyped, InPlace, Leaving, MoverLimits, Movers, OneAtWork, TimersTyped, Unmoved, Waited, Working
  <2>7. MoverLimits(k) /\ Movers => OneAtWork'
    BY <1>2, <1>a, <1>e, <2>1, <2>6 DEF ContextTyped, GoalTyped, InPlace, Leaving, MemoryTyped, MoverLimits,
       Movers, OneAtWork, StepTyped, TimersTyped, TurnTyped, Unmoved, Waited, WaitsTyped, Working
  <2>8. MoverLimits(k) /\ Movers => InPlace'
    BY <1>2, <1>a, <1>e, <2>1, <2>6 DEF ContextTyped, GoalTyped, InPlace, Leaving, MemoryTyped, MoverLimits,
       Movers, OneAtWork, StepTyped, TimersTyped, TurnTyped, Unmoved, Waited, WaitsTyped, Working
  <2>9. StrandLimits(k) /\ Strand => Strand'
    BY <1>2, <1>a, <1>e, <2>1 DEF ContextTyped, GoalTyped, MemoryTyped, Pending, Points, StepTyped, Strand,
       StrandLimits, TimersTyped, TurnTyped, UnderWay, WaitsTyped
  <2> QED
    BY <2>5, <2>6, <2>7, <2>8, <2>9 DEF Kept, Movers
<1>3. CASE /\ (waits.speech # 0 \/ waits.dwell # 0) /\ ~(ctx.stage # NoStage /\ ctx.at = ctx.wp)
          /\ \E i \in Points(k) : mem' = [mem EXCEPT !.ready = i] /\ step' = [op |-> "maybe", i |-> i]
          /\ ctx' = [ctx EXCEPT !.state = "running"] /\ UNCHANGED <<nav, turn>>
  <2>1. ContextTyped(k)'
    BY <1>3, <1>a DEF ContextTyped, Operations, Places, Points, StepTyped
  <2>2. MemoryTyped(k)'
    BY <1>3, <1>a DEF ContextTyped, MemoryTyped, Operations, Places, Points, StepTyped
  <2>3. StepTyped(k)'
    BY <1>3, <1>a DEF ContextTyped, Operations, Places, Points, StepTyped
  <2>4. GoalTyped(k)' /\ TurnTyped(k)' /\ WaitsTyped(k)' /\ TimersTyped'
    BY <1>3, <1>a, <1>e DEF GoalTyped, TimersTyped, TurnTyped, WaitsTyped
  <2>5. WayTyped(k)'
    BY <1>3, <1>a, <1>e, <2>1, <2>2, <2>3, <2>4 DEF Operations, Places, Points, StepTyped
  <2>6. MoverLimits(k) => ~Movers
    BY <1>3, <1>a, <1>e DEF ContextTyped, GoalTyped, InPlace, Leaving, MemoryTyped, MoverLimits, Movers,
       OneAtWork, StepTyped, TimersTyped, TurnTyped, Unmoved, Waited, WaitsTyped, Working
  <2>7. StrandLimits(k) => ~Strand
    BY <1>3, <1>a, <1>e DEF ContextTyped, GoalTyped, MemoryTyped, Points, StepTyped, Strand, StrandLimits,
       TurnTyped, UnderWay, WaitsTyped
  <2> QED
    BY <2>5, <2>6, <2>7 DEF Kept, Movers
<1>4. CASE ~(ctx.stage # NoStage /\ ctx.at = ctx.wp) /\ ctx' = [ctx EXCEPT !.state = "running"]
          /\ mem' = [mem EXCEPT !.corrected = ctx.wp] /\ nav' = [nav EXCEPT !.offset = ctx.wp]
          /\ step' = [op |-> "result", i |-> ctx.wp] /\ UNCHANGED turn
  <2>1. DOMAIN ctx' = DOMAIN ctx /\ ctx'.state = "running" /\ ctx'.stage = ctx.stage /\ ctx'.at = ctx.at /\ ctx'.wp = ctx.wp
        /\ ctx'.effects = ctx.effects /\ ctx'.hold = ctx.hold
        /\ step'.op = "result" /\ step'.i = ctx.wp
        /\ mem'.ready = mem.ready
        /\ nav'.gen = nav.gen /\ nav'.goalGen = nav.goalGen /\ nav'.live = nav.live
    BY <1>4, <1>a, <1>e DEF ContextTyped, GoalTyped, MemoryTyped, StepTyped
  <2>2. ContextTyped(k)'
    BY <1>4, <1>a, <2>1 DEF ContextTyped, Operations, Places, Points, StepTyped
  <2>3. MemoryTyped(k)'
    BY <1>4, <1>a, <2>1 DEF ContextTyped, MemoryTyped, Operations, Places, Points, StepTyped
  <2>4. GoalTyped(k)'
    BY <1>4, <1>a, <2>1 DEF ContextTyped, GoalTyped, Operations, Places, Points, StepTyped
  <2>5. StepTyped(k)'
    BY <1>4, <1>a, <2>1 DEF ContextTyped, Operations, Places, Points, StepTyped
  <2>6. TurnTyped(k)' /\ WaitsTyped(k)' /\ TimersTyped'
    BY <1>4, <1>a, <1>e, <2>1 DEF TimersTyped, TurnTyped, WaitsTyped
  <2>7. WayTyped(k)'
    BY <1>4, <1>a, <1>e, <2>1, <2>2, <2>3, <2>4, <2>5, <2>6 DEF Operations, Places, Points, StepTyped
  <2>8. MoverLimits(k) /\ Movers => ResultsInv' /\ (Pending' <=> Pending)
    BY <1>4, <1>a, <1>e, <2>1, SameResults
       DEF GoalTyped, InPlace, Leaving, MoverLimits, Movers, OneAtWork, TimersTyped, Unmoved, Waited, Working
  <2>9. MoverLimits(k) /\ Movers => OneAtWork'
    BY <1>4, <1>a, <1>e, <2>1, <2>8 DEF ContextTyped, GoalTyped, InPlace, Leaving, MemoryTyped, MoverLimits,
       Movers, OneAtWork, StepTyped, TimersTyped, TurnTyped, Unmoved, Waited, WaitsTyped, Working
  <2>10. MoverLimits(k) /\ Movers => InPlace'
    BY <1>4, <1>a, <1>e, <2>1, <2>8 DEF ContextTyped, GoalTyped, InPlace, Leaving, MemoryTyped, MoverLimits,
       Movers, OneAtWork, StepTyped, TimersTyped, TurnTyped, Unmoved, Waited, WaitsTyped, Working
  <2>11. StrandLimits(k) /\ Strand => Strand'
    BY <1>4, <1>a, <1>e, <2>1 DEF ContextTyped, GoalTyped, MemoryTyped, Pending, Points, StepTyped, Strand,
       StrandLimits, TimersTyped, TurnTyped, UnderWay, WaitsTyped
  <2> QED
    BY <2>7, <2>8, <2>9, <2>10, <2>11 DEF Kept, Movers
<1>5. CASE ~(ctx.stage # NoStage /\ ctx.at = ctx.wp) /\ ctx' = [ctx EXCEPT !.state = "running"]
          /\ mem' = [mem EXCEPT !.headed = 0, !.departed = 0] /\ turn' = NoTurn /\ GoalTyped(k)' /\ (turn.at = 0 => nav' = nav)
          /\ step' = [op |-> "reapproach_recovered", i |-> ctx.wp]
  <2>1. DOMAIN ctx' = DOMAIN ctx /\ ctx'.state = "running" /\ ctx'.stage = ctx.stage /\ ctx'.at = ctx.at /\ ctx'.wp = ctx.wp
        /\ ctx'.effects = ctx.effects /\ ctx'.hold = ctx.hold
        /\ step'.op = "reapproach_recovered" /\ step'.i = ctx.wp
        /\ mem'.ready = mem.ready /\ turn'.at = 0
    BY <1>5, <1>a, <1>e DEF ContextTyped, MemoryTyped, NoTurn, StepTyped, Way!NoTurn, Way!None
  <2>2. ContextTyped(k)'
    BY <1>5, <1>a, <2>1 DEF ContextTyped, NoTurn, Operations, Places, Points, StepTyped, Way!NoTurn, Way!None
  <2>3. MemoryTyped(k)'
    BY <1>5, <1>a, <2>1
       DEF ContextTyped, MemoryTyped, NoTurn, Operations, Places, Points, StepTyped, Way!NoTurn, Way!None
  <2>4. TurnTyped(k)'
    BY <1>5, <1>a, <2>1
       DEF ContextTyped, NoTurn, Operations, Places, Points, StepTyped, TurnTyped, Way!NoTurn, Way!None
  <2>5. StepTyped(k)'
    BY <1>5, <1>a, <2>1 DEF ContextTyped, NoTurn, Operations, Places, Points, StepTyped, Way!NoTurn, Way!None
  <2>6. WaitsTyped(k)' /\ TimersTyped'
    BY <1>5, <1>a, <1>e, <2>1 DEF TimersTyped, WaitsTyped
  <2>7. WayTyped(k)'
    BY <1>5, <1>a, <1>e, <2>1, <2>2, <2>3, <2>4, <2>5, <2>6 DEF Operations, Places, Points, StepTyped
  <2>8. MoverLimits(k) /\ Movers => ResultsInv' /\ (Pending' <=> Pending)
    BY <1>5, <1>a, <1>e, <2>1, SameResults
       DEF GoalTyped, InPlace, Leaving, MoverLimits, Movers, OneAtWork, TimersTyped, Unmoved, Waited, Working
  <2>9. MoverLimits(k) /\ Movers => OneAtWork'
    BY <1>5, <1>a, <1>e, <2>1, <2>8 DEF ContextTyped, GoalTyped, InPlace, Leaving, MemoryTyped, MoverLimits,
       Movers, OneAtWork, StepTyped, TimersTyped, TurnTyped, Unmoved, Waited, WaitsTyped, Working
  <2>10. MoverLimits(k) /\ Movers => InPlace'
    BY <1>5, <1>a, <1>e, <2>1, <2>8 DEF ContextTyped, GoalTyped, InPlace, Leaving, MemoryTyped, MoverLimits,
       Movers, OneAtWork, StepTyped, TimersTyped, TurnTyped, Unmoved, Waited, WaitsTyped, Working
  <2>11. StrandLimits(k) /\ Strand => Strand'
    BY <1>5, <1>a, <1>e, <2>1 DEF ContextTyped, GoalTyped, MemoryTyped, Pending, Points, StepTyped, Strand,
       StrandLimits, TimersTyped, TurnTyped, UnderWay, WaitsTyped
  <2> QED
    BY <2>7, <2>8, <2>9, <2>10, <2>11 DEF Kept, Movers
<1>6. CASE ~(ctx.stage # NoStage /\ ctx.at = ctx.wp) /\ waits.speech = 0 /\ waits.dwell = 0 /\ ctx' = [ctx EXCEPT !.state = "resuming"]
          /\ mem' = [mem EXCEPT !.headed = 0, !.departed = 0] /\ turn' = NoTurn /\ GoalTyped(k)' /\ (turn.at = 0 => nav' = nav)
          /\ step' = [op |-> "send", i |-> ctx.wp]
  <2>1. DOMAIN ctx' = DOMAIN ctx /\ ctx'.state = "resuming" /\ ctx'.stage = ctx.stage /\ ctx'.at = ctx.at /\ ctx'.wp = ctx.wp
        /\ ctx'.effects = ctx.effects /\ ctx'.hold = ctx.hold
        /\ step'.op = "send" /\ step'.i = ctx.wp
        /\ mem'.ready = mem.ready /\ turn'.at = 0
    BY <1>6, <1>a, <1>e DEF ContextTyped, MemoryTyped, NoTurn, StepTyped, Way!NoTurn, Way!None
  <2>2. ContextTyped(k)'
    BY <1>6, <1>a, <2>1 DEF ContextTyped, NoTurn, Operations, Places, Points, StepTyped, Way!NoTurn, Way!None
  <2>3. MemoryTyped(k)'
    BY <1>6, <1>a, <2>1
       DEF ContextTyped, MemoryTyped, NoTurn, Operations, Places, Points, StepTyped, Way!NoTurn, Way!None
  <2>4. TurnTyped(k)'
    BY <1>6, <1>a, <2>1
       DEF ContextTyped, NoTurn, Operations, Places, Points, StepTyped, TurnTyped, Way!NoTurn, Way!None
  <2>5. StepTyped(k)'
    BY <1>6, <1>a, <2>1 DEF ContextTyped, NoTurn, Operations, Places, Points, StepTyped, Way!NoTurn, Way!None
  <2>6. WaitsTyped(k)' /\ TimersTyped'
    BY <1>6, <1>a, <1>e, <2>1 DEF TimersTyped, WaitsTyped
  <2>7. WayTyped(k)'
    BY <1>6, <1>a, <1>e, <2>1, <2>2, <2>3, <2>4, <2>5, <2>6 DEF Operations, Places, Points, StepTyped
  <2>8. MoverLimits(k) /\ Movers => ResultsInv' /\ (Pending' <=> Pending)
    BY <1>6, <1>a, <1>e, <2>1, SameResults
       DEF GoalTyped, InPlace, Leaving, MoverLimits, Movers, OneAtWork, TimersTyped, Unmoved, Waited, Working
  <2>9. MoverLimits(k) /\ Movers => OneAtWork'
    BY <1>6, <1>a, <1>e, <2>1, <2>8 DEF ContextTyped, GoalTyped, InPlace, Leaving, MemoryTyped, MoverLimits,
       Movers, OneAtWork, StepTyped, TimersTyped, TurnTyped, Unmoved, Waited, WaitsTyped, Working
  <2>10. MoverLimits(k) /\ Movers => InPlace'
    BY <1>6, <1>a, <1>e, <2>1, <2>8 DEF ContextTyped, GoalTyped, InPlace, Leaving, MemoryTyped, MoverLimits,
       Movers, OneAtWork, StepTyped, TimersTyped, TurnTyped, Unmoved, Waited, WaitsTyped, Working
  <2>11. StrandLimits(k) /\ Strand => Strand'
    BY <1>6, <1>a, <1>e, <2>1 DEF ContextTyped, GoalTyped, MemoryTyped, Pending, Points, StepTyped, Strand,
       StrandLimits, TimersTyped, TurnTyped, UnderWay, WaitsTyped
  <2> QED
    BY <2>7, <2>8, <2>9, <2>10, <2>11 DEF Kept, Movers
<1>7. Way(k)!Waiting \in Places(k) /\ (Way(k)!Waiting # 0 <=> waits.speech # 0 \/ waits.dwell # 0)
  BY DEF Way!Waiting, Way!None, WaitsTyped
<1>8. Way(k)!Waiting # 0 => Way(k)!Waiting \in Points(k)
  BY <1>7 DEF Places, Points
<1>9. CASE \/ Way(k)!CoarsePending(ctx.wp) /\ Way(k)!Go("coarse", ctx.wp) /\ ctx' = [ctx EXCEPT !.state = "running"]
               /\ UNCHANGED <<mem, nav, turn>>
           \/ Way(k)!Active(ctx.wp) /\ Way(k)!Go("resume_post", ctx.wp) /\ ctx' = [ctx EXCEPT !.state = "running"]
               /\ UNCHANGED <<mem, nav, turn>>
  BY <1>b, <1>1, <1>2, <1>9 DEF Way!CoarsePending, Way!Go
<1>10. CASE /\ ~Way(k)!Active(ctx.wp) /\ Way(k)!Waiting # Way(k)!None /\ mem' = [mem EXCEPT !.ready = Way(k)!Waiting]
            /\ Way(k)!Go("maybe", Way(k)!Waiting) /\ ctx' = [ctx EXCEPT !.state = "running"] /\ UNCHANGED <<nav, turn>>
  BY <1>b, <1>3, <1>7, <1>8, <1>10 DEF Way!Go, Way!None
<1>11. CASE /\ ~Way(k)!Active(ctx.wp) /\ ctx' = [ctx EXCEPT !.state = "running"]
            /\ \/ /\ mem' = [mem EXCEPT !.corrected = ctx.wp] /\ nav' = [nav EXCEPT !.offset = ctx.wp]
                  /\ Way(k)!Go("result", ctx.wp) /\ UNCHANGED turn
               \/ /\ Way(k)!TurnCleared /\ mem' = [mem EXCEPT !.headed = Way(k)!None, !.departed = Way(k)!None]
                  /\ Way(k)!Go("reapproach_recovered", ctx.wp)
  BY <1>b, <1>d, <1>4, <1>5, <1>11 DEF Way!Go, Way!None
<1>12. CASE /\ ~Way(k)!Active(ctx.wp) /\ Way(k)!Waiting = Way(k)!None /\ ctx' = [ctx EXCEPT !.state = "resuming"]
            /\ Way(k)!TurnCleared /\ mem' = [mem EXCEPT !.headed = Way(k)!None, !.departed = Way(k)!None]
            /\ Way(k)!Go("send", ctx.wp)
  BY <1>b, <1>d, <1>6, <1>7, <1>12 DEF Way!Go, Way!None
<1> QED
  BY <1>9, <1>10, <1>11, <1>12 DEF Way!OnRecovered, Way!ResumeIndex

\* A recovery reaches a paused task.
LEMMA RecoveredKeeps ==
    ASSUME NEW k, WayLimits(k), WayTyped(k), Way(k)!Recovered \/ Way(k)!AbsoluteWatchFires
    PROVE  Kept(k)
  BY OnRecoveredKeeps DEF Way!Recovered, Way!AbsoluteWatchFires

\* A recovery reaches a task that still runs.
LEMMA RecoveredRunningKeeps ==
    ASSUME NEW k, WayLimits(k), WayTyped(k), Way(k)!RecoveredRunning
    PROVE  Kept(k)
<1> USE DEF WayLimits, WayBounds, WayTyped
<1>a. step.op = "idle" /\ ctx.state = "running" /\ "recovered" \in k.events /\ pause' = "no"
       /\ UNCHANGED <<ctx, results, adjust, waits, timers>>
  BY DEF Places, Points, StepTyped, Way!Event, Way!Idle, Way!None, Way!RecoveredRunning
<1>b. Way(k)!Active(ctx.wp) <=> ctx.stage # NoStage /\ ctx.at = ctx.wp
  BY WhenActive
<1>d. Way(k)!TurnCleared => turn' = NoTurn /\ GoalTyped(k)' /\ (turn.at = 0 => nav' = nav)
  BY TurnClears
<1>e. ctx.wp \in Points(k) /\ ctx.wp # 0
  BY DEF ContextTyped, Points
<1>1. CASE \E o \in {"coarse", "resume_post"} : step' = [op |-> o, i |-> ctx.wp] /\ UNCHANGED <<mem, nav, turn>>
  <2>1. StepTyped(k)'
    BY <1>1, <1>a DEF ContextTyped, Operations, Places, Points, StepTyped
  <2>2. ContextTyped(k)' /\ MemoryTyped(k)' /\ GoalTyped(k)' /\ TurnTyped(k)' /\ WaitsTyped(k)' /\ TimersTyped'
    BY <1>1, <1>a, <1>e DEF ContextTyped, GoalTyped, MemoryTyped, TimersTyped, TurnTyped, WaitsTyped
  <2>3. WayTyped(k)'
    BY <1>1, <1>a, <1>e, <2>1, <2>2 DEF Operations, Places, Points, StepTyped
  <2>4. MoverLimits(k) => ~Movers
    BY <1>1, <1>a, <1>e DEF ContextTyped, GoalTyped, InPlace, Leaving, MemoryTyped, MoverLimits, Movers,
       OneAtWork, StepTyped, TimersTyped, TurnTyped, Unmoved, Waited, WaitsTyped, Working
  <2>5. StrandLimits(k) /\ Strand => Strand'
    BY <1>1, <1>a, <1>e DEF ContextTyped, GoalTyped, MemoryTyped, Pending, Points, StepTyped, Strand,
       StrandLimits, TimersTyped, TurnTyped, UnderWay, WaitsTyped
  <2> QED
    BY <2>3, <2>4, <2>5 DEF Kept, Movers
<1>2. CASE (waits.speech # 0 \/ waits.dwell # 0) /\ step' = Way(k)!Idle /\ UNCHANGED <<mem, nav, turn>>
  <2>1. StepTyped(k)'
    BY <1>2, <1>a DEF ContextTyped, Operations, Places, Points, StepTyped, Way!Idle, Way!None
  <2>2. ContextTyped(k)' /\ MemoryTyped(k)' /\ GoalTyped(k)' /\ TurnTyped(k)' /\ WaitsTyped(k)' /\ TimersTyped'
    BY <1>2, <1>a DEF ContextTyped, GoalTyped, MemoryTyped, TimersTyped, TurnTyped, WaitsTyped
  <2>3. WayTyped(k)'
    BY <1>2, <1>a, <2>1, <2>2 DEF Operations, Places, Points, StepTyped, Way!Idle, Way!None
  <2>4. MoverLimits(k) => ~Movers
    BY <1>2, <1>a DEF ContextTyped, GoalTyped, InPlace, Leaving, MemoryTyped, MoverLimits, Movers, OneAtWork,
       StepTyped, TimersTyped, TurnTyped, Unmoved, Waited, WaitsTyped, Working, Way!Idle, Way!None
  <2>5. StrandLimits(k) => ~Strand
    BY <1>2, <1>a DEF ContextTyped, GoalTyped, MemoryTyped, Points, StepTyped, Strand, StrandLimits,
       TurnTyped, UnderWay, WaitsTyped, Way!Idle, Way!None
  <2> QED
    BY <2>3, <2>4, <2>5 DEF Kept, Movers
<1>3. CASE mem' = [mem EXCEPT !.headed = 0, !.departed = 0] /\ turn' = NoTurn /\ GoalTyped(k)' /\ (turn.at = 0 => nav' = nav) /\ step' = [op |-> "send", i |-> ctx.wp]
  <2>1. MemoryTyped(k)'
    BY <1>3, <1>a
       DEF ContextTyped, MemoryTyped, NoTurn, Operations, Places, Points, StepTyped, Way!NoTurn, Way!None
  <2>2. TurnTyped(k)'
    BY <1>3, <1>a
       DEF ContextTyped, NoTurn, Operations, Places, Points, StepTyped, TurnTyped, Way!NoTurn, Way!None
  <2>3. StepTyped(k)'
    BY <1>3, <1>a DEF ContextTyped, NoTurn, Operations, Places, Points, StepTyped, Way!NoTurn, Way!None
  <2>4. ContextTyped(k)' /\ WaitsTyped(k)' /\ TimersTyped'
    BY <1>3, <1>a, <1>e DEF ContextTyped, TimersTyped, WaitsTyped
  <2>5. WayTyped(k)'
    BY <1>3, <1>a, <1>e, <2>1, <2>2, <2>3, <2>4
       DEF NoTurn, Operations, Places, Points, StepTyped, Way!NoTurn, Way!None
  <2>6. MoverLimits(k) => ~Movers
    BY <1>3, <1>a, <1>e DEF ContextTyped, GoalTyped, InPlace, Leaving, MemoryTyped, MoverLimits, Movers,
       NoTurn, OneAtWork, StepTyped, TimersTyped, TurnTyped, Unmoved, Waited, WaitsTyped, Working,
       Way!NoTurn, Way!None
  <2>7. StrandLimits(k) /\ Strand => Strand'
    BY <1>3, <1>a, <1>e DEF ContextTyped, GoalTyped, MemoryTyped, NoTurn, Pending, Points, StepTyped, Strand,
       StrandLimits, TimersTyped, TurnTyped, UnderWay, WaitsTyped, Way!NoTurn, Way!None
  <2> QED
    BY <2>5, <2>6, <2>7 DEF Kept, Movers
<1> QED
  BY <1>a, <1>1, <1>2, <1>3, <1>d DEF ContextTyped, StepTyped, Way!Go, Way!None, Way!RecoveredRunning,
     Way!ResumeIndex, Way!Return, Way!Waiting

\* An arrival resumes at the stage it had reached.
LEMMA ResumePostArrivalKeeps ==
    ASSUME NEW k, WayLimits(k), WayTyped(k), Way(k)!ResumePostArrival
    PROVE  Kept(k)
<1> USE DEF WayLimits, WayBounds, WayTyped
<1>a. step.op = "resume_post" /\ step.i \in Points(k) /\ UNCHANGED <<ctx, pause, results, turn, adjust, timers>>
       /\ nav' = [nav EXCEPT !.offset = step.i]
  BY DEF Places, Points, StepTyped, Way!At, Way!ResumePostArrival
<1>1. CASE ctx.stage = "ready" /\ DOMAIN mem' = DOMAIN mem /\ mem'.ready = mem.ready /\ mem'.conv \in 0 .. k.conv /\ Begun(k, step.i) /\ step' = [op |-> "effects", i |-> step.i]
  <2>1. nav'.gen = nav.gen /\ nav'.goalGen = nav.goalGen /\ nav'.live = nav.live
    BY <1>1, <1>a DEF Begun, ContextTyped, GoalTyped, StepTyped
  <2>2. MemoryTyped(k)'
    BY <1>1, <1>a, <2>1 DEF Begun, ContextTyped, MemoryTyped, Operations, Places, Points, StepTyped
  <2>3. GoalTyped(k)'
    BY <1>1, <1>a, <2>1 DEF Begun, ContextTyped, GoalTyped, Operations, Places, Points, StepTyped
  <2>4. WaitsTyped(k)'
    BY <1>1, <1>a, <2>1 DEF Begun, ContextTyped, Operations, Places, Points, StepTyped, WaitsTyped
  <2>5. StepTyped(k)'
    BY <1>1, <1>a, <2>1 DEF Begun, ContextTyped, Operations, Places, Points, StepTyped
  <2>6. ContextTyped(k)' /\ TurnTyped(k)' /\ TimersTyped'
    BY <1>1, <1>a, <2>1 DEF ContextTyped, TimersTyped, TurnTyped
  <2>7. WayTyped(k)'
    BY <1>1, <1>a, <2>1, <2>2, <2>3, <2>4, <2>5, <2>6 DEF Begun, Operations, Places, Points, StepTyped
  <2>8. MoverLimits(k) /\ Movers => ResultsInv' /\ (Pending' <=> Pending)
    BY <1>1, <1>a, <2>1, SameResults DEF Begun, GoalTyped, InPlace, Leaving, MoverLimits, Movers, OneAtWork,
       TimersTyped, Unmoved, Waited, Working
  <2>9. MoverLimits(k) /\ Movers => OneAtWork'
    BY <1>1, <1>a, <2>1, <2>8 DEF Begun, ContextTyped, GoalTyped, InPlace, Leaving, MemoryTyped, MoverLimits,
       Movers, OneAtWork, StepTyped, TimersTyped, TurnTyped, Unmoved, Waited, WaitsTyped, Working
  <2>10. MoverLimits(k) /\ Movers => InPlace'
    BY <1>1, <1>a, <2>1, <2>8 DEF Begun, ContextTyped, GoalTyped, InPlace, Leaving, MemoryTyped, MoverLimits,
       Movers, OneAtWork, StepTyped, TimersTyped, TurnTyped, Unmoved, Waited, WaitsTyped, Working
  <2>11. StrandLimits(k) /\ Strand => Strand'
    BY <1>1, <1>a, <2>1 DEF Begun, ContextTyped, GoalTyped, MemoryTyped, Pending, Points, StepTyped, Strand,
       StrandLimits, TimersTyped, TurnTyped, UnderWay, WaitsTyped
  <2> QED
    BY <2>7, <2>8, <2>9, <2>10, <2>11 DEF Kept, Movers
<1>2. CASE ctx.stage # "ready" /\ DOMAIN mem' = DOMAIN mem /\ mem'.ready = mem.ready /\ mem'.conv \in 0 .. k.conv /\ Begun(k, step.i) /\ step' = [op |-> "result", i |-> step.i]
  <2>1. nav'.gen = nav.gen /\ nav'.goalGen = nav.goalGen /\ nav'.live = nav.live
    BY <1>2, <1>a DEF Begun, ContextTyped, GoalTyped, StepTyped
  <2>2. MemoryTyped(k)'
    BY <1>2, <1>a, <2>1 DEF Begun, ContextTyped, MemoryTyped, Operations, Places, Points, StepTyped
  <2>3. GoalTyped(k)'
    BY <1>2, <1>a, <2>1 DEF Begun, ContextTyped, GoalTyped, Operations, Places, Points, StepTyped
  <2>4. WaitsTyped(k)'
    BY <1>2, <1>a, <2>1 DEF Begun, ContextTyped, Operations, Places, Points, StepTyped, WaitsTyped
  <2>5. StepTyped(k)'
    BY <1>2, <1>a, <2>1 DEF Begun, ContextTyped, Operations, Places, Points, StepTyped
  <2>6. ContextTyped(k)' /\ TurnTyped(k)' /\ TimersTyped'
    BY <1>2, <1>a, <2>1 DEF ContextTyped, TimersTyped, TurnTyped
  <2>7. WayTyped(k)'
    BY <1>2, <1>a, <2>1, <2>2, <2>3, <2>4, <2>5, <2>6 DEF Begun, Operations, Places, Points, StepTyped
  <2>8. MoverLimits(k) /\ Movers => ResultsInv' /\ (Pending' <=> Pending)
    BY <1>2, <1>a, <2>1, SameResults DEF Begun, GoalTyped, InPlace, Leaving, MoverLimits, Movers, OneAtWork,
       TimersTyped, Unmoved, Waited, Working
  <2>9. MoverLimits(k) /\ Movers => OneAtWork'
    BY <1>2, <1>a, <2>1, <2>8 DEF Begun, ContextTyped, GoalTyped, InPlace, Leaving, MemoryTyped, MoverLimits,
       Movers, OneAtWork, StepTyped, TimersTyped, TurnTyped, Unmoved, Waited, WaitsTyped, Working
  <2>10. MoverLimits(k) /\ Movers => InPlace'
    BY <1>2, <1>a, <2>1, <2>8 DEF Begun, ContextTyped, GoalTyped, InPlace, Leaving, MemoryTyped, MoverLimits,
       Movers, OneAtWork, StepTyped, TimersTyped, TurnTyped, Unmoved, Waited, WaitsTyped, Working
  <2>11. StrandLimits(k) /\ Strand => Strand'
    BY <1>2, <1>a, <2>1 DEF Begun, ContextTyped, GoalTyped, MemoryTyped, Pending, Points, StepTyped, Strand,
       StrandLimits, TimersTyped, TurnTyped, UnderWay, WaitsTyped
  <2> QED
    BY <2>7, <2>8, <2>9, <2>10, <2>11 DEF Kept, Movers
<1>3. DOMAIN mem' = DOMAIN mem /\ mem'.ready = mem.ready /\ mem'.conv \in 0 .. k.conv
  BY DEF MemoryTyped, Way!ResumePostArrival
<1>4. Begun(k, step.i)
  BY <1>a, RestoredBegins DEF Way!ResumePostArrival
<1> QED
  BY <1>1, <1>2, <1>3, <1>4 DEF Way!ResumePostArrival, Way!Go

\* A coarse arrival that was held resumes.
LEMMA ResumeCoarseKeeps ==
    ASSUME NEW k, WayLimits(k), WayTyped(k), Way(k)!ResumeCoarse
    PROVE  Kept(k)
<1> USE DEF WayLimits, WayBounds, WayTyped
<1>a. step.op = "coarse" /\ step.i \in Points(k) /\ UNCHANGED <<pause, results, waits, timers>>
  BY DEF Places, Points, StepTyped, Way!At, Way!ResumeCoarse
<1>b. 0 \in Places(k)
  BY DEF Places
<1>1. CASE /\ ContextTyped(k)' /\ ctx'.state = ctx.state /\ DOMAIN mem' = DOMAIN mem /\ mem'.ready = mem.ready /\ mem'.conv \in 0 .. k.conv /\ turn' = NoTurn /\ GoalTyped(k)' /\ (turn.at = 0 => nav' = nav)
          /\ adjust' = 0 /\ step' = [op |-> "dispatch", i |-> step.i]
  <2>1. MemoryTyped(k)'
    BY <1>1, <1>a
       DEF ContextTyped, MemoryTyped, NoTurn, Operations, Places, Points, StepTyped, Way!NoTurn, Way!None
  <2>2. TurnTyped(k)'
    BY <1>1, <1>a
       DEF ContextTyped, NoTurn, Operations, Places, Points, StepTyped, TurnTyped, Way!NoTurn, Way!None
  <2>3. StepTyped(k)'
    BY <1>1, <1>a DEF ContextTyped, NoTurn, Operations, Places, Points, StepTyped, Way!NoTurn, Way!None
  <2>4. WaitsTyped(k)' /\ TimersTyped'
    BY <1>1, <1>a, <1>b DEF TimersTyped, WaitsTyped
  <2>5. WayTyped(k)'
    BY <1>1, <1>a, <1>b, <2>1, <2>2, <2>3, <2>4
       DEF NoTurn, Operations, Places, Points, StepTyped, Way!NoTurn, Way!None
  <2>6. MoverLimits(k) => ~Movers
    BY <1>1, <1>a, <1>b DEF ContextTyped, GoalTyped, InPlace, Leaving, MemoryTyped, MoverLimits, Movers,
       NoTurn, OneAtWork, StepTyped, TimersTyped, TurnTyped, Unmoved, Waited, WaitsTyped, Working,
       Way!NoTurn, Way!None
  <2>7. StrandLimits(k) /\ Strand => Strand'
    BY <1>1, <1>a, <1>b DEF ContextTyped, GoalTyped, MemoryTyped, NoTurn, Pending, Points, StepTyped, Strand,
       StrandLimits, TimersTyped, TurnTyped, UnderWay, WaitsTyped, Way!NoTurn, Way!None
  <2> QED
    BY <2>5, <2>6, <2>7 DEF Kept, Movers
<1>2. PICK h : ctx' = [Way(k)!Staged(Way(k)!Forgotten(ctx), step.i, "coarse") EXCEPT !.hold = h, !.effects = FALSE,
                            !.coarse = TRUE, !.segs = 0, !.wp = step.i]
  BY Zenon DEF Way!ResumeCoarse
<1>3. ContextTyped(k)' /\ ctx'.state = ctx.state
  <2> DEFINE c == Way(k)!Staged(Way(k)!Forgotten(ctx), step.i, "coarse")
  <2>1. /\ DOMAIN c = DOMAIN ctx /\ c.state = ctx.state /\ c.at = step.i /\ c.round = ctx.round /\ c.reN = 0
    BY DEF ContextTyped, Way!Staged, Way!Forgotten, Way!None
  <2>2. ctx' = [c EXCEPT !.hold = h, !.effects = FALSE, !.coarse = TRUE, !.segs = 0, !.wp = step.i]
    BY <1>2
  <2> HIDE DEF c
  <2>3. /\ DOMAIN ctx' = DOMAIN ctx /\ ctx'.state = ctx.state /\ ctx'.at = step.i /\ ctx'.round = ctx.round
        /\ ctx'.reN = 0 /\ ctx'.segs = 0 /\ ctx'.wp = step.i /\ ctx'.effects = FALSE
    BY <2>1, <2>2 DEF ContextTyped
  <2> QED
    BY <1>a, <2>3, ClearedTyped DEF ContextTyped
<1>4. /\ mem' = [mem EXCEPT !.corrected = step.i, !.departed = Way(k)!None,
                            !.headed = IF ctx.hold = "post_yaw" THEN step.i ELSE Way(k)!None]
      /\ Way(k)!TurnCleared /\ adjust' = Way(k)!None /\ Way(k)!Go("dispatch", step.i)
  BY Zenon DEF Way!ResumeCoarse
<1>5. DOMAIN mem' = DOMAIN mem /\ mem'.ready = mem.ready /\ mem'.conv \in 0 .. k.conv
  BY <1>4 DEF MemoryTyped
<1>6. turn' = NoTurn /\ GoalTyped(k)' /\ (turn.at = 0 => nav' = nav)
  BY <1>4, TurnClears
<1> QED
  BY <1>1, <1>3, <1>4, <1>5, <1>6 DEF Way!Go, Way!None

\* The pause of an operator stops the task.
LEMMA PauseTaskKeeps ==
    ASSUME NEW k, WayLimits(k), WayTyped(k), Way(k)!PauseTask
    PROVE  Kept(k)
<1> USE DEF WayLimits, WayBounds, WayTyped
<1>a. step.op = "idle" /\ "pause" \in k.events /\ pause' = "no" /\ adjust' = 0
       /\ UNCHANGED <<mem, results, turn, waits, step>>
       /\ timers' = [timers EXCEPT !.retry = IF @ = "armed" THEN "none" ELSE @]
  BY DEF Places, Points, StepTyped, Way!Event, Way!Idle, Way!None, Way!PauseTask
<1>1. CASE ctx.state = "paused" /\ UNCHANGED <<ctx, nav>>
  <2>1. TimersTyped'
    BY <1>1, <1>a DEF ContextTyped, Operations, Places, Points, StepTyped, TimersTyped
  <2>2. ContextTyped(k)' /\ MemoryTyped(k)' /\ GoalTyped(k)' /\ TurnTyped(k)' /\ WaitsTyped(k)' /\ StepTyped(k)'
    BY <1>1, <1>a DEF ContextTyped, GoalTyped, MemoryTyped, StepTyped, TurnTyped, WaitsTyped
  <2>3. WayTyped(k)'
    BY <1>1, <1>a, <2>1, <2>2 DEF Operations, Places, Points, StepTyped
  <2>4. MoverLimits(k) => ~Movers
    BY <1>1, <1>a DEF ContextTyped, GoalTyped, InPlace, Leaving, MemoryTyped, MoverLimits, Movers, OneAtWork,
       StepTyped, TimersTyped, TurnTyped, Unmoved, Waited, WaitsTyped, Working
  <2>5. StrandLimits(k) /\ Strand => Strand'
    BY <1>1, <1>a DEF ContextTyped, GoalTyped, MemoryTyped, Pending, Points, StepTyped, Strand, StrandLimits,
       TimersTyped, TurnTyped, UnderWay, WaitsTyped
  <2> QED
    BY <2>3, <2>4, <2>5 DEF Kept, Movers
<1>2. CASE \E s \in {"paused", "pausing"} : ctx' = [ctx EXCEPT !.state = s] /\ nav' = nav
  <2>1. DOMAIN ctx' = DOMAIN ctx /\ ctx'.state \in {"paused", "pausing"} /\ ctx'.stage = ctx.stage /\ ctx'.at = ctx.at /\ ctx'.wp = ctx.wp
        /\ ctx'.effects = ctx.effects /\ ctx'.hold = ctx.hold
    BY <1>2, <1>a DEF ContextTyped, StepTyped
  <2>2. ContextTyped(k)'
    BY <1>2, <1>a, <2>1 DEF ContextTyped, Operations, Places, Points, StepTyped
  <2>3. TimersTyped'
    BY <1>2, <1>a, <2>1 DEF ContextTyped, Operations, Places, Points, StepTyped, TimersTyped
  <2>4. MemoryTyped(k)' /\ GoalTyped(k)' /\ TurnTyped(k)' /\ WaitsTyped(k)' /\ StepTyped(k)'
    BY <1>2, <1>a, <2>1 DEF GoalTyped, MemoryTyped, StepTyped, TurnTyped, WaitsTyped
  <2>5. WayTyped(k)'
    BY <1>2, <1>a, <2>1, <2>2, <2>3, <2>4 DEF Operations, Places, Points, StepTyped
  <2>6. MoverLimits(k) => ~Movers
    BY <1>2, <1>a, <2>1 DEF ContextTyped, GoalTyped, InPlace, Leaving, MemoryTyped, MoverLimits, Movers,
       OneAtWork, StepTyped, TimersTyped, TurnTyped, Unmoved, Waited, WaitsTyped, Working
  <2>7. StrandLimits(k) /\ Strand => Strand'
    BY <1>2, <1>a, <2>1 DEF ContextTyped, GoalTyped, MemoryTyped, Pending, Points, StepTyped, Strand,
       StrandLimits, TimersTyped, TurnTyped, UnderWay, WaitsTyped
  <2> QED
    BY <2>5, <2>6, <2>7 DEF Kept, Movers
<1>3. CASE \E s \in {"paused", "pausing"} : ctx' = [ctx EXCEPT !.state = s] /\ Stopped(k, nav.offset)
  <2>1. DOMAIN ctx' = DOMAIN ctx /\ ctx'.state \in {"paused", "pausing"} /\ ctx'.stage = ctx.stage /\ ctx'.at = ctx.at /\ ctx'.wp = ctx.wp
        /\ ctx'.effects = ctx.effects /\ ctx'.hold = ctx.hold
    BY <1>3, <1>a DEF ContextTyped, StepTyped, Stopped
  <2>2. ContextTyped(k)'
    BY <1>3, <1>a, <2>1 DEF ContextTyped, Operations, Places, Points, StepTyped, Stopped
  <2>3. GoalTyped(k)'
    BY <1>3, <1>a, <2>1 DEF ContextTyped, GoalTyped, Operations, Places, Points, StepTyped, Stopped
  <2>4. TimersTyped'
    BY <1>3, <1>a, <2>1 DEF ContextTyped, Operations, Places, Points, StepTyped, Stopped, TimersTyped
  <2>5. MemoryTyped(k)' /\ TurnTyped(k)' /\ WaitsTyped(k)' /\ StepTyped(k)'
    BY <1>3, <1>a, <2>1 DEF MemoryTyped, StepTyped, TurnTyped, WaitsTyped
  <2>6. WayTyped(k)'
    BY <1>3, <1>a, <2>1, <2>2, <2>3, <2>4, <2>5 DEF Operations, Places, Points, StepTyped, Stopped
  <2>7. MoverLimits(k) => ~Movers
    BY <1>3, <1>a, <2>1 DEF ContextTyped, GoalTyped, InPlace, Leaving, MemoryTyped, MoverLimits, Movers,
       OneAtWork, StepTyped, Stopped, TimersTyped, TurnTyped, Unmoved, Waited, WaitsTyped, Working
  <2>8. StrandLimits(k) /\ Strand => Strand'
    BY <1>3, <1>a, <2>1 DEF ContextTyped, GoalTyped, MemoryTyped, Pending, Points, StepTyped, Stopped,
       Strand, StrandLimits, TimersTyped, TurnTyped, UnderWay, WaitsTyped
  <2> QED
    BY <2>6, <2>7, <2>8 DEF Kept, Movers
<1>4. CASE ctx.state = "paused"
  BY <1>1, <1>4 DEF Way!PauseTask
<1>5. CASE ctx.state # "paused"
  <2>1. PICK ok \in (IF Way(k)!Waiting # Way(k)!None THEN {TRUE} ELSE Way(k)!CancelOutcomes), stopped \in Way(k)!StopOutcomes :
              /\ nav' = IF Way(k)!Waiting # Way(k)!None THEN nav ELSE Way(k)!Cancelled(ok)
              /\ ctx' = [ctx EXCEPT !.state = IF ok /\ stopped THEN "paused" ELSE "pausing"]
    BY <1>5 DEF Way!PauseTask
  <2>2. CASE Way(k)!Waiting # Way(k)!None
    BY <1>2, <2>1, <2>2
  <2>3. CASE Way(k)!Waiting = Way(k)!None
    BY <1>3, <2>1, <2>3, CancelStops
  <2> QED
    BY <2>2, <2>3
<1> QED
  BY <1>4, <1>5

\* A task that goes on: with its arrival, with a wait, or with its goal.
Resumed(k) ==
    /\ pause' = "no" /\ ContextTyped(k)'
    /\ \/ /\ ctx'.state = "running" /\ mem' = mem
          /\ step' = [op |-> "resume_post", i |-> ctx.wp]
       \/ /\ waits.speech # 0 \/ waits.dwell # 0
          /\ MemoryTyped(k)' /\ \E i \in Points(k) : step' = [op |-> "maybe", i |-> i]
       \/ ctx'.state = "resuming" /\ mem' = mem /\ step' = [op |-> "send", i |-> ctx.wp]
       \/ ctx'.state = "paused" /\ mem' = mem /\ step' = [op |-> "idle", i |-> 0]

\* A resume takes up the arrival, the wait or the goal of the waypoint.
LEMMA ResumeResumes ==
    ASSUME NEW k, WayLimits(k), WayTyped(k), NEW c, NEW n, c.nav = n, NEW h, c.hold = h,
           NEW done \in BOOLEAN, c.done = done,
           Way(k)!Resume(c), n = nav \/ \E ok \in Way(k)!CancelOutcomes : n = Way(k)!Cancelled(ok)
    PROVE  Resumed(k) /\ (nav' = nav \/ Stopped(k, nav.offset))
<1> USE DEF WayLimits, WayTyped
<1>a. n = nav \/ \E ok \in Way(k)!CancelOutcomes : n = Way(k)!Cancelled(ok)
  OBVIOUS
<1>b. ctx.wp \in Points(k)
  BY DEF ContextTyped
<1>c. \A s \in {"running", "resuming", "paused"} :
          ctx' = [ctx EXCEPT !.state = s, !.hold = h] => ContextTyped(k)' /\ ctx'.state = s
  BY DEF ContextTyped
<1>1. CASE Way(k)!Active(ctx.wp)
  <2>1. /\ pause' = "no" /\ Way(k)!Go("resume_post", ctx.wp) /\ ctx' = [ctx EXCEPT !.state = "running", !.hold = h]
        /\ nav' = n /\ mem' = mem
    BY <1>1 DEF Way!Resume
  <2> QED
    BY <1>a, <1>c, <2>1, CancelStops DEF Resumed, Way!Go
<1>2. CASE ~Way(k)!Active(ctx.wp) /\ Way(k)!Waiting # Way(k)!None
  <2>1. /\ pause' = "no" /\ Way(k)!Go("maybe", Way(k)!Waiting) /\ ctx' = [ctx EXCEPT !.state = "running", !.hold = h]
        /\ nav' = n /\ mem' = [mem EXCEPT !.ready = Way(k)!Waiting]
    BY <1>2 DEF Way!Resume
  <2>2. Way(k)!Waiting \in Points(k) /\ (waits.speech # 0 \/ waits.dwell # 0) /\ Way(k)!Waiting \in Places(k)
    BY <1>2 DEF Way!Waiting, Way!None, WaitsTyped, Places, Points
  <2>3. MemoryTyped(k)'
    BY <2>1, <2>2 DEF MemoryTyped
  <2> QED
    BY <1>a, <1>c, <2>1, <2>2, <2>3, CancelStops DEF Resumed, Way!Go
<1>3. CASE ~Way(k)!Active(ctx.wp) /\ Way(k)!Waiting = Way(k)!None
  <2>1. PICK ok \in Way(k)!CancelOutcomes :
          /\ nav' = IF done THEN n ELSE Way(k)!Cancelled(ok)
          /\ ctx' = [ctx EXCEPT !.state = IF done \/ ok THEN "resuming" ELSE "paused", !.hold = h]
          /\ IF done \/ ok THEN Way(k)!Go("send", ctx.wp) ELSE Way(k)!Return
          /\ mem' = mem /\ pause' = "no"
    BY <1>3 DEF Way!Resume
  <2>2. nav' = nav \/ Stopped(k, nav.offset)
    BY <1>a, <2>1, CancelStops
  <2> QED
    BY <1>c, <2>1, <2>2 DEF Resumed, Way!Go, Way!Return, Way!Idle, Way!None
<1> QED
  BY <1>1, <1>2, <1>3

\* A task that resumes had nothing in motion.
LEMMA ResumedKeeps ==
    ASSUME NEW k, WayLimits(k), WayTyped(k), ctx.state # "running", {"pause", "recover"} \cap k.events # {},
           Resumed(k), nav' = nav \/ Stopped(k, nav.offset),
           UNCHANGED <<results, waits, timers>>, TurnTyped(k)', turn' \in {turn, NoTurn}, adjust' \in {0, adjust}
    PROVE  Kept(k)
<1> USE DEF WayLimits, WayBounds, WayTyped
<1>1. GoalTyped(k)' /\ nav'.gen \in Nat
  BY DEF GoalTyped, Stopped
<1>2. ctx.wp \in Points(k) /\ ctx.wp # 0
  BY DEF ContextTyped, Points
<1>3. MemoryTyped(k)'
  BY DEF Resumed, MemoryTyped
<1>4. StepTyped(k)'
  BY <1>2 DEF Resumed, StepTyped, Operations, Places, Points
<1>5. WaitsTyped(k)' /\ TimersTyped'
  BY DEF WaitsTyped, TimersTyped
<1>6. WayTyped(k)'
  BY <1>1, <1>3, <1>4, <1>5 DEF Resumed, Places
<1>7. ~MoverLimits(k)
  BY DEF MoverLimits
<1>8. ASSUME StrandLimits(k), Strand
      PROVE  Strand'
  <2>1. turn.at = 0 /\ adjust = 0 /\ waits.dwell = 0 /\ waits.speech = 0 /\ waits.threads = {}
    BY <1>8 DEF Strand
  <2>2. \/ ctx'.state = "running" /\ step'.op = "resume_post"
        \/ ctx'.state = "resuming" /\ step'.op = "send"
        \/ ctx'.state = "paused" /\ step'.op = "idle"
    BY <2>1 DEF Resumed
  <2>3. turn'.at = 0
    BY <2>1 DEF NoTurn
  <2> QED
    BY <2>1, <2>2, <2>3 DEF Strand, UnderWay
<1> QED
  BY <1>6, <1>7, <1>8 DEF Kept

\* The resume of an operator.
LEMMA ResumeTaskKeeps ==
    ASSUME NEW k, WayLimits(k), WayTyped(k), Way(k)!ResumeTask
    PROVE  Kept(k)
<1> DEFINE c == [done |-> FALSE, nav |-> nav, hold |-> ctx.hold]
<1>1. /\ ctx.state \in {"paused", "pausing"} /\ "pause" \in k.events
      /\ UNCHANGED <<results, turn, adjust, waits, timers>>
      /\ Way(k)!Resume(c)
  BY DEF Way!ResumeTask
<1>2. c.nav = nav /\ c.hold = ctx.hold /\ c.done = FALSE
  OBVIOUS
<1> HIDE DEF c
<1>3. Resumed(k) /\ (nav' = nav \/ Stopped(k, nav.offset))
  BY <1>1, <1>2, ResumeResumes
<1>4. TurnTyped(k)'
  BY <1>1 DEF WayTyped, TurnTyped
<1> QED
  BY <1>1, <1>3, <1>4, ResumedKeeps

\* A recovery the center asks for (_recover_task).
LEMMA RecoverTaskKeeps ==
    ASSUME NEW k, WayLimits(k), WayTyped(k), Way(k)!RecoverTask
    PROVE  Kept(k)
<1> USE DEF WayLimits, WayBounds, WayTyped
<1>a. step.op = "idle" /\ ctx.state = "paused" /\ "recover" \in k.events /\ turn' = NoTurn /\ adjust' = 0
       /\ UNCHANGED <<results, waits, timers>>
  BY DEF NoTurn, Places, Points, StepTyped, Way!Event, Way!Idle, Way!NoTurn, Way!None, Way!RecoverTask
<1>b. PICK ok \in Way(k)!CancelOutcomes :
       LET n == Way(k)!Cancelled(ok)
           i == IF ctx.at # Way(k)!None THEN ctx.at ELSE ctx.wp
           code == ctx.hold IN
       \/ /\ code = "coarse_exhausted" \/ code \in Way(k)!LocalizationHolds
          /\ Way(k)!Return /\ nav' = n /\ UNCHANGED <<ctx, mem, pause>>
       \/ /\ code \in Way(k)!ArrivalHolds
          /\ \/ /\ ctx' = IF code \in {"post_yaw", "re_coarse"} THEN ctx ELSE Way(k)!Held(ctx, "xy")
                /\ pause' = "absolute" /\ Way(k)!Return /\ nav' = n
             \/ /\ code \notin {"post_yaw", "re_coarse"} /\ (\E h : ctx' = [ctx EXCEPT !.hold = h])
                /\ nav' = n /\ UNCHANGED pause
                /\ \/ Way(k)!Go("reapproach", i)
                   \/ Way(k)!Go("reapproach_recovered", i)
          /\ mem' = [mem EXCEPT !.headed = Way(k)!None, !.departed = Way(k)!None]
       \/ \E h : Way(k)!Resume([done |-> ok, nav |-> n, hold |-> h])
  BY Zenon DEF Way!RecoverTask
<1>c. nav' = Way(k)!Cancelled(ok) => Stopped(k, nav.offset) /\ GoalTyped(k)'
  <2>1. nav' = Way(k)!Cancelled(ok) => Stopped(k, nav.offset)
    BY CancelStops
  <2>2. Stopped(k, nav.offset) => GoalTyped(k)'
    BY DEF Stopped, GoalTyped
  <2> QED
    BY <2>1, <2>2
<1>1. CASE /\ Stopped(k, nav.offset) /\ GoalTyped(k)' /\ step' = Way(k)!Idle /\ MemoryTyped(k)'
          /\ ContextTyped(k)' /\ ctx'.state = "paused" /\ pause' \in {pause, "absolute"}
  <2>1. TurnTyped(k)'
    BY <1>1, <1>a DEF ContextTyped, NoTurn, Operations, Places, Points, StepTyped, Stopped, TurnTyped,
       Way!Idle, Way!NoTurn, Way!None
  <2>2. StepTyped(k)'
    BY <1>1, <1>a DEF ContextTyped, NoTurn, Operations, Places, Points, StepTyped, Stopped, Way!Idle,
       Way!NoTurn, Way!None
  <2>3. WaitsTyped(k)' /\ TimersTyped'
    BY <1>1, <1>a DEF TimersTyped, WaitsTyped
  <2>4. WayTyped(k)'
    BY <1>1, <1>a, <2>1, <2>2, <2>3
       DEF NoTurn, Operations, Places, Points, StepTyped, Stopped, Way!Idle, Way!NoTurn, Way!None
  <2>5. MoverLimits(k) => ~Movers
    BY <1>1, <1>a DEF ContextTyped, GoalTyped, InPlace, Leaving, MemoryTyped, MoverLimits, Movers, NoTurn,
       OneAtWork, StepTyped, Stopped, TimersTyped, TurnTyped, Unmoved, Waited, WaitsTyped, Working, Way!Idle,
       Way!NoTurn, Way!None
  <2>6. StrandLimits(k) /\ Strand => Strand'
    BY <1>1, <1>a DEF ContextTyped, GoalTyped, MemoryTyped, NoTurn, Pending, Points, StepTyped, Stopped,
       Strand, StrandLimits, TimersTyped, TurnTyped, UnderWay, WaitsTyped, Way!Idle, Way!NoTurn, Way!None
  <2> QED
    BY <2>4, <2>5, <2>6 DEF Kept, Movers
<1>2. CASE /\ Stopped(k, nav.offset) /\ GoalTyped(k)' /\ MemoryTyped(k)' /\ ContextTyped(k)' /\ ctx'.state = "paused" /\ pause' = pause
          /\ \E o \in {"reapproach", "reapproach_recovered"}, i \in Points(k) : step' = [op |-> o, i |-> i]
  <2>1. TurnTyped(k)'
    BY <1>2, <1>a DEF ContextTyped, NoTurn, Operations, Places, Points, StepTyped, Stopped, TurnTyped,
       Way!NoTurn, Way!None
  <2>2. StepTyped(k)'
    BY <1>2, <1>a
       DEF ContextTyped, NoTurn, Operations, Places, Points, StepTyped, Stopped, Way!NoTurn, Way!None
  <2>3. WaitsTyped(k)' /\ TimersTyped'
    BY <1>2, <1>a DEF TimersTyped, WaitsTyped
  <2>4. WayTyped(k)'
    BY <1>2, <1>a, <2>1, <2>2, <2>3
       DEF NoTurn, Operations, Places, Points, StepTyped, Stopped, Way!NoTurn, Way!None
  <2>5. MoverLimits(k) => ~Movers
    BY <1>2, <1>a DEF ContextTyped, GoalTyped, InPlace, Leaving, MemoryTyped, MoverLimits, Movers, NoTurn,
       OneAtWork, StepTyped, Stopped, TimersTyped, TurnTyped, Unmoved, Waited, WaitsTyped, Working,
       Way!NoTurn, Way!None
  <2>6. StrandLimits(k) /\ Strand => Strand'
    BY <1>2, <1>a DEF ContextTyped, GoalTyped, MemoryTyped, NoTurn, Pending, Points, StepTyped, Stopped,
       Strand, StrandLimits, TimersTyped, TurnTyped, UnderWay, WaitsTyped, Way!NoTurn, Way!None
  <2> QED
    BY <2>4, <2>5, <2>6 DEF Kept, Movers
<1>3. CASE /\ Way(k)!Return /\ nav' = Way(k)!Cancelled(ok) /\ UNCHANGED <<ctx, mem, pause>>
  <2>1. MemoryTyped(k)' /\ ContextTyped(k)'
    BY <1>3 DEF MemoryTyped, ContextTyped
  <2> QED
    BY <1>1, <1>a, <1>c, <1>3, <2>1 DEF Way!Return
<1>4. mem' = [mem EXCEPT !.headed = Way(k)!None, !.departed = Way(k)!None] => MemoryTyped(k)'
  BY DEF MemoryTyped
<1>5. CASE /\ ctx' = ctx \/ ctx' = Way(k)!Held(ctx, "xy")
           /\ pause' = "absolute" /\ Way(k)!Return /\ nav' = Way(k)!Cancelled(ok)
           /\ mem' = [mem EXCEPT !.headed = Way(k)!None, !.departed = Way(k)!None]
  <2>1. ContextTyped(k)' /\ ctx'.state = "paused"
    BY <1>a, <1>5 DEF ContextTyped, Way!Held, Way!Terminal
  <2> QED
    BY <1>1, <1>c, <1>4, <1>5, <2>1 DEF Way!Return
<1>6. CASE /\ \E h : ctx' = [ctx EXCEPT !.hold = h]
           /\ nav' = Way(k)!Cancelled(ok) /\ UNCHANGED pause
           /\ \E o \in {"reapproach", "reapproach_recovered"} : Way(k)!Go(o, IF ctx.at # Way(k)!None THEN ctx.at ELSE ctx.wp)
           /\ mem' = [mem EXCEPT !.headed = Way(k)!None, !.departed = Way(k)!None]
  <2>1. ContextTyped(k)' /\ ctx'.state = "paused"
    BY <1>a, <1>6 DEF ContextTyped
  <2>2. (IF ctx.at # Way(k)!None THEN ctx.at ELSE ctx.wp) \in Points(k)
    BY DEF ContextTyped, Places, Points, Way!None
  <2> QED
    BY <1>2, <1>c, <1>4, <1>6, <2>1, <2>2 DEF Way!Go
<1>7. CASE \E h : Way(k)!Resume([done |-> ok, nav |-> Way(k)!Cancelled(ok), hold |-> h])
  <2>1. PICK h : Way(k)!Resume([done |-> ok, nav |-> Way(k)!Cancelled(ok), hold |-> h])
    BY <1>7
  <2> DEFINE c == [done |-> ok, nav |-> Way(k)!Cancelled(ok), hold |-> h]
  <2>2. c.nav = Way(k)!Cancelled(ok) /\ c.hold = h /\ c.done = ok /\ ok \in BOOLEAN
    BY DEF Way!CancelOutcomes
  <2>3. Way(k)!Resume(c)
    BY <2>1
  <2> HIDE DEF c
  <2>4. Resumed(k) /\ (nav' = nav \/ Stopped(k, nav.offset))
    BY <2>2, <2>3, ResumeResumes
  <2>5. TurnTyped(k)'
    BY <1>a DEF TurnTyped, NoTurn, Places
  <2> QED
    BY <1>a, <2>4, <2>5, ResumedKeeps
<1> QED
  BY <1>b, <1>3, <1>5, <1>6, <1>7

\* A restart of the executor keeps the context and forgets the rest.
LEMMA RestartKeeps ==
    ASSUME NEW k, WayLimits(k), WayTyped(k), Way(k)!Restart
    PROVE  Kept(k)
<1> USE DEF WayLimits, WayBounds, WayTyped
<1>a. "crash" \in k.events /\ pause' \in {"no", "absolute"}
  BY DEF Places, Points, StepTyped, Way!Event, Way!Restart
<1>1. CASE /\ ctx' = [ctx EXCEPT !.state = IF @ = "paused" THEN @ ELSE "failed"]
          /\ mem' = Way(k)!FreshMemory /\ nav' = [nav EXCEPT !.gen = @ + 1, !.live = FALSE] /\ results' = {}
          /\ turn' = NoTurn /\ adjust' = 0
          /\ waits' = [dwell |-> 0, dwelt |-> FALSE, speech |-> 0, spoken |-> FALSE, threads |-> {}]
          /\ timers' = [retry |-> "none", blocked |-> FALSE, passed |-> 0] /\ step' = Way(k)!Idle
  <2>1. ContextTyped(k)'
    BY <1>1, <1>a DEF ContextTyped, NoTurn, Operations, Places, Points, StepTyped, Way!FreshMemory, Way!Idle,
       Way!NoTurn, Way!None
  <2>2. MemoryTyped(k)'
    BY <1>1, <1>a DEF ContextTyped, MemoryTyped, NoTurn, Operations, Places, Points, StepTyped,
       Way!FreshMemory, Way!Idle, Way!NoTurn, Way!None
  <2>3. GoalTyped(k)'
    BY <1>1, <1>a DEF ContextTyped, GoalTyped, NoTurn, Operations, Places, Points, StepTyped,
       Way!FreshMemory, Way!Idle, Way!NoTurn, Way!None
  <2>4. TurnTyped(k)'
    BY <1>1, <1>a DEF ContextTyped, NoTurn, Operations, Places, Points, StepTyped, TurnTyped,
       Way!FreshMemory, Way!Idle, Way!NoTurn, Way!None
  <2>5. WaitsTyped(k)'
    BY <1>1, <1>a DEF ContextTyped, NoTurn, Operations, Places, Points, StepTyped, WaitsTyped,
       Way!FreshMemory, Way!Idle, Way!NoTurn, Way!None
  <2>6. TimersTyped'
    BY <1>1, <1>a DEF ContextTyped, NoTurn, Operations, Places, Points, StepTyped, TimersTyped,
       Way!FreshMemory, Way!Idle, Way!NoTurn, Way!None
  <2>7. StepTyped(k)'
    BY <1>1, <1>a DEF ContextTyped, NoTurn, Operations, Places, Points, StepTyped, Way!FreshMemory, Way!Idle,
       Way!NoTurn, Way!None
  <2>8. WayTyped(k)'
    BY <1>1, <1>a, <2>1, <2>2, <2>3, <2>4, <2>5, <2>6, <2>7
       DEF NoTurn, Operations, Places, Points, StepTyped, Way!FreshMemory, Way!Idle, Way!NoTurn, Way!None
  <2>9. MoverLimits(k) => ~Movers
    BY <1>1, <1>a DEF ContextTyped, GoalTyped, InPlace, Leaving, MemoryTyped, MoverLimits, Movers, NoTurn,
       OneAtWork, StepTyped, TimersTyped, TurnTyped, Unmoved, Waited, WaitsTyped, Working, Way!FreshMemory,
       Way!Idle, Way!NoTurn, Way!None
  <2>10. StrandLimits(k) /\ Strand => Strand'
    BY <1>1, <1>a DEF ContextTyped, GoalTyped, MemoryTyped, NoTurn, Pending, Points, StepTyped, Strand,
       StrandLimits, TimersTyped, TurnTyped, UnderWay, WaitsTyped, Way!FreshMemory, Way!Idle, Way!NoTurn,
       Way!None
  <2> QED
    BY <2>8, <2>9, <2>10 DEF Kept, Movers
<1> QED
  BY <1>a, <1>1
     DEF ContextTyped, NoTurn, StepTyped, Way!AfterRestart, Way!NoTurn, Way!None, Way!Restart, Way!Return

-----------------------------------------------------------------------------

\* A step that changes nothing of a task, then each kind of step.
LEMMA StutterKeeps ==
    ASSUME NEW k, WayTyped(k), UNCHANGED <<ctx, mem, pause, nav, results, turn, adjust, waits, timers, step>>
    PROVE  Kept(k)
<1>1. WayTyped(k)'
  BY DEF WayTyped, ContextTyped, MemoryTyped, GoalTyped, TurnTyped, WaitsTyped, TimersTyped, StepTyped
<1>2. (Pending' <=> Pending) /\ (Working' <=> Working) /\ (Waited' <=> Waited)
  BY DEF Pending, Working, Waited
<1>3. Movers => Movers'
  BY <1>2 DEF Movers, ResultsInv, OneAtWork, InPlace, Unmoved
<1>4. Strand => Strand'
  BY <1>2 DEF Strand, UnderWay
<1> QED
  BY <1>1, <1>3, <1>4 DEF Kept

LEMMA HandlerKeeps ==
    ASSUME NEW k, WayLimits(k), WayTyped(k), Way(k)!Handler
    PROVE  Kept(k)
  BY SendKeeps, DispatchKeeps, DispatchFailsKeeps, RecoveryExhaustedKeeps, MissedWaypointsKeeps,
     SucceededKeeps,
     ConfirmStopKeeps, CorrectKeeps, CheckXYKeeps, AlignHeadingKeeps, VerifyPoseKeeps, ConfirmPoseKeeps,
     StartEffectsKeeps, ReapproachKeeps, MaybeContinueKeeps, ContinueKeeps, ResumeCoarseKeeps, ResumePostArrivalKeeps
     DEF Way!Handler

LEMMA WorkerKeeps ==
    ASSUME NEW k, WayLimits(k), WayTyped(k), Way(k)!Worker
    PROVE  Kept(k)
<1>1. \A s \in Outcomes : Way(k)!NavEnds(s) => Kept(k)
  BY NavEndsKeeps
<1> QED
  BY <1>1, RetryFiresKeeps, RetryRunsKeeps, SourceSwitchKeeps, NothingPassed, ResultKeeps, BlockedRetryKeeps,
     TurnAlignedKeeps, TurnWorkerEndsKeeps, TurnTimeoutKeeps, AdjustEndsKeeps, SpeechEndsKeeps, DwellEndsKeeps
     DEF Way!Worker, Way!Statuses, Outcomes

LEMMA WorldKeeps ==
    ASSUME NEW k, WayLimits(k), WayTyped(k), Way(k)!World
    PROVE  Kept(k)
  BY LocalizationLostKeeps, RecoveredKeeps, RecoveredRunningKeeps, PauseTaskKeeps, ResumeTaskKeeps,
     RecoverTaskKeeps, RestartKeeps
     DEF Way!World

LEMMA NextKeeps ==
    ASSUME NEW k, WayLimits(k), WayTyped(k), Way(k)!Next
    PROVE  Kept(k)
  BY HandlerKeeps, WorkerKeeps, WorldKeeps DEF Way!Next

\* The parts of the invariant that hold of a scenario: the types always, the
\* others under the limits of the scenario.
WayInv(k) ==
    /\ WayTyped(k)
    /\ MoverLimits(k) => Movers
    /\ StrandLimits(k) => Strand

\* A task starts with the handler that sends it to its first waypoint.
LEMMA InitWay ==
    ASSUME NEW k, WayLimits(k), Way(k)!Init
    PROVE  WayInv(k)
<1> USE DEF WayLimits, WayBounds
<1>x. /\ ctx = [state |-> "running", wp |-> 1, round |-> 1, stage |-> NoStage, at |-> 0, effects |-> FALSE,
                coarse |-> FALSE, hold |-> NoStage, reAt |-> 0, reN |-> 0, segs |-> 0]
      /\ mem = Way(k)!FreshMemory /\ pause = "no" /\ results = {} /\ turn = Way(k)!NoTurn
      /\ nav = [gen |-> 0, goalGen |-> 0, live |-> FALSE, offset |-> 1] /\ adjust = 0
      /\ waits = [dwell |-> 0, dwelt |-> FALSE, speech |-> 0, spoken |-> FALSE, threads |-> {}]
      /\ timers = [retry |-> "none", blocked |-> FALSE, passed |-> 0] /\ step = [op |-> "send", i |-> 1]
  BY Zenon DEF Way!Init, Way!None, NoStage
<1>y. NoStage # "post_yaw" /\ NoStage # "re_coarse"
  BY Zenon DEF NoStage
<1>a. /\ ctx.hold = NoStage /\ DOMAIN ctx = {"state", "wp", "round", "stage", "at", "effects", "coarse", "hold", "reAt", "reN", "segs"}
      /\ ctx.state = "running" /\ ctx.wp = 1 /\ ctx.round = 1 /\ ctx.stage = NoStage /\ ctx.at = 0
      /\ ctx.effects = FALSE /\ ctx.reN = 0 /\ ctx.segs = 0
      /\ mem = Way(k)!FreshMemory /\ pause = "no" /\ results = {} /\ turn = Way(k)!NoTurn
      /\ nav = [gen |-> 0, goalGen |-> 0, live |-> FALSE, offset |-> 1] /\ adjust = 0
      /\ waits = [dwell |-> 0, dwelt |-> FALSE, speech |-> 0, spoken |-> FALSE, threads |-> {}]
      /\ timers = [retry |-> "none", blocked |-> FALSE, passed |-> 0] /\ step = [op |-> "send", i |-> 1]
  BY <1>x
<1>b. turn = NoTurn
  BY <1>a DEF Way!NoTurn, Way!None, NoTurn
<1>1. /\ ContextTyped(k) /\ ctx.hold \notin {"post_yaw", "re_coarse"} /\ ctx.stage = NoStage /\ ctx.at = 0
      /\ ctx.effects = FALSE /\ ctx.state = "running" /\ ctx.wp = 1
  <2>1. 1 \in Points(k) /\ 0 \in Places(k) /\ 1 \in 1 .. k.rounds /\ 0 \in 0 .. k.reapproach
    BY DEF Points, Places
  <2>2. ctx.hold \notin {"post_yaw", "re_coarse"}
    BY <1>a, <1>y
  <2>3. /\ DOMAIN ctx = {"state", "wp", "round", "stage", "at", "effects", "coarse", "hold", "reAt", "reN", "segs"}
        /\ ctx.state = "running" /\ ctx.wp = 1 /\ ctx.round = 1 /\ ctx.stage = NoStage /\ ctx.at = 0
        /\ ctx.effects = FALSE /\ ctx.reN = 0 /\ ctx.segs = 0
    BY <1>a
  <2>4. ctx.state \in {"running", "pausing", "paused", "resuming", "completed", "failed"}
    BY <2>3
  <2> HIDE DEF WayLimits, WayBounds
  <2>a. ctx.wp \in Points(k) /\ ctx.at \in Places(k)
    BY <2>1, <2>3, Zenon
  <2>b. ctx.round \in 1 .. k.rounds /\ ctx.reN \in 0 .. k.reapproach
    BY <2>1, <2>3, Zenon
  <2>c. ctx.segs \in Nat
    BY <2>3
  <2>d. ctx.effects \in BOOLEAN
    BY <2>3, Zenon
  <2>5. /\ ctx.wp \in Points(k) /\ ctx.at \in Places(k) /\ ctx.round \in 1 .. k.rounds
        /\ ctx.reN \in 0 .. k.reapproach /\ ctx.segs \in Nat /\ ctx.effects \in BOOLEAN
    BY <2>a, <2>b, <2>c, <2>d
  <2>6. ContextTyped(k)
    BY <2>3, <2>4, <2>5 DEF ContextTyped
  <2> QED
    BY <2>2, <2>3, <2>6
<1>2. MemoryTyped(k) /\ mem.ready = 0
  BY <1>a DEF MemoryTyped, Places, Way!FreshMemory, Way!None
<1>3. GoalTyped(k) /\ nav.live = FALSE
  BY <1>a DEF GoalTyped, Points
<1>4. TurnTyped(k) /\ turn.at = 0
  BY <1>b DEF TurnTyped, NoTurn, Places
<1>5. WaitsTyped(k) /\ waits.speech = 0 /\ waits.dwell = 0 /\ waits.threads = {}
  BY <1>a DEF WaitsTyped, Places
<1>6. TimersTyped /\ timers.retry = "none" /\ timers.blocked = FALSE
  BY <1>a DEF TimersTyped
<1>7. StepTyped(k) /\ step.op = "send" /\ step.i = 1
  BY <1>a DEF StepTyped, Operations, Places
<1>8. WayTyped(k)
  BY <1>a, <1>1, <1>2, <1>3, <1>4, <1>5, <1>6, <1>7 DEF WayTyped, Places
<1>9. ~Pending /\ ~Waited /\ Working
  BY <1>a, <1>5, <1>7 DEF Pending, Waited, Working
<1>10. Movers
  <2>1. ResultsInv
    BY <1>a, <1>3 DEF ResultsInv
  <2>2. OneAtWork
    BY <1>a, <1>1, <1>2, <1>3, <1>4, <1>6, <1>7, <1>9 DEF OneAtWork, Unmoved
  <2>3. InPlace
    BY <1>a, <1>1, <1>4, <1>7, <1>9 DEF InPlace, Leaving
  <2> QED
    BY <2>1, <2>2, <2>3 DEF Movers
<1>11. Strand
  BY <1>a, <1>1, <1>4, <1>5, <1>7 DEF Strand, UnderWay
<1> QED
  BY <1>8, <1>10, <1>11 DEF WayInv

\* A step of a task keeps its invariant.
LEMMA StepWay ==
    ASSUME NEW k, WayLimits(k), WayInv(k), Way(k)!Next \/ UNCHANGED waypointVars
    PROVE  WayInv(k)'
<1>1. Kept(k)
  <2>1. CASE UNCHANGED waypointVars
    BY <2>1, StutterKeeps DEF waypointVars, WayInv
  <2> QED
    BY <2>1, NextKeeps DEF WayInv
<1> QED
  BY <1>1 DEF WayInv, Kept, MoverLimits, StrandLimits

\* What the invariant says of the variables of a task.
LEMMA WaySays ==
    ASSUME NEW k, WayLimits(k), WayInv(k)
    PROVE  /\ Way(k)!TypeOK
           /\ MoverLimits(k) => Way(k)!OneMover
           /\ StrandLimits(k) => Way(k)!NotStranded
<1> USE DEF WayLimits, WayBounds, WayInv
<1>1. Way(k)!TypeOK
  BY DEF WayTyped, ContextTyped, MemoryTyped, GoalTyped, StepTyped, Points, Places, Way!TypeOK, Way!Terminal,
     Way!Waypoints, Way!N, Way!Statuses, Outcomes
<1>2. MoverLimits(k) => Way(k)!OneMover
  BY DEF WayTyped, TurnTyped, NoTurn, Movers, OneAtWork, Way!OneMover, Way!None
<1>3. StrandLimits(k) => Way(k)!NotStranded
  BY DEF Strand, UnderWay, Pending, Way!NotStranded, Way!Idle, Way!Current
<1> QED
  BY <1>1, <1>2, <1>3

-----------------------------------------------------------------------------
(* What holds of a task on a route of stops, for every record of bounds. *)

\* A task on a route of stops: every value the executor keeps has its type, and
\* under their limits the movers and the callbacks are as the invariant says
\* (task_executor.py, the waypoint loop).
THEOREM WayInvariance ==
    ASSUME NEW k, WayLimits(k)
    PROVE  Way(k)!Spec => []WayInv(k)
<1>1. Way(k)!Init => WayInv(k)
  BY InitWay
<1>2. WayInv(k) /\ [Way(k)!Next]_(Way(k)!vars) => WayInv(k)'
  BY StepWay DEF Way!vars, waypointVars
<1> QED
  BY <1>1, <1>2, PTL DEF Way!Spec

\* A task that starts only turns, adjusts or fails to stop, and meets losses of
\* localization or a switch of its profile, is moved by one mover at a time:
\* Nav2, the turn worker or the adjustment worker, and none once it is paused
\* or over (_dispatch_waypoint, _start_arrival_heading, _start_micro_adjust).
THEOREM OneMoverAlways ==
    ASSUME NEW k, WayLimits(k), MoverLimits(k)
    PROVE  Way(k)!Spec => []Way(k)!OneMover
<1>1. WayInv(k) => Way(k)!OneMover
  BY WaySays
<1> QED
  BY <1>1, WayInvariance, PTL

\* A running task on plain stops always has something on the way that calls the
\* executor: a handler, a goal of the current generation, a retry or a result,
\* whatever the operator, a loss of localization or a restart does.
THEOREM NeverStranded ==
    ASSUME NEW k, WayLimits(k), StrandLimits(k)
    PROVE  Way(k)!Spec => []Way(k)!NotStranded
<1>1. WayInv(k) => Way(k)!NotStranded
  BY WaySays
<1> QED
  BY <1>1, WayInvariance, PTL

-----------------------------------------------------------------------------
(* The scenarios of the module. *)

\* The records of the scenarios and their limits.
LEMMA TheStops == Ways.stops.route = StopRoute /\ Ways.stops.rounds = 1 /\ Ways.stops.reapproach = 1
                  /\ Ways.stops.conv = 1 /\ Ways.stops.faults = {"turn", "adjust"} /\ Ways.stops.events = {"lost"}
  BY DEF Ways
LEMMA ThePause == Ways.pause.route = <<Stop, Stop>> /\ Ways.pause.rounds = 1 /\ Ways.pause.reapproach = 1
                  /\ Ways.pause.conv = 1 /\ Ways.pause.faults = {"stop"}
  BY DEF Ways
LEMMA TheRecovered == Ways.recovered.route = <<Stop, Stop>> /\ Ways.recovered.rounds = 1 /\ Ways.recovered.reapproach = 1
                      /\ Ways.recovered.conv = 1 /\ Ways.recovered.faults = {}
  BY DEF Ways

LEMMA LimitsOfWays ==
    /\ WayLimits(Ways.stops) /\ MoverLimits(Ways.stops)
    /\ WayLimits(Ways.pause) /\ StrandLimits(Ways.pause)
    /\ WayLimits(Ways.recovered) /\ StrandLimits(Ways.recovered)
<1> DEFINE a == [Stop EXCEPT !.yaw = TRUE, !.speech = TRUE]
           b == [Stop EXCEPT !.strict = TRUE]
<1>a. ~a.pass /\ ~b.pass /\ ~Stop.pass /\ ~Stop.yaw /\ ~Stop.dwell /\ ~Stop.speech
  BY DEF Stop
<1>b. StopRoute = <<a, b>>
  BY DEF StopRoute
<1> HIDE DEF a, b
<1>c. \A x, y : Len(<<x, y>>) = 2 /\ \A i \in 1 .. Len(<<x, y>>) : <<x, y>>[i] \in {x, y}
  OBVIOUS
<1>1. /\ Len(StopRoute) = 2
      /\ \A i \in 1 .. Len(StopRoute) : ~StopRoute[i].pass
  BY <1>a, <1>b, <1>c
<1>2. /\ Len(<<Stop, Stop>>) = 2
      /\ \A i \in 1 .. Len(<<Stop, Stop>>) :
            ~<<Stop, Stop>>[i].pass /\ ~<<Stop, Stop>>[i].yaw /\ ~<<Stop, Stop>>[i].dwell /\ ~<<Stop, Stop>>[i].speech
  BY <1>a, <1>c
<1>3. WayLimits(Ways.stops) /\ MoverLimits(Ways.stops)
  <2>1. WayBounds(Ways.stops)
    BY <1>1, TheStops DEF WayBounds
  <2>2. NoPassing(Ways.stops)
    BY <1>1, TheStops DEF NoPassing
  <2>3. MoverLimits(Ways.stops)
    BY TheStops DEF MoverLimits
  <2> QED
    BY <2>1, <2>2, <2>3 DEF WayLimits
<1>4. WayLimits(Ways.pause) /\ StrandLimits(Ways.pause)
  BY <1>2, ThePause DEF WayLimits, WayBounds, NoPassing, StrandLimits
<1>5. WayLimits(Ways.recovered) /\ StrandLimits(Ways.recovered)
  BY <1>2, TheRecovered DEF WayLimits, WayBounds, NoPassing, StrandLimits
<1> QED
  BY <1>3, <1>4, <1>5

\* A behaviour keeps the invariant of the scenario it explores.
MotionInv ==
    /\ scenario = "stops" => WayInv(Ways.stops)
    /\ scenario = "pause" => WayInv(Ways.pause)
    /\ scenario = "recovered" => WayInv(Ways.recovered)

\* The module starts in a scenario with its invariant.
LEMMA InitMotion == Init => MotionInv
<1> SUFFICES ASSUME Init PROVE MotionInv
  OBVIOUS
<1>1. scenario = "stops" => Way(Ways.stops)!Init
  BY DEF Init
<1>2. scenario = "pause" => Way(Ways.pause)!Init
  BY DEF Init
<1>3. scenario = "recovered" => Way(Ways.recovered)!Init
  BY DEF Init
<1> QED
  BY <1>1, <1>2, <1>3, InitWay, LimitsOfWays DEF MotionInv

\* A step is one of the scenario that is explored.
LEMMA StepMotion == MotionInv /\ [Next]_<<scenario, navVars, waypointVars>> => MotionInv'
<1> SUFFICES ASSUME MotionInv, [Next]_<<scenario, navVars, waypointVars>> PROVE MotionInv'
  OBVIOUS
<1>1. scenario' = scenario
  BY DEF Next
<1>2. scenario = "stops" => Way(Ways.stops)!Next \/ UNCHANGED waypointVars
  BY DEF Next
<1>3. scenario = "pause" => Way(Ways.pause)!Next \/ UNCHANGED waypointVars
  BY DEF Next
<1>4. scenario = "recovered" => Way(Ways.recovered)!Next \/ UNCHANGED waypointVars
  BY DEF Next
<1>5. scenario = "stops" => WayInv(Ways.stops)'
  BY <1>2, StepWay, LimitsOfWays DEF MotionInv
<1>6. scenario = "pause" => WayInv(Ways.pause)'
  BY <1>3, StepWay, LimitsOfWays DEF MotionInv
<1>7. scenario = "recovered" => WayInv(Ways.recovered)'
  BY <1>4, StepWay, LimitsOfWays DEF MotionInv
<1> QED
  BY <1>1, <1>5, <1>6, <1>7 DEF MotionInv

\* In every scenario of the module (_dispatch_waypoint, on_navigation_result):
\* one mover at a time on the strict stops,
\* and a running task that is paused, resumed or recovered always has something
\* on the way that calls the executor.
THEOREM MoversAreAlone == Spec => []OneMover
<1>1. MotionInv => OneMover
  BY WaySays, LimitsOfWays DEF MotionInv, OneMover
<1> QED
  BY InitMotion, StepMotion, <1>1, PTL DEF Spec

=============================================================================
