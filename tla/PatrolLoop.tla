----------------------------- MODULE PatrolLoop -----------------------------
(***************************************************************************)
(* The center's patrol loops: PatrolLoopService.process, run every second  *)
(* by the supervisor, the operator's create, pause, continue and stop, and *)
(* the low-battery latch fed by Edge alerts and by telemetry.  Each of     *)
(* these is one database transaction and one step here.                    *)
(*                                                                         *)
(* One robot and one loop session.  Round r runs execution r; the Edge and *)
(* the command lifecycle (CenterTask) appear as the steps that change an   *)
(* execution and close the commands the loop created for it.  A command    *)
(* that is created changes its execution in the same step: a pause makes   *)
(* it pausing, a force exit cancels it, whatever the robot then does.      *)
(* Seconds are counted only where the code counts them, by calls of        *)
(* process.                                                                *)
(***************************************************************************)
EXTENDS Naturals, FiniteSets

CONSTANTS
    MaxRounds,      \* bound: rounds dispatched
    MaxAttempts,    \* MAX_RECOVERY_ATTEMPTS
    Observation,    \* OBSERVATION_SECONDS, in calls of process
    MaxContinues,   \* bound: operator continuations
    MaxPhases,      \* bound: times the battery runs low
    MaxLost         \* bound: commands that time out or fail at the Edge

Rounds == 1 .. MaxRounds
Ended == {"completed", "failed", "cancelled", "low_battery_stopped"}
ExecEnded == {"completed", "failed", "cancelled", "timed_out"}
ExecMoving == {"accepted", "running", "resuming"}
ExecHeld == {"paused", "interrupted"}
NoKey == <<"none", 0>>

VARIABLES
    loop,       \* the PatrolLoopSession row; current is the round it runs, 0 for none
    exec,       \* state and failure code of each round's execution
    cmd,        \* the newest pause, force_exit and recover command of that round
    safety,     \* what _observation_safety and _health see
    over,       \* ends_at has passed
    low,        \* the battery is below the threshold
    phase,      \* number of the latest low-battery phase
    alerts,     \* low-battery alerts of the Edge that have not arrived yet
    latch, known, samples,   \* RobotLowBatteryEpisode: active, all; cached samples
    clean,      \* history: no unsafe sample was taken since the window opened
    lost        \* commands lost so far

loopVars == <<loop, clean>>
battery == <<low, phase, alerts, latch, known, samples>>
env == <<safety, over, battery, lost>>
vars == <<loop, clean, exec, cmd, env>>

NoExec == [state |-> "none", code |-> "none"]
NoCmd == [pause |-> "none", force |-> "none", recover |-> "none"]

Init ==
    /\ loop = [state |-> "starting", round |-> 0, current |-> 0, manual |-> FALSE, obs |-> 0,
               attempt |-> 0, reason |-> "none", waiting |-> FALSE, scope |-> "loop",
               continues |-> 0]
    /\ clean = TRUE
    /\ exec = [r \in Rounds |-> NoExec] /\ cmd = NoCmd
    /\ safety = "ready" /\ over = FALSE
    /\ low = FALSE /\ phase = 0 /\ alerts = {} /\ latch = NoKey /\ known = {} /\ samples = 0
    /\ lost = 0

Active == loop.state \notin Ended
IsActive(e) == e.state \notin ExecEnded \cup {"none"}
Exec == IF loop.current = 0 THEN NoExec ELSE exec[loop.current]
ExecActive == IsActive(Exec)
NoneActive == \A r \in Rounds : ~IsActive(exec[r])
Safe == safety # "unsafe"
Healthy == safety = "ready"

\* _set_state: the state changes together with the fields that were set on the
\* row before; a recovery episode is named by its reason code.
SetState(s) == loop' = [s EXCEPT !.obs = IF s.state = "observing" THEN s.obs ELSE 0]

Cleared(s) == [s EXCEPT !.attempt = 0, !.reason = "none", !.waiting = FALSE, !.scope = "loop"]

\* Wrong variant: a force exit cancels only a task that moves.
CancelledMoving ==
    [r \in Rounds |-> IF exec[r].state \in ExecMoving
                       THEN [state |-> "cancelled", code |-> "FORCE_EXIT"] ELSE exec[r]]

\* CommandService.create: a force exit cancels what is active at the center,
\* before the robot hears of it.
Cancelled ==
    [r \in Rounds |-> IF IsActive(exec[r])
                       THEN [state |-> "cancelled", code |-> "FORCE_EXIT"] ELSE exec[r]]

\* _force_exit_execution: for an execution that is active; it is over then, so
\* that it gets no second force exit.
ForceExit ==
    IF ExecActive THEN exec' = Cancelled /\ cmd' = [cmd EXCEPT !.force = "open"]
    ELSE UNCHANGED <<exec, cmd>>

\* CommandService.create: a pause is under way as soon as it is asked for.
AskPause ==
    /\ exec' = [exec EXCEPT ![loop.current].state = "pausing"]
    /\ cmd' = [cmd EXCEPT !.pause = "open"]

----------------------------------------------------------------------------
(* The operator. *)

\* pause: in any active state, again and while the loop stops too.
Pause ==
    /\ Active
    /\ IF Exec.state \in ExecMoving THEN AskPause ELSE UNCHANGED <<exec, cmd>>
    /\ SetState([loop EXCEPT !.state = "paused", !.manual = TRUE])
    /\ UNCHANGED <<clean, env>>

\* continue_recovery: a new episode with a new budget and a new observation.
Continue ==
    /\ loop.state \in {"paused", "observing"} /\ Safe
    /\ Exec.state \in ExecHeld \cup ExecMoving
    /\ loop.continues < MaxContinues
    /\ SetState([loop EXCEPT !.state = "observing", !.manual = FALSE, !.obs = 0, !.attempt = 0,
                             !.reason = "OPERATOR_CONTINUE", !.waiting = FALSE,
                             !.continues = @ + 1])
    /\ UNCHANGED <<clean, exec, cmd, env>>

Stop ==
    /\ Active
    /\ ForceExit
    /\ SetState([loop EXCEPT !.state = "cancelled", !.manual = FALSE])
    /\ UNCHANGED <<clean, env>>

----------------------------------------------------------------------------
(* process, one action per branch. *)

Supervise == Active

\* stopping: wait until the newest force exit is answered or has expired, then
\* conclude; a stop that was not confirmed fails the loop.
ProcessStopping ==
    LET confirmed == cmd.force \in {"none", "stopped"} IN
    /\ loop.state = "stopping" /\ cmd.force # "open" /\ ~ExecActive
    /\ SetState(IF loop.scope = "round"
                THEN IF confirmed THEN [Cleared(loop) EXCEPT !.state = "resting"]
                     ELSE [loop EXCEPT !.state = "failed"]
                ELSE [loop EXCEPT !.state = IF confirmed THEN "completed" ELSE "failed"])
    /\ UNCHANGED <<clean, exec, cmd, env>>

AfterDeadline == IF ExecActive THEN "stopping" ELSE "completed"

\* The deadline, in every state but stopping.
ProcessDeadline ==
    /\ Supervise /\ loop.state # "stopping" /\ over
    /\ ForceExit
    /\ SetState([loop EXCEPT !.state = AfterDeadline])
    /\ UNCHANGED <<clean, env>>

Going == Supervise /\ loop.state # "stopping" /\ ~over


PauseAgain == cmd.pause # "open"

\* _ensure_manual_pause: a task that moves is paused again.
ProcessPaused ==
    /\ Going /\ (loop.manual \/ loop.state = "paused")
    /\ Exec.state \in ExecMoving /\ PauseAgain
    /\ AskPause
    /\ UNCHANGED <<loop, clean, env>>

Unheld == Going /\ ~loop.manual /\ loop.state # "paused"

NextRound == loop.round + 1

\* _begin_observation: a new reason code starts a new episode.
BeginObservation(code) ==
    SetState([loop EXCEPT !.state = "observing", !.obs = 0, !.reason = code,
                          !.attempt = IF loop.reason = code THEN @ ELSE 0])

\* _dispatch_round, or observation when the robot is not healthy.  The low
\* battery latch, or an execution that is still active, refuses the start and
\* rolls the transaction back.
ProcessRest ==
    /\ Unheld /\ loop.state \in {"starting", "resting"}
    /\ \/ /\ ~Healthy
          /\ BeginObservation("UNHEALTHY") /\ UNCHANGED <<exec, cmd>>
       \/ /\ Healthy /\ ~low /\ latch = NoKey /\ NextRound \in Rounds
          /\ NoneActive
          /\ exec' = [exec EXCEPT ![NextRound] = [state |-> "dispatching", code |-> "none"]]
          /\ cmd' = NoCmd
          /\ SetState([Cleared(loop) EXCEPT !.state = "running", !.round = NextRound,
                                            !.current = NextRound])
    /\ UNCHANGED <<clean, env>>

\* terminate_low_battery: a key that was cleared stops nothing; otherwise the
\* loop ends and whatever is active on the robot is forced out.
Terminate(key) ==
    IF key \in known /\ latch # key THEN UNCHANGED <<loop, exec, cmd, latch, known>>
    ELSE /\ latch' = IF latch = NoKey THEN key ELSE latch
         /\ known' = IF latch = NoKey THEN known \cup {key} ELSE known
         /\ exec' = Cancelled
         /\ cmd' = IF ExecActive THEN [cmd EXCEPT !.force = "open"] ELSE cmd
         /\ IF Active
            THEN SetState([loop EXCEPT !.state = "low_battery_stopped", !.manual = FALSE])
            ELSE UNCHANGED loop

ProcessRunning ==
    /\ Unheld /\ loop.state = "running"
    /\ \/ /\ Exec.state = "completed"
          /\ SetState([loop EXCEPT !.state = "resting", !.attempt = 0])
          /\ UNCHANGED <<exec, cmd, latch, known>>
       \/ /\ Exec.state \in ExecHeld
          /\ BeginObservation(Exec.code)
          /\ UNCHANGED <<exec, cmd, latch, known>>
       \/ /\ Exec.state \in ExecEnded \ {"completed"} /\ Exec.code # "LOW_BATTERY"
          /\ BeginObservation(Exec.code)
          /\ UNCHANGED <<exec, cmd, latch, known>>
       \/ /\ Exec.state \in ExecEnded \ {"completed"} /\ Exec.code = "LOW_BATTERY"
          /\ Terminate(<<"exec", loop.current>>)
    /\ UNCHANGED <<clean, safety, over, low, phase, alerts, samples, lost>>

Observing == Unheld /\ loop.state = "observing"
AwaitsEdge == loop.reason = "COMMAND_TIMED_OUT" /\ Exec.state \in {"none", "interrupted"}

\* The Edge says that the task moves again.
ObserveMoving ==
    /\ Observing /\ Exec.state \in ExecMoving
    /\ SetState([Cleared(loop) EXCEPT !.state = "running"])
    /\ UNCHANGED <<clean, exec, cmd, env>>

\* Wrong variant: an interruption of the window is not noticed.
WindowAfterUnsafeKeeps == loop.obs

\* An unsafe sample starts the window over.
WindowAfterUnsafe == 0

ObserveUnsafe ==
    /\ Observing /\ Exec.state \notin ExecMoving /\ ~Safe
    /\ loop' = [loop EXCEPT !.obs = WindowAfterUnsafe]
    /\ clean' = FALSE
    /\ UNCHANGED <<exec, cmd, env>>

\* A safe sample: the window opens or grows.  A start that timed out waits for
\* the Edge instead.
ObserveSafe ==
    /\ Observing /\ Exec.state \notin ExecMoving /\ Safe
    /\ loop.obs <= Observation
    /\ loop' = [loop EXCEPT !.obs = IF AwaitsEdge THEN 0 ELSE @ + 1]
    /\ clean' = (clean \/ loop.obs = 0)
    /\ UNCHANGED <<exec, cmd, env>>

Observed == /\ Observing /\ Exec.state \notin ExecMoving /\ Safe /\ ~AwaitsEdge
            /\ loop.obs > Observation

\* The execution is over: rest, then the next round.
ObservedReplace ==
    /\ Observed /\ ~ExecActive
    /\ SetState([loop EXCEPT !.state = "resting"])
    /\ UNCHANGED <<clean, exec, cmd, env>>

\* _begin_recovery_stop: a held task waits for the operator, another one is
\* forced out.
BeginRecoveryStop ==
    IF Exec.state \in ExecHeld
    THEN /\ SetState([loop EXCEPT !.state = "paused", !.manual = TRUE])
         /\ UNCHANGED <<exec, cmd>>
    ELSE /\ SetState([loop EXCEPT !.state = "stopping", !.scope = "round"])
         /\ ForceExit

BudgetSpent == loop.attempt >= MaxAttempts

ObservedRecover ==
    /\ Observed /\ ExecActive
    /\ IF BudgetSpent THEN BeginRecoveryStop
       ELSE /\ SetState([loop EXCEPT !.state = "recovering", !.attempt = @ + 1])
            /\ cmd' = [cmd EXCEPT !.recover = "open"]
            /\ UNCHANGED exec
    /\ UNCHANGED <<clean, env>>

Recovering == Unheld /\ loop.state = "recovering" /\ cmd.recover # "open"

BackToObserving == SetState([loop EXCEPT !.state = "observing", !.obs = 0, !.waiting = FALSE])

ProcessRecovering ==
    /\ Recovering
    /\ \/ /\ cmd.recover \in {"none", "failed"}
          /\ BackToObserving /\ UNCHANGED <<exec, cmd>>
       \/ /\ cmd.recover \notin {"none", "failed"} /\ Exec.state \in ExecMoving
          /\ SetState([Cleared(loop) EXCEPT !.state = "running"]) /\ UNCHANGED <<exec, cmd>>
       \/ /\ cmd.recover = "in_progress" /\ Exec.state \notin ExecMoving
          /\ \/ ~loop.waiting /\ SetState([loop EXCEPT !.waiting = TRUE])
             \/ loop.waiting /\ BackToObserving          \* the action's time is up
          /\ UNCHANGED <<exec, cmd>>
       \/ cmd.recover = "non_retryable" /\ Exec.state \notin ExecMoving /\ BeginRecoveryStop
       \/ /\ cmd.recover \in {"held", "recovered"} /\ Exec.state \notin ExecMoving
          /\ BackToObserving /\ UNCHANGED <<exec, cmd>>
    /\ UNCHANGED <<clean, env>>

Process ==
    \/ ProcessStopping \/ ProcessDeadline \/ ProcessPaused \/ ProcessRest \/ ProcessRunning
    \/ ObserveMoving \/ ObserveUnsafe \/ ObserveSafe \/ ObservedReplace \/ ObservedRecover
    \/ ProcessRecovering

----------------------------------------------------------------------------
(* The low-battery latch. *)

\* An Edge alert arrives, possibly long after it was raised: the Edge keeps it
\* in its outbox while it is disconnected.
Alert(p) ==
    /\ p \in alerts /\ alerts' = alerts \ {p}
    /\ Terminate(<<"edge", p>>)
    /\ UNCHANGED <<clean, safety, over, low, phase, samples, lost>>

\* observe_battery: the episode ends at the re-arm level.
Rearmed == ~low

\* TelemetryService.apply_status: two low samples latch as a fallback.
Telemetry ==
    \/ /\ latch # NoKey /\ Rearmed
       /\ latch' = NoKey
       /\ UNCHANGED <<loop, exec, cmd, known, samples>>
    \/ /\ low /\ latch = NoKey /\ samples = 0
       /\ samples' = 1
       /\ UNCHANGED <<loop, exec, cmd, latch, known>>
    \/ /\ low /\ latch = NoKey /\ samples = 1
       /\ samples' = 0
       /\ Terminate(<<"center", phase>>)

TakeTelemetry ==
    /\ Telemetry
    /\ UNCHANGED <<clean, safety, over, low, phase, alerts, lost>>

----------------------------------------------------------------------------
(* The robot. *)

\* An execution changes its state; without a reason it keeps the last one.
SetExec(r, state, code) ==
    exec' = [exec EXCEPT ![r] = [state |-> state, code |-> IF code = "none" THEN @.code ELSE code]]
SetCurrent(state, code) == loop.current # 0 /\ SetExec(loop.current, state, code)

Lose == lost < MaxLost /\ lost' = lost + 1

\* The start is executed, or it times out and the execution is interrupted.
EdgeStart ==
    /\ Exec.state = "dispatching"
    /\ \/ SetCurrent("running", "none") /\ UNCHANGED lost
       \/ SetCurrent("failed", "NAV") /\ UNCHANGED lost
       \/ Lose /\ SetCurrent("interrupted", "COMMAND_TIMED_OUT")
    /\ UNCHANGED <<loop, clean, cmd, safety, over, battery>>

\* A task ends, or stops for a reason of its own.  With a low battery the Edge
\* forces it out.
EdgeTask(r) ==
    /\ \/ /\ exec[r].state \in {"running", "pausing"}
          /\ \/ SetExec(r, "completed", "none")
             \/ SetExec(r, "failed", "NAV")
             \/ SetExec(r, "paused", "NAV")
       \/ IsActive(exec[r]) /\ low /\ SetExec(r, "failed", "LOW_BATTERY")
    /\ UNCHANGED <<loop, clean, cmd, env>>

\* reconcile_edge_active_after_center_timeout: the Edge still has a task that
\* the center had given up.
EdgeSync(r) ==
    /\ exec[r].state \in {"timed_out", "interrupted"} /\ exec[r].code = "COMMAND_TIMED_OUT"
    /\ \A q \in Rounds \ {r} : ~IsActive(exec[q])
    /\ \E state \in {"running", "paused"} : SetExec(r, state, "EDGE_SYNC")
    /\ UNCHANGED <<loop, clean, cmd, env>>

\* A pause is executed, or it fails or times out and the task counts as running
\* again; it changes nothing when the execution is no longer pausing.
EdgePause ==
    /\ cmd.pause = "open"
    /\ \/ /\ Exec.state \in ExecMoving \cup {"pausing"} /\ SetCurrent("paused", "none")
          /\ cmd' = [cmd EXCEPT !.pause = "done"] /\ UNCHANGED lost
       \/ /\ Exec.state = "pausing" /\ Lose
          /\ \E code \in {"NAV", "COMMAND_TIMED_OUT"} : SetCurrent("running", code)
          /\ cmd' = [cmd EXCEPT !.pause = "failed"]
       \/ /\ Exec.state \in ExecMoving /\ Lose /\ UNCHANGED exec
          /\ cmd' = [cmd EXCEPT !.pause = "failed"]
       \/ /\ Exec.state \notin ExecMoving \cup {"pausing"} /\ UNCHANGED <<exec, lost>>
          /\ cmd' = [cmd EXCEPT !.pause = "failed"]
    /\ UNCHANGED <<loop, clean, safety, over, battery>>

\* A recovery moves the task, goes on or gives up.  Its failure leaves the
\* execution as it is, its timeout ends it at the center.
EdgeRecover ==
    /\ cmd.recover = "open"
    /\ \/ /\ Exec.state \in ExecHeld /\ SetCurrent("running", "none")
          /\ cmd' = [cmd EXCEPT !.recover = "recovered"] /\ UNCHANGED lost
       \/ /\ ExecActive /\ UNCHANGED <<exec, lost>>
          /\ \E result \in {"in_progress", "non_retryable", "held"} :
                cmd' = [cmd EXCEPT !.recover = result]
       \/ ~ExecActive /\ cmd' = [cmd EXCEPT !.recover = "failed"] /\ UNCHANGED <<exec, lost>>
       \/ /\ ExecActive /\ Lose
          /\ UNCHANGED exec \/ SetCurrent("timed_out", "COMMAND_TIMED_OUT")
          /\ cmd' = [cmd EXCEPT !.recover = "failed"]
    /\ UNCHANGED <<loop, clean, safety, over, battery>>

\* The result of an asynchronous recovery: the task moves again.
EdgeRecoverLate ==
    /\ cmd.recover = "in_progress" /\ Exec.state \in ExecHeld \cup {"pausing"}
    /\ SetCurrent("running", "none")
    /\ UNCHANGED <<loop, clean, cmd, env>>

\* The answer to a force exit, or its timeout: the execution is over already.
EdgeForceExit ==
    /\ cmd.force = "open"
    /\ \E result \in {"stopped", "unconfirmed"} : cmd' = [cmd EXCEPT !.force = result]
    /\ UNCHANGED <<loop, clean, exec, env>>

Edge ==
    \/ EdgeStart \/ EdgePause \/ EdgeRecover \/ EdgeRecoverLate \/ EdgeForceExit
    \/ \E r \in Rounds : EdgeTask(r) \/ EdgeSync(r)

\* The world: health, time and the battery.
World ==
    \/ /\ \E s \in {"ready", "safe", "unsafe"} \ {safety} : safety' = s
       /\ UNCHANGED <<over, low, phase, alerts>>
    \/ /\ ~over /\ over' = TRUE
       /\ UNCHANGED <<safety, low, phase, alerts>>
    \/ /\ ~low /\ phase < MaxPhases
       /\ low' = TRUE /\ phase' = phase + 1 /\ alerts' = alerts \cup {phase + 1}
       /\ UNCHANGED <<safety, over>>
    \/ low /\ low' = FALSE /\ UNCHANGED <<safety, over, phase, alerts>>

WorldMoves == World /\ UNCHANGED <<loop, clean, exec, cmd, latch, known, samples, lost>>

\* create_session after the last one ended: not while the battery is latched.
Create ==
    /\ ~Active /\ NoneActive /\ latch = NoKey /\ ~low /\ safety = "ready"
    /\ loop.round < MaxRounds
    /\ loop' = [Cleared(loop) EXCEPT !.state = "starting", !.current = 0,
                                    !.manual = FALSE, !.obs = 0]
    /\ over' = FALSE /\ cmd' = NoCmd
    /\ UNCHANGED <<clean, exec, safety, battery, lost>>

Next ==
    \/ Pause \/ Continue \/ Stop \/ Create
    \/ Process \/ TakeTelemetry \/ \E p \in alerts : Alert(p)
    \/ Edge \/ WorldMoves

Spec == Init /\ [][Next]_vars

\* The supervisor runs every second, and its commands are answered or expire.
Fairness ==
    /\ WF_vars(ProcessDeadline) /\ WF_vars(ProcessStopping) /\ WF_vars(ProcessPaused)
    /\ WF_vars(EdgePause) /\ WF_vars(EdgeForceExit) /\ WF_vars(EdgeStart)

FairSpec == Spec /\ Fairness

----------------------------------------------------------------------------
(* Properties. *)

TypeOK ==
    /\ loop.state \in Ended \cup {"starting", "running", "resting", "observing", "recovering",
                                  "paused", "stopping"}
    /\ loop.round \in 0 .. MaxRounds /\ loop.current \in {0, loop.round}
    /\ loop.obs \in 0 .. Observation + 1 /\ loop.attempt \in 0 .. MaxAttempts
    /\ cmd.force \in {"none", "open", "stopped", "unconfirmed"}
    /\ latch = NoKey \/ latch \in known

\* Two rounds of a loop are never active together, and an execution that is
\* over is never active again unless the center had only given it up
\* (_dispatch_round, reconcile_edge_active_after_center_timeout).
SeparatesRounds ==
    /\ Cardinality({r \in Rounds : IsActive(exec'[r])}) <= 1
    /\ \A r \in Rounds :
          exec[r].state \in ExecEnded => exec'[r] = exec[r] \/ exec[r].state = "timed_out"

\* A recovery is sent only after a window without an unsafe sample, and never
\* while an operator holds the loop (the observing branch of process).
RecoversCleanly ==
    cmd.recover # "open" /\ cmd'.recover = "open" => clean /\ Safe /\ ~loop.manual

\* The step that latches the low battery leaves no loop and no execution
\* active; while the latch holds none becomes active, but one that the center
\* had given up and the Edge still has (terminate_low_battery).
LatchedIsStopped ==
    latch' # NoKey =>
        /\ ~Active'
        /\ \A r \in Rounds : IsActive(exec'[r]) =>
              \/ latch # NoKey /\ IsActive(exec[r])
              \/ exec[r].state = "timed_out"

\* A loop that reports completed has no execution left that is active, and out
\* of a stop it completes only when the robot has confirmed it.
CompletesStopped ==
    loop'.state = "completed" /\ loop.state # "completed" =>
        /\ ~ExecActive'
        /\ loop.state = "stopping" => cmd.force \in {"none", "stopped"}

Unpaused == Exec.state \in ExecMoving \cup {"pausing"}


\* The plan: a manual pause has no automatic way back to motion.
PausedStaysPaused ==
    [][loop.manual /\ loop'.manual /\ Exec.state \in ExecHeld => Exec'.state \notin ExecMoving]_vars

=============================================================================
