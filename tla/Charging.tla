------------------------------ MODULE Charging ------------------------------
(***************************************************************************)
(* Charging on the Edge: ChargeControlAdapter with the power modes of      *)
(* PowerModeController, the docking hooks of the application and the       *)
(* low-battery latch.  A command, the thread that begins a charge, the one *)
(* that ends a full charge, the thermal retry, the recovery of a stale     *)
(* state and two observers of the battery (telemetry loop, dock monitor)   *)
(* share the adapter's flags and the persisted power state; every call to  *)
(* the 3588 controller is a step of its own and may fail.                  *)
(***************************************************************************)
EXTENDS Naturals, FiniteSets

CONSTANTS
    Observers,      \* subset of {"loop", "monitor"}
    Commands,       \* subset of {"start", "dock", "stop", "motion", "park"}
    Samples,        \* full and low confirmation samples
    MaxCommands, MaxEnv, MaxFaults, MaxCrashes      \* bounds

VARIABLES
    pm,         \* persisted power state: mode, trans, auto, stage
    pending,    \* _pending_charge
    undock,     \* _docking_undock_pending
    inhibit,    \* _manual_disconnect_inhibit_until lies ahead
    count,      \* _full_samples, _low_battery_samples; hot: thermal protection seen, not yet answered
    latch,      \* _low_battery_episode, persisted
    motion, pile, contact, thermal,     \* the robot and its dock
    level,      \* of the battery: 1 low, 2, 3 rearm, 4 full
    thread,     \* "cmd", "begin", "complete", "retry", "stale", "alert": steps
    obs,        \* observers: the sample in hand
    n,          \* commands, environment changes, faults and crashes so far
    wanted, begun,      \* history: charges requested and begun
    alerts      \* history: alerts since the battery was last above the rearm level

flags == <<pending, undock, inhibit, count>>
robot == <<motion, pile, contact, level, thermal>>
history == <<wanted, begun, alerts>>
vars == <<pm, flags, latch, robot, thread, obs, n, history>>

Workers == {"cmd", "begin", "complete", "retry", "stale", "alert"}
NoSample == [pc |-> "idle"]
NoCount == [full |-> 0, low |-> 0, hot |-> FALSE]

Init ==
    /\ pm = [mode |-> "normal", trans |-> "ready", auto |-> FALSE, stage |-> "idle"]
    /\ pending = FALSE /\ undock = FALSE /\ inhibit = FALSE /\ count = NoCount
    /\ latch = FALSE /\ motion = TRUE /\ pile = "arc" /\ contact = FALSE /\ level = 2 /\ thermal = FALSE
    /\ thread = [w \in Workers |-> "idle"] /\ obs = [o \in Observers |-> [pc |-> IF o = "loop" THEN "idle" ELSE "off"]]
    /\ n = [cmds |-> 0, env |-> 0, faults |-> 0, crashes |-> 0]
    /\ wanted = 0 /\ begun = 0 /\ alerts = 0

At(w, pc) == thread[w] = pc
Goto(w, pc) == thread' = [thread EXCEPT ![w] = pc]
Fault == n.faults < MaxFaults /\ n' = [n EXCEPT !.faults = @ + 1]
Stage(s) == [pm EXCEPT !.stage = s]
Power == [pc |-> "act", charging |-> contact /\ pile = "lying" /\ ~thermal, ready |-> contact /\ pile = "lying",
          pile |-> pile, thermal |-> thermal, level |-> level, auto |-> pm.auto, mode |-> pm.mode, stage |-> pm.stage]

(* Commands of the center, _execute_charge and _execute_motion_control. *)

Command(c) ==
    /\ c \in Commands /\ At("cmd", "idle") /\ n.cmds < MaxCommands
    /\ n' = [n EXCEPT !.cmds = @ + 1] /\ Goto("cmd", c)
    /\ UNCHANGED <<pm, flags, latch, robot, obs, history>>

\* start; a docking task that has arrived leaves a note for its end first.
StartBegin ==
    /\ thread["cmd"] \in {"start", "dock"} /\ pending' = TRUE /\ wanted' = wanted + 1
    /\ count' = [count EXCEPT !.hot = FALSE]
    /\ undock' = (undock \/ At("cmd", "dock")) /\ Goto("cmd", "pile")
    /\ UNCHANGED <<pm, inhibit, latch, robot, obs, n, begun, alerts>>

StartPile ==
    /\ At("cmd", "pile")
    /\ \/ pile' = "lying" /\ Goto("cmd", "refresh") /\ UNCHANGED n
       \/ Fault /\ Goto("cmd", "idle") /\ UNCHANGED pile
    /\ UNCHANGED <<pm, flags, latch, motion, contact, level, thermal, obs, history>>

\* The status is refreshed; on contact the charge begins in the same thread,
\* else the dock monitor is started, unless it runs.
StartWait ==
    /\ At("cmd", "refresh") /\ pm' = Stage("waiting")
    /\ Goto("cmd", IF Power.ready THEN "take" ELSE "idle")
    /\ obs' = [o \in Observers |-> IF obs[o].pc = "off" /\ ~Power.ready THEN NoSample ELSE obs[o]]
    /\ UNCHANGED <<flags, latch, robot, n, history>>

\* Wrong variant: the request is not withdrawn with the flag.
TakesForGood(w) == [took |-> pending, left |-> pending]

\* _begin_charge takes the request under the lock, whoever saw the contact.
Take(w) == [took |-> pending, left |-> FALSE]

BeginTake(w) ==
    /\ At(w, "take") /\ pending' = Take(w).left
    /\ \/ Take(w).took /\ pm' = Stage("starting") /\ Goto(w, "cool") /\ begun' = begun + 1
       \/ ~Take(w).took /\ Goto(w, "idle") /\ UNCHANGED <<pm, begun>>
    /\ UNCHANGED <<undock, inhibit, count, latch, robot, obs, n, wanted, alerts>>

\* enter_cooling: the mode is set, then the runtime services are stopped.
BeginCool(w) ==
    /\ At(w, "cool") /\ Goto(w, "services") /\ pm' = [pm EXCEPT !.mode = "cooling", !.trans = "entering"]
    /\ UNCHANGED <<flags, latch, robot, obs, n, history>>

BeginServices(w) ==
    /\ At(w, "services")
    /\ \/ pm' = [pm EXCEPT !.mode = "cooling", !.trans = "ready"] /\ Goto(w, "halt") /\ motion' = FALSE /\ UNCHANGED n
       \/ Fault /\ pm' = [pm EXCEPT !.mode = "cooling", !.trans = "error"] /\ Goto(w, "idle") /\ UNCHANGED motion
    /\ UNCHANGED <<flags, latch, pile, contact, level, thermal, obs, history>>

BeginMotion(w) ==
    /\ At(w, "halt")
    /\ \/ motion' = FALSE /\ Goto(w, "confirm") /\ UNCHANGED n
       \/ Fault /\ Goto(w, "idle") /\ UNCHANGED motion
    /\ UNCHANGED <<pm, flags, latch, pile, contact, level, thermal, obs, history>>

BeginConfirm(w) ==
    /\ At(w, "confirm") /\ Goto(w, "idle")
    /\ pm' = IF pile = "lying" THEN [pm EXCEPT !.auto = TRUE, !.stage = "current"]
             ELSE [pm EXCEPT !.auto = FALSE, !.stage = "error"]
    /\ UNCHANGED <<flags, latch, robot, obs, n, history>>

\* stop, by an operator or at the end of a full charge.
StopBegin(w) ==
    /\ At(w, "stop") /\ pending' = FALSE /\ Goto(w, "return")
    /\ inhibit' = (inhibit \/ w = "cmd")
    /\ count' = IF w = "cmd" THEN [count EXCEPT !.low = 0] ELSE count
    /\ pm' = [pm EXCEPT !.auto = FALSE, !.stage = "stopping"]
    /\ UNCHANGED <<undock, latch, robot, obs, n, history>>

StopReturn(w) ==
    /\ At(w, "return")
    /\ \/ pile' = "arc" /\ Goto(w, "restore") /\ UNCHANGED <<n, pm>>
       \/ Fault /\ pm' = Stage("error") /\ Goto(w, "idle") /\ UNCHANGED pile
    /\ UNCHANGED <<flags, latch, motion, contact, level, thermal, obs, history>>

\* restore_normal, in two steps; the stale-state recovery is these alone.
Restore(w) ==
    /\ At(w, "restore") /\ Goto(w, "normal") /\ pm' = [pm EXCEPT !.mode = "normal", !.trans = "restoring"]
    /\ UNCHANGED <<flags, latch, robot, obs, n, history>>

StartNormalServices(w) ==
    /\ At(w, "normal")
    /\ \/ /\ pm' = [pm EXCEPT !.mode = "normal", !.trans = "ready", !.auto = FALSE] /\ motion' = TRUE
          /\ Goto(w, IF w = "stale" THEN "idle" ELSE "clear") /\ UNCHANGED n
       \/ /\ Fault /\ \E t \in {"restoring", "error"} : pm' = [pm EXCEPT !.mode = "normal", !.trans = t]
          /\ Goto(w, "idle") /\ UNCHANGED motion
    /\ UNCHANGED <<flags, latch, pile, contact, level, thermal, obs, history>>

StopClear(w) ==
    /\ At(w, "clear") /\ pm' = Stage("idle") /\ Goto(w, "resume")
    /\ UNCHANGED <<flags, latch, robot, obs, n, history>>

\* start_motion_control, by command or to end a stop: it looks at the state,
\* then starts the components.
MotionCheck(w) ==
    /\ thread[w] \in {"motion", "resume"}
    /\ Goto(w, IF pm.auto \/ pm.stage # "idle" THEN "idle" ELSE IF At(w, "motion") THEN "drive" ELSE "redrive")
    /\ UNCHANGED <<pm, flags, latch, robot, obs, n, history>>

MotionStart(w) ==
    /\ thread[w] \in {"drive", "redrive"}
    /\ \/ /\ motion' = TRUE /\ Goto(w, IF w = "complete" THEN "undock" ELSE "idle")
          /\ inhibit' = (inhibit \/ (w = "cmd" /\ At(w, "redrive"))) /\ UNCHANGED n
       \/ Fault /\ Goto(w, "idle") /\ UNCHANGED <<motion, inhibit>>
    /\ UNCHANGED <<pm, pending, undock, count, latch, pile, contact, level, thermal, obs, history>>

MotionStop ==
    /\ At("cmd", "park") /\ Goto("cmd", "idle")
    /\ \/ motion' = FALSE /\ UNCHANGED n
       \/ Fault /\ UNCHANGED motion
    /\ UNCHANGED <<pm, flags, latch, pile, contact, level, thermal, obs, history>>

\* _finish_docking_undock backs away after a docking operation only.
Undock ==
    /\ At("complete", "undock") /\ undock' = FALSE /\ Goto("complete", "idle")
    /\ contact' = (contact /\ ~(undock /\ pm.mode = "normal" /\ pm.trans = "ready"))
    /\ UNCHANGED <<pm, pending, inhibit, count, latch, motion, pile, level, thermal, obs, n, history>>

(* Observers: a sample and the state it is judged by, then the reaction. *)

Poll(o) ==
    /\ obs[o].pc = "idle" /\ (o = "monitor" => pending)
    /\ obs' = [obs EXCEPT ![o] = Power] /\ UNCHANGED <<pm, flags, latch, robot, thread, n, history>>

\* The monitor ends with the request, which it gives up after its time.
MonitorEnd ==
    /\ "monitor" \in Observers /\ obs["monitor"].pc = "idle" /\ obs' = [obs EXCEPT !["monitor"] = [pc |-> "off"]]
    /\ \/ pending /\ pending' = FALSE /\ pm' = Stage("error")
       \/ ~pending /\ UNCHANGED <<pending, pm>>
    /\ UNCHANGED <<undock, inhibit, count, latch, robot, thread, n, history>>

Seen(s) == IF s.charging THEN "charging" ELSE IF s.auto /\ s.thermal THEN "thermal" ELSE pm.stage

\* A charging state that outlived the charge: ARC is back, nothing flows.
Stale(s) == s.auto /\ ~s.charging /\ s.pile = "arc"
ObserveStale(o) ==
    LET s == obs[o]
    IN  /\ s.pc = "act" /\ Stale(s) /\ obs' = [obs EXCEPT ![o] = NoSample]
        /\ pm' = [pm EXCEPT !.auto = FALSE, !.stage = "idle"]
        /\ thread' = IF s.mode = "cooling" /\ At("stale", "idle") THEN [thread EXCEPT !["stale"] = "restore"] ELSE thread
        /\ UNCHANGED <<flags, latch, robot, n, history>>

\* Contact for a request that waits: _begin_charge_async.
Begins(s) == pending /\ s.ready /\ At("begin", "idle")

\* The battery full for long enough ends the charge; thermal protection that is
\* over has the helper lie down once more, once its delay is due.
ObserveCharge(o, due) ==
    LET s == obs[o]
        full == IF s.level = 4 /\ s.pile = "lying" THEN count.full + 1 ELSE 0
        done == full >= Samples /\ At("complete", "idle")
        retries == due /\ count.hot /\ ~s.thermal /\ ~s.charging /\ At("retry", "idle")
    IN  /\ s.pc = "act" /\ ~Stale(s) /\ s.auto /\ obs' = [obs EXCEPT ![o] = NoSample]
        /\ pm' = [pm EXCEPT !.stage = Seen(s), !.auto = @ /\ ~done]
        /\ count' = [count EXCEPT !.full = IF done THEN 0 ELSE IF full > Samples THEN Samples ELSE full,
                                  !.hot = s.thermal \/ (@ /\ ~s.charging /\ ~retries)]
        /\ thread' = [thread EXCEPT !["begin"] = IF Begins(s) THEN "take" ELSE @,
                                    !["complete"] = IF done THEN "stop" ELSE @,
                                    !["retry"] = IF retries THEN "lying" ELSE @]
        /\ UNCHANGED <<pending, undock, inhibit, latch, robot, n, history>>

RetryPile ==
    /\ At("retry", "lying") /\ Goto("retry", "idle")
    /\ \/ pile' = "lying" /\ UNCHANGED n
       \/ Fault /\ UNCHANGED pile
    /\ UNCHANGED <<pm, flags, latch, motion, contact, level, thermal, obs, history>>

\* _observe_low_battery: a low sample that counts, and the one that alarms;
\* elapsed: the cooldown since the last alert is over.
Counts(s) == s.level = 1 /\ ~inhibit /\ ~latch /\ ~pending /\ ~pm.auto /\ At("begin", "idle")
Alarms(s, elapsed) == Counts(s) /\ count.low + 1 >= Samples /\ elapsed /\ At("alert", "idle")

\* _low_battery_episode as _persist_low_battery_episode leaves it.
Latched(s, elapsed) == Alarms(s, elapsed) \/ (latch /\ ~(s.level >= 3 /\ ~inhibit))

LowSamples(s, elapsed) ==
    IF s.level > 1 \/ inhibit \/ Alarms(s, elapsed) THEN 0
    ELSE IF Counts(s) /\ count.low < Samples THEN count.low + 1 ELSE count.low

ObserveIdle(o, elapsed) ==
    LET s == obs[o]
    IN  /\ s.pc = "act" /\ ~s.auto /\ obs' = [obs EXCEPT ![o] = NoSample]
        /\ pm' = Stage(IF ~pending /\ ~s.charging /\ s.stage # "idle" THEN "idle" ELSE Seen(s))
        /\ thread' = [thread EXCEPT !["begin"] = IF Begins(s) THEN "take" ELSE @,
                                    !["alert"] = IF Alarms(s, elapsed) THEN "stop" ELSE @]
        /\ count' = [full |-> 0, low |-> LowSamples(s, elapsed), hot |-> FALSE]
        /\ latch' = Latched(s, elapsed) /\ alerts' = IF Alarms(s, elapsed) THEN alerts + 1 ELSE alerts
        /\ UNCHANGED <<pending, undock, inhibit, robot, n, wanted, begun>>

\* _handle_low_battery_alert: the task is left and the alert published.
Alert ==
    /\ At("alert", "stop") /\ Goto("alert", "idle")
    /\ UNCHANGED <<pm, flags, latch, robot, obs, n, history>>

(* The environment, and a restart. *)

Env == n.env < MaxEnv /\ n' = [n EXCEPT !.env = @ + 1]
Touch == Env /\ contact' = ~contact /\ UNCHANGED <<pm, flags, latch, motion, pile, level, thermal, thread, obs, history>>
Heat == Env /\ thermal' = ~thermal /\ UNCHANGED <<pm, flags, latch, motion, pile, contact, level, thread, obs, history>>
InhibitEnds == inhibit /\ inhibit' = FALSE /\ UNCHANGED <<pm, pending, undock, count, latch, robot, thread, obs, n, history>>
\* Slowly: a sample is used before the battery is two bands further.
Battery(l) ==
    /\ \A o \in Observers : obs[o].pc = "act" => obs[o].level <= l + 1 /\ l <= obs[o].level + 1
    /\ Env /\ l \in 1 .. 4 /\ (l = level + 1 \/ l + 1 = level) /\ level' = l
    /\ alerts' = IF l >= 3 THEN 0 ELSE alerts
    /\ UNCHANGED <<pm, flags, latch, motion, pile, contact, thermal, thread, obs, wanted, begun>>

\* reconcile_startup: a cooling robot stays cool, any other is started; ARC is
\* left alone while a session of the legacy helper is on record.
Session == pm.stage \in {"waiting", "starting", "current", "charging", "thermal"}
Restart ==
    /\ n.crashes < MaxCrashes /\ n' = [n EXCEPT !.crashes = @ + 1]
    /\ pending' = FALSE /\ undock' = FALSE /\ inhibit' = FALSE /\ count' = NoCount
    /\ thread' = [w \in Workers |-> "idle"] /\ obs' = [o \in Observers |-> [pc |-> IF o = "loop" THEN "idle" ELSE "off"]]
    /\ pm' = IF pm.mode = "cooling" THEN [pm EXCEPT !.trans = "ready"]
             ELSE [pm EXCEPT !.trans = "ready", !.auto = FALSE]
    /\ motion' = (pm.mode = "normal") /\ pile' = IF pm.mode = "normal" /\ ~Session THEN "arc" ELSE pile
    /\ UNCHANGED <<latch, contact, level, thermal, history>>

Next ==
    \/ \E c \in Commands : Command(c)
    \/ StartBegin \/ StartPile \/ StartWait \/ Undock \/ MotionStop \/ MonitorEnd \/ RetryPile \/ Alert
    \/ \E w \in {"cmd", "begin"} : BeginTake(w) \/ BeginCool(w) \/ BeginServices(w) \/ BeginMotion(w) \/ BeginConfirm(w)
    \/ \E w \in {"cmd", "complete"} : StopBegin(w) \/ StopReturn(w) \/ StopClear(w) \/ MotionCheck(w) \/ MotionStart(w)
    \/ \E w \in {"cmd", "complete", "stale"} : Restore(w) \/ StartNormalServices(w)
    \/ \E o \in Observers :
           \/ Poll(o) \/ ObserveStale(o)
           \/ \E elapsed \in BOOLEAN : ObserveCharge(o, elapsed) \/ ObserveIdle(o, elapsed)
    \/ Touch \/ Heat \/ InhibitEnds \/ \E l \in 1 .. 4 : Battery(l)
    \/ Restart

Spec == Init /\ [][Next]_vars

(* Properties. *)

TypeOK ==
    /\ pm.mode \in {"normal", "cooling"} /\ pm.trans \in {"ready", "entering", "restoring", "error"}
    /\ pm.stage \in {"idle", "waiting", "starting", "current", "charging", "thermal", "stopping", "error"}
    /\ count.full \in 0 .. Samples /\ count.low \in 0 .. Samples /\ level \in 1 .. 4

\* _pending_charge: the command itself, the telemetry loop and the dock monitor
\* may all see the contact, and stop or the timeout may come between; a request
\* makes the robot lie down for a charge at most once.
BegunPerRequest == begun + (IF pending THEN 1 ELSE 0) <= wanted

\* The low-battery episode: a task is force-exited once per discharge, not again
\* by the next samples, another observer or a restart, until the battery has
\* been above the rearm level.
OneAlertPerDischarge == alerts <= 1

=============================================================================
