---------------------------- MODULE SelfHealing ----------------------------
(***************************************************************************)
(* SelfHealingCoordinator: one episode of self healing at a time, with the *)
(* levels 0 to 3, the actions each diagnosis allows, and the rows in the   *)
(* Edge database from which the statistics are made.                       *)
(*                                                                         *)
(* Every method of the coordinator runs under its lock and is one step.    *)
(* Its callers are not: the service of the behaviour tree (one request at  *)
(* a time), the localization callback, the recovery worker it starts, and  *)
(* the task events.  Evidence is a record of what a diagnosis looks at.    *)
(***************************************************************************)
EXTENDS Naturals, Sequences, FiniteSets, FiniteSetsExt

CONSTANTS
    Callers,        \* which of "bt", "edge" and "events" take part
    Scenes,         \* scenes of the route: "indoor", "outdoor"
    Evidence,       \* [limited, stale, normal, rtk, lio, ndt, progress]
    Required,       \* rtk_required_samples
    MaxEpisodes, MaxActions, MaxRestarts    \* bounds

VARIABLES
    scene,      \* scene mode of the route
    ep,         \* the coordinator's episode
    last,       \* _last_diagnosis
    eps,        \* rows of self_heal_episodes: "open", "success", "failed", "pruned"
    acts,       \* rows of self_heal_actions: episode, kind, state "open", "closed", "pruned"
    pruned,     \* self_heal_daily_summary: episodes and actions counted
    bt, edge, event,    \* callers
    boot        \* "up", or the steps of a start; how many there were

rows == <<eps, acts, pruned>>
coordinator == <<ep, last>>
callers == <<bt, edge, event>>
vars == <<scene, coordinator, rows, callers, boot>>

NoEpisode == [id |-> 0, fault |-> "failed", level |-> 0, active |-> 0, allowed |-> {}, stable |-> 0,
              finished |-> FALSE]
NoDiagnosis == [ep |-> 0, fault |-> "failed", level |-> 0, action |-> "none", recovered |-> FALSE]
NoRequest == [pc |-> "idle", op |-> "none", ep |-> 0, act |-> 0, level |-> 0, kind |-> "none",
              before |-> 0, from |-> 0, diag |-> NoDiagnosis]
NoWorker == [pc |-> "idle", ep |-> 0, act |-> 0, cycle |-> 1]

Init ==
    /\ scene \in Scenes /\ ep = NoEpisode /\ last = NoDiagnosis
    /\ eps = <<>> /\ acts = <<>> /\ pruned = [episodes |-> 0, actions |-> 0]
    /\ bt = NoRequest /\ edge = NoWorker /\ event = [pc |-> "idle", act |-> 0]
    /\ boot = [pc |-> "up", count |-> 0]

(* The decision matrix. *)

Localization == {"lost", "ndt", "rtk", "stale"}
Navigation == {"stuck", "failed", "collision"}
Outdoor == scene = "outdoor"

\* FaultDiagnoser.normalize_fault: evidence goes before what was requested.
NormalizeFault(requested, e) ==
    IF e.limited THEN "collision"
    ELSE IF e.stale THEN "stale"
    ELSE IF ~e.normal /\ ~e.rtk /\ ~e.lio THEN "lost"
    ELSE IF requested = "ndt" /\ ~e.ndt THEN "ndt"
    ELSE IF Outdoor /\ ~e.rtk /\ e.lio /\ requested \in {"lost", "ndt", "failed"} THEN "rtk"
    ELSE requested

\* FaultDiagnoser.diagnose: when a fault is over ...
Recovered(fault, e, stable) ==
    CASE fault = "rtk" -> e.rtk /\ stable >= Required
      [] fault = "ndt" -> e.normal /\ (e.rtk \/ e.ndt)
      [] fault \in {"lost", "stale"} -> e.normal /\ (e.rtk \/ e.ndt \/ e.lio)
      [] fault \in {"stuck", "failed"} -> e.progress /\ ~e.limited
      [] fault = "collision" -> ~e.limited

\* ... and what is to be done about it.
ForbidSpin(fault) == Outdoor \/ fault = "rtk"
LioHold(fault, e) == fault \in Localization /\ ~e.rtk /\ ~e.ndt /\ e.lio
ActionOf(fault, e, level) ==
    CASE level = 0 -> IF fault = "rtk" THEN "wait" ELSE "observe"
      [] level = 1 -> IF LioHold(fault, e) THEN "hold" ELSE IF fault \in Localization THEN "relocalize" ELSE "replan"
      [] level = 2 -> IF fault \notin Localization THEN "reverse"
                      ELSE IF fault = "rtk" THEN "continue" ELSE IF ForbidSpin(fault) THEN "search" ELSE "spin"
      [] level = 3 -> IF fault \in Localization THEN "global" ELSE "hold_safe"

\* SelfHealingCoordinator._allowed_actions.
AllowedActions(fault, action, level, recovered) ==
    IF recovered THEN {}
    ELSE IF level # 2 THEN {action}
    ELSE IF fault = "rtk" THEN {}
    ELSE IF fault \in Localization THEN {"search"} \cup (IF ForbidSpin(fault) THEN {} ELSE {"spin"})
    ELSE {"reverse", "bypass"}

(* The coordinator.  Each operator describes one method under the lock. *)

Active == ep.id # 0 /\ ~ep.finished
Close(a, S) == [i \in DOMAIN a |-> IF i \in S THEN [a[i] EXCEPT !.state = "closed"] ELSE a[i]]

\* Requests that raise SelfHealingPolicyError.
Refused(id, level) ==
    \/ ep.id # 0 /\ id # 0 /\ id # ep.id
    \/ ~Active /\ ~(ep.id # 0 /\ id = ep.id) /\ level # 0
    \/ Active /\ level > ep.level + 1

\* A late request about the episode that is over gets the last diagnosis again.
Replayed(id) == ep.id # 0 /\ ep.finished /\ id = ep.id

Started(requested, e) ==
    IF Active THEN ep
    ELSE [NoEpisode EXCEPT !.id = Len(eps) + 1, !.fault = NormalizeFault(requested, e)]

Diagnosis(requested, e, level) ==
    LET s == Started(requested, e)
        f == NormalizeFault(s.fault, e)
        l == Max({s.level, level})
        r == Recovered(f, e, IF e.rtk THEN s.stable + 1 ELSE 0)
    IN  [ep |-> s.id, fault |-> f, level |-> l, action |-> IF r THEN "exit" ELSE ActionOf(f, e, l), recovered |-> r]

\* diagnose of a new or the current episode; a recovered one is completed.
Diagnose(requested, e, level) ==
    LET s == Started(requested, e)
        d == Diagnosis(requested, e, level)
    IN  /\ Active \/ Len(eps) < MaxEpisodes
        /\ last' = d
        /\ ep' = [s EXCEPT !.fault = d.fault, !.level = d.level,
                           !.stable = IF e.rtk THEN Min({@ + 1, Required}) ELSE 0,
                           !.allowed = AllowedActions(d.fault, d.action, d.level, d.recovered),
                           !.active = IF d.recovered THEN 0 ELSE @, !.finished = d.recovered]
        /\ eps' = LET all == IF Active THEN eps ELSE Append(eps, "open")
                  IN  IF d.recovered THEN [all EXCEPT ![s.id] = "success"] ELSE all
        /\ acts' = IF d.recovered THEN Close(acts, {s.active}) ELSE acts

Authorized(id, level, kind) == Active /\ id = ep.id /\ level = ep.level /\ kind \in ep.allowed

\* begin_action; nothing without an episode.
BeginAction(level, kind) ==
    IF Active
    THEN /\ Len(acts) < MaxActions
         /\ acts' = Append(acts, [ep |-> ep.id, kind |-> kind, state |-> "open"])
         /\ ep' = [ep EXCEPT !.level = Max({@, level}), !.active = Len(acts) + 1]
    ELSE UNCHANGED <<acts, ep>>
Begun == IF Active THEN Len(acts) + 1 ELSE 0

\* finish_action; without an id, the active one.
FinishAction(a) ==
    LET id == IF a = 0 THEN ep.active ELSE a
    IN  acts' = Close(acts, {id}) /\ ep' = [ep EXCEPT !.active = IF @ = id THEN 0 ELSE @]

\* Wrong variant: an episode that is over is completed once more.
CompletesAgain(verdict) ==
    IF ep.id # 0
    THEN /\ eps' = [eps EXCEPT ![ep.id] = verdict] /\ acts' = Close(acts, {ep.active})
         /\ ep' = [ep EXCEPT !.finished = TRUE, !.active = 0]
    ELSE UNCHANGED <<eps, acts, ep>>

\* complete; only the first one counts.
Complete(verdict) ==
    IF Active
    THEN /\ eps' = [eps EXCEPT ![ep.id] = verdict] /\ acts' = Close(acts, {ep.active})
         /\ ep' = [ep EXCEPT !.finished = TRUE, !.active = 0]
    ELSE UNCHANGED <<eps, acts, ep>>

(* The service of the behaviour tree, _handle_navigation_self_healing. *)

Up == boot.pc = "up" /\ UNCHANGED <<scene, pruned, boot>>
BT == "bt" \in Callers /\ Up /\ UNCHANGED <<edge, event>>
BtGoto(pc) == bt' = [bt EXCEPT !.pc = pc]
BtDone == bt' = NoRequest

\* Episode and action are those of an earlier answer.
BtRequest(op, id, a, level, kind) ==
    /\ BT /\ bt.pc = "idle" /\ UNCHANGED <<coordinator, eps, acts>>
    /\ op # "diagnose" => id # 0
    /\ op = "finished" => Active /\ ep.id = id /\ ep.active = a
    /\ bt' = [NoRequest EXCEPT !.pc = IF op = "finished" THEN "finish" ELSE "diagnose", !.op = op,
                  !.ep = id, !.act = a, !.level = level, !.kind = kind,
                  !.before = ep.active, !.from = ep.level]

BtFinish ==
    /\ BT /\ bt.pc = "finish" /\ FinishAction(bt.act) /\ BtGoto("diagnose") /\ UNCHANGED <<last, eps>>

\* The branches after a diagnosis.
After(d) ==
    IF bt.op = "diagnose" /\ bt.before # 0 /\ bt.level > bt.from THEN "advance"
    ELSE IF bt.op = "started" THEN "authorize" ELSE IF d.recovered THEN "over"
    ELSE IF bt.op = "diagnose" THEN "select" ELSE "idle"

BtDiagnose(e) ==
    /\ BT /\ bt.pc = "diagnose"
    /\ \/ Refused(bt.ep, bt.level) /\ BtDone /\ UNCHANGED <<coordinator, eps, acts>>
       \/ /\ ~Refused(bt.ep, bt.level) /\ Replayed(bt.ep) /\ UNCHANGED <<coordinator, eps, acts>>
          /\ bt' = [bt EXCEPT !.pc = After(last), !.diag = last]
       \/ /\ ~Refused(bt.ep, bt.level) /\ ~Replayed(bt.ep) /\ Diagnose("stuck", e, bt.level)
          /\ bt' = [bt EXCEPT !.pc = After(Diagnosis("stuck", e, bt.level)), !.diag = Diagnosis("stuck", e, bt.level)]

BtAdvance ==
    /\ BT /\ bt.pc = "advance" /\ FinishAction(bt.before) /\ UNCHANGED <<last, eps>>
    /\ BtGoto(IF bt.diag.recovered THEN "over" ELSE "select")

BtAuthorize ==
    /\ BT /\ bt.pc = "authorize" /\ UNCHANGED <<coordinator, eps, acts>>
    /\ bt' = IF Authorized(bt.diag.ep, bt.level, bt.kind) THEN [bt EXCEPT !.pc = "replace"] ELSE NoRequest

\* The action under way is looked up, then finished as replaced.
BtReplace ==
    /\ BT /\ bt.pc = "replace" /\ UNCHANGED <<coordinator, eps, acts>>
    /\ bt' = [bt EXCEPT !.act = ep.active, !.pc = IF ep.active # 0 THEN "replaced" ELSE "begin"]

BtReplaced ==
    /\ BT /\ bt.pc = "replaced" /\ FinishAction(bt.act) /\ BtGoto("begin") /\ UNCHANGED <<last, eps>>

\* "diagnose" starts the action it selects when none is under way.
BtSelect ==
    /\ BT /\ bt.pc = "select" /\ UNCHANGED <<coordinator, eps, acts>>
    /\ bt' = IF ep.active = 0
             THEN [bt EXCEPT !.pc = "begin", !.level = bt.diag.level, !.kind = bt.diag.action] ELSE NoRequest

BtBegin ==
    /\ BT /\ bt.pc = "begin" /\ BeginAction(bt.level, bt.kind) /\ UNCHANGED <<last, eps>>
    /\ bt' = IF bt.op = "started" /\ bt.diag.recovered THEN [bt EXCEPT !.pc = "over", !.act = Begun] ELSE NoRequest

BtOver ==
    /\ BT /\ bt.pc = "over" /\ FinishAction(IF bt.before # 0 THEN bt.before ELSE bt.act)
    /\ BtDone /\ UNCHANGED <<last, eps>>

(* The localization callback and its recovery worker. *)

Edge == "edge" \in Callers /\ Up /\ UNCHANGED <<bt, event>>
EdgeGoto(pc) == edge' = [edge EXCEPT !.pc = pc]

\* _handle_task_localization_loss diagnoses at level 0 ...
LossDiagnose(e) ==
    /\ Edge /\ edge.pc = "idle" /\ Diagnose("lost", e, 0) /\ EdgeGoto("loss")

\* ... and gives up (mapping, no lease, no task) or starts the worker.
LossDecide ==
    /\ Edge /\ edge.pc = "loss" /\ UNCHANGED last
    /\ \/ Complete("failed") /\ EdgeGoto("idle")
       \/ EdgeGoto("idle") /\ UNCHANGED <<eps, acts, ep>>
       \/ EdgeGoto("worker") /\ UNCHANGED <<eps, acts, ep>>

WorkerDiagnose(e) ==
    /\ Edge /\ edge.pc = "worker" /\ Diagnose("lost", e, 0)
    /\ edge' = [edge EXCEPT !.pc = "act0", !.ep = Diagnosis("lost", e, 0).ep]

\* The actions of the worker: level 0, the search, the laser feature, the globe.
WorkerBegin(pc, level, kind, next) ==
    /\ Edge /\ edge.pc = pc /\ BeginAction(level, kind)
    /\ edge' = [edge EXCEPT !.pc = next, !.act = Begun] /\ UNCHANGED <<last, eps>>
BeginLevelZero == WorkerBegin("act0", 0, last.action, "end0")
BeginRelocalize == WorkerBegin("act1", 1, "relocalize", "end1")
BeginSearch == WorkerBegin("act2", 2, "search", "end2")
BeginGlobal == WorkerBegin("act3", 3, "global", "end3")

\* What follows the end of an action; the search gives the relocalization
\* another try.
WorkerEnd(pc, next) ==
    /\ Edge /\ edge.pc = pc /\ UNCHANGED <<last, eps>>
    /\ IF edge.act # 0 THEN FinishAction(edge.act) ELSE UNCHANGED <<acts, ep>>
    /\ edge' = [edge EXCEPT !.pc = next, !.cycle = IF next = "act1" /\ pc # "end0" THEN 2 ELSE @]
EndLevelZero == WorkerEnd("end0", "act1")
EndRelocalize ==
    \/ WorkerEnd("end1", "recovered")
    \/ edge.cycle = 1 /\ WorkerEnd("end1", "level2")
    \/ edge.cycle = 2 /\ WorkerEnd("end1", "exhausted")
EndSearch == WorkerEnd("end2", "act1") \/ WorkerEnd("end2", "act3")
EndGlobal == WorkerEnd("end3", "recovered") \/ WorkerEnd("end3", "act1")

WorkerLevelTwo(e) ==
    LET searches(d) == IF d.fault \in Localization \ {"rtk"} /\ ~d.recovered THEN "act2" ELSE "act3"
    IN  /\ Edge /\ edge.pc = "level2"
        /\ \/ Refused(edge.ep, 2) /\ edge' = NoWorker /\ UNCHANGED <<coordinator, eps, acts>>
           \/ /\ ~Refused(edge.ep, 2) /\ Replayed(edge.ep) /\ EdgeGoto(searches(last))
              /\ UNCHANGED <<coordinator, eps, acts>>
           \/ /\ ~Refused(edge.ep, 2) /\ ~Replayed(edge.ep) /\ Diagnose("lost", e, 2)
              /\ EdgeGoto(searches(Diagnosis("lost", e, 2)))

WorkerComplete ==
    /\ Edge /\ edge.pc \in {"recovered", "exhausted"} /\ UNCHANGED last
    /\ Complete(IF edge.pc = "recovered" THEN "success" ELSE "failed") /\ edge' = NoWorker

(* Task events close the episode of a navigation fault, _publish_task_event. *)

Events == "events" \in Callers /\ Up /\ UNCHANGED <<bt, edge, last>>

EventSnapshot ==
    /\ Events /\ event.pc = "idle" /\ Active /\ ep.fault \in Navigation
    /\ event' = [pc |-> "finish", act |-> ep.active] /\ UNCHANGED <<ep, eps, acts>>

EventFinish ==
    /\ Events /\ event.pc = "finish" /\ FinishAction(event.act) /\ event' = [event EXCEPT !.pc = "complete"]
    /\ UNCHANGED eps

EventComplete(verdict) ==
    /\ Events /\ event.pc = "complete" /\ Complete(verdict) /\ event' = [pc |-> "idle", act |-> 0]

(* A restart: the rows left open are closed, then old ones are pruned. *)

Crash ==
    /\ boot.count < MaxRestarts /\ boot' = [pc |-> "reconcile", count |-> boot.count + 1]
    /\ ep' = NoEpisode /\ last' = NoDiagnosis
    /\ bt' = NoRequest /\ edge' = NoWorker /\ event' = [pc |-> "idle", act |-> 0]
    /\ UNCHANGED <<scene, rows>>

\* The actions that reconcile_unfinished_self_healing closes.
Unfinished(S) == {i \in S : acts[i].state = "open"}

\* The verdict of an episode the restart has interrupted.
Interrupted(verdict) == IF verdict = "open" THEN "failed" ELSE verdict

Reconcile ==
    /\ boot.pc = "reconcile" /\ boot' = [boot EXCEPT !.pc = "prune"]
    /\ acts' = Close(acts, Unfinished(DOMAIN acts))
    /\ eps' = [i \in DOMAIN eps |-> Interrupted(eps[i])]
    /\ UNCHANGED <<scene, coordinator, pruned, callers>>

\* prune_self_healing: finished episodes before the cutoff are counted with
\* their actions, whatever the state of those, and deleted.
Prune(cutoff) ==
    LET gone == {i \in 1 .. cutoff : eps[i] \in {"success", "failed"}}
        with == {i \in DOMAIN acts : acts[i].ep \in gone}
    IN  /\ boot.pc = "prune" /\ boot' = [boot EXCEPT !.pc = "up"]
        /\ eps' = [i \in DOMAIN eps |-> IF i \in gone THEN "pruned" ELSE eps[i]]
        /\ acts' = [i \in DOMAIN acts |-> IF i \in with THEN [acts[i] EXCEPT !.state = "pruned"] ELSE acts[i]]
        /\ pruned' = [episodes |-> pruned.episodes + Cardinality(gone), actions |-> pruned.actions + Cardinality(with)]
        /\ UNCHANGED <<scene, coordinator, callers>>

Next ==
    \/ \E op \in {"diagnose", "started", "finished"}, id \in 0 .. Len(eps), level \in 0 .. 3 :
           \E a \in 0 .. Len(acts), kind \in (IF op = "started" THEN ep.allowed \cup {"spin"} ELSE {"none"}) :
               (a # 0 <=> op = "finished") /\ BtRequest(op, id, a, level, kind)
    \/ \E e \in Evidence : BtDiagnose(e) \/ LossDiagnose(e) \/ WorkerDiagnose(e) \/ WorkerLevelTwo(e)
    \/ BtFinish \/ BtAdvance \/ BtAuthorize \/ BtReplace \/ BtReplaced \/ BtSelect \/ BtBegin \/ BtOver
    \/ LossDecide \/ BeginLevelZero \/ BeginRelocalize \/ BeginSearch \/ BeginGlobal
    \/ EndLevelZero \/ EndRelocalize \/ EndSearch \/ EndGlobal \/ WorkerComplete
    \/ EventSnapshot \/ EventFinish \/ \E v \in {"success", "failed"} : EventComplete(v)
    \/ Crash \/ Reconcile \/ \E cutoff \in 0 .. Len(eps) : Prune(cutoff)

Spec == Init /\ [][Next]_vars

(* Properties. *)

\* Types; the active action is an open row of the episode in memory.
TypeOK ==
    /\ ep.id \in 0 .. Len(eps) /\ ep.level \in 0 .. 3 /\ ep.active \in 0 .. Len(acts)
    /\ ep.active # 0 => acts[ep.active].ep = ep.id /\ acts[ep.active].state = "open"
    /\ \A i \in DOMAIN acts : acts[i].ep \in DOMAIN eps

\* One episode at a time: whoever diagnoses, completes or restarts, the rows
\* that are open are the one episode the coordinator has in memory.
OneOpenEpisode ==
    boot.pc = "up" => \A i \in DOMAIN eps : eps[i] = "open" <=> Active /\ i = ep.id

\* complete: the verdict of an episode is the first one; the late verdicts of
\* the worker, of a task event or of a diagnosis never change the row.
KeepsVerdict ==
    \A i \in DOMAIN eps : eps[i] \in {"success", "failed"} => eps'[i] \in {eps[i], "pruned"}

\* forbid_spin: no adaptive spin is on record outdoors, or for a robot that has
\* lost RTK, whatever another caller diagnosed between request and action.
NoSpinOutdoors == Outdoor => \A i \in DOMAIN acts : acts[i].kind # "spin"

\* self_heal_statistics over live rows and daily summary: pruning keeps the
\* totals, which holds only because no action of an old episode is still open.
KeepsTotals ==
    boot.pc = "prune" =>
        /\ pruned'.episodes + Cardinality({i \in DOMAIN eps : eps'[i] \in {"success", "failed"}})
             = pruned.episodes + Cardinality({i \in DOMAIN eps : eps[i] \in {"success", "failed"}})
        /\ pruned'.actions + Cardinality({i \in DOMAIN acts : acts'[i].state = "closed"})
             = pruned.actions + Cardinality({i \in DOMAIN acts : acts[i].state = "closed"})

=============================================================================
