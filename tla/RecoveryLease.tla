--------------------------- MODULE RecoveryLease ---------------------------
(***************************************************************************)
(* Single-owner arbitration of recovery motion on the robot.               *)
(*                                                                         *)
(* RecoveryArbiter (edge-agent recovery_arbiter.py) hands out one lease at *)
(* a time.  Its clients are the Edge's own recovery threads (obstacle and  *)
(* localization recovery) and the Nav2 behaviour tree, which acquires and  *)
(* releases over a ROS service and may lose its RELEASE.  For the latter   *)
(* the task executor arms a timer per generation that reclaims the lease   *)
(* once the robot is confirmed stopped (task_executor.py, ros_adapter.py). *)
(*                                                                         *)
(* The executor lock is held for a whole timer callback and for the start  *)
(* of a task; the ROS service thread and the recovery threads do not take  *)
(* it, so their steps fall between the steps of those two.                 *)
(***************************************************************************)
EXTENDS Naturals

CONSTANTS
    Workers,         \* the Edge recovery threads that can be alive at once
    MaxAttempts,     \* RecoveryBudget.max_attempts
    MaxDistance,     \* RecoveryBudget.max_distance_m, in steps
    MaxGeneration,   \* bound: leases ever granted
    MaxTasks         \* bound: tasks ever started

ASSUME LimitsAssumption ==
    /\ MaxAttempts \in Nat \ {0}
    /\ MaxDistance \in Nat \ {0}
    /\ MaxGeneration \in Nat
    /\ MaxTasks \in Nat

VARIABLES
    generation,   \* RecoveryArbiter._generation
    lease,        \* RecoveryArbiter._lease
    budget,       \* RecoveryArbiter._budget
    task,         \* the executor's context: none, running or paused
    starting,     \* prepare_task_start: what it does to the arbiter next
    epoch,        \* history: number of tasks this process has had so far
    episode,      \* TaskExecutor._obstacle_episode_id is set
    held,         \* per recovery thread, the lease it is working under
    bt,           \* the ROS service call in progress
    btLeases,     \* RosAdapter._bt_recovery_leases, by generation
    btKnown,      \* generations the behaviour tree may still send RELEASE for
    armed,        \* generations with a live timer in _bt_recovery_lease_timers
    due,          \* fired timers whose callback waits for the executor lock
    reclaim       \* _release_bt_recovery_lease_after_stop in progress

arbiter == <<generation, lease, budget>>
service == <<bt, btLeases, btKnown>>
timers == <<armed, due, reclaim>>
tasks == <<task, starting, epoch, episode>>
vars == <<arbiter, service, timers, tasks, held>>

Bt == "BT_NAVIGATOR"
Edge == "EDGE"
Generations == 1..MaxGeneration
NoLease == [owner |-> "NONE", generation |-> 0]
Leases == [owner : {Bt, Edge}, generation : Nat \ {0}]
Idle == [stage |-> "idle", generation |-> 0]
NotHeld == [generation |-> 0, epoch |-> 0]
NoReclaim == [stage |-> "idle", generation |-> 0, timer |-> FALSE]
FreshBudget == [attempts |-> 0, distance |-> 0, overdue |-> FALSE]

\* The type of the whole state; a budget never charges more attempts than
\* RecoveryBudget.max_attempts allows.
TypeOK ==
    /\ generation \in Nat
    /\ lease \in Leases \cup {NoLease}
    /\ budget \in [attempts : 0..MaxAttempts, distance : Nat, overdue : BOOLEAN]
    /\ task \in {"none", "running", "paused"}
    /\ starting \in {"no", "release", "timers"}
    /\ epoch \in Nat
    /\ episode \in BOOLEAN
    /\ held \in [Workers -> [generation : Nat, epoch : Nat]]
    /\ bt \in [stage : {"idle", "checked", "granted", "armed"}, generation : Nat]
    /\ btLeases \subseteq Nat \ {0}
    /\ btKnown \subseteq Nat \ {0}
    /\ armed \subseteq Nat \ {0}
    /\ due \subseteq Nat \ {0}
    /\ reclaim \in [stage : {"idle", "confirm", "release", "rearm"},
                    generation : Nat, timer : BOOLEAN]

\* The executor lock is free: no reclaim and no task start is under way.
LockFree == reclaim = NoReclaim /\ starting = "no"

\* A restarted Edge finds no task or one it had persisted, paused or marked
\* interrupted: it is at rest, which counts as paused here.
Init ==
    /\ generation = 0
    /\ lease = NoLease
    /\ budget = FreshBudget
    /\ \/ task = "none" /\ epoch = 0
       \/ task = "paused" /\ epoch = 1
    /\ starting = "no"
    /\ episode = FALSE
    /\ held = [w \in Workers |-> NotHeld]
    /\ bt = Idle
    /\ btLeases = {}
    /\ btKnown = {}
    /\ armed = {}
    /\ due = {}
    /\ reclaim = NoReclaim

---------------------------------------------------------------------------
(* The arbiter. *)

\* Wrong variant: one attempt too many.
ExhaustedTooLate ==
    \/ budget.attempts > MaxAttempts
    \/ budget.overdue
    \/ budget.distance >= MaxDistance

Exhausted ==
    \/ budget.attempts >= MaxAttempts
    \/ budget.overdue
    \/ budget.distance >= MaxDistance

\* RecoveryArbiter.acquire when it succeeds: one attempt is charged and a
\* lease with a new generation is handed out.
Grant(owner, distance) ==
    /\ lease = NoLease
    /\ ~Exhausted
    /\ generation < MaxGeneration
    /\ budget' = [budget EXCEPT !.attempts = @ + 1, !.distance = @ + distance]
    /\ generation' = generation + 1
    /\ lease' = [owner |-> owner, generation |-> generation + 1]

\* Wrong variant: whatever lease there is.
ReleaseAny(l) == lease' = NoLease

\* RecoveryArbiter.release: only the very same lease is released.
Release(l) == lease' = IF lease = l THEN NoLease ELSE lease

\* max_duration_seconds elapses on a budget whose episode has begun.
BudgetOverdue ==
    /\ budget.attempts > 0
    /\ ~budget.overdue
    /\ budget' = [budget EXCEPT !.overdue = TRUE]
    /\ UNCHANGED <<generation, lease, tasks, held, service, timers>>

\* _emit_safe_hold: a spent budget puts the running task on hold.
HoldTask == task' = IF task = "running" THEN "paused" ELSE task

---------------------------------------------------------------------------
(* Recovery threads of the Edge itself. *)

\* _perform_bounded_obstacle_recovery and the localization recovery look at
\* the task before they acquire, without holding the lock in between: the
\* task may be over, or another one may have started, when the lease comes.
WorkerAcquire(w) ==
    /\ held[w] = NotHeld
    /\ epoch > 0
    /\ \E d \in 0..1 : Grant(Edge, d)
    /\ held' = [held EXCEPT ![w] = [generation |-> generation + 1,
                                    epoch |-> epoch]]
    /\ UNCHANGED <<tasks, service, timers>>

\* acquire_recovery refused because the budget is spent.
WorkerRefused(w) ==
    /\ held[w] = NotHeld
    /\ epoch > 0
    /\ Exhausted
    /\ HoldTask
    /\ UNCHANGED <<arbiter, starting, epoch, episode, held, service, timers>>

WorkerRelease(w) ==
    /\ held[w] # NotHeld
    /\ Release([owner |-> Edge, generation |-> held[w].generation])
    /\ held' = [held EXCEPT ![w] = NotHeld]
    /\ UNCHANGED <<generation, budget, tasks, service, timers>>

---------------------------------------------------------------------------
(* The behaviour tree's service calls, one at a time.  The service thread  *)
(* takes no lock: looking at the obstacle episode, granting, arming the    *)
(* timer and remembering the lease are four steps.                         *)

BtRequest ==
    /\ bt = Idle
    /\ ~episode
    /\ bt' = [stage |-> "checked", generation |-> 0]
    /\ UNCHANGED <<arbiter, tasks, held, btLeases, btKnown, timers>>

BtAcquire ==
    /\ bt.stage = "checked"
    /\ \E d \in 0..1 : Grant(Bt, d)
    /\ bt' = [stage |-> "granted", generation |-> generation + 1]
    /\ UNCHANGED <<tasks, held, btLeases, btKnown, timers>>

\* Somebody holds the lease, or the budget is spent and the task is held.
BtRefused ==
    /\ bt.stage = "checked"
    /\ \/ Exhausted /\ HoldTask
       \/ ~Exhausted /\ lease # NoLease /\ UNCHANGED task
    /\ bt' = Idle
    /\ UNCHANGED <<arbiter, starting, epoch, episode, held, btLeases, btKnown,
                   timers>>

\* _arm_bt_recovery_lease_timeout.
BtArm ==
    /\ bt.stage = "granted"
    /\ armed' = armed \cup {bt.generation}
    /\ bt' = [bt EXCEPT !.stage = "armed"]
    /\ UNCHANGED <<arbiter, tasks, held, btLeases, btKnown, due, reclaim>>

\* The adapter keeps the lease and answers; from now on the tree knows it.
BtStore ==
    /\ bt.stage = "armed"
    /\ btLeases' = btLeases \cup {bt.generation}
    /\ btKnown' = btKnown \cup {bt.generation}
    /\ bt' = Idle
    /\ UNCHANGED <<arbiter, tasks, held, timers>>

\* release_recovery of a lease taken out of the adapter's map: a lease that
\* is no longer the arbiter's is not released and keeps its timer.
ReleaseStored(g) ==
    LET l == [owner |-> Bt, generation |-> g] IN
    /\ g \in btLeases
    /\ btLeases' = btLeases \ {g}
    /\ Release(l)
    /\ armed' = IF lease = l THEN armed \ {g} ELSE armed

\* A RELEASE request: it may be lost (never taken), late or repeated.
BtRelease(g) ==
    /\ bt = Idle
    /\ g \in btKnown
    /\ ReleaseStored(g)
    /\ UNCHANGED <<generation, budget, tasks, held, bt, btKnown, due, reclaim>>

---------------------------------------------------------------------------
(* Reclaiming a behaviour-tree lease, under the executor lock. *)

HeldByBt(g) == lease = [owner |-> Bt, generation |-> g]

TimerFires(g) ==
    /\ g \in armed
    /\ armed' = armed \ {g}
    /\ due' = due \cup {g}
    /\ UNCHANGED <<arbiter, tasks, held, service, reclaim>>

\* _on_bt_recovery_lease_timeout obtains the lock and looks at the holder.
TimeoutCallback(g) ==
    /\ LockFree
    /\ g \in due
    /\ due' = due \ {g}
    /\ \/ /\ HeldByBt(g)
          /\ reclaim' = [stage |-> "confirm", generation |-> g, timer |-> TRUE]
          /\ UNCHANGED armed
       \/ /\ ~HeldByBt(g)
          /\ armed' = armed \ {g}
          /\ UNCHANGED reclaim
    /\ UNCHANGED <<arbiter, tasks, held, service>>

\* _cancel_active_navigation confirmed a Nav2 cancel while the tree holds
\* the lease (pause, resume, cancel, force exit and recover all do).
NavigationCancelled ==
    /\ LockFree
    /\ task # "none"
    /\ lease.owner = Bt
    /\ reclaim' = [stage |-> "confirm", generation |-> lease.generation,
                   timer |-> FALSE]
    /\ UNCHANGED <<arbiter, tasks, held, service, armed, due>>

StopConfirmed ==
    /\ reclaim.stage = "confirm"
    /\ reclaim' = [reclaim EXCEPT !.stage = "release"]
    /\ UNCHANGED <<arbiter, tasks, held, service, armed, due>>

\* Wrong variant: nobody looks again.
GiveUpForGood == NoReclaim

\* A reclaim that released nothing: only the timer callback looks again.
GiveUp ==
    IF reclaim.timer THEN [reclaim EXCEPT !.stage = "rearm"] ELSE NoReclaim

StopNotConfirmed ==
    /\ reclaim.stage = "confirm"
    /\ reclaim' = GiveUp
    /\ UNCHANGED <<arbiter, tasks, held, service, armed, due>>

\* Wrong variant: the lease is never found among the adapter's.
ReclaimNothing ==
    /\ reclaim.stage = "release"
    /\ reclaim' = GiveUp
    /\ UNCHANGED <<arbiter, tasks, held, service, armed, due>>

\* reclaim_recovery_lease: drop the adapter's mapping, then release.
ReclaimLease ==
    LET g == reclaim.generation IN
    /\ reclaim.stage = "release"
    /\ \/ /\ ReleaseStored(g)
          /\ reclaim' = IF HeldByBt(g) THEN NoReclaim ELSE GiveUp
       \/ /\ g \notin btLeases
          /\ reclaim' = GiveUp
          /\ UNCHANGED <<lease, btLeases, armed>>
    /\ UNCHANGED <<generation, budget, tasks, held, bt, btKnown, due>>

\* The callback's last look: the same lease is still held, so try again later.
RearmTimer ==
    LET g == reclaim.generation IN
    /\ reclaim.stage = "rearm"
    /\ armed' = IF HeldByBt(g) THEN armed \cup {g} ELSE armed
    /\ reclaim' = NoReclaim
    /\ UNCHANGED <<arbiter, tasks, held, service, due>>

---------------------------------------------------------------------------
(* The task around it. *)

\* prepare_task_start, under the lock: a fresh budget first, then the lease
\* of the previous task is dropped, then every timer is cancelled.
StartTask ==
    /\ LockFree
    /\ task = "none"
    /\ epoch < MaxTasks
    /\ task' = "running"
    /\ budget' = FreshBudget
    /\ starting' = "release"
    /\ UNCHANGED <<generation, lease, epoch, episode, held, service, timers>>

ForceRelease ==
    /\ starting = "release"
    /\ lease' = NoLease
    /\ epoch' = epoch + 1
    /\ starting' = "timers"
    /\ UNCHANGED <<generation, budget, task, episode, held, service, timers>>

\* _cancel_all_bt_recovery_lease_timeouts: it does not ask whose they are.
CancelAllTimers ==
    /\ starting = "timers"
    /\ armed' = {}
    /\ starting' = "no"
    /\ UNCHANGED <<arbiter, task, epoch, episode, held, service, due, reclaim>>

\* A task that is cancelled, forced out or completed stops the obstacle
\* monitor, which closes the episode and with it the budget; a task that
\* fails leaves both.  Leases stay where they are in either case.
EndTask ==
    /\ LockFree
    /\ task # "none"
    /\ task' = "none"
    /\ \/ episode' = FALSE /\ budget' = FreshBudget
       \/ UNCHANGED <<episode, budget>>
    /\ UNCHANGED <<generation, lease, starting, epoch, held, service, timers>>

PauseOrResume ==
    /\ LockFree
    /\ task # "none"
    /\ task' \in {"running", "paused"} \ {task}
    /\ UNCHANGED <<arbiter, starting, epoch, episode, held, service, timers>>

ObstacleBegins ==
    /\ LockFree
    /\ task = "running"
    /\ ~episode
    /\ episode' = TRUE
    /\ UNCHANGED <<arbiter, task, starting, epoch, held, service, timers>>

\* _reset_obstacle_episode: the obstacle cleared, so the budget starts anew.
ObstacleEnds ==
    /\ LockFree
    /\ task = "running"
    /\ episode
    /\ episode' = FALSE
    /\ budget' = FreshBudget
    /\ UNCHANGED <<generation, lease, task, starting, epoch, held, service,
                   timers>>

---------------------------------------------------------------------------

Arbitration ==
    \/ BudgetOverdue
    \/ \E w \in Workers :
          WorkerAcquire(w) \/ WorkerRefused(w) \/ WorkerRelease(w)
    \/ BtRequest
    \/ BtAcquire
    \/ BtRefused
    \/ BtArm
    \/ BtStore
    \/ \E g \in Generations : BtRelease(g)

Reclaiming ==
    \/ \E g \in Generations : TimerFires(g) \/ TimeoutCallback(g)
    \/ NavigationCancelled
    \/ StopConfirmed
    \/ StopNotConfirmed
    \/ ReclaimLease
    \/ RearmTimer

TaskSteps ==
    \/ StartTask
    \/ ForceRelease
    \/ CancelAllTimers
    \/ EndTask
    \/ PauseOrResume
    \/ ObstacleBegins
    \/ ObstacleEnds

Next == Arbitration \/ Reclaiming \/ TaskSteps

\* Timers fire, their callbacks get the lock and run to their end, a task
\* start ends, and the service thread finishes a call it has begun.  Nothing
\* obliges the tree to release.  The robot is taken to stand still often
\* enough for a stop confirmation to succeed again and again.
Fairness ==
    /\ WF_vars(BtArm)
    /\ WF_vars(BtStore)
    /\ \A g \in Generations :
          WF_vars(TimerFires(g)) /\ SF_vars(TimeoutCallback(g))
    /\ SF_vars(StopConfirmed)
    /\ WF_vars(StopConfirmed \/ StopNotConfirmed)
    /\ WF_vars(ReclaimLease)
    /\ WF_vars(RearmTimer)
    /\ WF_vars(ForceRelease)
    /\ WF_vars(CancelAllTimers)

Spec == Init /\ [][Next]_vars

FairSpec == Spec /\ Fairness

---------------------------------------------------------------------------
(* Properties. *)

\* Somebody will still ask whether the tree's lease must be reclaimed: its
\* timer is live or fired, is about to be armed, or its callback is running.
Watched ==
    \/ lease.generation \in armed \cup due
    \/ bt.stage = "granted" /\ bt.generation = lease.generation
    \/ reclaim.timer /\ reclaim.generation = lease.generation

\* A recovery thread that acquired since the last task start is the lease's
\* owner for as long as it works: no timeout, late RELEASE, reclaim or other
\* thread takes the lease away from it (RecoveryArbiter.release compares the
\* lease it is given, release_generation the generation).
HolderOwns ==
    \A w \in Workers :
        held[w] # NotHeld /\ held[w].epoch = epoch =>
            lease = [owner |-> Edge, generation |-> held[w].generation]

\* The tree's lease keeps its watch until it is released; only a task start,
\* which cancels every timer, can leave a lease without one.
WatchKept ==
    [][lease.owner = Bt /\ Watched /\ lease' = lease
         => Watched' \/ starting = "timers"]_vars

\* A watched lease of the tree is eventually released, whether or not the
\* tree's RELEASE ever arrives, unless a task start cancels the timers.
LostReleaseReclaimed ==
    \A g \in Generations :
        HeldByBt(g) /\ Watched ~> ~HeldByBt(g) \/ starting = "timers"

=============================================================================
