------------------------ MODULE RecoveryLeaseProofs ------------------------
(***************************************************************************)
(* Proofs for RecoveryLease, for any number of recovery threads and any    *)
(* limits.                                                                 *)
(*                                                                         *)
(* HolderOwns is not inductive by itself: a thread left over from an       *)
(* earlier task releases too, and must not hit a newer lease.  That needs  *)
(* generations that are never reused, and no two threads under the same    *)
(* one.                                                                    *)
(***************************************************************************)
EXTENDS RecoveryLease, TLAPS

\* A service call past the grant carries a real generation.
GrantedCall == bt.stage \in {"granted", "armed"} => bt.generation # 0

\* What threads remember is not ahead of the arbiter or of the task count.
HeldBounded ==
    \A w \in Workers :
        held[w].generation <= generation /\ held[w].epoch <= epoch

\* Two threads never work under the same generation.
HeldUnique ==
    \A v, w \in Workers :
        held[v] # NotHeld /\ held[w] # NotHeld
        /\ held[v].generation = held[w].generation => v = w

IInv == TypeOK /\ GrantedCall /\ HeldBounded /\ HeldUnique /\ HolderOwns

-----------------------------------------------------------------------------

\* A lease whose owner is the behaviour tree is the record HeldByBt compares
\* with.
LEMMA LeaseOfBt ==
    ASSUME TypeOK, lease.owner = Bt
    PROVE  lease = [owner |-> Bt, generation |-> lease.generation]
BY DEF TypeOK, Leases, NoLease, Bt

\* RecoveryBudget.reset gives a budget of the right type.
LEMMA FreshTyped ==
    FreshBudget \in [attempts : 0..MaxAttempts, distance : Nat,
                     overdue : BOOLEAN]
<1>1. 0 \in 0..MaxAttempts
  BY LimitsAssumption
<1> QED
  BY <1>1 DEF FreshBudget

\* The initial state satisfies the inductive invariant.
LEMMA InitInv == Init => IInv
<1> SUFFICES ASSUME Init PROVE IInv
  OBVIOUS
<1>1. held \in [Workers -> [generation : Nat, epoch : Nat]]
  BY DEF Init, NotHeld
<1>2. bt \in [stage : {"idle", "checked", "granted", "armed"}, generation : Nat]
  BY DEF Init, Idle
<1>3. reclaim \in [stage : {"idle", "confirm", "release", "rearm"},
                   generation : Nat, timer : BOOLEAN]
  BY DEF Init, NoReclaim
<1>4. epoch \in Nat /\ task \in {"none", "running", "paused"}
  BY DEF Init
<1>5. TypeOK
  BY <1>1, <1>2, <1>3, <1>4, FreshTyped DEF Init, TypeOK
<1>6. GrantedCall
  BY DEF Init, GrantedCall, Idle
<1>7. HeldBounded
  <2>1. \A w \in Workers : held[w].generation = 0 /\ held[w].epoch = 0
    BY DEF Init, NotHeld
  <2>2. 0 <= generation /\ 0 <= epoch
    BY DEF Init
  <2> QED
    BY <2>1, <2>2 DEF HeldBounded
<1>8. HeldUnique /\ HolderOwns
  BY DEF Init, HeldUnique, HolderOwns
<1> QED
  BY <1>5, <1>6, <1>7, <1>8 DEF IInv

\* A successful acquire keeps the arbiter's own variables well typed.
LEMMA GrantTyped ==
    ASSUME TypeOK, NEW o \in {Bt, Edge}, NEW d \in 0..1, Grant(o, d)
    PROVE  /\ generation' \in Nat
           /\ generation' = generation + 1
           /\ lease' = [owner |-> o, generation |-> generation + 1]
           /\ lease' \in Leases
           /\ budget' \in [attempts : 0..MaxAttempts, distance : Nat,
                           overdue : BOOLEAN]
<1>1. budget.attempts \in 0..MaxAttempts /\ budget.attempts < MaxAttempts
      /\ budget.distance \in Nat /\ budget.overdue \in BOOLEAN
  BY LimitsAssumption DEF Grant, Exhausted, TypeOK
<1>2. budget' = [attempts |-> budget.attempts + 1,
                 distance |-> budget.distance + d, overdue |-> budget.overdue]
  BY DEF Grant, TypeOK
<1>3. budget.attempts + 1 \in 0..MaxAttempts /\ budget.distance + d \in Nat
  BY <1>1, LimitsAssumption
<1> QED
  BY <1>1, <1>2, <1>3 DEF Grant, TypeOK, Leases

\* Every step preserves the type invariant.
LEMMA TypeStep == TypeOK /\ GrantedCall /\ [Next]_vars => TypeOK' /\ GrantedCall'
<1> SUFFICES ASSUME TypeOK, GrantedCall, [Next]_vars
             PROVE  TypeOK' /\ GrantedCall'
  OBVIOUS
<1> USE DEF GrantedCall, arbiter, service, timers, tasks
<1>1. CASE BudgetOverdue
  BY <1>1 DEF BudgetOverdue, TypeOK
<1>2. ASSUME NEW w \in Workers, WorkerAcquire(w) PROVE TypeOK' /\ GrantedCall'
  <2>1. PICK d \in 0..1 : Grant(Edge, d)
    BY <1>2 DEF WorkerAcquire
  <2>2. held' \in [Workers -> [generation : Nat, epoch : Nat]]
    BY <1>2 DEF WorkerAcquire, TypeOK
  <2> QED
    BY <1>2, <2>1, <2>2, GrantTyped DEF WorkerAcquire, TypeOK
<1>3. ASSUME NEW w \in Workers, WorkerRefused(w) PROVE TypeOK' /\ GrantedCall'
  BY <1>3 DEF WorkerRefused, HoldTask, TypeOK
<1>4. ASSUME NEW w \in Workers, WorkerRelease(w) PROVE TypeOK' /\ GrantedCall'
  BY <1>4 DEF WorkerRelease, Release, TypeOK, NotHeld
<1>5. CASE BtRequest
  BY <1>5 DEF BtRequest, TypeOK
<1>6. CASE BtAcquire
  <2>1. PICK d \in 0..1 : Grant(Bt, d)
    BY <1>6 DEF BtAcquire
  <2>2. bt' = [stage |-> "granted", generation |-> generation + 1]
    BY <1>6 DEF BtAcquire
  <2> QED
    BY <1>6, <2>1, <2>2, GrantTyped DEF BtAcquire, TypeOK
<1>7. CASE BtRefused
  BY <1>7 DEF BtRefused, HoldTask, TypeOK, Idle
<1>8. CASE BtArm
  BY <1>8 DEF BtArm, TypeOK
<1>9. CASE BtStore
  BY <1>9 DEF BtStore, TypeOK, Idle
<1>10. ASSUME NEW g \in Generations, BtRelease(g) PROVE TypeOK' /\ GrantedCall'
  BY <1>10 DEF BtRelease, ReleaseStored, Release, TypeOK
<1>11. ASSUME NEW g \in Generations, TimerFires(g) PROVE TypeOK' /\ GrantedCall'
  BY <1>11 DEF TimerFires, TypeOK
<1>12. ASSUME NEW g \in Generations, TimeoutCallback(g)
       PROVE  TypeOK' /\ GrantedCall'
  <2>1. g \in Nat
    BY LimitsAssumption DEF Generations
  <2> DEFINE r == [stage |-> "confirm", generation |-> g, timer |-> TRUE]
  <2>2. r \in [stage : {"idle", "confirm", "release", "rearm"},
               generation : Nat, timer : BOOLEAN]
    BY <2>1
  <2>3. reclaim' = r \/ reclaim' = reclaim
    BY <1>12 DEF TimeoutCallback
  <2>4. armed' \subseteq Nat \ {0} /\ due' \subseteq Nat \ {0}
    BY <1>12 DEF TimeoutCallback, TypeOK
  <2>5. UNCHANGED <<arbiter, tasks, held, service>>
    BY <1>12 DEF TimeoutCallback
  <2> QED
    BY <2>2, <2>3, <2>4, <2>5 DEF TypeOK
<1>13. CASE NavigationCancelled
  <2>1. lease.generation \in Nat
    BY DEF TypeOK, Leases, NoLease
  <2> QED
    BY <1>13, <2>1 DEF NavigationCancelled, TypeOK
<1>14. CASE StopConfirmed
  BY <1>14 DEF StopConfirmed, TypeOK
<1>15. CASE StopNotConfirmed
  BY <1>15 DEF StopNotConfirmed, GiveUp, NoReclaim, TypeOK
<1>16. CASE ReclaimLease
  <2>1. GiveUp \in [stage : {"idle", "confirm", "release", "rearm"},
                    generation : Nat, timer : BOOLEAN]
        /\ NoReclaim \in [stage : {"idle", "confirm", "release", "rearm"},
                          generation : Nat, timer : BOOLEAN]
    BY DEF GiveUp, NoReclaim, TypeOK
  <2>2. reclaim' = GiveUp \/ reclaim' = NoReclaim
    BY <1>16 DEF ReclaimLease
  <2>3. /\ lease' = lease \/ lease' = NoLease
        /\ btLeases' \subseteq btLeases /\ armed' \subseteq armed
        /\ UNCHANGED <<generation, budget, tasks, held, bt, btKnown, due>>
    BY <1>16 DEF ReclaimLease, ReleaseStored, Release
  <2> QED
    BY <2>1, <2>2, <2>3 DEF TypeOK
<1>17. CASE RearmTimer
  <2>1. HeldByBt(reclaim.generation) => reclaim.generation \in Nat \ {0}
    BY DEF HeldByBt, TypeOK, Leases, NoLease, Bt
  <2> QED
    BY <1>17, <2>1 DEF RearmTimer, NoReclaim, TypeOK
<1>18. CASE StartTask
  BY <1>18, FreshTyped DEF StartTask, TypeOK
<1>19. CASE ForceRelease
  BY <1>19 DEF ForceRelease, TypeOK
<1>20. CASE CancelAllTimers
  BY <1>20 DEF CancelAllTimers, TypeOK
<1>21. CASE EndTask
  BY <1>21, FreshTyped DEF EndTask, TypeOK
<1>22. CASE PauseOrResume
  BY <1>22 DEF PauseOrResume, TypeOK
<1>23. CASE ObstacleBegins
  BY <1>23 DEF ObstacleBegins, TypeOK
<1>24. CASE ObstacleEnds
  BY <1>24, FreshTyped DEF ObstacleEnds, TypeOK
<1>25. CASE UNCHANGED vars
  BY <1>25 DEF vars, TypeOK
<1> QED
  BY <1>1, <1>2, <1>3, <1>4, <1>5, <1>6, <1>7, <1>8, <1>9, <1>10, <1>11,
     <1>12, <1>13, <1>14, <1>15, <1>16, <1>17, <1>18, <1>19, <1>20, <1>21,
     <1>22, <1>23, <1>24, <1>25
     DEF Next, Arbitration, Reclaiming, TaskSteps

-----------------------------------------------------------------------------

\* Ownership survives every step that neither grants a lease nor drops one.
LEMMA HeldStep ==
    IInv /\ [Next]_vars => HeldBounded' /\ HeldUnique' /\ HolderOwns'
<1> SUFFICES ASSUME IInv, [Next]_vars
             PROVE  HeldBounded' /\ HeldUnique' /\ HolderOwns'
  OBVIOUS
<1> USE DEF arbiter, service, timers, tasks
<1> DEFINE Goal == HeldBounded' /\ HeldUnique' /\ HolderOwns'
\* Releasing a lease of the tree takes nothing from a recovery thread.
<1>1. ASSUME UNCHANGED <<generation, epoch, held>>,
             lease' = lease \/ (lease.owner = Bt /\ lease' = NoLease)
      PROVE  Goal
  <2>1. HeldBounded' /\ HeldUnique'
    BY <1>1 DEF IInv, HeldBounded, HeldUnique
  <2>2. HolderOwns'
    BY <1>1 DEF IInv, HolderOwns, Bt, Edge
  <2> QED
    BY <2>1, <2>2
<1>2. ASSUME NEW w \in Workers, WorkerAcquire(w) PROVE Goal
  <2>1. PICK d \in 0..1 : Grant(Edge, d)
    BY <1>2 DEF WorkerAcquire
  <2>2. /\ generation \in Nat /\ epoch \in Nat
        /\ generation' = generation + 1 /\ epoch' = epoch
        /\ held' = [held EXCEPT ![w] = [generation |-> generation + 1,
                                        epoch |-> epoch]]
        /\ held \in [Workers -> [generation : Nat, epoch : Nat]]
        /\ lease' = [owner |-> Edge, generation |-> generation + 1]
    BY <1>2, <2>1 DEF WorkerAcquire, Grant, IInv, TypeOK
  <2>3. lease = NoLease
    BY <2>1 DEF Grant
  <2>4. \A v \in Workers : held[v] # NotHeld => held[v].epoch # epoch
    BY <2>3 DEF IInv, HolderOwns, NoLease, Edge
  <2>5. HeldBounded'
    BY <2>2 DEF IInv, HeldBounded
  <2>6. HeldUnique'
    BY <2>2 DEF IInv, HeldBounded, HeldUnique
  <2>7. HolderOwns'
    BY <2>2, <2>4 DEF HolderOwns
  <2> QED
    BY <2>5, <2>6, <2>7
<1>3. ASSUME NEW w \in Workers, WorkerRelease(w) PROVE Goal
  <2>1. /\ held' = [held EXCEPT ![w] = NotHeld]
        /\ held[w] # NotHeld
        /\ held \in [Workers -> [generation : Nat, epoch : Nat]]
        /\ generation \in Nat /\ epoch \in Nat
        /\ generation' = generation /\ epoch' = epoch
    BY <1>3 DEF WorkerRelease, IInv, TypeOK
  <2>2. HeldBounded'
    BY <2>1 DEF IInv, HeldBounded, NotHeld
  <2>3. HeldUnique'
    BY <2>1 DEF IInv, HeldUnique
  <2>4. ASSUME NEW v \in Workers, held'[v] # NotHeld, held'[v].epoch = epoch'
        PROVE  lease' = [owner |-> Edge, generation |-> held'[v].generation]
    <3>1. v # w /\ held'[v] = held[v]
      BY <2>1, <2>4
    <3>2. lease = [owner |-> Edge, generation |-> held[v].generation]
      BY <2>1, <2>4, <3>1 DEF IInv, HolderOwns
    <3>3. held[v].generation # held[w].generation
      BY <2>1, <2>4, <3>1 DEF IInv, HeldUnique
    <3>4. lease # [owner |-> Edge, generation |-> held[w].generation]
      BY <3>2, <3>3
    <3> QED
      BY <1>3, <3>1, <3>2, <3>4 DEF WorkerRelease, Release
  <2> QED
    BY <2>2, <2>3, <2>4 DEF HolderOwns
<1>4. CASE BtAcquire
  <2>1. PICK d \in 0..1 : Grant(Bt, d)
    BY <1>4 DEF BtAcquire
  <2>2. /\ generation \in Nat /\ epoch \in Nat
        /\ generation' = generation + 1 /\ epoch' = epoch /\ held' = held
        /\ held \in [Workers -> [generation : Nat, epoch : Nat]]
        /\ lease = NoLease
    BY <1>4, <2>1 DEF BtAcquire, Grant, IInv, TypeOK
  <2>3. \A v \in Workers : held[v] # NotHeld => held[v].epoch # epoch
    BY <2>2 DEF IInv, HolderOwns, NoLease, Edge
  <2> QED
    BY <2>2, <2>3 DEF IInv, HeldBounded, HeldUnique, HolderOwns
<1>5. ASSUME NEW g, ReleaseStored(g)
      PROVE  lease' = lease \/ (lease.owner = Bt /\ lease' = NoLease)
  BY <1>5 DEF ReleaseStored, Release
<1>6. CASE ForceRelease
  <2>1. /\ generation' = generation /\ epoch' = epoch + 1 /\ held' = held
        /\ epoch \in Nat
        /\ held \in [Workers -> [generation : Nat, epoch : Nat]]
    BY <1>6 DEF ForceRelease, IInv, TypeOK
  <2> QED
    BY <2>1 DEF IInv, HeldBounded, HeldUnique, HolderOwns
<1>7. CASE BudgetOverdue
  BY <1>1, <1>7 DEF BudgetOverdue
<1>8. ASSUME NEW w \in Workers, WorkerRefused(w) PROVE Goal
  BY <1>1, <1>8 DEF WorkerRefused
<1>9. CASE BtRequest \/ BtRefused \/ BtArm \/ BtStore
  BY <1>1, <1>9 DEF BtRequest, BtRefused, BtArm, BtStore
<1>10. ASSUME NEW g \in Generations, BtRelease(g) PROVE Goal
  BY <1>1, <1>5, <1>10 DEF BtRelease
<1>11. ASSUME NEW g \in Generations, TimerFires(g) \/ TimeoutCallback(g)
       PROVE  Goal
  BY <1>1, <1>11 DEF TimerFires, TimeoutCallback
<1>12. CASE NavigationCancelled \/ StopConfirmed \/ StopNotConfirmed
  BY <1>1, <1>12 DEF NavigationCancelled, StopConfirmed, StopNotConfirmed
<1>13. CASE ReclaimLease
  <2>1. UNCHANGED <<generation, epoch, held>>
    BY <1>13 DEF ReclaimLease
  <2>2. lease' = lease \/ ReleaseStored(reclaim.generation)
    BY <1>13 DEF ReclaimLease
  <2> QED
    BY <1>1, <1>5, <2>1, <2>2
<1>14. CASE RearmTimer
  BY <1>1, <1>14 DEF RearmTimer
<1>15. CASE StartTask \/ CancelAllTimers \/ EndTask
  BY <1>1, <1>15 DEF StartTask, CancelAllTimers, EndTask
<1>16. CASE PauseOrResume \/ ObstacleBegins \/ ObstacleEnds
  BY <1>1, <1>16 DEF PauseOrResume, ObstacleBegins, ObstacleEnds
<1>17. CASE UNCHANGED vars
  BY <1>1, <1>17 DEF vars
<1> QED
  BY <1>2, <1>3, <1>4, <1>6, <1>7, <1>8, <1>9, <1>10, <1>11, <1>12, <1>13,
     <1>14, <1>15, <1>16, <1>17
     DEF Next, Arbitration, Reclaiming, TaskSteps

\* The inductive invariant holds in every reachable state.
THEOREM Invariance == Spec => []IInv
<1>1. Init => IInv
  BY InitInv
<1>2. IInv /\ [Next]_vars => IInv'
  BY TypeStep, HeldStep DEF IInv
<1> QED
  BY <1>1, <1>2, PTL DEF Spec

\* Every reachable state is well typed; in particular the recovery budget is
\* never overdrawn (RecoveryBudget.exhausted before record_attempt).
THEOREM TypeCorrect == Spec => []TypeOK
<1>1. IInv => TypeOK
  BY DEF IInv
<1> QED
  BY <1>1, Invariance, PTL

\* No late release, timeout or reclaim takes the lease from a recovery thread
\* that acquired it under the current task.
THEOREM Ownership == Spec => []HolderOwns
<1>1. IInv => HolderOwns
  BY DEF IInv
<1> QED
  BY <1>1, Invariance, PTL

-----------------------------------------------------------------------------

\* One step keeps the watch on the tree's lease.
LEMMA WatchStep ==
    ASSUME TypeOK, [Next]_vars, lease.owner = Bt, Watched, lease' = lease
    PROVE  Watched' \/ starting = "timers"
<1> DEFINE g == lease.generation
<1>0. lease = [owner |-> Bt, generation |-> g] /\ lease # NoLease
  BY LeaseOfBt DEF NoLease, Bt
<1> USE DEF Watched, arbiter, service, timers, tasks
<1>1. ASSUME UNCHANGED timers, bt' = bt \/ bt.stage # "granted" PROVE Watched'
  BY <1>1
<1>2. ASSUME UNCHANGED <<armed, due, bt>>,
             reclaim.timer =>
                reclaim'.timer /\ reclaim'.generation = reclaim.generation
      PROVE  Watched'
  BY <1>2
<1>3. ASSUME NEW h, ReleaseStored(h) PROVE armed' = armed
  BY <1>0, <1>3 DEF ReleaseStored, Release
<1>4. GiveUp = IF reclaim.timer THEN [reclaim EXCEPT !.stage = "rearm"]
               ELSE NoReclaim
  BY DEF GiveUp
<1>5. reclaim.timer => GiveUp.timer /\ GiveUp.generation = reclaim.generation
  BY <1>4 DEF TypeOK
<1>6. CASE BudgetOverdue
  BY <1>1, <1>6 DEF BudgetOverdue
<1>7. ASSUME NEW w \in Workers,
             WorkerAcquire(w) \/ WorkerRefused(w) \/ WorkerRelease(w)
      PROVE  Watched'
  BY <1>1, <1>7 DEF WorkerAcquire, WorkerRefused, WorkerRelease
<1>8. CASE BtRequest \/ BtRefused \/ BtStore
  BY <1>1, <1>8 DEF BtRequest, BtRefused, BtStore, Idle
<1>9. CASE BtAcquire
  BY <1>1, <1>9 DEF BtAcquire
<1>10. CASE BtArm
  BY <1>10 DEF BtArm
<1>11. ASSUME NEW h \in Generations, BtRelease(h) PROVE Watched'
  BY <1>3, <1>11 DEF BtRelease
<1>12. ASSUME NEW h \in Generations, TimerFires(h) PROVE Watched'
  BY <1>12 DEF TimerFires
<1>13. ASSUME NEW h \in Generations, TimeoutCallback(h) PROVE Watched'
  <2>1. CASE h = g
    BY <1>0, <1>13, <2>1 DEF TimeoutCallback, HeldByBt
  <2>2. CASE h # g
    BY <1>13, <2>2 DEF TimeoutCallback, LockFree, NoReclaim
  <2> QED
    BY <2>1, <2>2
<1>14. CASE NavigationCancelled
  BY <1>2, <1>14 DEF NavigationCancelled, LockFree, NoReclaim
<1>15. CASE StopConfirmed
  BY <1>2, <1>15 DEF StopConfirmed, TypeOK
<1>16. CASE StopNotConfirmed
  BY <1>2, <1>5, <1>16 DEF StopNotConfirmed
<1>17. CASE ReclaimLease
  <2>1. armed' = armed
    BY <1>3, <1>17 DEF ReclaimLease
  <2>2. reclaim' = GiveUp
    BY <1>0, <1>17 DEF ReclaimLease, ReleaseStored, Release, HeldByBt
  <2> QED
    BY <1>2, <1>5, <1>17, <2>1, <2>2 DEF ReclaimLease
<1>18. CASE RearmTimer
  <2>1. CASE reclaim.generation = g
    BY <1>0, <1>18, <2>1 DEF RearmTimer, HeldByBt
  <2>2. CASE reclaim.generation # g
    BY <1>18, <2>2 DEF RearmTimer
  <2> QED
    BY <2>1, <2>2
<1>19. CASE StartTask \/ ForceRelease \/ EndTask
  BY <1>1, <1>19 DEF StartTask, ForceRelease, EndTask
<1>20. CASE CancelAllTimers
  BY <1>20 DEF CancelAllTimers
<1>21. CASE PauseOrResume \/ ObstacleBegins \/ ObstacleEnds
  BY <1>1, <1>21 DEF PauseOrResume, ObstacleBegins, ObstacleEnds
<1>22. CASE UNCHANGED vars
  BY <1>1, <1>22 DEF vars
<1> QED
  BY <1>6, <1>7, <1>8, <1>9, <1>10, <1>11, <1>12, <1>13, <1>14, <1>15, <1>16,
     <1>17, <1>18, <1>19, <1>20, <1>21, <1>22
     DEF Next, Arbitration, Reclaiming, TaskSteps

\* The behaviour tree's lease keeps a timer, a fired timer or a running
\* callback until it is released; only a task start can drop it.
THEOREM WatchIsKept == Spec => WatchKept
<1>1. IInv /\ [Next]_vars =>
        [lease.owner = Bt /\ Watched /\ lease' = lease
           => Watched' \/ starting = "timers"]_vars
  BY WatchStep DEF IInv
<1> QED
  BY <1>1, Invariance, PTL DEF Spec, WatchKept

=============================================================================
