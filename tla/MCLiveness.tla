----------------------------- MODULE MCLiveness -----------------------------
(* What must eventually happen on the Edge agent and in the supervisor of    *)
(* the center, on small instances and under the fairness each module states. *)
(* A behaviour explores one scenario, an instance of one of the modules.     *)
EXTENDS TLC, Naturals

VARIABLES
    scenario,
    sends, wire, thread, processed, rows, context, ending, goal, boot, crashes, effects, sent,
    exec, points, holder, nextSeq, outbox, replaying, client, connected, acks, stored,
    receipts, total, seen, events, faults,
    loop, round, cmd, safety, over, low, phase, alerts, latch, known, samples, clean, lost,
    newest, depth, frozen, trusted, belief, missing, notified, task, drv, op, opers, cycles, stray,
    st, window, count, fixSeen, waited, file, stopped, owner, monitor, worker, age, caller, log,
    calls, restarts

commandVars == <<sends, wire, thread, processed, rows, context, ending, goal, boot, crashes,
                 effects, sent>>
outboxVars == <<exec, points, holder, nextSeq, outbox, replaying, client, connected, acks,
                stored, receipts, total, seen, events, faults>>
loopVars == <<loop, round, cmd, safety, over, low, phase, alerts, latch, known, samples, clean,
              lost>>
locateVars == <<newest, depth, frozen, trusted, belief, missing, notified, task, drv, op, opers,
                cycles, stray>>
lockVars == <<st, window, count, fixSeen, waited, file, stopped, owner, monitor, worker, age,
              caller, log, calls, restarts>>
vars == <<scenario, commandVars, outboxVars, loopVars, locateVars, lockVars>>

\* One task, started and cancelled by commands that are resent, and a restart.
EndKind == ("s1" :> "start") @@ ("x" :> "cancel")
Command == INSTANCE EdgeCommand WITH
    Commands <- DOMAIN EndKind, Kind <- EndKind, Target <- [c \in DOMAIN EndKind |-> "s1"],
    MaxSends <- [c \in DOMAIN EndKind |-> 2], MaxCrashes <- 1, Threads <- {"t1", "t2"},
    Overlap <- FALSE

\* One sample, an event and a fault.
Outbox == INSTANCE EdgeOutbox WITH
    LastExec <- 1, Known <- {1}, MaxSeq <- 0, Pos <- 0 :> 0, MapOf <- 0 :> "m",
    Jump <- 5, BatchSize <- 2, Limit <- 2, ReplayLimit <- 1, MaxEvents <- 1, MaxFaults <- 1

\* One round and a lost command.
Loop == INSTANCE PatrolLoop WITH
    MaxRounds <- 1, MaxAttempts <- 1, Observation <- 1, MaxContinues <- 0, MaxPhases <- 0,
    MaxLost <- 1, exec <- round

\* The automatic recovery of a task, in up to two cycles.
Locate == INSTANCE Relocalization WITH
    Threads <- {"auto"}, OperPlans <- {}, SearchPlans <- {<<"origin", "global">>}, N <- 1,
    Matches <- {"m1"}, MaxOper <- 0, MaxCycles <- 2, lost <- missing, latch <- notified

\* One caller of the origin monitor and a receiver that may fall silent.
Lock == INSTANCE OriginLock WITH
    Workers <- {"w1", "w2"}, Callers <- {"c1"}, Ops <- {"start", "prepare", "cancel"},
    Window <- 2, NoSignal <- 3, StaleAfter <- 1, MaxSpread <- 1,
    Samples <- {[p |-> 1, fix |-> x, base |-> TRUE] : x \in BOOLEAN}, MaxCalls <- 2,
    MaxCrashes <- 0, newest <- owner, thread <- monitor, crashes <- restarts

Init ==
    /\ scenario \in {"command", "outbox", "loop", "locate", "lock"}
    /\ Command!Init /\ Outbox!Init /\ Loop!Init /\ Locate!Init /\ Lock!Init

CommandNext == scenario = "command" /\ Command!Next
               /\ UNCHANGED <<scenario, outboxVars, loopVars, locateVars, lockVars>>
OutboxNext == scenario = "outbox" /\ Outbox!Next
              /\ UNCHANGED <<scenario, commandVars, loopVars, locateVars, lockVars>>
LoopNext == scenario = "loop" /\ Loop!Next
            /\ UNCHANGED <<scenario, commandVars, outboxVars, locateVars, lockVars>>
LocateNext == scenario = "locate" /\ Locate!Next
              /\ UNCHANGED <<scenario, commandVars, outboxVars, loopVars, lockVars>>
LockNext == scenario = "lock" /\ Lock!Next
            /\ UNCHANGED <<scenario, commandVars, outboxVars, loopVars, locateVars>>

Next == CommandNext \/ OutboxNext \/ LoopNext \/ LocateNext \/ LockNext

\* The fairness of the module that is explored.
CommandFairness ==
    /\ \A t \in {"t1", "t2"} : WF_commandVars(scenario = "command" /\ Command!Handle(t))
    /\ WF_commandVars(scenario = "command" /\ Command!NavigationEnds)
    /\ WF_commandVars(scenario = "command" /\ Command!ReportEnd)
    /\ WF_commandVars(scenario = "command" /\ Command!Restart)
    /\ WF_commandVars(scenario = "command" /\ Command!ReportInterruption)

OutboxFairness ==
    /\ WF_outboxVars(scenario = "outbox" /\ Outbox!Connect)
    /\ WF_outboxVars(scenario = "outbox" /\ Outbox!StartReplay)
    /\ \A l \in Outbox!Loops : WF_outboxVars(scenario = "outbox" /\ Outbox!ReplayRow(l))
    /\ \A m \in Outbox!Messages :
          WF_outboxVars(scenario = "outbox" /\ Outbox!Deliver(m) /\ client' # client)
    /\ \A m \in Outbox!Messages, v \in Outbox!Verdicts :
          WF_outboxVars(scenario = "outbox" /\ Outbox!HandleAck(Outbox!Verdict(m, v)))

LoopFairness ==
    /\ WF_loopVars(scenario = "loop" /\ Loop!ProcessDeadline)
    /\ WF_loopVars(scenario = "loop" /\ Loop!ProcessStopping)
    /\ WF_loopVars(scenario = "loop" /\ Loop!ProcessPaused)
    /\ WF_loopVars(scenario = "loop" /\ Loop!EdgePause)
    /\ WF_loopVars(scenario = "loop" /\ Loop!EdgeForceExit)
    /\ WF_loopVars(scenario = "loop" /\ Loop!EdgeStart)

LocateFairness ==
    /\ WF_locateVars(scenario = "locate" /\ Locate!Operation("auto"))
    /\ WF_locateVars(scenario = "locate" /\ Locate!AutoWorker)
    /\ WF_locateVars(scenario = "locate" /\ (Locate!SampleNormal \/ Locate!SampleLost))

LockFairness ==
    /\ \A w \in {"w1", "w2"} : WF_lockVars(scenario = "lock" /\ Lock!WorkerStep(w))
    /\ WF_lockVars(scenario = "lock" /\ Lock!CallerStep("c1"))
    /\ WF_lockVars(scenario = "lock" /\ Lock!Tick)

Fairness == CommandFairness /\ OutboxFairness /\ LoopFairness /\ LocateFairness /\ LockFairness

Spec == Init /\ [][Next]_vars /\ Fairness

\* An accepted start does not stay open (handle_command, report_startup_interruption).
StartIsConcluded == Command!StartIsConcluded

\* Every row of the outbox leaves it in the end (replay_outbox).
OutboxDrains == Outbox!OutboxDrains


\* A recovery worker ends (_recover_task_localization).
RecoveryEnds == Locate!RecoveryEnds

\* With a silent receiver no lock goes on for ever.
DeadStreamEnds == Lock!DeadStreamEnds

=============================================================================
