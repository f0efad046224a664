--------------------------- MODULE Relocalization ---------------------------
(***************************************************************************)
(* Stationary relocalization on the Edge.  Three threads look for the      *)
(* robot on the map: an operator command ("oper"), the automatic recovery  *)
(* of a task that lost its localization ("auto") and the startup of a task *)
(* ("start").  Each runs one localization operation at a time, along a     *)
(* plan of stages; an operation that is no longer the newest generation    *)
(* raises RELOCALIZATION_SUPERSEDED at its next check.                     *)
(*                                                                         *)
(* All of them move the one pose the localization node believes in, and    *)
(* share one flag that keeps probe poses out of the trusted pose.          *)
(***************************************************************************)
EXTENDS Naturals, Sequences, FiniteSets

CONSTANTS
    Threads,        \* the threads that take part, of "oper", "auto", "start"
    OperPlans,      \* the plans an operator command may ask for
    SearchPlans,    \* the plans of a progressive search
    N,              \* candidates of one search stage
    Matches,        \* poses a scan match may converge to
    MaxOper,        \* operator commands
    MaxCycles       \* localization_recovery_max_cycles

Search == {"trusted", "origin", "route", "quick", "bounded"}
\* Stages run by _active_relocalize_once.
Bounded == {"trusted", "origin", "bounded"}
NoMatch == "no match"
Nobody == "nobody"

VARIABLES
    newest,     \* the thread whose operation has the newest
                \* _localization_operation_generation, if any
    depth,      \* _operator_localization_depth
    frozen,     \* _trusted_pose_frozen
    trusted,    \* where _last_trusted_pose came from
    belief,     \* what last moved the localization node's pose
    lost,       \* the last localization status was not normal
    latch,      \* _localization_failure_notified
    task,       \* a task is active
    drv,        \* per thread: where its caller is
    op,         \* per thread: its localization operation
    opers, cycles,
    stray       \* history: seeds an operation placed after it was superseded

vars == <<newest, depth, frozen, trusted, belief, lost, latch, task, drv, op,
          opers, cycles, stray>>
node == <<trusted, belief, lost, latch>>
callers == <<depth, task, drv, opers, cycles>>

NoOp == [pc |-> "none", plan |-> <<>>, many |-> FALSE, att |-> <<>>,
         base |-> 0, i |-> 0, win |-> 0, snap |-> "none", saved |-> FALSE, res |-> "none"]

Init ==
    /\ newest = Nobody /\ depth = 0 /\ frozen = FALSE
    /\ trusted = "official" /\ belief = "official"
    /\ lost = FALSE /\ latch = FALSE
    /\ task = ("auto" \in Threads)
    /\ drv = [t \in Threads |-> "idle"]
    /\ op = [t \in Threads |-> NoOp]
    /\ opers = 0 /\ cycles = 0
    /\ stray = [t \in Threads |-> 0]

-----------------------------------------------------------------------------
(* One localization operation.                                             *)

Pc(t) == op[t].pc
Stage(t) == op[t].plan[1]

\* _assert_localization_operation
Live(t) == newest = t

\* _start_localization_operation, without its refusal of an automatic one
Launch(t, plan) ==
    /\ newest' = t
    /\ op' = [op EXCEPT ![t] = [NoOp EXCEPT !.pc = "begin", !.plan = plan, !.many = Len(plan) > 1]]
    /\ stray' = [stray EXCEPT ![t] = 0]

\* The stages of a progressive search, by the seeds there are: verified fixed
\* RTK, the mapping origin, route points.  The global match is always last.
Progressive ==
    {<<"global">>, <<"route", "global">>, <<"origin", "global">>, <<"origin", "route", "global">>,
     <<"trusted", "global">>, <<"trusted", "route", "global">>, <<"trusted", "origin", "global">>,
     <<"trusted", "origin", "route", "global">>}

Ended(t, res) == [op[t] EXCEPT !.pc = "ended", !.res = res]
NextStage(t, att) == [op[t] EXCEPT !.pc = "begin", !.plan = Tail(@), !.att = att]
\* A stage without a result: a plan of several goes on.
StageFailed(t, att) ==
    IF Stage(t) = "bounded" THEN [Ended(t, "failed") EXCEPT !.att = att] ELSE NextStage(t, att)

\* Something reaches the localization node on behalf of t.
Seeds(t, what) ==
    /\ belief' = what
    /\ stray' = IF newest = t THEN stray ELSE [stray EXCEPT ![t] = @ + 1]

Attempt(st) == [st |-> st, elig |-> FALSE, mat |-> NoMatch]
Waiting(n) == [k \in 1..n |-> Attempt("waiting")]
Size(t) == IF Stage(t) = "trusted" THEN 1 ELSE N
\* Route points are listed as they are tried, the others are waiting already.
Put(t, a) == IF Stage(t) = "route" THEN Append(op[t].att, a)
             ELSE [op[t].att EXCEPT ![op[t].base + op[t].i] = a]

AfterLoop(t) == IF op[t].i = Size(t) THEN "rank" ELSE "loop"
Segment(t) == (op[t].base + 1)..Len(op[t].att)
\* The list a commit works on: the stage's own, or all of them for route points.
Scope(t) == IF Stage(t) = "route" THEN 1..Len(op[t].att) ELSE Segment(t)

\* _skip_waiting_attempts
SkipWaiting(att) ==
    [k \in DOMAIN att |-> IF att[k].st = "waiting" THEN [att[k] EXCEPT !.st = "skipped"] ELSE att[k]]

\* The quick stage may have no seed at all.
SeedCounts(t) == IF Stage(t) = "quick" THEN {0, N} ELSE {Size(t)}

\* A search stage begins: freeze the trusted pose and list the candidates.
StageBegin(t) ==
    /\ Pc(t) = "begin" /\ Stage(t) \in Search
    /\ \E n \in SeedCounts(t) :
         op' = [op EXCEPT ![t] =
                  [@ EXCEPT !.pc = IF n = 0 THEN "rank" ELSE "loop", !.i = 1,
                            !.snap = trusted, !.base = Len(op[t].att),
                            !.att = IF Stage(t) = "route" THEN op[t].att ELSE op[t].att \o Waiting(n)]]
    /\ frozen' = TRUE
    /\ UNCHANGED <<newest, node, callers, stray>>

\* The next candidate: the generation is checked, then its seed is ready to go.
ProbeArm(t) ==
    /\ Pc(t) = "loop" /\ Live(t)
    /\ op' = [op EXCEPT ![t].pc = "armed", ![t].att = Put(t, Attempt("verifying"))]
    /\ UNCHANGED <<newest, frozen, node, callers, stray>>

\* The search budget is spent: a bounded search leaves its loop, route points
\* that are not reached are recorded as failed one by one.
BudgetSpent(t) ==
    /\ Pc(t) = "loop" /\ Live(t)
    /\ op' = [op EXCEPT ![t] =
                IF Stage(t) # "route" THEN [@ EXCEPT !.pc = "rank"]
                ELSE [@ EXCEPT !.att = Put(t, Attempt("failed")), !.i = op[t].i + 1, !.pc = AfterLoop(t)]]
    /\ UNCHANGED <<newest, frozen, node, callers, stray>>

\* _initial_pose_pub.publish, after the last check of the generation.
ProbePublish(t) ==
    /\ Pc(t) = "armed"
    /\ Seeds(t, "probe")
    /\ op' = [op EXCEPT ![t].pc = "probing"]
    /\ UNCHANGED <<newest, frozen, trusted, lost, latch, callers>>

\* What _probe_localization_seed and _best_ndt_candidate can make of a seed:
\* no eligible match (the subscriber missing included), or one, which may be
\* good enough to stop the search.
ProbeResults ==
    {[elig |-> FALSE, opt |-> FALSE, mat |-> x] : x \in Matches \cup {NoMatch}}
      \cup {[elig |-> TRUE, opt |-> o, mat |-> x] : o \in BOOLEAN, x \in Matches}

ProbeDone(t) ==
    /\ Pc(t) = "probing" /\ Live(t)
    /\ \E r \in ProbeResults :
         op' = [op EXCEPT ![t] =
                  [@ EXCEPT !.att[op[t].base + op[t].i] =
                              [st |-> IF r.elig THEN "qualified" ELSE "rejected",
                               elig |-> r.elig, mat |-> r.mat],
                            !.i = op[t].i + 1,
                            !.pc = IF r.opt /\ Stage(t) # "route" THEN "rank" ELSE AfterLoop(t)]]
    /\ UNCHANGED <<newest, frozen, node, callers, stray>>

\* The seed could not be sent at all, the localization node is gone:
\* LOCALIZATION_UNAVAILABLE.
NoSubscriber(t) ==
    /\ Pc(t) = "loop" /\ Live(t)
    /\ op' = [op EXCEPT ![t] = [@ EXCEPT !.att = Put(t, Attempt("rejected")), !.i = op[t].i + 1,
                                         !.pc = AfterLoop(t)]]
    /\ belief' = "none" /\ lost' = TRUE
    /\ UNCHANGED <<newest, frozen, trusted, latch, callers, stray>>

\* _select_ranked_attempt: the metrics of the rank are abstract, any eligible
\* attempt of the stage may come first.
Best(t, att) == {w \in Segment(t) : att[w].elig}

\* Wrong variant: the last probe is what the robot keeps.
KeepLastProbe(t) == FALSE

\* Only a bounded search puts the pose back, and only if it had found one.
Restores(t) == Stage(t) \in Bounded /\ op[t].snap # "none"

\* The end of the loop when no candidate qualified.
RankNone(t) ==
    LET att == SkipWaiting(op[t].att) IN
    /\ Pc(t) = "rank"
    /\ Best(t, att) = {}
    /\ op' = [op EXCEPT ![t] = IF Restores(t)
                               THEN [@ EXCEPT !.att = att, !.pc = "restore"]
                               ELSE StageFailed(t, att)]
    /\ frozen' = Restores(t)
    /\ UNCHANGED <<newest, node, callers, stray>>

\* _mark_out_ranked_attempts
MarkOutRanked(t, w, att) ==
    [k \in DOMAIN att |->
       IF k = w THEN [att[k] EXCEPT !.st = "committing"]
       ELSE IF k \in Scope(t) /\ att[k].elig THEN [att[k] EXCEPT !.st = "rejected"] ELSE att[k]]

RankBest(t) ==
    LET att == SkipWaiting(op[t].att) IN
    /\ Pc(t) = "rank"
    /\ \E w \in Best(t, att) :
         op' = [op EXCEPT ![t] = [@ EXCEPT !.pc = "commit", !.win = w, !.att = MarkOutRanked(t, w, att)]]
    /\ frozen' = FALSE
    /\ UNCHANGED <<newest, node, callers, stray>>

\* What is left of a bounded stage that restored what it found.
AfterRestore(t) ==
    /\ op' = [op EXCEPT ![t] = StageFailed(t, op[t].att)]
    /\ frozen' = FALSE

\* _restore_official_pose after a bounded search without a result.
RestoreArm(t) ==
    /\ Pc(t) = "restore" /\ Live(t)
    /\ op' = [op EXCEPT ![t].pc = "restoring"]
    /\ UNCHANGED <<newest, frozen, node, callers, stray>>

RestorePublish(t) ==
    /\ Pc(t) = "restoring"
    /\ Seeds(t, op[t].snap)
    /\ op' = [op EXCEPT ![t].pc = "restored"]
    /\ UNCHANGED <<newest, frozen, trusted, lost, latch, callers>>

\* The restored pose settled or not: the search failed either way.
RestoreDone(t) ==
    /\ Pc(t) = "restored" /\ Live(t)
    /\ AfterRestore(t)
    /\ UNCHANGED <<newest, node, callers, stray>>

\* It cannot be restored, the localization node is gone.
RestoreGone(t) ==
    /\ Pc(t) = "restore" /\ Live(t)
    /\ belief' = "none" /\ lost' = TRUE
    /\ AfterRestore(t)
    /\ UNCHANGED <<newest, trusted, latch, callers, stray>>

\* set_initial_pose: the operator's pose is submitted as it stands.
PoseBegin(t) ==
    /\ Pc(t) = "begin" /\ Stage(t) = "pose" /\ Live(t)
    /\ op' = [op EXCEPT ![t].pc = "commit", ![t].att = <<Attempt("committing")>>, ![t].win = 1]
    /\ UNCHANGED <<newest, frozen, node, callers, stray>>

CommitArm(t) ==
    /\ Pc(t) = "commit" /\ Live(t)
    /\ op' = [op EXCEPT ![t].pc = "carmed"]
    /\ UNCHANGED <<newest, frozen, node, callers, stray>>

CommitPublish(t) ==
    /\ Pc(t) = "carmed"
    /\ Seeds(t, "official")
    /\ op' = [op EXCEPT ![t].pc = "committing"]
    /\ UNCHANGED <<newest, frozen, trusted, lost, latch, callers>>

\* _fast_lio_handoff_ready: the node is there to hand the pose to FAST-LIO.
HandoffReady == belief # "none"

\* _wait_for_fresh_normal_samples and the handoff, under the generation.
Settled(t) == Live(t) /\ HandoffReady

\* The attempts of a commit that succeeded: every attempt that converged to
\* the winner's pose is accepted, the rest rejected.
Accepted(t) ==
    [k \in DOMAIN op[t].att |->
       LET a == op[t].att[k] IN
       IF k \notin Scope(t) THEN a
       ELSE IF a.mat = op[t].att[op[t].win].mat /\ (a.mat # NoMatch \/ k = op[t].win)
       THEN [a EXCEPT !.st = "accepted"]
       ELSE IF a.st \in {"rejected", "failed", "waiting"} THEN a
       ELSE [a EXCEPT !.st = "rejected"]]

\* Three fresh normal samples and FAST-LIO took over: the commit stands.
CommitDone(t) ==
    /\ Pc(t) = "committing" /\ Settled(t)
    /\ op' = [op EXCEPT ![t] = [Ended(t, "accepted") EXCEPT !.att = Accepted(t)]]
    /\ trusted' = IF Stage(t) = "pose" THEN trusted ELSE belief
    /\ lost' = FALSE /\ latch' = FALSE
    /\ frozen' = IF Stage(t) = "pose" THEN frozen ELSE FALSE
    /\ UNCHANGED <<newest, belief, callers, stray>>

\* The handoff did not become ready.  A trusted or origin stage hands over to
\* the next one, the others fail; an operator pose that did match is submitted
\* once more at the matched pose.
CommitFail(t) ==
    /\ Pc(t) = "committing" /\ Live(t)
    /\ LET att == [op[t].att EXCEPT ![op[t].win].st = "failed"] IN
       \/ /\ Stage(t) \in {"trusted", "origin"}
          /\ op' = [op EXCEPT ![t] = NextStage(t, att)]
       \/ /\ Stage(t) \in {"route", "quick", "bounded"}
          /\ op' = [op EXCEPT ![t] = [Ended(t, "handoff_failed") EXCEPT !.att = att]]
       \/ /\ Stage(t) = "pose" /\ op[t].att[1].elig
          /\ op' = [op EXCEPT ![t] = [Ended(t, "handoff_failed") EXCEPT !.att = att]]
       \/ /\ Stage(t) = "pose" /\ ~op[t].att[1].elig
          /\ \/ op' = [op EXCEPT ![t] = [Ended(t, "failed") EXCEPT !.att = att]]
             \/ op' = [op EXCEPT ![t].pc = "commit", ![t].att[1].elig = TRUE]
    /\ frozen' = IF Stage(t) = "pose" THEN frozen ELSE FALSE
    /\ UNCHANGED <<newest, node, callers, stray>>

\* _global_relocalize_once: the service is called without a check of the
\* generation; the check follows its answer.
GlobalCall(t) ==
    /\ Pc(t) = "begin" /\ Stage(t) = "global"
    /\ Seeds(t, "global")
    /\ op' = [op EXCEPT ![t].pc = "globalwait"]
    /\ UNCHANGED <<newest, frozen, trusted, lost, latch, callers>>

GlobalDone(t) ==
    /\ Pc(t) = "globalwait" /\ Settled(t)
    /\ op' = [op EXCEPT ![t] = Ended(t, "accepted")]
    /\ lost' = FALSE /\ latch' = FALSE
    /\ UNCHANGED <<newest, frozen, trusted, belief, callers, stray>>

\* The service is missing, refuses, or nothing is verified; a service that does
\* not answer is noticed before the check.
GlobalFail(t) ==
    /\ \/ Pc(t) = "begin" /\ Stage(t) = "global"
       \/ Pc(t) = "globalwait"
    /\ op' = [op EXCEPT ![t] = Ended(t, "failed")]
    /\ UNCHANGED <<newest, frozen, node, callers, stray>>

\* set_initial_pose_from_rtk: fixed RTK is verified, then cross-checked by a
\* probe under a frozen trusted pose.
RtkProbe(t) ==
    /\ Pc(t) = "begin" /\ Stage(t) = "rtk" /\ Live(t)
    /\ Seeds(t, "probe")
    /\ op' = [op EXCEPT ![t].pc = "rtkprobe", ![t].saved = frozen]
    /\ frozen' = TRUE
    /\ UNCHANGED <<newest, trusted, lost, latch, callers>>

\* The cross-check is evidence only, unless RTK was lost meanwhile.
RtkProbed(t) ==
    /\ Pc(t) = "rtkprobe" /\ Live(t)
    /\ \/ op' = [op EXCEPT ![t].pc = "rtkcall"]
       \/ op' = [op EXCEPT ![t] = Ended(t, "failed")]
    /\ frozen' = op[t].saved
    /\ UNCHANGED <<newest, node, callers, stray>>

\* /localization/seed_from_rtk is called without a check of the generation.
RtkCall(t) ==
    /\ Pc(t) = "rtkcall"
    /\ Seeds(t, "official")
    /\ op' = [op EXCEPT ![t].pc = "rtkwait"]
    /\ UNCHANGED <<newest, frozen, trusted, lost, latch, callers>>

RtkDone(t) ==
    /\ Pc(t) = "rtkwait" /\ Settled(t)
    /\ op' = [op EXCEPT ![t] = Ended(t, "accepted")]
    /\ lost' = FALSE /\ latch' = FALSE
    /\ UNCHANGED <<newest, frozen, trusted, belief, callers, stray>>

\* Not fixed, no pose, a heading the lidar contradicts, a refusal, or no
\* fresh handoff; a timeout of the service is noticed before the check.
RtkFail(t) ==
    /\ \/ Pc(t) = "begin" /\ Stage(t) = "rtk" /\ Live(t)
       \/ Pc(t) = "rtkwait"
    /\ op' = [op EXCEPT ![t] = Ended(t, "failed")]
    /\ UNCHANGED <<newest, frozen, node, callers, stray>>

\* A check finds a newer generation.  The stage's finally block opens the
\* trusted pose; the global stage of a longer plan reports an ordinary failure.
Supersede(t) ==
    /\ \/ Pc(t) \in {"loop", "probing", "restore", "restored", "commit", "committing", "globalwait",
                      "rtkprobe", "rtkwait"}
       \/ Pc(t) = "begin" /\ Stage(t) \in {"pose", "rtk"}
    /\ ~Live(t)
    /\ op' = [op EXCEPT ![t] = Ended(t, IF Stage(t) = "global" /\ op[t].many
                                        THEN "failed" ELSE "superseded")]
    /\ frozen' = IF Stage(t) \in Search THEN FALSE
                 ELSE IF Pc(t) = "rtkprobe" THEN op[t].saved ELSE frozen
    /\ UNCHANGED <<newest, node, callers, stray>>

Operation(t) ==
    \/ StageBegin(t) \/ ProbeArm(t) \/ BudgetSpent(t) \/ ProbePublish(t) \/ ProbeDone(t)
    \/ NoSubscriber(t) \/ RankNone(t) \/ RankBest(t) \/ RestoreArm(t) \/ RestorePublish(t)
    \/ RestoreDone(t) \/ RestoreGone(t)
    \/ PoseBegin(t) \/ CommitArm(t) \/ CommitPublish(t) \/ CommitDone(t) \/ CommitFail(t)
    \/ GlobalCall(t) \/ GlobalDone(t) \/ GlobalFail(t)
    \/ RtkProbe(t) \/ RtkProbed(t) \/ RtkCall(t) \/ RtkDone(t) \/ RtkFail(t) \/ Supersede(t)

-----------------------------------------------------------------------------
(* The callers.                                                            *)

\* end_operator_localization re-arms the notification of a loss.
LatchAfterOperator == IF depth = 1 THEN FALSE ELSE latch

Go(t, where) == drv' = [drv EXCEPT ![t] = where]
Finished(t) == drv[t] = "running" /\ Pc(t) = "ended"
Outcome(t) == op[t].res

\* nav.relocalize, nav.initial_pose: the operator scope opens.
OperBegin ==
    /\ "oper" \in Threads /\ drv["oper"] = "idle" /\ opers < MaxOper
    /\ opers' = opers + 1 /\ depth' = depth + 1
    /\ Go("oper", "scoped")
    /\ UNCHANGED <<newest, frozen, node, task, op, cycles, stray>>

OperRun ==
    /\ "oper" \in Threads /\ drv["oper"] = "scoped"
    /\ \E plan \in OperPlans : Launch("oper", plan)
    /\ Go("oper", "running")
    /\ UNCHANGED <<frozen, node, depth, task, opers, cycles>>

\* The finally block: the operation ended, or the command failed before it
\* (no seed, no subscriber).
OperEnd ==
    /\ "oper" \in Threads /\ (Finished("oper") \/ drv["oper"] = "scoped")
    /\ depth' = depth - 1 /\ latch' = LatchAfterOperator
    /\ Go("oper", "idle")
    /\ UNCHANGED <<newest, frozen, trusted, belief, lost, task, op, opers, cycles, stray>>

\* _on_localization with a normal status: the trusted pose follows the belief
\* while it is absolutely stable and not frozen.
SampleNormal ==
    /\ belief # "none"
    /\ lost' = FALSE /\ latch' = FALSE
    /\ trusted' \in {trusted} \cup (IF frozen THEN {} ELSE {belief})
    /\ UNCHANGED <<newest, frozen, belief, callers, op, stray>>

\* _on_localization with a lost status, and the callback of the first one:
\* _handle_task_localization_loss starts one recovery worker at a time.
SampleLost ==
    /\ lost' = TRUE
    /\ IF latch \/ depth > 0 THEN UNCHANGED <<latch, drv, cycles>>
       ELSE /\ latch' = TRUE
            /\ IF "auto" \in Threads /\ drv["auto"] = "idle" /\ task
               THEN Go("auto", "spawned") /\ cycles' = 0
               ELSE UNCHANGED <<drv, cycles>>
    /\ UNCHANGED <<newest, frozen, trusted, belief, depth, task, op, opers, stray>>

AutoAt(where) == "auto" \in Threads /\ drv["auto"] = where
AutoGoes(where) == Go("auto", where) /\ UNCHANGED <<newest, frozen, node, depth, task, op, opers, cycles, stray>>

\* _recover_task_localization: nothing to do while an operator is at it.
AutoEnter ==
    /\ AutoAt("spawned")
    /\ AutoGoes(IF depth > 0 THEN "leaving" ELSE "search")

\* Wrong variant: the cycles are not counted.
UncountedCycle == cycles

NextCycle == cycles + 1

\* A cycle begins with the full search, started as if it were not automatic.
AutoSearch ==
    /\ AutoAt("search") /\ task
    /\ cycles' = NextCycle
    /\ \E plan \in SearchPlans : Launch("auto", plan)
    /\ Go("auto", "running")
    /\ UNCHANGED <<frozen, node, depth, task, opers>>

\* _start_localization_operation(automatic=True)
AutomaticStart == depth = 0

\* Then the bounded search around single seeds, and the global one, if no
\* operator is at it.
AutoNext(where, then, plan) ==
    /\ AutoAt(where) /\ task
    /\ IF AutomaticStart
       THEN /\ Launch("auto", plan) /\ Go("auto", then)
            /\ UNCHANGED <<frozen, node, depth, task, opers, cycles>>
       ELSE AutoGoes("leaving")

AutoSeed == AutoNext("seed", "seeding", <<"bounded">>)
AutoGlobal == AutoNext("global", "globaling", <<"global">>)

\* What an attempt's outcome means to the worker; a success still has to pass
\* the secondary correction and the final gate.
AutoAfter(where, next) ==
    /\ "auto" \in Threads /\ drv["auto"] = where /\ Pc("auto") = "ended"
    /\ \/ Outcome("auto") \in {"accepted", "superseded"} /\ AutoGoes("leaving")
       \/ Outcome("auto") # "superseded" /\ AutoGoes(next)

AutoSearched == AutoAfter("running", "seed")
\* _wait_for_post_handoff_resume: a pose that was committed may still settle.
AutoSeeded ==
    \/ AutoAfter("seeding", "global")
    \/ /\ AutoAt("seeding") /\ Pc("auto") = "ended" /\ Outcome("auto") = "handoff_failed"
       /\ AutoGoes("leaving")
AutoGlobaled == AutoAfter("globaling", "retry")

\* Another cycle after a pause, or the end of the levels: safe hold.
AutoRetry ==
    /\ AutoAt("retry") /\ cycles < MaxCycles
    /\ AutoGoes("search")

AutoExhausted ==
    /\ AutoAt("retry") /\ cycles = MaxCycles
    /\ task' = FALSE /\ Go("auto", "leaving")
    /\ UNCHANGED <<newest, frozen, node, depth, op, opers, cycles, stray>>

\* The worker saw that its task is gone.
AutoCancelled ==
    /\ \E where \in {"search", "seed", "global", "retry"} : AutoAt(where)
    /\ ~task
    /\ AutoGoes("leaving")

\* The finally block releases the recovery lock.
AutoLeave ==
    /\ AutoAt("leaving")
    /\ AutoGoes("idle")

\* The task ends: cancel_localization_operations.
Teardown ==
    /\ task /\ "auto" \in Threads
    /\ task' = FALSE /\ newest' = Nobody /\ latch' = FALSE
    /\ UNCHANGED <<frozen, trusted, belief, lost, depth, drv, op, opers, cycles, stray>>

StartAt(where) == "start" \in Threads /\ drv["start"] = where
StartGoes(where) == Go("start", where) /\ UNCHANGED <<newest, frozen, node, depth, task, op, opers, cycles, stray>>

\* prepare_task_start: refused during an operator command; the trusted pose
\* of the last task is dropped and frozen.
StartBegin ==
    /\ StartAt("idle") /\ depth = 0 /\ ~task
    /\ trusted' = "none" /\ frozen' = TRUE /\ task' = TRUE
    /\ Go("start", "starting")
    /\ UNCHANGED <<newest, belief, lost, latch, depth, op, opers, cycles, stray>>

\* initialize_before_navigation: a pose that is stable on the right map is
\* reused, anything else is searched for.
StartReuse ==
    /\ StartAt("starting") /\ ~lost
    /\ StartGoes("reused")

StartSearch ==
    /\ StartAt("starting")
    /\ \E plan \in SearchPlans : Launch("start", plan)
    /\ Go("start", "running")
    /\ UNCHANGED <<frozen, node, depth, task, opers, cycles>>

StartSearched ==
    /\ "start" \in Threads /\ Finished("start")
    /\ StartGoes(IF Outcome("start") = "accepted" THEN "correcting" ELSE "failed")

\* _apply_startup_secondary_correction: completed, or skipped on a timeout.
StartCorrected ==
    /\ StartAt("correcting")
    /\ StartGoes("gate")

\* The final gate of a reused pose releases the task as it is.
StartReleaseReused ==
    /\ StartAt("reused") /\ ~lost
    /\ StartGoes("released")

\* accept_startup_trusted_pose behind the final gate.
StartAccept ==
    /\ StartAt("gate") /\ ~lost
    /\ frozen' = FALSE
    /\ trusted' \in (IF trusted = "none" THEN {} ELSE {trusted}) \cup {belief}
    /\ Go("start", "released")
    /\ UNCHANGED <<newest, belief, lost, latch, depth, task, op, opers, cycles, stray>>

\* FAST-LIO is not ready, the correction is rejected, the gate times out.
StartFail ==
    /\ \E where \in {"starting", "correcting", "reused", "gate"} : StartAt(where)
    /\ StartGoes("failed")

\* The task is over; another one may start.
StartOver ==
    /\ \E where \in {"released", "failed"} : StartAt(where)
    /\ task' = FALSE /\ newest' = Nobody /\ latch' = FALSE
    /\ Go("start", "idle")
    /\ UNCHANGED <<frozen, trusted, belief, lost, depth, op, opers, cycles, stray>>

Callers ==
    \/ OperBegin \/ OperRun \/ OperEnd
    \/ AutoEnter \/ AutoSearch \/ AutoSeed \/ AutoGlobal \/ AutoSearched \/ AutoSeeded
    \/ AutoGlobaled \/ AutoRetry \/ AutoExhausted \/ AutoCancelled \/ AutoLeave \/ Teardown
    \/ StartBegin \/ StartReuse \/ StartSearch \/ StartSearched \/ StartCorrected
    \/ StartReleaseReused \/ StartAccept \/ StartFail \/ StartOver

Next ==
    \/ \E t \in Threads : Operation(t)
    \/ Callers \/ SampleNormal \/ SampleLost

Spec == Init /\ [][Next]_vars

AutoWorker == AutoEnter \/ AutoSearch \/ AutoSeed \/ AutoGlobal \/ AutoSearched
              \/ AutoSeeded \/ AutoGlobaled \/ AutoRetry \/ AutoExhausted
              \/ AutoCancelled \/ AutoLeave

\* Every wait of an operation and of its callers has a deadline, and the
\* localization node keeps reporting its status.
Fairness ==
    /\ \A t \in Threads : WF_vars(Operation(t))
    /\ WF_vars(OperRun \/ OperEnd)
    /\ WF_vars(AutoWorker)
    /\ WF_vars(SampleNormal \/ SampleLost)

FairSpec == Spec /\ Fairness

-----------------------------------------------------------------------------
(* Properties.                                                             *)

TypeOK ==
    /\ newest \in Threads \cup {Nobody}
    /\ depth \in 0..1
    /\ frozen \in BOOLEAN /\ lost \in BOOLEAN /\ latch \in BOOLEAN /\ task \in BOOLEAN
    /\ trusted \in {"none", "official", "probe", "global"}
    /\ belief \in {"none", "official", "probe", "global"}
    /\ \A t \in Threads : Len(op[t].att) <= 1 + 2 * N

\* A superseded operation gives up soon: after a newer one took over, it moves
\* the pose of the localization node at most once more, with a seed it had
\* already checked or a service call it makes unchecked
\* (_assert_localization_operation, _set_initial_pose_once).
StrayBounded == \A t \in Threads : stray[t] <= 1

\* An operation that ended by itself leaves no candidate open on the operator's
\* screen: waiting, being verified, qualified but undecided, or committing
\* (_skip_waiting_attempts, _commit_best_relocalization_candidate).
NothingPending ==
    \A t \in Threads :
      Pc(t) = "ended" /\ op[t].res # "superseded" =>
        \A k \in DOMAIN op[t].att :
          op[t].att[k].st \notin {"waiting", "verifying", "qualified", "committing"}

\* A bounded search without a result undoes itself: the localization node is
\* back at the pose the search found, and no probe got into the trusted pose
\* (_restore_official_pose, _trusted_pose_frozen).
FailedSearchRestores ==
    \A t \in Threads :
      Pc(t) = "ended" /\ op[t].res = "failed" /\ Stage(t) = "bounded" /\ op[t].snap # "none" =>
        belief \in {op[t].snap, "none"} /\ trusted = op[t].snap

\* A recovery worker does not run for ever: it recovers, yields, or gives up
\* after the last cycle (_recover_task_localization).
RecoveryEnds == "auto" \in Threads => (drv["auto"] = "spawned" ~> drv["auto"] = "idle")

=============================================================================
