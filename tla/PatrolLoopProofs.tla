-------------------------- MODULE PatrolLoopProofs --------------------------
(***************************************************************************)
(* Proofs for PatrolLoop, for any number of rounds, attempts, samples of   *)
(* an observation, low-battery phases and lost commands.                   *)
(*                                                                         *)
(* No step but the Edge's report of a task that the center had given up    *)
(* makes an execution active that was not, except the dispatch of a round; *)
(* that a latch finds everything stopped, that rounds are separate and     *)
(* that a completed loop has stopped rest on this.  That a recovery        *)
(* follows a clean window needs an invariant that ties the samples counted *)
(* to the history.                                                         *)
(***************************************************************************)
EXTENDS PatrolLoop, FiniteSetTheorems, TLAPS

\* The settings of the supervisor (MAX_RECOVERY_ATTEMPTS, OBSERVATION_SECONDS)
\* and the number of rounds are counts.
Limits == MaxRounds \in Nat /\ MaxAttempts \in Nat /\ Observation \in Nat

LoopStates == Ended \cup {"starting", "running", "resting", "observing", "recovering",
                          "paused", "stopping"}
ExecStates == ExecEnded \cup ExecMoving \cup ExecHeld \cup {"none", "dispatching", "pausing"}
Codes == {"none", "NAV", "LOW_BATTERY", "COMMAND_TIMED_OUT", "FORCE_EXIT", "EDGE_SYNC"}
Sessions ==
    [state : LoopStates, round : 0 .. MaxRounds, current : 0 .. MaxRounds, manual : BOOLEAN,
     obs : 0 .. Observation + 1, attempt : 0 .. MaxAttempts, reason : Codes \cup {"UNHEALTHY", "OPERATOR_CONTINUE"},
     waiting : BOOLEAN, scope : {"loop", "round"}, continues : Nat]
Executions == [state : ExecStates, code : Codes]
Orders == [pause : {"none", "open", "done", "failed"},
           force : {"none", "open", "stopped", "unconfirmed"},
           recover : {"none", "open", "recovered", "in_progress", "non_retryable", "held", "failed"}]

\* The rows of the session, of its executions and of its commands.
Typed ==
    /\ loop \in Sessions /\ loop.current \in {0, loop.round}
    /\ exec \in [Rounds -> Executions]
    /\ cmd \in Orders
    /\ latch = NoKey \/ latch \in known

\* An observation window that counts a sample has been clean since it opened.
WindowIsClean == clean \in BOOLEAN /\ (loop.obs > 0 => clean)

\* Rounds after the current one were not dispatched; at most one is active.
RoundsInOrder ==
    /\ \A r \in Rounds : r > loop.round => exec[r] = NoExec
    /\ \A q, r \in Rounds : IsActive(exec[q]) /\ IsActive(exec[r]) => q = r

\* No loop is active under the latch.
LatchIsIdle == latch # NoKey => ~Active

IInv == Typed /\ WindowIsClean /\ RoundsInOrder /\ LatchIsIdle

\* No execution becomes active.
ExecsKept ==
    /\ exec' \in [Rounds -> Executions]
    /\ \A r \in Rounds : ~IsActive(exec[r]) => exec'[r] = exec[r]

-----------------------------------------------------------------------------
(* What the helpers of the supervisor do. *)

\* _set_state changes nothing but the observation, which it keeps or clears.
LEMMA SetStateTyped ==
    ASSUME Limits, NEW s \in Sessions, SetState(s)
    PROVE  /\ loop' \in Sessions
           /\ loop' = [s EXCEPT !.obs = loop'.obs]
           /\ loop'.obs \in {0, s.obs}
           /\ s.state # "observing" => loop'.obs = 0
           /\ loop'.state = s.state /\ loop'.round = s.round /\ loop'.current = s.current
BY DEF Limits, SetState, Sessions

\* The row of the current round, if there is one, is typed.
LEMMA ExecTyped ==
    ASSUME Limits, Typed
    PROVE  /\ Exec \in Executions
           /\ loop.current # 0 => loop.current \in Rounds /\ Exec = exec[loop.current]
           /\ loop.current = 0 => Exec = NoExec
BY DEF Limits, Typed, Exec, Executions, NoExec, Sessions, Rounds, ExecStates, Codes

\* An execution that is over stays over.
LEMMA StaysOver ==
    ASSUME Limits, Typed, ExecsKept, loop'.current = loop.current, ~ExecActive
    PROVE  ~ExecActive'
<1>1. loop.current # 0 => exec'[loop.current] = exec[loop.current]
  BY ExecTyped DEF ExecsKept, ExecActive
<1> QED
  BY <1>1 DEF ExecActive, Exec, IsActive, NoExec

LEMMA SameExecs ==
    ASSUME Typed, exec' = exec
    PROVE  ExecsKept
BY DEF Typed, ExecsKept

\* A force exit leaves nothing active and what was over as it was.
LEMMA CancelledStops ==
    ASSUME Typed
    PROVE  /\ Cancelled \in [Rounds -> Executions]
           /\ \A r \in Rounds : /\ ~IsActive(Cancelled[r])
                                /\ ~IsActive(exec[r]) => Cancelled[r] = exec[r]
BY DEF Typed, Cancelled, IsActive, Executions, ExecStates, ExecEnded, Codes

LEMMA ForceExitKeeps ==
    ASSUME Typed, ForceExit
    PROVE  ExecsKept /\ cmd' \in Orders /\ cmd'.recover = cmd.recover
<1>1. CASE ExecActive
  <2>1. exec' = Cancelled /\ cmd' = [cmd EXCEPT !.force = "open"]
    BY <1>1 DEF ForceExit
  <2>2. ExecsKept
    BY <2>1, CancelledStops DEF ExecsKept
  <2> QED
    BY <2>1, <2>2 DEF Typed, Orders
<1>2. CASE ~ExecActive
  BY <1>2, SameExecs DEF ForceExit, Typed
<1> QED
  BY <1>1, <1>2

\* A pause is asked for an execution that is active.
LEMMA AskPauseKeeps ==
    ASSUME Limits, Typed, Exec.state \in ExecMoving, AskPause
    PROVE  /\ ExecsKept /\ cmd' \in Orders
           /\ cmd'.recover = cmd.recover /\ cmd'.force = cmd.force
<1>1. loop.current \in Rounds /\ IsActive(exec[loop.current])
  BY ExecTyped DEF NoExec, ExecMoving, IsActive, ExecEnded
<1> DEFINE e == [exec[loop.current] EXCEPT !.state = "pausing"]
<1>2. e \in Executions
  BY <1>1 DEF Typed, Executions, ExecStates
<1>3. exec' = [exec EXCEPT ![loop.current] = e]
  BY DEF AskPause
<1> HIDE DEF e
<1>4. ExecsKept
  BY <1>1, <1>2, <1>3 DEF Typed, ExecsKept
<1> QED
  BY <1>4 DEF AskPause, Typed, Orders

\* The key of an episode is never the absence of one.
LEMMA KeysAreKeys ==
    \A p : <<"edge", p>> # NoKey /\ <<"exec", p>> # NoKey /\ <<"center", p>> # NoKey
BY DEF NoKey
\* terminate_low_battery keeps the rows typed; what it latches finds no loop
\* and no execution active.
LEMMA TerminateStops ==
    ASSUME Limits, Typed, NEW key, key # NoKey, Terminate(key)
    PROVE  /\ loop' \in Sessions /\ cmd' \in Orders /\ ExecsKept
           /\ latch' = NoKey \/ latch' \in known'
           /\ loop'.round = loop.round /\ loop'.current = loop.current
           /\ loop'.obs \in {0, loop.obs}
           /\ loop' = loop \/ loop'.state = "low_battery_stopped"
           /\ cmd'.recover = cmd.recover
           /\ LatchIsIdle => LatchIsIdle'
           /\ latch = NoKey /\ latch' # NoKey => \A r \in Rounds : ~IsActive(exec'[r])
<1>1. CASE key \in known /\ latch # key
  <2>1. UNCHANGED <<loop, exec, cmd, latch, known>>
    BY <1>1 DEF Terminate
  <2> QED
    BY <2>1, SameExecs DEF Typed, LatchIsIdle, Active
<1>2. CASE ~(key \in known /\ latch # key)
  <2>1. /\ latch' = IF latch = NoKey THEN key ELSE latch
        /\ known' = IF latch = NoKey THEN known \cup {key} ELSE known
        /\ exec' = Cancelled
        /\ cmd' = IF ExecActive THEN [cmd EXCEPT !.force = "open"] ELSE cmd
    BY <1>2 DEF Terminate
  <2>2. latch' = NoKey \/ latch' \in known'
    BY <2>1 DEF Typed
  <2>3. ExecsKept /\ \A r \in Rounds : ~IsActive(exec'[r])
    BY <2>1, CancelledStops DEF ExecsKept
  <2>4. cmd' \in Orders /\ cmd'.recover = cmd.recover
    BY <2>1 DEF Typed, Orders
  <2>5. CASE Active
    <3>1. [loop EXCEPT !.state = "low_battery_stopped", !.manual = FALSE] \in Sessions
      BY DEF Typed, Sessions, LoopStates, Ended
    <3>2. SetState([loop EXCEPT !.state = "low_battery_stopped", !.manual = FALSE])
      BY <1>2, <2>5 DEF Terminate
    <3>3. /\ loop' \in Sessions /\ loop'.obs = 0 /\ loop'.state = "low_battery_stopped"
          /\ loop'.round = loop.round /\ loop'.current = loop.current
      BY <3>1, <3>2, SetStateTyped DEF Typed, Sessions
    <3> QED
      BY <2>2, <2>3, <2>4, <3>3 DEF LatchIsIdle, Active, Ended
  <2>6. CASE ~Active
    <3>1. loop' = loop
      BY <1>2, <2>6 DEF Terminate
    <3> QED
      BY <2>2, <2>3, <2>4, <2>6, <3>1 DEF Typed, LatchIsIdle, Active
  <2> QED
    BY <2>5, <2>6
<1> QED
  BY <1>1, <1>2

\* The robot changes one execution, and only while it is active or, when no
\* other is, after the center had given it up.
EdgeRow(r, e) ==
    /\ exec' = [exec EXCEPT ![r] = e]
    /\ \/ IsActive(exec[r])
       \/ exec[r].state = "timed_out" /\ \A q \in Rounds \ {r} : ~IsActive(exec[q])

LEMMA SetExecRow ==
    ASSUME Typed, NEW r \in Rounds, NEW state \in ExecStates, NEW code \in Codes,
           SetExec(r, state, code),
           \/ IsActive(exec[r])
           \/ exec[r].state = "timed_out" /\ \A q \in Rounds \ {r} : ~IsActive(exec[q])
    PROVE  \E e \in Executions : EdgeRow(r, e)
<1> DEFINE e == [state |-> state, code |-> IF code = "none" THEN exec[r].code ELSE code]
<1>1. e \in Executions
  BY DEF Typed, Executions
<1>2. exec' = [exec EXCEPT ![r] = e]
  BY DEF SetExec
<1> QED
  BY <1>1, <1>2 DEF EdgeRow

\* The execution of the current round, while it is active.
LEMMA SetCurrentRow ==
    ASSUME Limits, Typed, ExecActive, NEW state \in ExecStates, NEW code \in Codes,
           SetCurrent(state, code)
    PROVE  \E r \in Rounds, e \in Executions : EdgeRow(r, e)
<1>1. loop.current \in Rounds /\ IsActive(exec[loop.current])
  BY ExecTyped DEF ExecActive, IsActive, NoExec
<1> QED
  BY <1>1, SetExecRow DEF SetCurrent

\* The robot concludes the commands of the loop and opens none.
LEMMA EdgeShape ==
    ASSUME Limits, Typed, Edge
    PROVE  /\ UNCHANGED <<loop, clean, latch, known>>
           /\ cmd' \in Orders
           /\ cmd'.recover = "open" => cmd.recover = "open"
           /\ exec' = exec \/ \E r \in Rounds, e \in Executions : EdgeRow(r, e)
<1>0. /\ cmd \in Orders
      /\ {"running", "failed", "interrupted", "completed", "paused", "timed_out"} \subseteq ExecStates
      /\ {"none", "NAV", "COMMAND_TIMED_OUT", "LOW_BATTERY", "EDGE_SYNC"} \subseteq Codes
  BY DEF Typed, ExecStates, ExecEnded, ExecMoving, ExecHeld, Codes
<1>a. /\ Exec.state \in ExecMoving \cup ExecHeld \cup {"pausing", "dispatching"} => ExecActive
      /\ \A r \in Rounds : exec[r].state \in {"running", "pausing", "interrupted"} => IsActive(exec[r])
  BY DEF ExecActive, IsActive, ExecMoving, ExecHeld, ExecEnded
<1>1. CASE EdgeStart
  <2>1. UNCHANGED <<loop, clean, latch, known, cmd>> /\ Exec.state = "dispatching"
    BY <1>1 DEF EdgeStart, battery
  <2>2. \/ SetCurrent("running", "none") \/ SetCurrent("failed", "NAV")
        \/ SetCurrent("interrupted", "COMMAND_TIMED_OUT")
    BY <1>1 DEF EdgeStart
  <2> QED
    BY <1>0, <1>a, <2>1, <2>2, SetCurrentRow
<1>2. CASE \E r \in Rounds : EdgeTask(r)
  <2>1. PICK r \in Rounds : EdgeTask(r)
    BY <1>2
  <2>2. UNCHANGED <<loop, clean, latch, known, cmd>> /\ IsActive(exec[r])
    BY <1>a, <2>1 DEF EdgeTask, env, battery
  <2>3. \/ SetExec(r, "completed", "none") \/ SetExec(r, "failed", "NAV")
        \/ SetExec(r, "paused", "NAV") \/ SetExec(r, "failed", "LOW_BATTERY")
    BY <2>1 DEF EdgeTask
  <2>4. \E e \in Executions : EdgeRow(r, e)
    BY <1>0, <2>2, <2>3, SetExecRow
  <2> QED
    BY <1>0, <2>2, <2>4
<1>3. CASE EdgePause
  <2>1. UNCHANGED <<loop, clean, latch, known>> /\ cmd' \in Orders /\ cmd'.recover = cmd.recover
    BY <1>0, <1>3 DEF EdgePause, battery, Orders
  <2>2. \/ exec' = exec
        \/ /\ Exec.state \in ExecMoving \cup {"pausing"}
           /\ \/ SetCurrent("paused", "none") \/ SetCurrent("running", "NAV")
              \/ SetCurrent("running", "COMMAND_TIMED_OUT")
    BY <1>3 DEF EdgePause
  <2> QED
    BY <1>0, <1>a, <2>1, <2>2, SetCurrentRow
<1>4. CASE EdgeRecover
  <2>1. UNCHANGED <<loop, clean, latch, known>> /\ cmd' \in Orders /\ cmd'.recover # "open"
    BY <1>0, <1>4 DEF EdgeRecover, battery, Orders
  <2>2. \/ exec' = exec
        \/ Exec.state \in ExecHeld /\ SetCurrent("running", "none")
        \/ ExecActive /\ SetCurrent("timed_out", "COMMAND_TIMED_OUT")
    BY <1>4 DEF EdgeRecover
  <2> QED
    BY <1>0, <1>a, <2>1, <2>2, SetCurrentRow
<1>5. CASE EdgeRecoverLate
  <2>1. /\ UNCHANGED <<loop, clean, latch, known, cmd>>
        /\ Exec.state \in ExecHeld \cup {"pausing"} /\ SetCurrent("running", "none")
    BY <1>5 DEF EdgeRecoverLate, env, battery
  <2> QED
    BY <1>0, <1>a, <2>1, SetCurrentRow
<1>6. CASE EdgeForceExit
  BY <1>0, <1>6 DEF EdgeForceExit, env, battery, Orders
<1>7. CASE \E r \in Rounds : EdgeSync(r)
  <2>1. PICK r \in Rounds : EdgeSync(r)
    BY <1>7
  <2>2. /\ UNCHANGED <<loop, clean, latch, known, cmd>>
        /\ \/ IsActive(exec[r])
           \/ exec[r].state = "timed_out" /\ \A q \in Rounds \ {r} : ~IsActive(exec[q])
    BY <1>a, <2>1 DEF EdgeSync, env, battery
  <2>3. SetExec(r, "running", "EDGE_SYNC") \/ SetExec(r, "paused", "EDGE_SYNC")
    BY <2>1 DEF EdgeSync
  <2>4. \E e \in Executions : EdgeRow(r, e)
    BY <1>0, <2>2, <2>3, SetExecRow
  <2> QED
    BY <1>0, <2>2, <2>4
<1> QED
  BY <1>1, <1>2, <1>3, <1>4, <1>5, <1>6, <1>7 DEF Edge

-----------------------------------------------------------------------------
(* The steps of the operator and of process that make no execution active. *)

\* What such a step keeps.
SessionKept ==
    /\ loop' \in Sessions /\ cmd' \in Orders /\ ExecsKept
    /\ latch' = NoKey \/ latch' \in known'
    /\ loop'.round = loop.round /\ loop'.current \in {0, loop.current}
    /\ WindowIsClean => WindowIsClean'
    /\ LatchIsIdle => LatchIsIdle'
    /\ latch = NoKey /\ latch' # NoKey => \A r \in Rounds : ~IsActive(exec'[r])
    /\ CompletesStopped
    /\ WindowIsClean => RecoversCleanly

\* A step of an active session that changes its state without a sample.
LEMMA SetStateKeeps ==
    ASSUME Limits, Typed, Active, NEW s \in Sessions, SetState(s),
           s.round = loop.round, s.current = loop.current, s.obs \in {0, loop.obs},
           s.state = "completed" =>
                ~ExecActive /\ (loop.state = "stopping" => cmd.force \in {"none", "stopped"}),
           ExecsKept, cmd' \in Orders, WindowIsClean => RecoversCleanly,
           UNCHANGED <<clean, latch, known>>
    PROVE  SessionKept
<1>1. /\ loop' \in Sessions /\ loop'.round = loop.round /\ loop'.current = loop.current
      /\ loop'.obs \in {0, loop.obs} /\ loop'.state = s.state
  BY SetStateTyped
<1>2. WindowIsClean => WindowIsClean'
  BY <1>1 DEF WindowIsClean
<1>3. LatchIsIdle => LatchIsIdle'
  BY DEF LatchIsIdle
<1>4. CompletesStopped
  BY <1>1, StaysOver DEF CompletesStopped
<1> QED
  BY <1>1, <1>2, <1>3, <1>4 DEF SessionKept, Typed

\* A step that opens no recover command owes no clean window.
LEMMA SendsNoRecovery ==
    ASSUME cmd'.recover = "open" => cmd.recover = "open"
    PROVE  RecoversCleanly
BY DEF RecoversCleanly

\* A new observation, and its end by the operator or a force exit.
LEMMA BeginObservationKeeps ==
    ASSUME Limits, Typed, Active, NEW code \in Codes \cup {"UNHEALTHY"}, BeginObservation(code),
           UNCHANGED <<exec, cmd, clean, latch, known>>
    PROVE  SessionKept
<1> DEFINE s == [loop EXCEPT !.state = "observing", !.obs = 0, !.reason = code,
                             !.attempt = IF loop.reason = code THEN @ ELSE 0]
<1>0. (IF loop.reason = code THEN loop.attempt ELSE 0) \in 0 .. MaxAttempts
  BY DEF Limits, Typed, Sessions
<1>1. s \in Sessions /\ s.round = loop.round /\ s.current = loop.current /\ s.obs = 0
  <2>1. "observing" \in LoopStates /\ 0 \in 0 .. Observation + 1
    BY DEF LoopStates, Limits
  <2> QED
    BY <1>0, <2>1 DEF Typed, Sessions
<1>2. SetState(s) /\ s.state # "completed"
  BY DEF BeginObservation, Typed, Sessions
<1> HIDE DEF s
<1> QED
  BY <1>1, <1>2, SetStateKeeps, SameExecs, SendsNoRecovery DEF Typed

LEMMA BeginRecoveryStopKeeps ==
    ASSUME Limits, Typed, Active, BeginRecoveryStop, UNCHANGED <<clean, latch, known>>
    PROVE  SessionKept
<1>1. CASE Exec.state \in ExecHeld
  <2> DEFINE s == [loop EXCEPT !.state = "paused", !.manual = TRUE]
  <2>1. /\ s \in Sessions /\ s.round = loop.round /\ s.current = loop.current /\ s.obs = loop.obs
        /\ s.state = "paused"
    BY DEF Typed, Sessions, LoopStates
  <2>2. SetState(s) /\ UNCHANGED <<exec, cmd>>
    BY <1>1 DEF BeginRecoveryStop
  <2> HIDE DEF s
  <2> QED
    BY <2>1, <2>2, SetStateKeeps, SameExecs, SendsNoRecovery DEF Typed
<1>2. CASE Exec.state \notin ExecHeld
  <2> DEFINE s == [loop EXCEPT !.state = "stopping", !.scope = "round"]
  <2>1. /\ s \in Sessions /\ s.round = loop.round /\ s.current = loop.current /\ s.obs = loop.obs
        /\ s.state = "stopping"
    BY DEF Typed, Sessions, LoopStates
  <2>2. SetState(s) /\ ForceExit
    BY <1>2 DEF BeginRecoveryStop
  <2> HIDE DEF s
  <2> QED
    BY <2>1, <2>2, SetStateKeeps, ForceExitKeeps, SendsNoRecovery
<1> QED
  BY <1>1, <1>2

\* A recovery episode that is over.
LEMMA ClearedTyped ==
    ASSUME Limits, NEW s \in Sessions, NEW st \in LoopStates
    PROVE  /\ [Cleared(s) EXCEPT !.state = st] \in Sessions
           /\ [Cleared(s) EXCEPT !.state = st].round = s.round
           /\ [Cleared(s) EXCEPT !.state = st].current = s.current
           /\ [Cleared(s) EXCEPT !.state = st].obs = s.obs
           /\ [Cleared(s) EXCEPT !.state = st].state = st
<1>1. 0 \in 0 .. MaxAttempts /\ "none" \in Codes
  BY DEF Limits, Codes
<1>2. /\ Cleared(s) \in Sessions /\ Cleared(s).round = s.round
      /\ Cleared(s).current = s.current /\ Cleared(s).obs = s.obs
  BY <1>1 DEF Cleared, Sessions
<1> QED
  BY <1>2 DEF Sessions
\* The end of an episode of low battery, whoever reports it.
LEMMA TerminateKeeps ==
    ASSUME Limits, Typed, NEW key, key # NoKey, Terminate(key), UNCHANGED clean
    PROVE  SessionKept
<1>1. /\ loop' \in Sessions /\ cmd' \in Orders /\ ExecsKept
      /\ latch' = NoKey \/ latch' \in known'
      /\ loop'.round = loop.round /\ loop'.current = loop.current
      /\ loop'.obs \in {0, loop.obs}
      /\ loop' = loop \/ loop'.state = "low_battery_stopped"
      /\ cmd'.recover = cmd.recover
      /\ LatchIsIdle => LatchIsIdle'
      /\ latch = NoKey /\ latch' # NoKey => \A r \in Rounds : ~IsActive(exec'[r])
  BY TerminateStops
<1>2. WindowIsClean => WindowIsClean'
  BY <1>1 DEF WindowIsClean
<1>3. CompletesStopped /\ RecoversCleanly
  BY <1>1 DEF CompletesStopped, RecoversCleanly
<1> QED
  BY <1>1, <1>2, <1>3 DEF SessionKept

\* The operator's pause, continuation and stop.
LEMMA OperatorKeeps ==
    ASSUME Limits, Typed, Pause \/ Continue \/ Stop
    PROVE  SessionKept
<1> USE DEF env, battery
<1>1. CASE Pause
  <2> DEFINE s == [loop EXCEPT !.state = "paused", !.manual = TRUE]
  <2>1. /\ s \in Sessions /\ s.round = loop.round /\ s.current = loop.current /\ s.obs = loop.obs /\ s.state = "paused"
    BY DEF Typed, Sessions, LoopStates
  <2>2. SetState(s) /\ Active /\ UNCHANGED <<clean, latch, known>>
    BY <1>1 DEF Pause
  <2>3. ExecsKept /\ cmd' \in Orders /\ cmd'.recover = cmd.recover
    BY <1>1, AskPauseKeeps, SameExecs DEF Pause, Typed
  <2> HIDE DEF s
  <2> QED
    BY <2>1, <2>2, <2>3, SetStateKeeps, SendsNoRecovery
<1>2. CASE Continue
  <2> DEFINE s == [loop EXCEPT !.state = "observing", !.manual = FALSE, !.obs = 0, !.attempt = 0,
                               !.reason = "OPERATOR_CONTINUE", !.waiting = FALSE,
                               !.continues = @ + 1]
  <2>0. /\ loop.continues + 1 \in Nat /\ "observing" \in LoopStates
        /\ 0 \in 0 .. MaxAttempts /\ 0 \in 0 .. Observation + 1
    BY DEF Limits, Typed, Sessions, LoopStates
  <2>1. /\ s \in Sessions /\ s.round = loop.round /\ s.current = loop.current /\ s.obs = 0 /\ s.state = "observing"
    BY <2>0 DEF Typed, Sessions
  <2>2. SetState(s) /\ Active /\ UNCHANGED <<exec, clean, cmd, latch, known>>
    BY <1>2 DEF Continue, Active, Ended
  <2> HIDE DEF s
  <2> QED
    BY <2>1, <2>2, SetStateKeeps, SameExecs, SendsNoRecovery DEF Typed
<1>3. CASE Stop
  <2> DEFINE s == [loop EXCEPT !.state = "cancelled", !.manual = FALSE]
  <2>1. /\ s \in Sessions /\ s.round = loop.round /\ s.current = loop.current /\ s.obs = loop.obs /\ s.state = "cancelled"
    BY DEF Typed, Sessions, LoopStates, Ended
  <2>2. SetState(s) /\ Active /\ ForceExit /\ UNCHANGED <<clean, latch, known>>
    BY <1>3 DEF Stop
  <2> HIDE DEF s
  <2> QED
    BY <2>1, <2>2, SetStateKeeps, ForceExitKeeps, SendsNoRecovery
<1> QED
  BY <1>1, <1>2, <1>3

\* The stopping and the deadline branch: the session concludes when no
\* execution is active, and waits for the force exit otherwise.
LEMMA ConcludingKeeps ==
    ASSUME Limits, Typed, ProcessStopping \/ ProcessDeadline
    PROVE  SessionKept
<1> USE DEF env, battery
<1>1. CASE ProcessStopping
  <2>1. PICK st \in {"resting", "failed", "completed"} :
           /\ SetState([Cleared(loop) EXCEPT !.state = st]) \/ SetState([loop EXCEPT !.state = st])
           /\ st = "completed" => cmd.force \in {"none", "stopped"}
    BY <1>1 DEF ProcessStopping
  <2>2. Active /\ ~ExecActive /\ UNCHANGED <<exec, clean, cmd, latch, known>>
    BY <1>1 DEF ProcessStopping, Active, Ended
  <2>3. st \in LoopStates
    BY <2>1 DEF LoopStates, Ended
  <2>4. CASE SetState([Cleared(loop) EXCEPT !.state = st])
    BY <2>1, <2>2, <2>3, <2>4, ClearedTyped, SetStateKeeps, SameExecs, SendsNoRecovery DEF Typed
  <2>5. CASE SetState([loop EXCEPT !.state = st])
    <3>1. /\ [loop EXCEPT !.state = st] \in Sessions
          /\ [loop EXCEPT !.state = st].round = loop.round
          /\ [loop EXCEPT !.state = st].current = loop.current
          /\ [loop EXCEPT !.state = st].obs = loop.obs
          /\ [loop EXCEPT !.state = st].state = st
      BY <2>3 DEF Typed, Sessions
    <3> QED
      BY <2>1, <2>2, <2>5, <3>1, SetStateKeeps, SameExecs, SendsNoRecovery DEF Typed
  <2> QED
    BY <2>1, <2>4, <2>5
<1>2. CASE ProcessDeadline
  <2> DEFINE s == [loop EXCEPT !.state = AfterDeadline]
  <2>1. /\ s \in Sessions /\ s.round = loop.round /\ s.current = loop.current
        /\ s.obs = loop.obs /\ s.state = "completed" => ~ExecActive
    BY DEF Typed, Sessions, AfterDeadline, LoopStates, Ended
  <2>2. /\ SetState(s) /\ Active /\ loop.state # "stopping" /\ ForceExit
        /\ UNCHANGED <<clean, latch, known>>
    BY <1>2 DEF ProcessDeadline, Supervise
  <2>3. ExecsKept /\ cmd' \in Orders /\ RecoversCleanly
    BY <2>2, ForceExitKeeps, SendsNoRecovery
  <2>4. s.obs \in {0, loop.obs}
    BY <2>1
  <2>5. s.state = "completed" =>
           ~ExecActive /\ (loop.state = "stopping" => cmd.force \in {"none", "stopped"})
    BY <2>1, <2>2
  <2> HIDE DEF s
  <2> QED
    BY <2>1, <2>2, <2>3, <2>4, <2>5, SetStateKeeps
<1> QED
  BY <1>1, <1>2
\* A session at rest that is not healthy observes; one that runs rests after
\* its task, observes a task that was held up, or ends with the battery.
LEMMA RunningKeeps ==
    ASSUME Limits, Typed, ProcessPaused \/ ProcessRunning
    PROVE  SessionKept
<1>1. CASE ProcessPaused
  <2>1. /\ ExecsKept /\ cmd' \in Orders /\ cmd'.recover = cmd.recover
        /\ UNCHANGED <<loop, clean, latch, known>>
    BY <1>1, AskPauseKeeps DEF ProcessPaused, env, battery
  <2> QED
    BY <2>1 DEF SessionKept, Typed, WindowIsClean, LatchIsIdle, Active, CompletesStopped,
                RecoversCleanly
<1>2. CASE ProcessRunning
  <2>0. Active /\ UNCHANGED clean /\ loop.state = "running"
    BY <1>2 DEF ProcessRunning, Unheld, Going, Supervise
  <2>1. CASE /\ SetState([loop EXCEPT !.state = "resting", !.attempt = 0])
             /\ UNCHANGED <<exec, cmd, latch, known>>
    <3> DEFINE s == [loop EXCEPT !.state = "resting", !.attempt = 0]
    <3>1. 0 \in 0 .. MaxAttempts /\ "resting" \in LoopStates
      BY DEF Limits, LoopStates
    <3>2. /\ s \in Sessions /\ s.round = loop.round /\ s.current = loop.current /\ s.obs = loop.obs /\ s.state = "resting"
      BY <3>1 DEF Typed, Sessions
    <3>3. SetState(s)
      BY <2>1
    <3> HIDE DEF s
    <3> QED
      BY <2>0, <2>1, <3>2, <3>3, SetStateKeeps, SameExecs, SendsNoRecovery DEF Typed
  <2>2. CASE BeginObservation(Exec.code) /\ UNCHANGED <<exec, cmd, latch, known>>
    <3>1. Exec.code \in Codes
      BY ExecTyped DEF Executions
    <3> QED
      BY <2>0, <2>2, <3>1, BeginObservationKeeps
  <2>3. CASE Terminate(<<"exec", loop.current>>)
    <3>1. <<"exec", loop.current>> # NoKey
      BY KeysAreKeys
    <3> QED
      BY <2>0, <2>3, <3>1, TerminateKeeps
  <2> QED
    BY <1>2, <2>1, <2>2, <2>3 DEF ProcessRunning
<1> QED
  BY <1>1, <1>2
\* The observing branch: a sample that is safe lengthens the window, one that
\* is not starts it over, and a recovery is sent when the window is long enough.
LEMMA ObservingKeeps ==
    ASSUME Limits, Typed,
           ObserveMoving \/ ObserveUnsafe \/ ObserveSafe \/ ObservedReplace \/ ObservedRecover
    PROVE  SessionKept
<1> USE DEF env, battery
<1>0. Active /\ loop.state = "observing" /\ ~loop.manual /\ UNCHANGED <<latch, known>>
  BY DEF ObserveMoving, ObserveUnsafe, ObserveSafe, ObservedReplace, ObservedRecover, Observed,
         Observing, Unheld, Going, Supervise
<1>1. CASE ObserveMoving
  <2>1. /\ SetState([Cleared(loop) EXCEPT !.state = "running"])
        /\ UNCHANGED <<exec, clean, cmd>> /\ "running" \in LoopStates
    BY <1>1 DEF ObserveMoving, LoopStates
  <2> QED
    BY <1>0, <2>1, ClearedTyped, SetStateKeeps, SameExecs, SendsNoRecovery DEF Typed
<1>2. CASE ObserveUnsafe \/ ObserveSafe
  <2>1. /\ cmd' = cmd /\ exec' = exec
        /\ \/ loop' = [loop EXCEPT !.obs = 0]
           \/ /\ loop' = [loop EXCEPT !.obs = @ + 1] /\ loop.obs <= Observation
              /\ clean' = (clean \/ loop.obs = 0)
        /\ clean' = FALSE \/ clean' = (clean \/ loop.obs = 0)
    BY <1>2 DEF ObserveUnsafe, ObserveSafe, WindowAfterUnsafe
  <2>2. /\ loop' \in Sessions /\ loop'.state = loop.state
        /\ loop'.round = loop.round /\ loop'.current = loop.current
    <3>1. 0 \in 0 .. Observation + 1
      BY DEF Limits
    <3>2. loop.obs <= Observation => loop.obs + 1 \in 0 .. Observation + 1
      BY DEF Limits, Typed, Sessions
    <3> QED
      BY <2>1, <3>1, <3>2 DEF Typed, Sessions
  <2>3. WindowIsClean => WindowIsClean'
    <3>1. loop'.obs = 0 \/ clean' = (clean \/ loop.obs = 0)
      BY <2>1 DEF Typed, Sessions
    <3>2. ~(0 > 0) /\ (loop.obs = 0 \/ loop.obs > 0)
      BY DEF Typed, Sessions
    <3>3. clean' = FALSE \/ clean' = (clean \/ loop.obs = 0)
      BY <2>1
    <3> QED
      BY <3>1, <3>2, <3>3, Zenon DEF WindowIsClean
  <2> QED
    BY <1>0, <2>1, <2>2, <2>3, SameExecs
       DEF SessionKept, Typed, LatchIsIdle, CompletesStopped, RecoversCleanly
<1>3. CASE ObservedReplace
  <2>1. /\ [loop EXCEPT !.state = "resting"] \in Sessions
        /\ [loop EXCEPT !.state = "resting"].round = loop.round
        /\ [loop EXCEPT !.state = "resting"].current = loop.current
        /\ [loop EXCEPT !.state = "resting"].obs = loop.obs
        /\ [loop EXCEPT !.state = "resting"].state = "resting"
    BY DEF Typed, Sessions, LoopStates
  <2>2. SetState([loop EXCEPT !.state = "resting"]) /\ UNCHANGED <<exec, clean, cmd>>
    BY <1>3 DEF ObservedReplace
  <2> QED
    BY <1>0, <2>1, <2>2, SetStateKeeps, SameExecs, SendsNoRecovery DEF Typed
<1>4. CASE ObservedRecover
  <2>1. CASE BudgetSpent
    <3>1. BeginRecoveryStop /\ clean' = clean
      BY <1>4, <2>1 DEF ObservedRecover
    <3> QED
      BY <1>0, <3>1, BeginRecoveryStopKeeps
  <2>2. CASE ~BudgetSpent
    <3> DEFINE s == [loop EXCEPT !.state = "recovering", !.attempt = @ + 1]
    <3>1. loop.attempt + 1 \in 0 .. MaxAttempts /\ "recovering" \in LoopStates
      BY <2>2 DEF BudgetSpent, Limits, Typed, Sessions, LoopStates
    <3>2. /\ s \in Sessions /\ s.round = loop.round /\ s.current = loop.current /\ s.obs = loop.obs
          /\ s.state = "recovering"
      BY <3>1 DEF Typed, Sessions
    <3>3. /\ SetState(s) /\ UNCHANGED <<exec, clean>>
          /\ cmd' = [cmd EXCEPT !.recover = "open"]
      BY <1>4, <2>2 DEF ObservedRecover
    <3>4. WindowIsClean => RecoversCleanly
      <4>1. Safe /\ loop.obs > Observation
        BY <1>4 DEF ObservedRecover, Observed
      <4>2. loop.obs > 0
        BY <4>1 DEF Limits, Typed, Sessions
      <4> QED
        BY <1>0, <4>1, <4>2 DEF WindowIsClean, RecoversCleanly
    <3>5. cmd' \in Orders
      BY <3>3 DEF Typed, Orders
    <3> HIDE DEF s
    <3> QED
      BY <1>0, <3>2, <3>3, <3>4, <3>5, SetStateKeeps, SameExecs
  <2> QED
    BY <2>1, <2>2
<1> QED
  BY <1>1, <1>2, <1>3, <1>4

\* The recovering branch: the session runs again, observes again or gives up.
LEMMA RecoveringKeeps ==
    ASSUME Limits, Typed, ProcessRecovering
    PROVE  SessionKept
<1> USE DEF env, battery
<1>0. Active /\ UNCHANGED <<clean, latch, known>>
  BY DEF ProcessRecovering, Recovering, Unheld, Going, Supervise
<1>1. CASE BackToObserving /\ UNCHANGED <<exec, cmd>>
  <2> DEFINE s == [loop EXCEPT !.state = "observing", !.obs = 0, !.waiting = FALSE]
  <2>1. /\ s \in Sessions /\ s.round = loop.round /\ s.current = loop.current /\ s.obs = 0 /\ s.state = "observing"
    <3>1. 0 \in 0 .. Observation + 1 /\ "observing" \in LoopStates
      BY DEF Limits, LoopStates
    <3> QED
      BY <3>1 DEF Typed, Sessions
  <2>2. SetState(s)
    BY <1>1 DEF BackToObserving
  <2> HIDE DEF s
  <2> QED
    BY <1>0, <1>1, <2>1, <2>2, SetStateKeeps, SameExecs, SendsNoRecovery DEF Typed
<1>2. CASE SetState([Cleared(loop) EXCEPT !.state = "running"]) /\ UNCHANGED <<exec, cmd>>
  <2>1. "running" \in LoopStates
    BY DEF LoopStates
  <2> QED
    BY <1>0, <1>2, <2>1, ClearedTyped, SetStateKeeps, SameExecs, SendsNoRecovery DEF Typed
<1>3. CASE SetState([loop EXCEPT !.waiting = TRUE]) /\ UNCHANGED <<exec, cmd>>
  <2>1. /\ [loop EXCEPT !.waiting = TRUE] \in Sessions
        /\ [loop EXCEPT !.waiting = TRUE].round = loop.round
        /\ [loop EXCEPT !.waiting = TRUE].current = loop.current
        /\ [loop EXCEPT !.waiting = TRUE].obs = loop.obs
        /\ [loop EXCEPT !.waiting = TRUE].state = loop.state
    BY DEF Typed, Sessions
  <2> QED
    BY <1>0, <1>3, <2>1, SetStateKeeps, SameExecs, SendsNoRecovery DEF Typed, Active, Ended
<1>4. CASE BeginRecoveryStop
  BY <1>0, <1>4, BeginRecoveryStopKeeps
<1> QED
  BY <1>1, <1>2, <1>3, <1>4 DEF ProcessRecovering

-----------------------------------------------------------------------------
(* The rounds. *)

\* _dispatch_round: the next round starts when no other is active.
Dispatch ==
    /\ Active /\ latch = NoKey /\ NextRound \in Rounds
    /\ NoneActive
    /\ exec' = [exec EXCEPT ![NextRound] = [state |-> "dispatching", code |-> "none"]]
    /\ cmd' = NoCmd
    /\ SetState([Cleared(loop) EXCEPT !.state = "running", !.round = NextRound,
                                      !.current = NextRound])
    /\ UNCHANGED <<clean, latch, known>>

\* A session at rest dispatches its next round or observes.
LEMMA RestKeepsOrDispatches ==
    ASSUME Limits, Typed, ProcessRest
    PROVE  SessionKept \/ Dispatch
<1>0. Active /\ UNCHANGED <<clean, latch, known>>
  BY DEF ProcessRest, Unheld, Going, Supervise, env, battery
<1>1. CASE BeginObservation("UNHEALTHY") /\ UNCHANGED <<exec, cmd>>
  BY <1>0, <1>1, BeginObservationKeeps
<1>2. CASE ~(BeginObservation("UNHEALTHY") /\ UNCHANGED <<exec, cmd>>)
  BY <1>0, <1>2 DEF ProcessRest, Dispatch
<1> QED
  BY <1>1, <1>2

\* Whatever a step of the supervisor does, it keeps the session or dispatches.
LEMMA ProcessKeepsOrDispatches ==
    ASSUME Limits, Typed, Process
    PROVE  SessionKept \/ Dispatch
BY ConcludingKeeps, RunningKeeps, ObservingKeeps, RecoveringKeeps, RestKeepsOrDispatches
   DEF Process
\* With at most one round active, there is one or none.
LEMMA OneRoundActive ==
    ASSUME NEW e, \A q, r \in Rounds : IsActive(e[q]) /\ IsActive(e[r]) => q = r
    PROVE  Cardinality({r \in Rounds : IsActive(e[r])}) <= 1
<1> DEFINE S == {r \in Rounds : IsActive(e[r])}
<1>1. CASE S = {}
  <2>1. Cardinality({}) = 0
    BY FS_EmptySet
  <2> QED
    BY <1>1, <2>1
<1>2. ASSUME NEW n \in S PROVE Cardinality(S) <= 1
  <2>1. S = {n}
    OBVIOUS
  <2>2. Cardinality({n}) = 1
    BY FS_Singleton
  <2> HIDE DEF S
  <2> QED
    BY <2>1, <2>2
<1> QED
  BY <1>1, <1>2

\* What a step may do to the rounds, to a recovery, to a completed session and
\* under the latch.
StepOK == SeparatesRounds /\ RecoversCleanly /\ CompletesStopped /\ LatchedIsStopped

\* A dispatched round is the only one that is active.
LEMMA DispatchKeeps ==
    ASSUME Limits, IInv, Dispatch
    PROVE  IInv' /\ StepOK
<1> DEFINE s == [Cleared(loop) EXCEPT !.state = "running", !.round = NextRound,
                                      !.current = NextRound]
<1>1. /\ NextRound \in Rounds /\ NextRound \in 0 .. MaxRounds /\ NextRound > loop.round
  BY DEF Dispatch, Limits, Rounds, NextRound, IInv, Typed, Sessions
<1>2. /\ s \in Sessions /\ s.obs = loop.obs /\ s.state = "running"
      /\ s.round = NextRound /\ s.current = NextRound
  <2>1. 0 \in 0 .. MaxAttempts /\ "none" \in Codes /\ "running" \in LoopStates
    BY DEF Limits, Codes, LoopStates
  <2> QED
    BY <1>1, <2>1 DEF Cleared, IInv, Typed, Sessions
<1>3. SetState(s)
  BY DEF Dispatch
<1> HIDE DEF s
<1>4. /\ loop' \in Sessions /\ loop'.round = NextRound /\ loop'.current = NextRound
      /\ loop'.state = "running" /\ loop'.obs = 0
  BY <1>2, <1>3, SetStateTyped
<1>5. /\ exec' = [exec EXCEPT ![NextRound] = [state |-> "dispatching", code |-> "none"]]
      /\ exec' \in [Rounds -> Executions] /\ cmd' = NoCmd /\ cmd' \in Orders
      /\ latch = NoKey /\ latch' = NoKey /\ clean' = clean
  BY <1>1 DEF Dispatch, IInv, Typed, Executions, ExecStates, Codes, NoCmd, Orders
<1>6. Typed' /\ LatchIsIdle'
  BY <1>4, <1>5 DEF Typed, LatchIsIdle
<1>7. WindowIsClean'
  BY <1>4, <1>5 DEF IInv, WindowIsClean
<1>8. \A r \in Rounds : r # NextRound => exec'[r] = exec[r] /\ ~IsActive(exec'[r])
  BY <1>5 DEF IInv, Typed, Dispatch, NoneActive
<1>9. RoundsInOrder'
  <2>1. \A r \in Rounds : r > NextRound => r > loop.round /\ r # NextRound
    BY <1>1 DEF Rounds, NextRound, IInv, Typed, Sessions, Limits
  <2>2. \A r \in Rounds : r > NextRound => exec'[r] = NoExec
    BY <1>8, <2>1 DEF IInv, RoundsInOrder
  <2>3. \A q, r \in Rounds : IsActive(exec'[q]) /\ IsActive(exec'[r]) => q = r
    BY <1>8
  <2> QED
    BY <1>4, <2>2, <2>3 DEF RoundsInOrder
<1>10. SeparatesRounds
  <2>1. Cardinality({r \in Rounds : IsActive(exec'[r])}) <= 1
    BY <1>9, OneRoundActive DEF RoundsInOrder
  <2>2. exec[NextRound] = NoExec
    BY <1>1 DEF IInv, RoundsInOrder
  <2>3. \A r \in Rounds : exec[r].state \in ExecEnded => exec'[r] = exec[r]
    BY <1>8, <2>2 DEF NoExec, ExecEnded
  <2> QED
    BY <2>1, <2>3, Zenon DEF SeparatesRounds
<1>11. RecoversCleanly /\ CompletesStopped /\ LatchedIsStopped
  BY <1>4, <1>5 DEF RecoversCleanly, CompletesStopped, LatchedIsStopped, NoCmd
<1> QED
  BY <1>6, <1>7, <1>9, <1>10, <1>11 DEF IInv, StepOK

-----------------------------------------------------------------------------
(* The inductive invariant. *)

\* The initial state satisfies the inductive invariant.
LEMMA InitInv == Limits /\ Init => IInv
<1> SUFFICES ASSUME Limits, Init PROVE IInv
  OBVIOUS
<1>1. loop \in Sessions /\ loop.obs = 0 /\ loop.round = 0 /\ loop.current = 0
  <2>1. /\ 0 \in 0 .. MaxRounds /\ 0 \in 0 .. MaxAttempts /\ 0 \in 0 .. Observation + 1
        /\ "starting" \in LoopStates /\ "none" \in Codes /\ 0 \in Nat
    BY DEF Limits, LoopStates, Codes
  <2> QED
    BY <2>1 DEF Init, Sessions
<1>2. \A r \in Rounds : exec[r] = NoExec
  BY DEF Init
<1>3. Typed
  BY <1>1 DEF Init, Typed, Executions, NoExec, ExecStates, Codes, Orders, NoCmd
<1>4. WindowIsClean /\ LatchIsIdle
  BY <1>1 DEF Init, WindowIsClean, LatchIsIdle
<1>5. RoundsInOrder
  BY <1>2 DEF RoundsInOrder, NoExec, IsActive
<1> QED
  BY <1>3, <1>4, <1>5 DEF IInv

\* A step that makes no execution active keeps the invariant.
LEMMA SessionStep ==
    ASSUME Limits, IInv, SessionKept
    PROVE  IInv' /\ StepOK
<1>1. Typed' /\ WindowIsClean' /\ LatchIsIdle'
  BY DEF SessionKept, ExecsKept, IInv, Typed
<1>2. \A r \in Rounds : IsActive(exec'[r]) => IsActive(exec[r])
  BY DEF SessionKept, ExecsKept
<1>3. RoundsInOrder'
  <2>1. \A r \in Rounds : r > loop.round => exec'[r] = NoExec
    BY DEF SessionKept, ExecsKept, IInv, RoundsInOrder, NoExec, IsActive
  <2>2. \A q, r \in Rounds : IsActive(exec'[q]) /\ IsActive(exec'[r]) => q = r
    BY <1>2 DEF IInv, RoundsInOrder
  <2>3. loop'.round = loop.round
    BY DEF SessionKept
  <2> QED
    BY <2>1, <2>2, <2>3 DEF RoundsInOrder
<1>4. SeparatesRounds
  <2>1. Cardinality({r \in Rounds : IsActive(exec'[r])}) <= 1
    BY <1>3, OneRoundActive DEF RoundsInOrder
  <2>2. \A r \in Rounds : exec[r].state \in ExecEnded => exec'[r] = exec[r]
    BY DEF SessionKept, ExecsKept, IsActive
  <2> QED
    BY <2>1, <2>2, Zenon DEF SeparatesRounds
<1>5. LatchedIsStopped
  <2> SUFFICES ASSUME latch' # NoKey
               PROVE  ~Active' /\ \A r \in Rounds : IsActive(exec'[r]) =>
                                   latch # NoKey /\ IsActive(exec[r])
    BY DEF LatchedIsStopped
  <2>1. ~Active'
    BY <1>1 DEF LatchIsIdle
  <2>2. latch = NoKey => \A r \in Rounds : ~IsActive(exec'[r])
    BY DEF SessionKept
  <2> QED
    BY <1>2, <2>1, <2>2
<1> QED
  BY <1>1, <1>3, <1>4, <1>5 DEF SessionKept, IInv, StepOK

\* A step of the robot keeps it.
LEMMA EdgeStep ==
    ASSUME Limits, IInv, Edge
    PROVE  IInv' /\ StepOK
<1>1. /\ UNCHANGED <<loop, clean, latch, known>>
      /\ cmd' \in Orders
      /\ cmd'.recover = "open" => cmd.recover = "open"
      /\ exec' = exec \/ \E r \in Rounds, e \in Executions : EdgeRow(r, e)
  BY EdgeShape DEF IInv
<1>2. CompletesStopped /\ RecoversCleanly
  BY <1>1 DEF CompletesStopped, RecoversCleanly
<1>3. CASE exec' = exec
  <2>1. SessionKept
    BY <1>1, <1>2, <1>3, SameExecs
       DEF SessionKept, IInv, Typed, WindowIsClean, LatchIsIdle, Active
  <2> QED
    BY <2>1, SessionStep
<1>4. ASSUME NEW n \in Rounds, NEW e \in Executions, EdgeRow(n, e)
      PROVE  IInv' /\ StepOK
  <2>1. exec' \in [Rounds -> Executions] /\ \A r \in Rounds : r # n => exec'[r] = exec[r]
    BY <1>4 DEF EdgeRow, IInv, Typed
  <2>2. \/ IsActive(exec[n])
        \/ exec[n].state = "timed_out" /\ \A q \in Rounds : q # n => ~IsActive(exec[q])
    BY <1>4 DEF EdgeRow
  <2>3. \A q \in Rounds : q # n => ~IsActive(exec'[q])
    BY <2>1, <2>2 DEF IInv, RoundsInOrder
  <2>4. Typed' /\ WindowIsClean' /\ LatchIsIdle'
    BY <1>1, <2>1 DEF IInv, Typed, WindowIsClean, LatchIsIdle, Active
  <2>5. RoundsInOrder'
    <3>1. exec[n] # NoExec
      BY <2>2 DEF NoExec, IsActive
    <3>2. \A r \in Rounds : r > loop.round => exec'[r] = NoExec
      BY <2>1, <3>1 DEF IInv, RoundsInOrder
    <3>3. \A q, r \in Rounds : IsActive(exec'[q]) /\ IsActive(exec'[r]) => q = r
      BY <2>3
    <3> QED
      BY <1>1, <3>2, <3>3 DEF RoundsInOrder
  <2>6. SeparatesRounds
    <3>1. Cardinality({r \in Rounds : IsActive(exec'[r])}) <= 1
      BY <2>5, OneRoundActive DEF RoundsInOrder
    <3>2. exec[n].state \in ExecEnded => exec[n].state = "timed_out"
      BY <2>2 DEF IsActive
    <3>3. \A r \in Rounds :
             exec[r].state \in ExecEnded => exec'[r] = exec[r] \/ exec[r].state = "timed_out"
      BY <2>1, <3>2
    <3> QED
      BY <3>1, <3>3, Zenon DEF SeparatesRounds
  <2>7. LatchedIsStopped
    <3>1. \A r \in Rounds : IsActive(exec'[r]) => IsActive(exec[r]) \/ exec[r].state = "timed_out"
      BY <2>2, <2>3
    <3> QED
      BY <1>1, <2>4, <3>1 DEF LatchedIsStopped, LatchIsIdle
  <2> QED
    BY <1>2, <2>4, <2>5, <2>6, <2>7 DEF IInv, StepOK
<1> QED
  BY <1>1, <1>3, <1>4
\* The latch is set by telemetry and alerts, and cleared at the re-arm level.
LEMMA BatteryKeeps ==
    ASSUME Limits, Typed, TakeTelemetry \/ \E p \in alerts : Alert(p)
    PROVE  SessionKept
<1>1. CASE TakeTelemetry
  <2>0. UNCHANGED clean
    BY <1>1 DEF TakeTelemetry
  <2>1. CASE UNCHANGED <<loop, exec, cmd, known>> /\ latch' \in {NoKey, latch}
    BY <2>0, <2>1, SameExecs
       DEF SessionKept, Typed, WindowIsClean, LatchIsIdle, Active, CompletesStopped, RecoversCleanly
  <2>2. CASE Terminate(<<"center", phase>>)
    <3>1. <<"center", phase>> # NoKey
      BY KeysAreKeys
    <3> QED
      BY <2>0, <2>2, <3>1, TerminateKeeps
  <2> QED
    BY <1>1, <2>1, <2>2 DEF TakeTelemetry, Telemetry
<1>2. ASSUME NEW p, Alert(p) PROVE SessionKept
  <2>1. <<"edge", p>> # NoKey
    BY KeysAreKeys
  <2> QED
    BY <1>2, <2>1, TerminateKeeps DEF Alert
<1> QED
  BY <1>1, <1>2

\* A new session starts where the last one ended, and not under the latch.
LEMMA CreateKeeps ==
    ASSUME Limits, Typed, Create
    PROVE  SessionKept
<1>1. loop' = [Cleared(loop) EXCEPT !.state = "starting", !.current = 0, !.manual = FALSE, !.obs = 0]
  BY DEF Create
<1>2. /\ loop' \in Sessions /\ loop'.round = loop.round /\ loop'.current = 0
      /\ loop'.obs = 0 /\ loop'.state = "starting"
  <2>1. /\ 0 \in 0 .. MaxAttempts /\ 0 \in 0 .. Observation + 1 /\ 0 \in 0 .. MaxRounds
        /\ "none" \in Codes /\ "starting" \in LoopStates
    BY DEF Limits, Codes, LoopStates
  <2> QED
    BY <1>1, <2>1 DEF Cleared, Typed, Sessions
<1>3. cmd' = NoCmd /\ latch' = NoKey /\ UNCHANGED <<exec, clean>>
  BY DEF Create, battery
<1>4. cmd' \in Orders
  BY <1>3 DEF NoCmd, Orders
<1> QED
  BY <1>2, <1>3, <1>4, SameExecs
     DEF SessionKept, WindowIsClean, LatchIsIdle, CompletesStopped, RecoversCleanly, NoCmd

\* Health, time and the battery touch no row.
LEMMA WorldKeeps ==
    ASSUME Limits, Typed, WorldMoves \/ UNCHANGED vars
    PROVE  SessionKept
BY SameExecs
   DEF WorldMoves, vars, loopVars, env, battery, SessionKept, Typed, WindowIsClean, LatchIsIdle,
       Active, CompletesStopped, RecoversCleanly

\* Every step keeps the inductive invariant and does only what it may.
LEMMA NextStep ==
    ASSUME Limits, IInv, [Next]_vars
    PROVE  IInv' /\ StepOK
<1>0. Typed
  BY DEF IInv
<1>1. CASE Pause \/ Continue \/ Stop
  BY <1>0, <1>1, OperatorKeeps, SessionStep
<1>2. CASE Create
  BY <1>0, <1>2, CreateKeeps, SessionStep
<1>3. CASE Process
  BY <1>0, <1>3, ProcessKeepsOrDispatches, SessionStep, DispatchKeeps
<1>4. CASE TakeTelemetry \/ \E p \in alerts : Alert(p)
  BY <1>0, <1>4, BatteryKeeps, SessionStep
<1>5. CASE Edge
  BY <1>5, EdgeStep
<1>6. CASE WorldMoves \/ UNCHANGED vars
  BY <1>0, <1>6, WorldKeeps, SessionStep
<1> QED
  BY <1>1, <1>2, <1>3, <1>4, <1>5, <1>6 DEF Next

-----------------------------------------------------------------------------
(* The theorems. *)

\* It contains the type invariant that is checked.
LEMMA InvTyped == IInv => TypeOK
BY DEF IInv, Typed, Sessions, Orders, TypeOK, LoopStates

\* The inductive invariant holds throughout.
THEOREM Invariance == ASSUME Limits PROVE Spec => []IInv
<1>1. Init => IInv
  BY InitInv
<1>2. IInv /\ [Next]_vars => IInv'
  BY NextStep
<1> QED
  BY <1>1, <1>2, PTL DEF Spec

\* The rows of the loop stay well formed: the recovery budget and the window
\* stay within their limits (process, _begin_observation).
THEOREM TypeCorrect == ASSUME Limits PROVE Spec => []TypeOK
BY InvTyped, Invariance, PTL

\* What latches the low battery leaves no loop and no execution active, and
\* none becomes active under the latch but one that the center had given up
\* and the Edge still has (terminate_low_battery).
THEOREM LatchedAlwaysStopped == ASSUME Limits PROVE Spec => [][LatchedIsStopped]_vars
<1>1. IInv /\ [Next]_vars => [LatchedIsStopped]_vars
  BY NextStep DEF StepOK
<1> QED
  BY <1>1, Invariance, PTL DEF Spec

\* Rounds are never active together, a recovery follows a clean window, and a
\* completed loop has stopped (_dispatch_round, process).
THEOREM StepsAreSupervised ==
    ASSUME Limits PROVE Spec => [][SeparatesRounds /\ RecoversCleanly /\ CompletesStopped]_vars
<1>1. IInv /\ [Next]_vars => [SeparatesRounds /\ RecoversCleanly /\ CompletesStopped]_vars
  BY NextStep DEF StepOK
<1> QED
  BY <1>1, Invariance, PTL DEF Spec

=============================================================================
