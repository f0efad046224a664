----------------------------- MODULE CenterTask -----------------------------
(***************************************************************************)
(* The center's view of one robot: its task executions and the commands    *)
(* sent for them (platform backend: task_service.py, command_service.py,   *)
(* message_handlers.py, mqtt_client.py, run_device_worker.py).             *)
(*                                                                         *)
(* Three parties write the two tables.  API requests, the scheduler and    *)
(* the patrol loop create executions and commands; the MQTT thread handles *)
(* the Edge's messages; both work in IMMEDIATE transactions and are single *)
(* actions here, an exception being the action not happening.  The         *)
(* housekeeping thread publishes commands and expires them without a       *)
(* transaction: it reads, writes and reads again in steps of its own.      *)
(*                                                                         *)
(* The Edge is only known by its messages, which may come at any time, in  *)
(* any order and any number of times, and carry any version.               *)
(***************************************************************************)
EXTENDS Integers

CONSTANTS
    Executions,     \* identities of task executions of the robot
    Commands,       \* identities of remote commands
    Controls,       \* bound: the commands asked for besides start
    Messages,       \* bound: the kinds of message the Edge sends
    EdgeStates,     \* bound: the task states the Edge reports
    ErrorCodes,     \* bound: the error codes of the failures it reports
    Faults,         \* bound: what may fail, the "broker" or the "thread"
    MaxVersion      \* bound: the greatest version a message of the Edge leads to

\* What an Edge reports as the state of its task.
ASSUME EdgeStatesAssumption ==
    EdgeStates \subseteq {"accepted", "running", "pausing", "paused", "resuming",
                         "cancelling", "cancelled", "completed", "failed",
                         "interrupted"}
ASSUME ErrorCodesAssumption ==
    ErrorCodes \subseteq {"COMMAND_TIMED_OUT", "COMMAND_EXPIRED", "OTHER"}
ASSUME MessagesAssumption ==
    Messages \subseteq {"ack", "progress", "result", "event", "sync"}
ASSUME FaultsAssumption == Faults \subseteq {"broker", "thread"}
ASSUME VersionAssumption == MaxVersion \in Nat
ASSUME ControlsAssumption ==
    Controls \subseteq {"pause", "resume", "resume_forward", "cancel", "recover",
                      "force_exit"}

VARIABLES
    exec,     \* TaskExecution: state, state_version and failure_code
    cmd,      \* RemoteCommand: command_type, task_execution, status, error_code
    sent,     \* commands handed to the MQTT client: the Edge may answer them
    worker    \* the housekeeping thread: the rows it has fetched and not yet
              \* treated, the one it is at, and where it is with it

vars == <<exec, cmd, sent, worker>>

Active == {"created", "dispatching", "accepted", "running", "pausing", "paused",
           "resuming", "cancelling", "interrupted"}
Terminal == {"completed", "failed", "cancelled", "timed_out", "rejected"}
States == Active \cup Terminal

\* failure_code and error_code: none, the two that speak of time, or any other.
Timeout == "COMMAND_TIMED_OUT"
Expired == "COMMAND_EXPIRED"
Codes == {"", Timeout, Expired, "OTHER"}

\* COMMAND_TARGET_STATES of the commands that ask for a state.
ControlTarget == [pause |-> "pausing", resume |-> "resuming",
                  resume_forward |-> "resuming", cancel |-> "cancelling"]
Types == {"start", "recover", "force_exit"} \cup DOMAIN ControlTarget

OpenStatuses == {"created", "published", "accepted", "executing"}
Statuses == OpenStatuses
            \cup {"rejected", "succeeded", "failed", "cancelled", "timed_out"}

\* Wrong variant: the state's name is taken for the status.
StatusOfVerbatim(state) == state

\* EXECUTION_COMMAND_STATUS.
StatusOf(state) == IF state = "completed" THEN "succeeded" ELSE state

Absent == [state |-> "none", version |-> 0, code |-> ""]
NoCommand == [type |-> "none", exec |-> "none", status |-> "none", code |-> ""]
AtRest == [pc |-> "idle", todo |-> {}, cmd |-> "none", target |-> "none"]

TypeOK ==
    /\ exec \in [Executions ->
                   [state : States \cup {"none"}, version : Nat, code : Codes]]
    /\ cmd \in [Commands ->
                  [type : Types \cup {"none"}, exec : Executions \cup {"none"},
                   status : Statuses \cup {"none"}, code : Codes]]
    /\ sent \subseteq Commands
    /\ worker \in [pc : {"idle", "publish", "mark", "expire", "save", "look",
                         "apply"},
                   todo : SUBSET Commands,
                   cmd : Commands \cup {"none"}, target : States \cup {"none"}]

IsActive(e) == exec[e].state \in Active
IsTerminal(e) == exec[e].state \in Terminal
IsStartOf(c, e) == cmd[c].type = "start" /\ cmd[c].exec = e
OnEdge(e) == \E c \in sent : IsStartOf(c, e)

Init ==
    /\ exec = [e \in Executions |-> Absent]
    /\ cmd = [c \in Commands |-> NoCommand]
    /\ sent = {}
    /\ worker = AtRest

-----------------------------------------------------------------------------
(* TaskExecutionService. *)

\* ALLOWED_TRANSITIONS, with every terminal state added to every active one.
AllowedFrom ==
    [created     |-> {"dispatching", "pausing", "resuming", "cancelling",
                      "interrupted"},
     dispatching |-> {"accepted", "pausing", "resuming", "cancelling",
                      "interrupted"},
     accepted    |-> {"running", "pausing", "resuming", "cancelling",
                      "interrupted"},
     running     |-> {"pausing", "paused", "resuming", "cancelling",
                      "interrupted"},
     pausing     |-> {"accepted", "running", "paused", "resuming", "cancelling",
                      "interrupted"},
     paused      |-> {"running", "pausing", "resuming", "cancelling",
                      "interrupted"},
     resuming    |-> {"accepted", "running", "paused", "pausing", "cancelling",
                      "interrupted"},
     cancelling  |-> {"interrupted"},
     interrupted |-> {"accepted", "paused", "running", "pausing", "resuming",
                      "cancelling"}]

\* Wrong variant: an ended execution can end again.
AllowedToEndAgain(from, to) ==
    to \in Terminal \/ (from \in Active /\ to \in AllowedFrom[from])

Allowed(from, to) ==
    from \in Active /\ (to \in AllowedFrom[from] \/ to \in Terminal)

\* Wrong variant: a cancelled execution leaves its start command open.
EndsStartUnlessCancelled(state) == state \in Terminal \ {"cancelled"}

EndsStart(state) == state \in Terminal

\* reconcile_task_start_for_execution: the start command of an execution that
\* became x takes over its terminal state.
Reconciled(commands, e, x) ==
    [c \in Commands |->
        IF /\ commands[c].type = "start"
           /\ commands[c].exec = e
           /\ EndsStart(x.state)
           /\ commands[c].status # StatusOf(x.state)
        THEN [commands[c] EXCEPT
                 !.status = StatusOf(x.state),
                 !.code = IF x.state = "completed" THEN ""
                          ELSE IF x.state = "timed_out" /\ x.code = "" THEN Timeout
                          ELSE x.code]
        ELSE commands[c]]

\* Wrong variant: a repeated version is taken for a new one.
CanMoveAgain(e, target, version) ==
    Allowed(exec[e].state, target) /\ version >= exec[e].version

\* transition: refused when the table forbids it or the version is not new.
CanMove(e, target, version) ==
    Allowed(exec[e].state, target) /\ version > exec[e].version

Moved(e, target, version, code) ==
    [state |-> target, version |-> version,
     code |-> IF code = "" THEN exec[e].code ELSE code]

\* commands is the command table as the caller has left it so far.
Move(e, target, version, code, commands) ==
    /\ CanMove(e, target, version)
    /\ exec' = [exec EXCEPT ![e] = Moved(e, target, version, code)]
    /\ cmd' = Reconciled(commands, e, Moved(e, target, version, code))

Later(v, w) == IF v > w THEN v ELSE w

\* reconcile_edge_active_after_center_timeout: an execution the center gave up
\* waiting for is active again.  The table's unique constraint refuses it when
\* the robot has another active execution.
TimedOutByCenter(e) ==
    /\ exec[e].state \in {"timed_out", "interrupted"}
    /\ exec[e].code = Timeout

\* Wrong variant: nobody asks for the robot's other executions.
NotAlone(e) == TRUE

\* uniq_active_task_execution_per_robot.
Alone(e) == \A f \in Executions \ {e} : ~IsActive(f)

Reactivate(e, target, version, code, commands) ==
    LET next == Later(exec[e].version, version) + 1 IN
    /\ TimedOutByCenter(e)
    /\ target \in Active \ {"created", "dispatching"}
    /\ Alone(e)
    /\ next <= MaxVersion
    /\ exec' = [exec EXCEPT ![e] = [state |-> target, version |-> next,
                                    code |-> code]]
    /\ cmd' = commands

-----------------------------------------------------------------------------
(* Requests: task and loop dispatch, scheduler, operator. *)

NewCommand(c, type, e) ==
    [cmd EXCEPT ![c] = [type |-> type, exec |-> e, status |-> "created",
                        code |-> ""]]

Unused(c) == cmd[c] = NoCommand

\* create_execution followed by CommandService.create of its task.start: the
\* execution is created in version 0 and moves to dispatching.
StartTask(e, c) ==
    /\ exec[e] = Absent
    /\ Unused(c)
    /\ \A f \in Executions : ~IsActive(f)
    /\ exec' = [exec EXCEPT ![e] = [state |-> "dispatching", version |-> 1,
                                    code |-> ""]]
    /\ cmd' = NewCommand(c, "start", e)
    /\ UNCHANGED <<sent, worker>>

\* CommandService.create of a pause, resume, resume_forward or cancel.
Control(e, c, type) ==
    /\ type \in Controls
    /\ Unused(c)
    /\ Move(e, ControlTarget[type], exec[e].version + 1, "",
            NewCommand(c, type, e))
    /\ UNCHANGED <<sent, worker>>

\* CommandService.create of a force_exit, for any execution the robot has had:
\* whichever execution is active is cancelled at once, the Edge's answer is
\* not awaited.
ForceExit(e, c) ==
    /\ "force_exit" \in Controls
    /\ exec[e] # Absent
    /\ Unused(c)
    /\ \/ \E f \in Executions :
             Move(f, "cancelled", exec[f].version + 1, "OTHER",
                  NewCommand(c, "force_exit", e))
       \/ /\ \A f \in Executions : ~IsActive(f)
          /\ cmd' = NewCommand(c, "force_exit", e)
          /\ UNCHANGED exec
    /\ UNCHANGED <<sent, worker>>

\* create_task_recovery, by the patrol loop, leaves the execution alone.
Recover(e, c) ==
    /\ "recover" \in Controls
    /\ IsActive(e)
    /\ Unused(c)
    /\ cmd' = NewCommand(c, "recover", e)
    /\ UNCHANGED <<exec, sent, worker>>

\* The management command reconcile_task_start_commands, run by hand, closes
\* the start command of an execution that has ended.
RepairStart(e) ==
    /\ IsTerminal(e)
    /\ Reconciled(cmd, e, exec[e]) # cmd
    /\ cmd' = Reconciled(cmd, e, exec[e])
    /\ UNCHANGED <<exec, sent, worker>>

-----------------------------------------------------------------------------
(* The housekeeping thread fetches the commands in status created and      *)
(* publishes them one after the other.                                     *)

\* The thread turns to c, one of the rows it has fetched.
At(c, pc) == [worker EXCEPT !.pc = pc, !.cmd = c, !.todo = @ \ {c}]

\* It is done with a row and goes on to the next.
Following(pc) ==
    IF worker.todo = {} THEN AtRest
    ELSE [AtRest EXCEPT !.pc = pc, !.todo = worker.todo]

FetchPending ==
    LET pending == {c \in Commands : cmd[c].status = "created"} IN
    /\ worker = AtRest
    /\ pending # {}
    /\ worker' = [AtRest EXCEPT !.pc = "publish", !.todo = pending]
    /\ UNCHANGED <<exec, cmd, sent>>

Publish(c) ==
    /\ worker.pc = "publish"
    /\ c \in worker.todo
    /\ sent' = sent \cup {c}
    /\ worker' = At(c, "mark")
    /\ UNCHANGED <<exec, cmd>>

\* mark_published writes the status without looking at it.
MarkPublished ==
    /\ worker.pc = "mark"
    /\ cmd' = [cmd EXCEPT ![worker.cmd].status = "published"]
    /\ worker' = Following("publish")
    /\ UNCHANGED <<exec, sent>>

\* mark_publish_failed: the command is closed, its execution is not touched,
\* the other rows are left for the next round.  An unconnected MQTT client
\* reports an error and yet keeps the message for when it is connected again.
PublishFails(c) ==
    /\ "broker" \in Faults
    /\ worker.pc = "publish"
    /\ c \in worker.todo
    /\ cmd' = [cmd EXCEPT ![c].status = "failed", ![c].code = "OTHER"]
    /\ sent' \in {sent, sent \cup {c}}
    /\ worker' = AtRest
    /\ UNCHANGED exec

\* An exception, or the end of the process, at any point.
HousekeepingFails ==
    /\ "thread" \in Faults
    /\ worker # AtRest
    /\ worker' = AtRest
    /\ UNCHANGED <<exec, cmd, sent>>

-----------------------------------------------------------------------------
(* It fetches the commands that are open and overdue and expires them:     *)
(* mark_timeout, with the status as it was when the row was fetched.       *)

\* Wrong variant: a command that was acknowledged is never overdue.
CanExpireUnanswered(c) == cmd[c].status \in {"created", "published"}

CanExpire(c) == cmd[c].status \in OpenStatuses

FetchOverdue(overdue) ==
    /\ worker = AtRest
    /\ overdue # {}
    /\ \A c \in overdue : CanExpire(c)
    /\ worker' = [AtRest EXCEPT !.pc = "expire", !.todo = overdue]
    /\ UNCHANGED <<exec, cmd, sent>>

\* A start command whose execution has ended follows the execution instead.
TimeoutPrecheck(c) ==
    LET e == cmd[c].exec
        ended == cmd[c].type = "start" /\ IsTerminal(e)
    IN
    /\ worker.pc = "expire"
    /\ c \in worker.todo
    /\ \/ /\ ended
          /\ cmd' = Reconciled(cmd, e, exec[e])
          /\ worker' = IF worker.todo = {c} THEN AtRest
                       ELSE [worker EXCEPT !.todo = @ \ {c}]
       \/ /\ ~ended
          /\ worker' = At(c, "save")
          /\ UNCHANGED cmd
    /\ UNCHANGED <<exec, sent>>

\* The status is written over whatever it has become since it was read.
TimeoutSave ==
    /\ worker.pc = "save"
    /\ cmd' = [cmd EXCEPT ![worker.cmd].status = "timed_out",
                          ![worker.cmd].code = Timeout]
    /\ worker' = [worker EXCEPT !.pc = "look"]
    /\ UNCHANGED <<exec, sent>>

\* Wrong variants: the timeout of a start ends the task; it leaves a task that
\* was never acknowledged alone.
StartTimeoutEnds(state) == "timed_out"
StartTimeoutSkips(state) ==
    IF state \in {"dispatching", "interrupted"} THEN "none" ELSE "interrupted"

StartTimeoutTarget(state) ==
    IF state = "interrupted" THEN "none" ELSE "interrupted"

\* Where a timeout of a command of this type takes an execution it finds in
\* this state; "none" when it leaves the execution alone.
TimeoutTarget(type, state) ==
    CASE type = "force_exit" \/ state \notin Active -> "none"
      [] type = "start" /\ state \in Active -> StartTimeoutTarget(state)
      [] type = "pause" /\ state \in Active ->
            IF state = "pausing" THEN "running" ELSE "none"
      [] type = "resume" /\ state \in Active ->
            IF state = "resuming" THEN "paused" ELSE "none"
      [] OTHER -> "timed_out"

TimeoutLook ==
    LET c == worker.cmd
        target == TimeoutTarget(cmd[c].type, exec[cmd[c].exec].state)
    IN
    /\ worker.pc = "look"
    /\ worker' = IF target = "none" THEN Following("expire")
                 ELSE [worker EXCEPT !.pc = "apply", !.target = target]
    /\ UNCHANGED <<exec, cmd, sent>>

\* The transition sees the execution as it is now; its refusal is swallowed.
TimeoutApply ==
    LET e == cmd[worker.cmd].exec
        version == exec[e].version + 1
    IN
    /\ worker.pc = "apply"
    /\ \/ Move(e, worker.target, version, Timeout, cmd)
       \/ /\ ~Allowed(exec[e].state, worker.target)
          /\ UNCHANGED <<exec, cmd>>
    /\ worker' = Following("expire")
    /\ UNCHANGED sent

-----------------------------------------------------------------------------
(* Messages of the Edge about a command. *)

SetStatus(c, status) == [cmd EXCEPT ![c].status = status]

\* _handle_command_ack.  A version of 0 counts as not given.
Ack(c, accepted, version) ==
    LET e == cmd[c].exec
        acked == SetStatus(c, IF accepted THEN "accepted" ELSE "rejected")
        edge == IF version = 0 THEN exec[e].version + 1 ELSE version
    IN
    /\ c \in sent
    /\ cmd[c].status \in {"created", "published", "timed_out"}
    /\ cmd[c].type = "start" => edge <= MaxVersion
    /\ \/ /\ cmd[c].type # "start"
          /\ cmd' = acked
          /\ UNCHANGED exec
       \/ /\ cmd[c].type = "start"
          /\ accepted
          /\ TimedOutByCenter(e)
          /\ Reactivate(e, "accepted", edge, "OTHER", acked)
       \/ /\ cmd[c].type = "start"
          /\ accepted
          /\ ~TimedOutByCenter(e)
          /\ Move(e, "accepted", edge, "", acked)
       \/ /\ cmd[c].type = "start"
          /\ ~accepted
          /\ Move(e, "rejected", edge, "OTHER", acked)
    /\ UNCHANGED <<sent, worker>>

\* A start command that only the center's timer closed.
ClosedByTimer(c) ==
    cmd[c].type = "start" /\ cmd[c].status = "timed_out" /\ cmd[c].code = Timeout

\* Wrong variant: progress is taken for any command.
TakesAnyProgress(c) == TRUE

TakesProgress(c) == cmd[c].status \in OpenStatuses \/ ClosedByTimer(c)

\* _handle_command_progress: it also reopens a start command the center had
\* timed out, and with it the execution.
Progress(c, version) ==
    LET e == cmd[c].exec
        late == ClosedByTimer(c) /\ TimedOutByCenter(e)
        edge == IF version = 0 THEN exec[e].version ELSE version
    IN
    /\ c \in sent
    /\ TakesProgress(c)
    /\ \/ /\ late
          /\ Reactivate(e, "accepted", edge, "OTHER", SetStatus(c, "executing"))
       \/ /\ ~late
          /\ cmd' = SetStatus(c, "executing")
          /\ UNCHANGED exec
    /\ UNCHANGED <<sent, worker>>

\* A command.result: the status, the task's final state if the Edge gives one,
\* and the error code.  A failure may come without a state.
Answers(status, finals, codes) ==
    [status : {status}, final : finals, code : codes]

Results(type) ==
    Answers("failed", {"none"}, ErrorCodes)
    \cup Answers("timed_out", {"none"}, ErrorCodes \ {"OTHER"})
    \cup CASE type = "start" ->
               Answers("succeeded", {"completed"}, {""})
               \cup Answers("failed", {"failed"}, {"OTHER"})
               \cup Answers("cancelled", {"cancelled"}, {"OTHER"})
           [] type = "force_exit" -> Answers("succeeded", {"cancelled"}, {""})
           [] OTHER -> Answers("succeeded", EdgeStates, {""})

\* Where a result takes the execution: what it says, or, if it says nothing,
\* what the failure of this type of command, with this code, means.
ResultTarget(type, result, state) ==
    CASE result.final # "none" -> result.final
      [] result.final = "none" /\ type = "pause" ->
            IF state = "pausing" THEN "running" ELSE state
      [] result.final = "none" /\ type = "resume" ->
            IF state = "resuming" THEN "paused" ELSE state
      [] result.final = "none" /\ type = "recover" -> state
      [] OTHER ->
            IF result.code \in {Expired, Timeout} THEN "timed_out" ELSE "failed"

\* _handle_command_result: status and code are taken as they come; the
\* execution follows unless it is already there, and a refusal rejects the
\* message.  Without an error code the payload may still give a reason.
Result(c, result, version) ==
    LET e == cmd[c].exec
        target == ResultTarget(cmd[c].type, result, exec[e].state)
        next == IF result.final = "none" THEN exec[e].version + 1
                ELSE Later(version, exec[e].version + 1)
        reasons == IF result.code = "" THEN {"", "OTHER"} ELSE {result.code}
        answered == [cmd EXCEPT ![c].status = result.status,
                                ![c].code = result.code]
    IN
    /\ c \in sent
    /\ \/ /\ target = exec[e].state
          /\ cmd' = answered
          /\ UNCHANGED exec
       \/ /\ target # exec[e].state
          /\ next <= MaxVersion
          /\ \E code \in reasons : Move(e, target, next, code, answered)
    /\ UNCHANGED <<sent, worker>>

-----------------------------------------------------------------------------
(* Messages of the Edge about a task. *)

\* _handle_task_event: a change of state, with or without a reason.
TaskEvent(e, state, version, code) ==
    /\ OnEdge(e)
    /\ Move(e, state, version, code, cmd)
    /\ UNCHANGED <<sent, worker>>

\* task.safe_hold.
SafeHold(e, version) ==
    /\ OnEdge(e)
    /\ exec[e].state # "paused"
    /\ Move(e, "paused", version, "OTHER", cmd)
    /\ UNCHANGED <<sent, worker>>

\* task.progress and task.round_started raise the version in any state.
VersionRaised(e, version) ==
    /\ OnEdge(e)
    /\ version > exec[e].version
    /\ exec' = [exec EXCEPT ![e].version = version]
    /\ UNCHANGED <<cmd, sent, worker>>

\* _handle_sync of a reconnecting Edge.
Sync(e, state, version, code) ==
    /\ OnEdge(e)
    /\ state # exec[e].state
    /\ \/ Reactivate(e, state, version, "OTHER", cmd)
       \/ /\ ~(TimedOutByCenter(e) /\ state \in Active)
          /\ Move(e, state, version,
                  IF state \in (Terminal \ {"completed"}) \cup {"paused"}
                  THEN "OTHER" ELSE code, cmd)
    /\ UNCHANGED <<sent, worker>>

-----------------------------------------------------------------------------

Request ==
    \E e \in Executions :
        \/ \E c \in Commands :
              \/ StartTask(e, c)
              \/ \E type \in DOMAIN ControlTarget : Control(e, c, type)
              \/ ForceExit(e, c)
              \/ Recover(e, c)
        \/ RepairStart(e)

Housekeeping ==
    \/ FetchPending
    \/ \E overdue \in SUBSET Commands : FetchOverdue(overdue)
    \/ \E c \in Commands : Publish(c) \/ PublishFails(c) \/ TimeoutPrecheck(c)
    \/ MarkPublished
    \/ TimeoutSave
    \/ TimeoutLook
    \/ TimeoutApply
    \/ HousekeepingFails

\* Versions a message can bring; one below the execution's is as good as it.
NewVersions(e) == exec[e].version..MaxVersion

CommandMessage ==
    \E c \in sent : \E version \in {0} \cup NewVersions(cmd[c].exec) :
        \/ /\ "ack" \in Messages
           /\ \E accepted \in BOOLEAN : Ack(c, accepted, version)
        \/ "progress" \in Messages /\ Progress(c, version)
        \/ /\ "result" \in Messages
           /\ \E result \in Results(cmd[c].type) : Result(c, result, version)

TaskMessage ==
    \E e \in {f \in Executions : OnEdge(f)} : \E version \in NewVersions(e) :
        \/ \E state \in EdgeStates, code \in {"", "OTHER"} :
              \/ "event" \in Messages /\ TaskEvent(e, state, version, code)
              \/ "sync" \in Messages /\ Sync(e, state, version, code)
        \/ "event" \in Messages /\ (SafeHold(e, version) \/ VersionRaised(e, version))

Next == Request \/ Housekeeping \/ CommandMessage \/ TaskMessage

\* The housekeeping loop never stops, fetches what waits to be published and
\* every command that is overdue, and finishes what it has begun.  Nobody else
\* is obliged to do anything.
Fairness ==
    /\ SF_vars(FetchPending)
    /\ \A c \in Commands :
          SF_vars(\E overdue \in SUBSET Commands :
                     c \in overdue /\ FetchOverdue(overdue))
    /\ WF_vars(\E c \in Commands : Publish(c) \/ PublishFails(c))
    /\ WF_vars(\E c \in Commands : TimeoutPrecheck(c))
    /\ WF_vars(MarkPublished)
    /\ WF_vars(TimeoutSave)
    /\ WF_vars(TimeoutLook)
    /\ WF_vars(TimeoutApply)

Spec == Init /\ [][Next]_vars

FairSpec == Spec /\ Fairness

-----------------------------------------------------------------------------
(* Properties. *)

\* The robot never has two active executions, whatever combination of new
\* tasks and of executions brought back by a late Edge (create_execution,
\* reconcile_edge_active_after_center_timeout).
OneActive == \A e, f \in Executions : IsActive(e) /\ IsActive(f) => e = f

\* A version never goes back, and every change of state takes a new one, so
\* that of two reports about a task the later one is recognised.
VersionsAdvance ==
    [][\A e \in Executions :
         /\ exec'[e].version >= exec[e].version
         /\ exec'[e].state # exec[e].state => exec'[e].version > exec[e].version
      ]_vars

\* An execution that has ended stays as it ended; only one that timed out can
\* come back.
EndIsFinal ==
    [][\A e \in Executions :
         IsTerminal(e) /\ exec'[e].state # exec[e].state =>
             exec[e].state = "timed_out" /\ IsActive(e)']_vars

\* An execution times out in two ways only.  The center's timer ends it when a
\* cancel, a forward resume or a recovery went unanswered, and says so in the
\* code, which is what lets the Edge bring it back; the timer of a start, a
\* pause or a resume never does, nor a timer for another task: "Keep the
\* execution active and block a new task" (mark_timeout).  Or the Edge itself
\* answers, to something other than a pause, a resume or a recovery, that time
\* ran out (_handle_command_result).
EndedByTimeout ==
    [][\A e \in Executions :
         exec[e].state # "timed_out" /\ exec'[e].state = "timed_out" =>
             \/ /\ worker' # worker
                /\ cmd[worker.cmd].exec = e
                /\ cmd[worker.cmd].type \in {"cancel", "resume_forward", "recover"}
                /\ exec'[e].code = Timeout
             \/ /\ worker' = worker
                /\ exec'[e].code \in {Timeout, Expired}
                /\ \E c \in sent :
                      /\ cmd[c].exec = e
                      /\ cmd[c].type \notin {"pause", "resume", "recover"}
      ]_vars

\* Whatever ends an execution - a result, an event, a sync, a rejection, a
\* force exit, a timeout - closes its start command accordingly in the same
\* step (reconcile_task_start_for_execution).
StartFollowsEnd ==
    [][\A e \in Executions, c \in Commands :
         IsStartOf(c, e) /\ ~IsTerminal(e) /\ IsTerminal(e)' =>
             cmd'[c].status = StatusOf(exec'[e].state)]_vars

\* No message, however late or repeated, changes the start command of an
\* execution that has ended: only the housekeeping thread's own unconditional
\* writes to a command it has fetched can.  The exceptions are answers blamed
\* on time, whose status is saved although the execution is already timed_out:
\* a failure stays on the command, and after COMMAND_EXPIRED such an answer can
\* make the command look closed by the center's timer, for progress to reopen.
StartStaysClosed ==
    [][\A e \in Executions, c \in Commands :
         /\ IsStartOf(c, e) /\ IsTerminal(e) /\ IsTerminal(e)'
         /\ cmd[c].status = StatusOf(exec[e].state)
         => \/ cmd'[c].status = cmd[c].status
            \/ worker' # worker /\ c \in worker.todo \cup {worker.cmd}
            \/ /\ exec[e].state = "timed_out"
               /\ exec[e].code = Expired \/ cmd'[c].status = "failed"]_vars

\* All active states are one phase of the abstract lifecycle; ended ones keep
\* their name.
Phase(state) == IF state \in Active THEN "active" ELSE state

Lifecycle == INSTANCE TaskLifecycle WITH
    phase <- [e \in Executions |-> Phase(exec[e].state)],
    version <- [e \in Executions |-> exec[e].version]

\* Requests, housekeeping and messages together implement the lifecycle
\* promised in TaskLifecycle.
ImplementsLifecycle == Lifecycle!Spec

\* Every command is eventually closed, by the Edge or by the timeout sweeper.
CommandCloses ==
    \A c \in Commands :
        cmd[c].status \in OpenStatuses ~> cmd[c].status \notin OpenStatuses

\* An execution whose start command was published does not stay in
\* dispatching, where only a force exit could free the robot, even if the Edge
\* never answers.
DispatchResolves ==
    \A e \in Executions, c \in Commands :
        /\ exec[e].state = "dispatching"
        /\ IsStartOf(c, e)
        /\ cmd[c].status \in {"published", "accepted", "executing"}
        ~> exec[e].state # "dispatching"

=============================================================================
