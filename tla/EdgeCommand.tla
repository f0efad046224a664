---------------------------- MODULE EdgeCommand ----------------------------
(***************************************************************************)
(* Handling of remote commands on the robot: CommandProcessor              *)
(* .handle_command, the processed_commands and task_context tables of      *)
(* LocalStore, the task controls of TaskExecutor, and a restart of the     *)
(* Edge process at any point.                                              *)
(*                                                                         *)
(* Every copy of a command is handled by a thread of its own.  The copy    *)
(* looks its id up, validates, saves and publishes an ack, and only then   *)
(* executes and saves and publishes a result.  task.start is different: it *)
(* prepares the task before the ack and launches it after it; its result   *)
(* is written when the task ends.  The executor's lock makes each of its   *)
(* operations one step; nothing else is locked.                            *)
(*                                                                         *)
(* An execution is named by its start command.  Nav2 is a process of its   *)
(* own: `goal' is the execution its live goal belongs to, and it survives  *)
(* a restart of the Edge.                                                  *)
(***************************************************************************)
EXTENDS Naturals, Sequences, SequencesExt

CONSTANTS
    Commands,      \* command ids
    Kind,          \* message_type of each command
    Target,        \* the start command whose execution it is about
    Threads,       \* bound: command copies being handled at once
    Overlap,       \* may a copy arrive while another copy is being handled?
    MaxSends,      \* bound: copies of each command the center publishes
    MaxCrashes     \* bound: restarts of the Edge process

Starts == {c \in Commands : Kind[c] = "start"}
Terminal == {"completed", "failed", "cancelled", "timed_out", "rejected"}
NoContext == [exec |-> "none", state |-> "none"]
Idle == [pc |-> "idle", cmd |-> "none", outcome |-> "none"]

VARIABLES
    sends,       \* copies of each command published by the center so far
    wire,        \* copies not delivered yet
    thread,      \* the mqtt-command threads
    processed,   \* table processed_commands: ack_json and result_json
    rows,        \* table task_context, oldest update first
    context,     \* TaskExecutor.context
    ending,      \* the executor lock is held by a task end that has still to
                 \* report this start command's result
    goal,        \* the execution Nav2's live goal belongs to, or "none"
    boot,        \* "down", "starting" (connected, interruption not reported), "up"
    crashes,
    effects,     \* history: how often each command took effect
    sent         \* history: the acks and results published

vars == <<sends, wire, thread, processed, rows, context, ending, goal, boot,
          crashes, effects, sent>>

Init ==
    /\ sends = [c \in Commands |-> 0]
    /\ wire = [c \in Commands |-> 0]
    /\ thread = [t \in Threads |-> Idle]
    /\ processed = [c \in Commands |-> [ack |-> "none", result |-> "none"]]
    /\ rows = << >>
    /\ context = NoContext
    /\ ending = "none"
    /\ goal = "none"
    /\ boot = "up"
    /\ crashes = 0
    /\ effects = [c \in Commands |-> 0]
    /\ sent = {}

----------------------------------------------------------------------------
(* The store. *)

\* LocalStore.save_task_context and clear_task_context: the row moves to the
\* end, which is the order of updated_at.
SaveRow(e, state) ==
    rows' = Append(SelectSeq(rows, LAMBDA r : r.exec # e), [exec |-> e, state |-> state])

\* LocalStore.load_active_task_context: the most recently updated open row.
OpenRows == SelectSeq(rows, LAMBDA r : r.state \notin Terminal)
ActiveRow == IF OpenRows = << >> THEN NoContext ELSE Last(OpenRows)

\* LocalStore.save_command_ack: an upsert of the ack that keeps the result.
SaveAck(c, ack) ==
    processed' = [processed EXCEPT ![c].ack = ack]

\* LocalStore.save_command_result: an upsert of the result that keeps the ack.
SaveResult(c, result) ==
    processed' = [processed EXCEPT ![c].result = result]

Ack(c, v) == [type |-> "ack", cmd |-> c, value |-> v]
Result(c, v) == [type |-> "result", cmd |-> c, value |-> v]

----------------------------------------------------------------------------
(* The task executor, one step per locked operation. *)

Unlocked == ending = "none"
HasActiveTask == context # NoContext /\ context.state \notin Terminal

\* A transition of the context and _persist.
SetContext(state) ==
    /\ context' = [context EXCEPT !.state = state]
    /\ SaveRow(context.exec, state)

\* force_exit: whatever context there is is cancelled and dropped.  With
\* report_start_result its start command gets the result "cancelled".
DropContext ==
    /\ context' = NoContext
    /\ goal' = "none"
    /\ IF context = NoContext THEN UNCHANGED rows ELSE SaveRow(context.exec, "cancelled")

PauseFrom == {"accepted", "running", "pausing", "resuming", "interrupted"}
ResumeFrom == {"accepted", "paused", "pausing", "resuming", "interrupted"}
CancelFrom == {"running", "paused", "pausing", "resuming", "interrupted"}

\* pause_task: cancel the goal, confirm the stop.  When either fails the
\* error leaves the state at pausing.
PauseTask(c, outcome) ==
    /\ context.exec = Target[c] /\ context.state \in PauseFrom \cup {"paused"}
    /\ \/ /\ context.state = "paused" /\ outcome = "succeeded"
          /\ UNCHANGED <<context, rows, goal>>
       \/ /\ context.state # "paused" /\ outcome = "succeeded"
          /\ SetContext("paused") /\ goal' = "none"
       \/ /\ context.state # "paused" /\ outcome = "failed"
          /\ SetContext("pausing") /\ UNCHANGED goal
    /\ UNCHANGED <<processed, sent>>

\* resume_task and, for a task the center found held, recover_task.
ResumeTask(c, outcome) ==
    /\ context.exec = Target[c] /\ context.state \in ResumeFrom \cup {"running"}
    /\ \/ /\ context.state = "running" /\ outcome = "succeeded"
          /\ UNCHANGED <<context, rows, goal>>
       \/ /\ context.state # "running" /\ outcome = "succeeded"
          /\ SetContext("running") /\ goal' = context.exec
       \/ /\ context.state # "running" /\ outcome = "failed"
          /\ SetContext("paused") /\ UNCHANGED goal
    /\ UNCHANGED <<processed, sent>>

\* recover_task: not for a task that runs or is still being started.
RecoverTask(c, outcome) ==
    \/ /\ context.exec = Target[c] /\ context.state \in {"running", "accepted"}
       /\ outcome = "succeeded"
       /\ UNCHANGED <<context, rows, goal, processed, sent>>
    \/ context.state \notin {"running", "accepted"} /\ ResumeTask(c, outcome)

\* cancel_task: the context stays, in state cancelled, and the start command
\* of the task gets its result.
CancelTask(c, outcome) ==
    /\ context.exec = Target[c]
    /\ \/ /\ context.state \in Terminal /\ outcome = "succeeded"
          /\ UNCHANGED <<context, rows, goal, processed, sent>>
       \/ /\ context.state \in CancelFrom /\ outcome = "succeeded"
          /\ SetContext("cancelled") /\ goal' = "none"
          /\ SaveResult(context.exec, "cancelled")
          /\ sent' = sent \cup {Result(context.exec, "cancelled")}
       \/ /\ context.state \in CancelFrom /\ outcome = "failed"
          /\ SetContext("cancelling") /\ UNCHANGED <<goal, processed, sent>>

\* force_exit as a command: it compares no execution id.
ForceExit(outcome) ==
    /\ outcome = "succeeded"
    /\ DropContext
    /\ IF context = NoContext
       THEN UNCHANGED <<processed, sent>>
       ELSE /\ SaveResult(context.exec, "cancelled")
            /\ sent' = sent \cup {Result(context.exec, "cancelled")}

\* _execute of the task commands; none of them applies to the context it finds.
Refused(c, outcome) ==
    /\ outcome = "failed"
    /\ Kind[c] # "force_exit"
    /\ UNCHANGED <<context, rows, goal, processed, sent>>

Perform(c, outcome) ==
    \/ Kind[c] = "pause" /\ PauseTask(c, outcome)
    \/ Kind[c] = "resume" /\ ResumeTask(c, outcome)
    \/ Kind[c] = "recover" /\ RecoverTask(c, outcome)
    \/ Kind[c] = "cancel" /\ CancelTask(c, outcome)
    \/ Kind[c] = "force_exit" /\ ForceExit(outcome)

----------------------------------------------------------------------------
(* The center and the broker. *)

Handling(c) == wire[c] > 0 \/ \E t \in Threads : thread[t].cmd = c

\* publish_pending_commands: a worker that dies between the publish and
\* mark_published publishes the command again when it is back.  A control is
\* sent for a task whose start was acknowledged, a force exit at any time.
Publish(c) ==
    /\ sends[c] < MaxSends[c]
    /\ sends[c] > 0 => Overlap \/ ~Handling(c)
    /\ Kind[c] = "start" => Overlap \/ \A s \in Starts : ~Handling(s)
    /\ Kind[c] \notin {"start", "force_exit"} => Ack(Target[c], "accepted") \in sent
    /\ sends' = [sends EXCEPT ![c] = @ + 1]
    /\ wire' = [wire EXCEPT ![c] = @ + 1]
    /\ UNCHANGED <<thread, processed, rows, context, ending, goal, boot, crashes, effects, sent>>

\* EdgeMqttClient._on_message: a thread for every copy.
Deliver(t, c) ==
    /\ boot # "down" /\ wire[c] > 0 /\ thread[t] = Idle
    /\ wire' = [wire EXCEPT ![c] = @ - 1]
    /\ thread' = [thread EXCEPT ![t] = [Idle EXCEPT !.pc = "lookup", !.cmd = c]]
    /\ UNCHANGED <<sends, processed, rows, context, ending, goal, boot, crashes, effects, sent>>

----------------------------------------------------------------------------
(* handle_command. *)

Goto(t, pc) == thread' = [thread EXCEPT ![t].pc = pc]
GotoWith(t, pc, outcome) ==
    thread' = [thread EXCEPT ![t].pc = pc, ![t].outcome = outcome]
Finish(t) == thread' = [thread EXCEPT ![t] = Idle]

\* Wrong variant: only a row with a result counts as processed.
KnownByResult(c) == processed[c].result # "none"

\* get_processed_command finds a row as soon as an ack or a result was saved.
Known(c) == processed[c].ack # "none" \/ processed[c].result # "none"

\* A known command is answered from the row, with whatever the row holds.
Answer(t) ==
    LET c == thread[t].cmd IN
    /\ thread[t].pc = "lookup" /\ Known(c)
    /\ sent' = sent \cup {Ack(c, v) : v \in {processed[c].ack} \ {"none"}}
                    \cup {Result(c, v) : v \in {processed[c].result} \ {"none"}}
    /\ Finish(t)
    /\ UNCHANGED <<sends, wire, processed, rows, context, ending, goal, boot, crashes, effects>>

Lookup(t) ==
    /\ thread[t].pc = "lookup" /\ ~Known(thread[t].cmd)
    /\ Goto(t, "admit")
    /\ UNCHANGED <<sends, wire, processed, rows, context, ending, goal, boot, crashes, effects, sent>>

\* Expiry, the expected state version and, for a start, the navigation stack,
\* the route and SafetyPolicy.validate_task_start.  Any of them may refuse;
\* an active task always refuses a start.  The executor lock is not held.
Admit(t) ==
    LET c == thread[t].cmd IN
    /\ thread[t].pc = "admit"
    /\ \/ Goto(t, "refuse")
       \/ GotoWith(t, "result", "failed")      \* unexpected exception, no ack
       \/ /\ Kind[c] = "start" /\ ~HasActiveTask /\ Goto(t, "prepare")
       \/ /\ Kind[c] # "start" /\ Goto(t, "ack")
    /\ UNCHANGED <<sends, wire, processed, rows, context, ending, goal, boot, crashes, effects, sent>>

\* prepare_task_start: a new context, or LOCALIZATION_COMMAND_BUSY and the
\* other ProtocolErrors.  It does not look at the context it replaces.
Prepare(t) ==
    LET c == thread[t].cmd IN
    /\ thread[t].pc = "prepare" /\ Unlocked
    /\ \/ /\ context' = [exec |-> c, state |-> "accepted"]
          /\ SaveRow(c, "accepted")
          /\ Goto(t, "ack")
       \/ Goto(t, "refuse") /\ UNCHANGED <<context, rows>>
    /\ UNCHANGED <<sends, wire, processed, ending, goal, boot, crashes, effects, sent>>

\* The ack is stored first and published second.
StoreAck(t) ==
    LET c == thread[t].cmd IN
    /\ thread[t].pc \in {"ack", "refuse"}
    /\ SaveAck(c, IF thread[t].pc = "ack" THEN "accepted" ELSE "rejected")
    /\ Goto(t, IF thread[t].pc = "ack" THEN "sendAck" ELSE "sendRefusal")
    /\ UNCHANGED <<sends, wire, rows, context, ending, goal, boot, crashes, effects, sent>>

SendAck(t) ==
    LET c == thread[t].cmd IN
    /\ thread[t].pc = "sendAck"
    /\ sent' = sent \cup {Ack(c, "accepted")}
    /\ Goto(t, IF Kind[c] = "start" THEN "initialize" ELSE "execute")
    /\ UNCHANGED <<sends, wire, processed, rows, context, ending, goal, boot, crashes, effects>>

SendRefusal(t) ==
    /\ thread[t].pc = "sendRefusal"
    /\ sent' = sent \cup {Ack(thread[t].cmd, "rejected")}
    /\ Finish(t)
    /\ UNCHANGED <<sends, wire, processed, rows, context, ending, goal, boot, crashes, effects>>

\* Localization, activation of the execution group, the final admission.
Initialize(t) ==
    /\ thread[t].pc = "initialize"
    /\ Goto(t, "launch") \/ Goto(t, "undo")
    /\ UNCHANGED <<sends, wire, processed, rows, context, ending, goal, boot, crashes, effects, sent>>

\* launch_prepared_task: it asks for an accepted context, not for this one.
Launch(t) ==
    /\ thread[t].pc = "launch" /\ Unlocked
    /\ \/ /\ context.state = "accepted"
          /\ SetContext("running")
          /\ goal' = context.exec
          /\ effects' = [effects EXCEPT ![thread[t].cmd] = @ + 1]
          /\ Finish(t)
       \/ Goto(t, "undo") /\ UNCHANGED <<context, rows, goal, effects>>
    /\ UNCHANGED <<sends, wire, processed, ending, boot, crashes, sent>>

\* A failed start clears the executor: force_exit(report_start_result=False).
Undo(t) ==
    /\ thread[t].pc = "undo" /\ Unlocked
    /\ DropContext
    /\ GotoWith(t, "result", "failed")
    /\ UNCHANGED <<sends, wire, processed, ending, boot, crashes, effects, sent>>

\* An error after the ack becomes a result, never a second ack.
AfterExecute(outcome) == "result"

Execute(t) ==
    LET c == thread[t].cmd IN
    /\ thread[t].pc = "execute" /\ Unlocked
    /\ \E outcome \in {"succeeded", "failed"} :
          /\ Perform(c, outcome) \/ Refused(c, outcome)
          /\ GotoWith(t, AfterExecute(outcome), outcome)
    /\ effects' = [effects EXCEPT ![c] = @ + 1]
    /\ UNCHANGED <<sends, wire, ending, boot, crashes>>

StoreResult(t) ==
    /\ thread[t].pc = "result"
    /\ SaveResult(thread[t].cmd, thread[t].outcome)
    /\ Goto(t, "sendResult")
    /\ UNCHANGED <<sends, wire, rows, context, ending, goal, boot, crashes, effects, sent>>

SendResult(t) ==
    /\ thread[t].pc = "sendResult"
    /\ sent' = sent \cup {Result(thread[t].cmd, thread[t].outcome)}
    /\ Finish(t)
    /\ UNCHANGED <<sends, wire, processed, rows, context, ending, goal, boot, crashes, effects>>

Handle(t) ==
    \/ Answer(t) \/ Lookup(t) \/ Admit(t) \/ Prepare(t) \/ StoreAck(t)
    \/ SendAck(t) \/ SendRefusal(t) \/ Initialize(t) \/ Launch(t) \/ Undo(t)
    \/ Execute(t) \/ StoreResult(t) \/ SendResult(t)

----------------------------------------------------------------------------
(* Ends of tasks, and the Edge process. *)

\* on_navigation_result at the last waypoint, or _fail: the row becomes
\* terminal before the start command's result is stored.
NavigationEnds ==
    /\ boot # "down" /\ Unlocked /\ context.state = "running" /\ goal = context.exec
    /\ \E state \in {"completed", "failed"} : SetContext(state)
    /\ goal' = "none"
    /\ ending' = context.exec
    /\ UNCHANGED <<sends, wire, thread, processed, boot, crashes, effects, sent>>

\* start_result_callback: EdgeAgentApplication._publish_start_result.
ReportEnd ==
    /\ ending # "none"
    /\ LET v == IF context.state = "completed" THEN "succeeded" ELSE "failed" IN
       /\ SaveResult(ending, v)
       /\ sent' = sent \cup {Result(ending, v)}
    /\ ending' = "none"
    /\ UNCHANGED <<sends, wire, thread, rows, context, goal, boot, crashes, effects>>

\* The process dies: threads and memory are lost, and so are the copies the
\* broker held, because the client connects with clean_start.  Nav2 goes on.
Crash ==
    /\ boot # "down" /\ crashes < MaxCrashes
    /\ boot' = "down" /\ crashes' = crashes + 1
    /\ thread' = [t \in Threads |-> Idle]
    /\ wire' = [c \in Commands |-> 0]
    /\ context' = NoContext /\ ending' = "none"
    /\ UNCHANGED <<sends, processed, rows, goal, effects, sent>>

\* Wrong variant: a restarted Edge continues the task it was running.
RestoredAsItWas(row) == row

\* TaskExecutor.__init__: every open task but a paused one is interrupted.
Restored(row) ==
    IF row = NoContext \/ row.state = "paused" THEN row
    ELSE [row EXCEPT !.state = "interrupted"]

Restart ==
    /\ boot = "down"
    /\ boot' = "starting"
    /\ context' = Restored(ActiveRow)
    /\ IF context' = NoContext THEN UNCHANGED rows ELSE SaveRow(context'.exec, context'.state)
    /\ UNCHANGED <<sends, wire, thread, processed, ending, goal, crashes, effects, sent>>

\* report_startup_interruption, after the broker connection is up: the task
\* fails with EDGE_RESTARTED.  _fail zeroes the velocity; it cancels no goal.
ReportInterruption ==
    /\ boot = "starting" /\ Unlocked
    /\ boot' = "up"
    /\ IF context.state = "interrupted"
       THEN /\ SetContext("failed")
            /\ ending' = context.exec
       ELSE UNCHANGED <<context, rows, ending>>
    /\ UNCHANGED <<sends, wire, thread, processed, goal, crashes, effects, sent>>

Next ==
    \/ \E c \in Commands : Publish(c)
    \/ \E t \in Threads, c \in Commands : Deliver(t, c)
    \/ \E t \in Threads : Handle(t)
    \/ NavigationEnds \/ ReportEnd
    \/ Crash \/ Restart \/ ReportInterruption

Spec == Init /\ [][Next]_vars

\* Threads are scheduled, Nav2 ends every goal, systemd restarts the process.
Fairness ==
    /\ \A t \in Threads : WF_vars(Handle(t))
    /\ WF_vars(NavigationEnds) /\ WF_vars(ReportEnd)
    /\ WF_vars(Restart) /\ WF_vars(ReportInterruption)

FairSpec == Spec /\ Fairness

----------------------------------------------------------------------------
(* Properties. *)

States == Terminal \cup {"accepted", "running", "pausing", "paused", "resuming",
                         "cancelling", "interrupted"}

TypeOK ==
    /\ \A t \in Threads : thread[t].cmd \in Commands \cup {"none"}
    /\ \A c \in Commands :
          /\ processed[c].ack \in {"none", "accepted", "rejected"}
          /\ processed[c].result \in {"none", "succeeded", "failed", "cancelled"}
    /\ context = NoContext \/ (context.exec \in Starts /\ context.state \in States)
    /\ goal \in Starts \cup {"none"}
    /\ ending # "none" => context.exec = ending /\ context.state \in Terminal

\* A command takes effect at most once, however often it is delivered and
\* wherever the Edge is restarted (handle_command; DATABASES.md says of
\* processed_commands that it prevents repeated execution after a resend).
TakesEffectOnce == \A c \in Commands : effects[c] <= 1

\* A command that was answered with a refusal never took effect and never
\* will: the center frees the robot on it (handle_command, save_command_ack).
RefusedHasNoEffect ==
    \A c \in Commands : Ack(c, "rejected") \in sent => effects[c] = 0

\* The answer a command's row holds is never taken back: an ack stays, and a
\* result stays a result (save_command_ack, save_command_result).
KeepsAnswers ==
    \A c \in Commands :
       /\ processed[c].ack # "none" => processed'[c].ack = processed[c].ack
       /\ processed[c].result # "none" => processed'[c].result # "none"

\* Memory never holds a task the store would not bring back after a crash:
\* what the executor is doing is what a restart would report on (_persist).
ContextIsDurable ==
    boot # "down" /\ HasActiveTask => ActiveRow = context

\* At most one task is open in the store, so that a restart reports on every
\* task that was interrupted (load_active_task_context takes one row).
OneOpenRow == Len(OpenRows) <= 1

\* An accepted start does not stay open: it gets a result, or its task's row
\* is terminal, or the task is held by an operator's pause or by a control
\* that failed half way (handle_command, _fail, report_startup_interruption).
Held == \E r \in Range(rows) : r.state \in {"paused", "pausing", "cancelling"}
StartIsConcluded ==
    \A s \in Starts :
        processed[s].ack = "accepted" ~>
            \/ processed[s].result # "none"
            \/ \E r \in Range(rows) : r.exec = s /\ r.state \in Terminal
            \/ Held

=============================================================================
