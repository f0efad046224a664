-------------------------- MODULE CenterTaskProofs --------------------------
(***************************************************************************)
(* Proofs for CenterTask, for any set of executions and commands, any      *)
(* bound on versions and any subset of messages and faults.                *)
(*                                                                         *)
(* Every step is first reduced to one of five things it can do to the      *)
(* executions (StepShape) and to a table of commands in which those that   *)
(* are in use keep their type and execution (Extends); the theorems follow *)
(* from that reduction.                                                    *)
(***************************************************************************)
EXTENDS CenterTask, TLAPS

ExecRecord == [state : States \cup {"none"}, version : Nat, code : Codes]
CmdRecord == [type : Types \cup {"none"}, exec : Executions \cup {"none"},
              status : Statuses \cup {"none"}, code : Codes]

\* The commands of a table that have been created.
InUse(commands) ==
    {c \in Commands : /\ commands[c].type \in Types
                      /\ commands[c].exec \in Executions
                      /\ commands[c].status \in Statuses}

WellFormed(commands) ==
    /\ commands \in [Commands -> CmdRecord]
    /\ \A c \in Commands : commands[c] = NoCommand \/ c \in InUse(commands)

\* The execution exists, or does after this step.
Exists(e) == exec[e].state # "none" \/ exec'[e].state # "none"

\* A later table: a command in use stays what it is but for its status, a new
\* one belongs to an execution that exists.
Extends(commands) ==
    /\ WellFormed(commands)
    /\ \A c \in InUse(commands) : c \in InUse(cmd) \/ Exists(commands[c].exec)
    /\ \A c \in InUse(cmd) :
          /\ c \in InUse(commands)
          /\ commands[c].type = cmd[c].type
          /\ commands[c].exec = cmd[c].exec

\* Rows the housekeeping thread or the Edge know of are commands in use.
Known ==
    /\ WellFormed(cmd)
    /\ sent \subseteq InUse(cmd)
    /\ worker.todo \subseteq InUse(cmd)
    /\ worker.pc \in {"mark", "save", "look", "apply"} => worker.cmd \in InUse(cmd)

\* Only these commands make the sweeper end an execution.
Ender(c) == cmd[c].type \in {"cancel", "resume_forward", "recover"}

\* The sweeper never carries timed_out to the execution of another command.
EnderAtWork ==
    worker.pc = "apply" /\ worker.target = "timed_out" => Ender(worker.cmd)

\* An execution that has a command exists, and one that does not is untouched.
Started ==
    /\ \A e \in Executions : exec[e] = Absent \/ exec[e].state # "none"
    /\ \A c \in InUse(cmd) : exec[cmd[c].exec].state # "none"

\* An execution that timed out has one of the two codes that speak of time.
SaysSo ==
    \A e \in Executions :
        exec[e].state = "timed_out" => exec[e].code \in {Timeout, Expired}

IInv == TypeOK /\ Known /\ Started /\ OneActive /\ EnderAtWork /\ SaysSo

-----------------------------------------------------------------------------
(* The tables. *)

\* assert_transition_allowed lets a change happen from an active state only,
\* to a state of an execution.
LEMMA AllowedStates ==
    ASSUME NEW from, NEW to, Allowed(from, to)
    PROVE  from \in Active /\ to \in States
<1>1. from \in Active
  BY DEF Allowed
<1>2. CASE to \in Terminal
  BY <1>1, <1>2 DEF States
<1>3. CASE to \in AllowedFrom[from]
  BY <1>1, <1>3 DEF AllowedFrom, Active, States
<1> QED
  BY <1>1, <1>2, <1>3 DEF Allowed

\* Active and terminal states are different.
LEMMA Disjoint == \A s \in Active : s \notin Terminal /\ s # "none"
BY DEF Active, Terminal

\* EXECUTION_COMMAND_STATUS has a status of a command for every end.
LEMMA StatusOfTyped == \A s \in Terminal : StatusOf(s) \in Statuses
BY DEF Terminal, StatusOf, Statuses, OpenStatuses

\* A command with another status and code.
LEMMA RecordUpdate ==
    ASSUME NEW r \in CmdRecord, NEW s \in Statuses, NEW k \in Codes
    PROVE  LET u == [r EXCEPT !.status = s, !.code = k] IN
           /\ u \in CmdRecord
           /\ u.type = r.type
           /\ u.exec = r.exec
           /\ u.status = s
BY DEF CmdRecord

\* The table itself extends itself.
LEMMA SameExtends == ASSUME Known PROVE Extends(cmd)
BY DEF Known, Extends

\* CommandService.create adds a command to a table and changes no other.
LEMMA NewExtends ==
    ASSUME Known, NEW c \in Commands, NEW e \in Executions, NEW type \in Types,
           Unused(c), Exists(e)
    PROVE  Extends(NewCommand(c, type, e))
<1> DEFINE t == NewCommand(c, type, e)
<1>1. cmd \in [Commands -> CmdRecord]
  BY DEF Known, WellFormed
<1>2. c \notin InUse(cmd)
  <2>1. NoCommand.type \notin Types
    BY DEF NoCommand, Types, ControlTarget
  <2> QED
    BY <2>1 DEF Unused, InUse
<1>3. t \in [Commands -> CmdRecord]
  BY <1>1 DEF NewCommand, CmdRecord, Statuses, OpenStatuses, Codes
<1>4. /\ t[c].type = type /\ t[c].exec = e /\ t[c].status = "created"
      /\ \A d \in Commands \ {c} : t[d] = cmd[d]
  BY <1>1 DEF NewCommand
<1>5. c \in InUse(t)
  BY <1>4 DEF InUse, Statuses, OpenStatuses
<1>6. \A d \in Commands \ {c} : d \in InUse(t) <=> d \in InUse(cmd)
  BY <1>4 DEF InUse
<1>7. WellFormed(t)
  BY <1>3, <1>4, <1>5, <1>6 DEF Known, WellFormed
<1> QED
  BY <1>2, <1>4, <1>6, <1>7 DEF Extends, InUse

\* A table in which one command in use got another status or code.
LEMMA StatusExtends ==
    ASSUME Known, NEW c \in InUse(cmd), NEW t \in [Commands -> CmdRecord],
           t[c].type = cmd[c].type, t[c].exec = cmd[c].exec,
           t[c].status \in Statuses,
           \A d \in Commands \ {c} : t[d] = cmd[d]
    PROVE  Extends(t)
<1>1. c \in InUse(t)
  BY DEF InUse
<1>2. \A d \in Commands \ {c} : d \in InUse(t) <=> d \in InUse(cmd)
  BY DEF InUse
<1>3. WellFormed(t)
  BY <1>1, <1>2 DEF Known, WellFormed
<1> QED
  BY <1>1, <1>2, <1>3 DEF Extends, InUse

\* reconcile_task_start_for_execution changes statuses and codes only.
LEMMA ReconciledExtends ==
    ASSUME NEW commands, Extends(commands), NEW e \in Executions,
           NEW x \in ExecRecord
    PROVE  Extends(Reconciled(commands, e, x))
<1> DEFINE t == Reconciled(commands, e, x)
<1>1. commands \in [Commands -> CmdRecord]
  BY DEF Extends, WellFormed
<1>2. ASSUME NEW c \in Commands
      PROVE  /\ t[c] \in CmdRecord
             /\ t[c].type = commands[c].type
             /\ t[c].exec = commands[c].exec
             /\ commands[c].status \in Statuses => t[c].status \in Statuses
             /\ commands[c] = NoCommand => t[c] = NoCommand
  <2>1. commands[c] \in CmdRecord
    BY <1>1
  <2>2. CASE t[c] = commands[c]
    BY <2>1, <2>2
  <2>3. CASE t[c] # commands[c]
    <3>1. commands[c].type = "start" /\ x.state \in Terminal
      BY <2>3 DEF Reconciled, EndsStart
    <3>2. StatusOf(x.state) \in Statuses
      BY <3>1, StatusOfTyped
    <3>3. x.code \in Codes /\ "" \in Codes /\ Timeout \in Codes
      BY DEF ExecRecord, Codes, Timeout
    <3> DEFINE code == IF x.state = "completed" THEN ""
                       ELSE IF x.state = "timed_out" /\ x.code = "" THEN Timeout
                       ELSE x.code
    <3>4. t[c] = [commands[c] EXCEPT !.status = StatusOf(x.state), !.code = code]
      BY <2>3 DEF Reconciled
    <3>5. code \in Codes
      BY <3>3
    <3>6. commands[c] # NoCommand
      <4>1. NoCommand.type = "none"
        BY DEF NoCommand
      <4> QED
        BY <3>1, <4>1
    <3> HIDE DEF code
    <3> DEFINE u == [commands[c] EXCEPT !.status = StatusOf(x.state), !.code = code]
    <3>7. /\ u \in CmdRecord
          /\ u.type = commands[c].type
          /\ u.exec = commands[c].exec
          /\ u.status = StatusOf(x.state)
      BY <2>1, <3>2, <3>5, RecordUpdate
    <3>8. t[c] = u
      BY <3>4
    <3> HIDE DEF u, t
    <3> QED
      BY <3>2, <3>6, <3>7, <3>8
  <2> QED
    BY <2>2, <2>3
<1>3. t = [c \in Commands |-> t[c]]
  BY DEF Reconciled
<1>4. t \in [Commands -> CmdRecord]
  BY <1>2, <1>3
<1>5. \A c \in Commands : c \in InUse(commands) => c \in InUse(t)
  BY <1>2 DEF InUse
<1>6. WellFormed(t)
  BY <1>2, <1>4, <1>5 DEF Extends, WellFormed
<1>7. \A c \in InUse(t) : c \in InUse(commands) /\ t[c].exec = commands[c].exec
  <2>1. NoCommand.type \notin Types
    BY DEF NoCommand, Types, ControlTarget
  <2>2. \A c \in InUse(t) : c \in Commands /\ t[c].type \in Types
    BY DEF InUse
  <2> HIDE DEF t
  <2> QED
    BY <1>2, <2>1, <2>2 DEF Extends, WellFormed
<1> HIDE DEF t
<1>8. \A c \in InUse(t) : c \in InUse(cmd) \/ Exists(t[c].exec)
  BY <1>7 DEF Extends
<1> QED
  BY <1>2, <1>5, <1>6, <1>8 DEF Extends, InUse, t

\* The start command of an execution that ended as x has x's status.
LEMMA ReconciledCloses ==
    ASSUME NEW commands, Extends(commands), NEW e \in Executions,
           NEW x \in ExecRecord, x.state \in Terminal,
           NEW c \in Commands, commands[c].type = "start", commands[c].exec = e
    PROVE  Reconciled(commands, e, x)[c].status = StatusOf(x.state)
<1>1. commands[c] \in CmdRecord
  BY DEF Extends, WellFormed
<1> QED
  BY <1>1 DEF Reconciled, EndsStart, CmdRecord

-----------------------------------------------------------------------------
(* What a step can do to the executions. *)

\* Nothing happens to any execution but e.
OnlyAt(e) == exec' = [exec EXCEPT ![e] = exec'[e]] /\ exec'[e] \in ExecRecord

Rises(e) == exec'[e].version > exec[e].version

\* e may time out with this code: the sweeper carries it there, or the Edge
\* answers a command that asked it for something else than to pause, to resume
\* or to recover.
GivesUp(e, code) ==
    \/ /\ worker' # worker
       /\ worker.pc = "apply"
       /\ worker.target = "timed_out"
       /\ cmd[worker.cmd].exec = e
       /\ code = Timeout
    \/ /\ worker' = worker
       /\ code \in {Timeout, Expired}
       /\ \E c \in sent : /\ cmd[c].exec = e
                          /\ cmd[c].type \notin {"pause", "resume", "recover"}

\* transition.
Moves(e) ==
    /\ OnlyAt(e)
    /\ Allowed(exec[e].state, exec'[e].state)
    /\ Rises(e)
    /\ exec'[e].state \in Terminal =>
          \A c \in Commands :
              cmd'[c].type = "start" /\ cmd'[c].exec = e =>
                  cmd'[c].status = StatusOf(exec'[e].state)
    /\ exec'[e].state = "timed_out" => GivesUp(e, exec'[e].code)

\* create_execution.
Begins(e) ==
    /\ OnlyAt(e)
    /\ exec[e] = Absent
    /\ \A f \in Executions : ~IsActive(f)
    /\ exec'[e].state = "dispatching"
    /\ exec'[e].version = 1

\* reconcile_edge_active_after_center_timeout.
Revives(e) ==
    /\ OnlyAt(e)
    /\ TimedOutByCenter(e)
    /\ Alone(e)
    /\ exec'[e].state \in Active
    /\ Rises(e)

\* apply_progress.
Reports(e) ==
    /\ OnlyAt(e)
    /\ exec[e].state # "none"
    /\ exec'[e].state = exec[e].state
    /\ exec'[e].code = exec[e].code
    /\ Rises(e)

ExecStep ==
    \/ UNCHANGED exec
    \/ \E e \in Executions : Moves(e) \/ Begins(e) \/ Revives(e) \/ Reports(e)

\* A successful transition, with whatever its caller did to the commands.
LEMMA MoveShape ==
    ASSUME IInv, NEW e \in Executions, NEW target, NEW version \in Nat,
           NEW code \in Codes, NEW commands, Extends(commands),
           Move(e, target, version, code, commands),
           target = "timed_out" => GivesUp(e, code)
    PROVE  Moves(e) /\ Extends(cmd')
<1> DEFINE x == Moved(e, target, version, code)
<1>1. Allowed(exec[e].state, target) /\ version > exec[e].version
  BY DEF Move, CanMove
<1>2. exec[e] \in ExecRecord
  BY DEF IInv, TypeOK, ExecRecord
<1>3. target \in States
  BY <1>1, AllowedStates
<1>4. /\ x \in ExecRecord /\ x.state = target /\ x.version = version
      /\ code # "" => x.code = code
  BY <1>2, <1>3 DEF Moved, ExecRecord
<1>5. exec' = [exec EXCEPT ![e] = x] /\ cmd' = Reconciled(commands, e, x)
  BY DEF Move
<1> HIDE DEF x
<1>6. exec'[e] = x
  BY <1>5 DEF IInv, TypeOK
<1>7. OnlyAt(e)
  BY <1>4, <1>5, <1>6 DEF OnlyAt
<1>8. Extends(cmd')
  BY <1>4, <1>5, ReconciledExtends
<1>9. ASSUME x.state \in Terminal, NEW c \in Commands,
             cmd'[c].type = "start", cmd'[c].exec = e
      PROVE  cmd'[c].status = StatusOf(x.state)
  <2>1. commands[c] \in CmdRecord
    BY DEF Extends, WellFormed
  <2>2. commands[c].type = "start" /\ commands[c].exec = e
    BY <1>5, <1>9, <2>1 DEF Reconciled, CmdRecord
  <2> QED
    BY <1>4, <1>5, <1>9, <2>2, ReconciledCloses
<1>10. x.state = "timed_out" => GivesUp(e, x.code)
  <2>1. GivesUp(e, code) => code # ""
    BY DEF GivesUp, Timeout, Expired
  <2> QED
    BY <1>4, <2>1
<1> QED
  BY <1>1, <1>4, <1>6, <1>7, <1>8, <1>9, <1>10 DEF Moves, Rises

\* A successful reactivation.
LEMMA ReactivateShape ==
    ASSUME IInv, NEW e \in Executions, NEW target, NEW version \in Nat,
           NEW code \in Codes, NEW commands, Extends(commands),
           Reactivate(e, target, version, code, commands)
    PROVE  Revives(e) /\ Extends(cmd')
<1> DEFINE next == Later(exec[e].version, version) + 1
           x == [state |-> target, version |-> next, code |-> code]
<1>1. exec[e].version \in Nat
  BY DEF IInv, TypeOK
<1>2. next \in Nat /\ next > exec[e].version
  BY <1>1 DEF Later
<1>3. /\ TimedOutByCenter(e) /\ Alone(e) /\ target \in Active
      /\ exec' = [exec EXCEPT ![e] = x] /\ cmd' = commands
  BY DEF Reactivate
<1> HIDE DEF next
<1>4. x \in ExecRecord /\ x.state = target /\ x.version = next
  BY <1>2, <1>3 DEF ExecRecord, States
<1> HIDE DEF x
<1>5. exec'[e] = x
  BY <1>3 DEF IInv, TypeOK
<1> QED
  BY <1>2, <1>3, <1>4, <1>5 DEF Revives, OnlyAt, Rises

\* Requests.
LEMMA RequestShape == ASSUME IInv, Request PROVE ExecStep /\ Extends(cmd')
<1> USE DEF IInv
<1>1. ASSUME NEW e \in Executions, NEW c \in Commands, StartTask(e, c)
      PROVE  ExecStep /\ Extends(cmd')
  <2> DEFINE x == [state |-> "dispatching", version |-> 1, code |-> ""]
  <2>1. x \in ExecRecord /\ x.state = "dispatching" /\ x.version = 1
    BY DEF ExecRecord, States, Active, Codes
  <2>2. /\ exec[e] = Absent /\ exec' = [exec EXCEPT ![e] = x]
        /\ \A f \in Executions : ~IsActive(f)
    BY <1>1 DEF StartTask
  <2> HIDE DEF x
  <2>3. exec'[e] = x
    BY <2>2 DEF TypeOK
  <2>4. Begins(e)
    BY <2>1, <2>2, <2>3 DEF Begins, OnlyAt
  <2>5. Unused(c) /\ cmd' = NewCommand(c, "start", e)
    BY <1>1 DEF StartTask
  <2>6. "start" \in Types
    BY DEF Types
  <2>7. Exists(e)
    BY <2>1, <2>3 DEF Exists
  <2> QED
    BY <2>4, <2>5, <2>6, <2>7, NewExtends DEF ExecStep
<1>2. ASSUME NEW e \in Executions, NEW c \in Commands,
             NEW type \in DOMAIN ControlTarget, Control(e, c, type)
      PROVE  ExecStep /\ Extends(cmd')
  <2>1. /\ Unused(c)
        /\ Move(e, ControlTarget[type], exec[e].version + 1, "",
                NewCommand(c, type, e))
    BY <1>2 DEF Control
  <2>2. type \in Types /\ ControlTarget[type] # "timed_out"
    BY DEF Types, ControlTarget
  <2>3. exec[e].version + 1 \in Nat
    BY DEF TypeOK
  <2>5. "" \in Codes
    BY DEF Codes
  <2>4. Extends(NewCommand(c, type, e))
    <3>1. Exists(e)
      BY <2>1, AllowedStates, Disjoint DEF Move, CanMove, Exists
    <3> QED
      BY <2>1, <2>2, <3>1, NewExtends
  <2> QED
    <3> DEFINE target == ControlTarget[type]
               version == exec[e].version + 1
               commands == NewCommand(c, type, e)
    <3>1. target # "timed_out"
      BY <2>2
    <3>2. /\ Move(e, target, version, "", commands)
          /\ version \in Nat
          /\ Extends(commands)
      BY <2>1, <2>3, <2>4
    <3> HIDE DEF target, version, commands
    <3>3. Moves(e) /\ Extends(cmd')
      BY <2>5, <3>1, <3>2, MoveShape
    <3> QED
      BY <3>3 DEF ExecStep
<1>3. ASSUME NEW e \in Executions, NEW c \in Commands, ForceExit(e, c)
      PROVE  ExecStep /\ Extends(cmd')
  <2>1. "force_exit" \in Types /\ "OTHER" \in Codes
    BY DEF Types, Codes
  <2>2. Extends(NewCommand(c, "force_exit", e))
    <3>1. Exists(e)
      BY <1>3 DEF ForceExit, Exists, Started
    <3> QED
      BY <1>3, <2>1, <3>1, NewExtends DEF ForceExit
  <2>3. ASSUME NEW f \in Executions,
               Move(f, "cancelled", exec[f].version + 1, "OTHER",
                    NewCommand(c, "force_exit", e))
        PROVE  ExecStep /\ Extends(cmd')
    <3>1. exec[f].version + 1 \in Nat
      BY DEF TypeOK
    <3> QED
      BY <2>1, <2>2, <2>3, <3>1, MoveShape DEF ExecStep
  <2> QED
    BY <1>3, <2>2, <2>3 DEF ForceExit, ExecStep
<1>4. ASSUME NEW e \in Executions, NEW c \in Commands, Recover(e, c)
      PROVE  ExecStep /\ Extends(cmd')
  <2>1. "recover" \in Types
    BY DEF Types
  <2>2. Exists(e)
    BY <1>4, Disjoint DEF Recover, IsActive, Exists
  <2> QED
    BY <1>4, <2>1, <2>2, NewExtends DEF Recover, ExecStep
<1>5. ASSUME NEW e \in Executions, RepairStart(e)
      PROVE  ExecStep /\ Extends(cmd')
  <2>1. exec[e] \in ExecRecord
    BY DEF TypeOK, ExecRecord
  <2> QED
    BY <1>5, <2>1, SameExtends, ReconciledExtends DEF RepairStart, ExecStep
<1> QED
  BY <1>1, <1>2, <1>3, <1>4, <1>5 DEF Request

\* A command in use with another status, and with another status and code.
LEMMA UpdateExtends ==
    ASSUME Known, NEW c \in InUse(cmd), NEW s \in Statuses, NEW k \in Codes
    PROVE  /\ Extends([cmd EXCEPT ![c].status = s])
           /\ Extends([cmd EXCEPT ![c].status = s, ![c].code = k])
<1> DEFINE t == [cmd EXCEPT ![c].status = s]
           u == [cmd EXCEPT ![c].status = s, ![c].code = k]
<1>1. cmd \in [Commands -> CmdRecord] /\ c \in Commands
  BY DEF Known, WellFormed, InUse
<1>2. cmd[c] \in CmdRecord
  BY <1>1
<1>3. /\ t \in [Commands -> CmdRecord]
      /\ t[c].type = cmd[c].type /\ t[c].exec = cmd[c].exec /\ t[c].status = s
      /\ \A d \in Commands \ {c} : t[d] = cmd[d]
  BY <1>1, <1>2 DEF CmdRecord
<1>4. /\ u \in [Commands -> CmdRecord]
      /\ u[c].type = cmd[c].type /\ u[c].exec = cmd[c].exec /\ u[c].status = s
      /\ \A d \in Commands \ {c} : u[d] = cmd[d]
  BY <1>1, <1>2 DEF CmdRecord
<1> HIDE DEF t, u
<1>5. Extends(t)
  BY <1>3, StatusExtends
<1>6. Extends(u)
  BY <1>4, StatusExtends
<1> QED
  BY <1>5, <1>6 DEF t, u

-----------------------------------------------------------------------------
(* The housekeeping thread. *)

WorkerRecord ==
    [pc : {"idle", "publish", "mark", "expire", "save", "look", "apply"},
     todo : SUBSET Commands,
     cmd : Commands \cup {"none"}, target : States \cup {"none"}]

\* What IInv says of the thread, of a thread w and a table of commands.
Grounded(w, commands) ==
    /\ w \in WorkerRecord
    /\ w.todo \subseteq InUse(commands)
    /\ w.pc \in {"mark", "save", "look", "apply"} => w.cmd \in InUse(commands)
    /\ w.pc = "apply" /\ w.target = "timed_out" =>
          commands[w.cmd].type \in {"cancel", "resume_forward", "recover"}

WorkerStep == Grounded(worker', cmd') /\ sent' \subseteq InUse(cmd')

\* The invariant says of the thread that it is grounded.
LEMMA GroundedNow == ASSUME IInv PROVE Grounded(worker, cmd)
BY DEF IInv, TypeOK, Known, EnderAtWork, Ender, Grounded, WorkerRecord

\* A thread stays grounded when the table changes under it.
LEMMA GroundedLater ==
    ASSUME IInv, NEW commands, Extends(commands)
    PROVE  Grounded(worker, commands) /\ InUse(cmd) \subseteq InUse(commands)
BY GroundedNow DEF Grounded, Extends

\* The thread at rest, or about to go on with the rows that are left.
LEMMA FollowingGrounded ==
    ASSUME IInv, NEW commands, Extends(commands), NEW pc \in {"publish", "expire"}
    PROVE  Grounded(Following(pc), commands) /\ Grounded(AtRest, commands)
<1>1. Grounded(worker, commands)
  BY GroundedLater
<1>2. Grounded(AtRest, commands)
  BY DEF Grounded, AtRest, WorkerRecord
<1>3. Grounded([AtRest EXCEPT !.pc = pc, !.todo = worker.todo], commands)
  BY <1>1 DEF Grounded, AtRest, WorkerRecord
<1> QED
  BY <1>2, <1>3 DEF Following

\* The thread turning to a row it has fetched.
LEMMA AtGrounded ==
    ASSUME IInv, NEW c \in worker.todo, NEW pc \in {"mark", "save"}
    PROVE  Grounded(At(c, pc), cmd)
<1>1. Grounded(worker, cmd) /\ c \in Commands
  BY GroundedNow DEF Grounded, WorkerRecord
<1> QED
  BY <1>1 DEF Grounded, At, WorkerRecord

\* Whoever else acts leaves the thread grounded.
LEMMA WorkerRests ==
    ASSUME IInv, Extends(cmd'), UNCHANGED <<sent, worker>>
    PROVE  WorkerStep
<1>1. Grounded(worker, cmd') /\ InUse(cmd) \subseteq InUse(cmd')
  BY GroundedLater
<1> QED
  BY <1>1 DEF WorkerStep, IInv, Known

\* mark_timeout ends an execution for an Ender only.
LEMMA TimeoutTargets ==
    ASSUME NEW type \in Types, NEW state \in States
    PROVE  /\ TimeoutTarget(type, state) \in States \cup {"none"}
           /\ TimeoutTarget(type, state) = "timed_out" =>
                 type \in {"cancel", "resume_forward", "recover"}
<1>1. type \in {"start", "recover", "force_exit", "pause", "resume",
                "resume_forward", "cancel"}
  BY DEF Types, ControlTarget
<1>2. {"interrupted", "running", "paused", "timed_out"} \subseteq States
  BY DEF States, Active, Terminal
<1>3. CASE state \notin Active
  BY <1>3 DEF TimeoutTarget
<1>4. CASE state \in Active
  <2>1. CASE type = "force_exit"
    BY <2>1 DEF TimeoutTarget
  <2>2. CASE type = "start"
    BY <1>2, <1>4, <2>2 DEF TimeoutTarget, StartTimeoutTarget
  <2>3. CASE type = "pause"
    BY <1>2, <1>4, <2>3 DEF TimeoutTarget
  <2>4. CASE type = "resume"
    BY <1>2, <1>4, <2>4 DEF TimeoutTarget
  <2>5. CASE type \in {"cancel", "resume_forward", "recover"}
    BY <1>2, <1>4, <2>5 DEF TimeoutTarget
  <2> QED
    BY <1>1, <2>1, <2>2, <2>3, <2>4, <2>5
<1> QED
  BY <1>3, <1>4

\* The reduction of a step.
StepShape == ExecStep /\ Extends(cmd') /\ WorkerStep

\* FetchPending to HousekeepingFails: publishing touches no execution.
LEMMA PublishShape ==
    ASSUME IInv,
           \/ FetchPending
           \/ \E overdue \in SUBSET Commands : FetchOverdue(overdue)
           \/ \E c \in Commands : Publish(c) \/ PublishFails(c)
           \/ MarkPublished
           \/ HousekeepingFails
    PROVE  StepShape
<1>1. /\ Known /\ sent \subseteq InUse(cmd)
      /\ Grounded(worker, cmd)
  BY GroundedNow DEF IInv, Known
<1>2. Extends(cmd)
  BY <1>1, SameExtends
<1>3. \A c \in Commands : cmd[c].status \in OpenStatuses => c \in InUse(cmd)
  <2>1. NoCommand.status \notin OpenStatuses
    BY DEF NoCommand, OpenStatuses
  <2> QED
    BY <1>1, <2>1 DEF Known, WellFormed
<1>4. CASE FetchPending
  <2> DEFINE pending == {c \in Commands : cmd[c].status = "created"}
  <2>1. pending \subseteq InUse(cmd) /\ pending \in SUBSET Commands
    BY <1>3 DEF OpenStatuses
  <2>2. UNCHANGED <<exec, cmd, sent>>
        /\ worker' = [AtRest EXCEPT !.pc = "publish", !.todo = pending]
    BY <1>4 DEF FetchPending
  <2> HIDE DEF pending
  <2>3. Grounded(worker', cmd)
    BY <2>1, <2>2 DEF Grounded, AtRest, WorkerRecord
  <2> QED
    BY <1>1, <1>2, <2>2, <2>3 DEF StepShape, ExecStep, WorkerStep
<1>5. ASSUME NEW overdue \in SUBSET Commands, FetchOverdue(overdue)
      PROVE  StepShape
  <2>1. overdue \subseteq InUse(cmd)
    BY <1>3, <1>5 DEF FetchOverdue, CanExpire
  <2>2. UNCHANGED <<exec, cmd, sent>>
        /\ worker' = [AtRest EXCEPT !.pc = "expire", !.todo = overdue]
    BY <1>5 DEF FetchOverdue
  <2>3. Grounded(worker', cmd)
    BY <2>1, <2>2 DEF Grounded, AtRest, WorkerRecord
  <2> QED
    BY <1>1, <1>2, <2>2, <2>3 DEF StepShape, ExecStep, WorkerStep
<1>6. ASSUME NEW c \in Commands, Publish(c)
      PROVE  StepShape
  <2>1. c \in worker.todo /\ UNCHANGED <<exec, cmd>> /\ sent' = sent \cup {c}
        /\ worker' = At(c, "mark")
    BY <1>6 DEF Publish
  <2>2. Grounded(worker', cmd)
    BY <2>1, AtGrounded
  <2>3. c \in InUse(cmd)
    BY <1>1, <2>1 DEF Grounded
  <2> QED
    BY <1>1, <1>2, <2>1, <2>2, <2>3 DEF StepShape, ExecStep, WorkerStep
<1>7. ASSUME NEW c \in Commands, PublishFails(c)
      PROVE  StepShape
  <2>1. /\ c \in worker.todo /\ UNCHANGED exec /\ worker' = AtRest
        /\ sent' \subseteq sent \cup {c}
        /\ cmd' = [cmd EXCEPT ![c].status = "failed", ![c].code = "OTHER"]
    BY <1>7 DEF PublishFails
  <2>2. c \in InUse(cmd)
    BY <1>1, <2>1 DEF Grounded
  <2>3. Extends(cmd')
    <3>1. "failed" \in Statuses /\ "OTHER" \in Codes
      BY DEF Statuses, Codes
    <3> QED
      BY <1>1, <2>1, <2>2, <3>1, UpdateExtends
  <2>4. Grounded(worker', cmd') /\ InUse(cmd) \subseteq InUse(cmd')
    BY <2>1, <2>3, FollowingGrounded, GroundedLater
  <2> QED
    BY <1>1, <2>1, <2>2, <2>3, <2>4 DEF StepShape, ExecStep, WorkerStep
<1>8. CASE MarkPublished
  <2>1. /\ worker.pc = "mark" /\ UNCHANGED <<exec, sent>>
        /\ worker' = Following("publish")
        /\ cmd' = [cmd EXCEPT ![worker.cmd].status = "published"]
    BY <1>8 DEF MarkPublished
  <2>2. worker.cmd \in InUse(cmd)
    BY <1>1, <2>1 DEF Grounded
  <2>3. Extends(cmd')
    <3>1. "published" \in Statuses /\ "" \in Codes
      BY DEF Statuses, OpenStatuses, Codes
    <3> QED
      BY <1>1, <2>1, <2>2, <3>1, UpdateExtends
  <2>4. Grounded(worker', cmd') /\ InUse(cmd) \subseteq InUse(cmd')
    BY <2>1, <2>3, FollowingGrounded, GroundedLater
  <2> QED
    BY <1>1, <2>1, <2>3, <2>4 DEF StepShape, ExecStep, WorkerStep
<1>9. CASE HousekeepingFails
  <2>1. UNCHANGED <<exec, cmd, sent>> /\ worker' = AtRest
    BY <1>9 DEF HousekeepingFails
  <2>2. Grounded(worker', cmd)
    BY <1>2, <2>1, FollowingGrounded
  <2> QED
    BY <1>1, <1>2, <2>1, <2>2 DEF StepShape, ExecStep, WorkerStep
<1> QED
  BY <1>4, <1>5, <1>6, <1>7, <1>8, <1>9

\* mark_timeout: of its four steps only the last may move an execution.
LEMMA TimeoutShape ==
    ASSUME IInv,
           \/ \E c \in Commands : TimeoutPrecheck(c)
           \/ TimeoutSave \/ TimeoutLook \/ TimeoutApply
    PROVE  StepShape
<1>1. /\ Known /\ sent \subseteq InUse(cmd)
      /\ Grounded(worker, cmd)
  BY GroundedNow DEF IInv, Known
<1>2. Extends(cmd)
  BY <1>1, SameExtends
<1>3. \A c \in InUse(cmd) :
         /\ cmd[c].exec \in Executions /\ cmd[c].type \in Types
         /\ exec[cmd[c].exec] \in ExecRecord
         /\ exec[cmd[c].exec].version + 1 \in Nat
         /\ exec[cmd[c].exec].state \in States
  <2> SUFFICES ASSUME NEW c \in InUse(cmd)
               PROVE  /\ cmd[c].exec \in Executions /\ cmd[c].type \in Types
                      /\ exec[cmd[c].exec] \in ExecRecord
                      /\ exec[cmd[c].exec].version + 1 \in Nat
                      /\ exec[cmd[c].exec].state \in States
    OBVIOUS
  <2>1. cmd[c].exec \in Executions /\ cmd[c].type \in Types
    BY DEF InUse
  <2>2. exec[cmd[c].exec] \in ExecRecord
    BY <2>1 DEF IInv, TypeOK, ExecRecord
  <2>3. exec[cmd[c].exec].state # "none"
    BY DEF IInv, Started
  <2> QED
    BY <2>1, <2>2, <2>3 DEF ExecRecord
<1>4. ASSUME NEW c \in Commands, TimeoutPrecheck(c)
      PROVE  StepShape
  <2> DEFINE e == cmd[c].exec
  <2>1. c \in worker.todo /\ UNCHANGED <<exec, sent>>
    BY <1>4 DEF TimeoutPrecheck
  <2>2. c \in InUse(cmd)
    BY <1>1, <2>1 DEF Grounded
  <2>3. CASE worker' = At(c, "save") /\ UNCHANGED cmd
    <3>1. Grounded(worker', cmd)
      BY <2>1, <2>3, AtGrounded
    <3> QED
      BY <1>1, <1>2, <2>1, <2>3, <3>1 DEF StepShape, ExecStep, WorkerStep
  <2>4. CASE /\ cmd' = Reconciled(cmd, e, exec[e])
             /\ worker' = IF worker.todo = {c} THEN AtRest
                          ELSE [worker EXCEPT !.todo = @ \ {c}]
    <3>1. Extends(cmd')
      BY <1>2, <1>3, <2>2, <2>4, ReconciledExtends
    <3>2. Grounded(AtRest, cmd') /\ Grounded(worker, cmd')
          /\ InUse(cmd) \subseteq InUse(cmd')
      BY <3>1, FollowingGrounded, GroundedLater
    <3>3. Grounded([worker EXCEPT !.todo = @ \ {c}], cmd')
      BY <3>2 DEF Grounded, WorkerRecord
    <3>4. Grounded(worker', cmd')
      BY <2>4, <3>2, <3>3
    <3> QED
      BY <1>1, <2>1, <3>1, <3>2, <3>4 DEF StepShape, ExecStep, WorkerStep
  <2> QED
    BY <1>4, <2>3, <2>4 DEF TimeoutPrecheck
<1>5. CASE TimeoutSave
  <2>1. /\ worker.pc = "save" /\ UNCHANGED <<exec, sent>>
        /\ worker' = [worker EXCEPT !.pc = "look"]
        /\ cmd' = [cmd EXCEPT ![worker.cmd].status = "timed_out",
                              ![worker.cmd].code = Timeout]
    BY <1>5 DEF TimeoutSave
  <2>2. worker.cmd \in InUse(cmd)
    BY <1>1, <2>1 DEF Grounded
  <2>3. Extends(cmd')
    <3>1. "timed_out" \in Statuses /\ Timeout \in Codes
      BY DEF Statuses, Codes
    <3> QED
      BY <1>1, <2>1, <2>2, <3>1, UpdateExtends
  <2>4. Grounded(worker, cmd') /\ InUse(cmd) \subseteq InUse(cmd')
    BY <2>3, GroundedLater
  <2>5. Grounded(worker', cmd')
    BY <2>1, <2>2, <2>4 DEF Grounded, WorkerRecord
  <2> QED
    BY <1>1, <2>1, <2>3, <2>4, <2>5 DEF StepShape, ExecStep, WorkerStep
<1>6. CASE TimeoutLook
  <2> DEFINE c == worker.cmd
             target == TimeoutTarget(cmd[c].type, exec[cmd[c].exec].state)
  <2>1. /\ worker.pc = "look" /\ UNCHANGED <<exec, cmd, sent>>
        /\ worker' = IF target = "none" THEN Following("expire")
                     ELSE [worker EXCEPT !.pc = "apply", !.target = target]
    BY <1>6 DEF TimeoutLook
  <2>2. c \in InUse(cmd)
    BY <1>1, <2>1 DEF Grounded
  <2>3. /\ target \in States \cup {"none"}
        /\ target = "timed_out" =>
              cmd[c].type \in {"cancel", "resume_forward", "recover"}
    BY <1>3, <2>2, TimeoutTargets
  <2> HIDE DEF target
  <2>4. Grounded(Following("expire"), cmd)
    BY <1>2, FollowingGrounded
  <2>5. Grounded([worker EXCEPT !.pc = "apply", !.target = target], cmd)
    BY <1>1, <2>2, <2>3 DEF Grounded, WorkerRecord
  <2>6. Grounded(worker', cmd)
    BY <2>1, <2>4, <2>5
  <2> QED
    BY <1>1, <1>2, <2>1, <2>6 DEF StepShape, ExecStep, WorkerStep
<1>7. CASE TimeoutApply
  <2> DEFINE e == cmd[worker.cmd].exec
             version == exec[e].version + 1
  <2>1. /\ worker.pc = "apply" /\ UNCHANGED sent
        /\ worker' = Following("expire")
        /\ Move(e, worker.target, version, Timeout, cmd) \/ UNCHANGED <<exec, cmd>>
    BY <1>7 DEF TimeoutApply
  <2>2. worker.cmd \in InUse(cmd)
    BY <1>1, <2>1 DEF Grounded
  <2>3. e \in Executions /\ version \in Nat
    BY <1>3, <2>2
  <2>4. Timeout \in Codes
    BY DEF Codes
  <2> HIDE DEF version
  <2>5. ExecStep /\ Extends(cmd')
    <3>1. CASE UNCHANGED <<exec, cmd>>
      BY <1>2, <3>1 DEF ExecStep
    <3>2. CASE Move(e, worker.target, version, Timeout, cmd)
      <4>1. worker' # worker
        <5>1. worker'.pc \in {"idle", "expire"}
          BY <2>1 DEF Following, AtRest
        <5> QED
          BY <2>1, <5>1
      <4>2. worker.target = "timed_out" => GivesUp(e, Timeout)
        BY <2>1, <4>1 DEF GivesUp
      <4> QED
        BY <1>2, <2>3, <2>4, <3>2, <4>2, MoveShape DEF ExecStep
    <3> QED
      BY <2>1, <3>1, <3>2
  <2>6. Grounded(worker', cmd') /\ InUse(cmd) \subseteq InUse(cmd')
    BY <2>1, <2>5, FollowingGrounded, GroundedLater
  <2> QED
    BY <1>1, <2>1, <2>5, <2>6 DEF StepShape, WorkerStep
<1> QED
  BY <1>4, <1>5, <1>6, <1>7

-----------------------------------------------------------------------------
(* Messages. *)

\* What a result says: never as a final state that the task timed out.
LEMMA ResultsSay ==
    ASSUME NEW type, NEW r \in Results(type)
    PROVE  r.status \in Statuses /\ r.final # "timed_out" /\ r.code \in Codes
<1>1. "timed_out" \notin EdgeStates
  BY EdgeStatesAssumption
<1>2. ErrorCodes \subseteq Codes /\ "" \in Codes /\ "OTHER" \in Codes
  BY ErrorCodesAssumption DEF Codes, Timeout, Expired
<1>3. {"succeeded", "failed", "cancelled", "timed_out"} \subseteq Statuses
  BY DEF Statuses
<1>4. CASE r \in Answers("failed", {"none"}, ErrorCodes)
             \cup Answers("timed_out", {"none"}, ErrorCodes \ {"OTHER"})
  BY <1>2, <1>3, <1>4 DEF Answers
<1>5. CASE /\ type = "start"
           /\ r \in Answers("succeeded", {"completed"}, {""})
                   \cup Answers("failed", {"failed"}, {"OTHER"})
                   \cup Answers("cancelled", {"cancelled"}, {"OTHER"})
  BY <1>2, <1>3, <1>5 DEF Answers
<1>6. CASE type = "force_exit" /\ r \in Answers("succeeded", {"cancelled"}, {""})
  BY <1>2, <1>3, <1>6 DEF Answers
<1>7. CASE /\ type # "start" /\ type # "force_exit"
           /\ r \in Answers("succeeded", EdgeStates, {""})
  BY <1>1, <1>2, <1>3, <1>7 DEF Answers
<1> QED
  BY <1>4, <1>5, <1>6, <1>7 DEF Results

\* When _handle_command_result moves an execution to timed_out.
LEMMA ResultTargets ==
    ASSUME NEW type, NEW result, NEW state, result.final # "timed_out",
           ResultTarget(type, result, state) # state,
           ResultTarget(type, result, state) = "timed_out"
    PROVE  /\ type \notin {"pause", "resume", "recover"}
           /\ result.code \in {Timeout, Expired}
BY DEF ResultTarget

\* Acks, progress and results move the execution of a command at most once.
LEMMA CommandMessageShape ==
    ASSUME IInv, CommandMessage
    PROVE  ExecStep /\ Extends(cmd') /\ UNCHANGED <<sent, worker>>
<1>1. PICK c \in sent : \E version \in {0} \cup NewVersions(cmd[c].exec) :
          \/ \E accepted \in BOOLEAN : Ack(c, accepted, version)
          \/ Progress(c, version)
          \/ \E result \in Results(cmd[c].type) : Result(c, result, version)
  BY DEF CommandMessage
<1> DEFINE e == cmd[c].exec
<1>2. Known /\ c \in InUse(cmd)
  BY DEF IInv, Known
<1>3. e \in Executions
  BY <1>2 DEF InUse
<1>4. exec[e].version \in Nat /\ exec[e].version + 1 \in Nat
  BY <1>3 DEF IInv, TypeOK
<1>5. "" \in Codes /\ "OTHER" \in Codes
  BY DEF Codes
<1>6. PICK version \in {0} \cup NewVersions(e) :
          \/ \E accepted \in BOOLEAN : Ack(c, accepted, version)
          \/ Progress(c, version)
          \/ \E result \in Results(cmd[c].type) : Result(c, result, version)
  BY <1>1
<1>7. version \in Nat
  BY <1>4, <1>6, VersionAssumption DEF NewVersions
<1>8. \A s \in {"accepted", "rejected", "executing"} :
          Extends(SetStatus(c, s))
  <2>1. {"accepted", "rejected", "executing"} \subseteq Statuses
    BY DEF Statuses, OpenStatuses
  <2> QED
    BY <1>2, <1>5, <2>1, UpdateExtends DEF SetStatus
<1>9. ASSUME NEW accepted \in BOOLEAN, Ack(c, accepted, version)
      PROVE  ExecStep /\ Extends(cmd') /\ UNCHANGED <<sent, worker>>
  <2> DEFINE acked == SetStatus(c, IF accepted THEN "accepted" ELSE "rejected")
             edge == IF version = 0 THEN exec[e].version + 1 ELSE version
  <2>1. edge \in Nat
    BY <1>4, <1>7
  <2>2. Extends(acked)
    BY <1>8
  <2>3. UNCHANGED <<sent, worker>>
        /\ \/ cmd' = acked /\ UNCHANGED exec
           \/ Reactivate(e, "accepted", edge, "OTHER", acked)
           \/ Move(e, "accepted", edge, "", acked)
           \/ Move(e, "rejected", edge, "OTHER", acked)
    BY <1>9 DEF Ack
  <2> HIDE DEF edge, acked, e
  <2>4. CASE cmd' = acked /\ UNCHANGED exec
    BY <2>2, <2>3, <2>4 DEF ExecStep
  <2>5. CASE Reactivate(e, "accepted", edge, "OTHER", acked)
    BY <1>3, <1>5, <2>1, <2>2, <2>3, <2>5, ReactivateShape DEF ExecStep
  <2>6. CASE Move(e, "accepted", edge, "", acked)
    BY <1>3, <1>5, <2>1, <2>2, <2>3, <2>6, MoveShape DEF ExecStep
  <2>7. CASE Move(e, "rejected", edge, "OTHER", acked)
    BY <1>3, <1>5, <2>1, <2>2, <2>3, <2>7, MoveShape DEF ExecStep
  <2> QED
    BY <2>3, <2>4, <2>5, <2>6, <2>7
<1>10. ASSUME Progress(c, version)
       PROVE  ExecStep /\ Extends(cmd') /\ UNCHANGED <<sent, worker>>
  <2> DEFINE edge == IF version = 0 THEN exec[e].version ELSE version
  <2>1. edge \in Nat
    BY <1>4, <1>7
  <2>2. UNCHANGED <<sent, worker>>
        /\ \/ cmd' = SetStatus(c, "executing") /\ UNCHANGED exec
           \/ Reactivate(e, "accepted", edge, "OTHER", SetStatus(c, "executing"))
    BY <1>10 DEF Progress
  <2>3. Extends(SetStatus(c, "executing"))
    BY <1>8
  <2> HIDE DEF edge, e
  <2>4. CASE cmd' = SetStatus(c, "executing") /\ UNCHANGED exec
    BY <2>2, <2>3, <2>4 DEF ExecStep
  <2>5. CASE Reactivate(e, "accepted", edge, "OTHER", SetStatus(c, "executing"))
    BY <1>3, <1>5, <2>1, <2>2, <2>3, <2>5, ReactivateShape DEF ExecStep
  <2> QED
    BY <2>2, <2>4, <2>5
<1>11. ASSUME NEW result \in Results(cmd[c].type), Result(c, result, version)
       PROVE  ExecStep /\ Extends(cmd') /\ UNCHANGED <<sent, worker>>
  <2> DEFINE status == result.status
             kept == result.code
             target == ResultTarget(cmd[c].type, result, exec[e].state)
             next == IF result.final = "none" THEN exec[e].version + 1
                     ELSE Later(version, exec[e].version + 1)
             reasons == IF kept = "" THEN {"", "OTHER"} ELSE {kept}
             answered == [cmd EXCEPT ![c].status = status, ![c].code = kept]
  <2>1. status \in Statuses /\ result.final # "timed_out" /\ kept \in Codes
    BY ResultsSay
  <2>2. next \in Nat
    BY <1>4, <1>7 DEF Later
  <2>3. Extends(answered)
    <3> HIDE DEF status, kept
    <3> QED
      BY <1>2, <2>1, UpdateExtends
  <2>4. /\ UNCHANGED <<sent, worker>>
        /\ c \in sent
        /\ \/ cmd' = answered /\ UNCHANGED exec
           \/ /\ target # exec[e].state
              /\ \E code \in reasons : Move(e, target, next, code, answered)
    BY <1>11 DEF Result
  <2>5. target # exec[e].state /\ target = "timed_out" =>
            /\ cmd[c].type \notin {"pause", "resume", "recover"}
            /\ kept \in {Timeout, Expired}
    BY <2>1, ResultTargets
  <2>6. reasons \subseteq Codes /\ (kept # "" => reasons = {kept})
    BY <1>5, <2>1
  <2> HIDE DEF target, next, answered, reasons, kept
  <2>7. CASE cmd' = answered /\ UNCHANGED exec
    BY <2>3, <2>4, <2>7 DEF ExecStep
  <2>8. ASSUME target # exec[e].state, NEW code \in reasons,
               Move(e, target, next, code, answered)
        PROVE  ExecStep /\ Extends(cmd') /\ UNCHANGED <<sent, worker>>
    <3>1. target = "timed_out" => GivesUp(e, code)
      <4> SUFFICES ASSUME target = "timed_out" PROVE GivesUp(e, code)
        OBVIOUS
      <4>1. kept \in {Timeout, Expired} /\ cmd[c].type \notin {"pause", "resume", "recover"}
        BY <2>5, <2>8
      <4>2. code \in {Timeout, Expired}
        BY <2>6, <2>8, <4>1 DEF Timeout, Expired
      <4> QED
        BY <2>4, <4>1, <4>2 DEF GivesUp
    <3>2. code \in Codes
      BY <2>6
    <3> HIDE DEF e
    <3> QED
      BY <1>3, <2>2, <2>3, <2>4, <2>8, <3>1, <3>2, MoveShape DEF ExecStep
  <2> QED
    BY <2>4, <2>7, <2>8
<1> QED
  BY <1>6, <1>9, <1>10, <1>11

\* Task events and syncs leave the commands to reconciliation.
LEMMA TaskMessageShape ==
    ASSUME IInv, TaskMessage
    PROVE  ExecStep /\ Extends(cmd') /\ UNCHANGED <<sent, worker>>
<1>1. PICK e \in Executions : OnEdge(e) /\ \E version \in NewVersions(e) :
          \/ \E state \in EdgeStates, code \in {"", "OTHER"} :
                TaskEvent(e, state, version, code) \/ Sync(e, state, version, code)
          \/ SafeHold(e, version) \/ VersionRaised(e, version)
  BY DEF TaskMessage
<1>2. PICK version \in NewVersions(e) :
          \/ \E state \in EdgeStates, code \in {"", "OTHER"} :
                TaskEvent(e, state, version, code) \/ Sync(e, state, version, code)
          \/ SafeHold(e, version) \/ VersionRaised(e, version)
  BY <1>1
<1>3. exec[e] \in ExecRecord /\ version \in Nat
  <2>1. exec[e] \in ExecRecord
    BY DEF IInv, TypeOK, ExecRecord
  <2>2. exec[e].version \in Nat
    BY <2>1 DEF ExecRecord
  <2>3. version \in NewVersions(e)
    BY <1>2
  <2>4. version \in exec[e].version..MaxVersion
    BY <2>3 DEF NewVersions
  <2>5. version \in Nat
    BY <2>2, <2>4, VersionAssumption
  <2> QED
    BY <2>1, <2>5
<1>4. Extends(cmd)
  BY SameExtends DEF IInv
<1>5. "" \in Codes /\ "OTHER" \in Codes
  BY DEF Codes
<1>6. "timed_out" \notin EdgeStates
  BY EdgeStatesAssumption
<1>7. ASSUME NEW target, target # "timed_out", NEW code \in {"", "OTHER"},
             UNCHANGED <<sent, worker>>,
             Move(e, target, version, code, cmd)
      PROVE  ExecStep /\ Extends(cmd') /\ UNCHANGED <<sent, worker>>
  BY <1>3, <1>4, <1>5, <1>7, MoveShape DEF ExecStep
<1>8. ASSUME NEW state \in EdgeStates, NEW code \in {"", "OTHER"},
             TaskEvent(e, state, version, code)
      PROVE  ExecStep /\ Extends(cmd') /\ UNCHANGED <<sent, worker>>
  BY <1>6, <1>7, <1>8 DEF TaskEvent
<1>9. ASSUME NEW state \in EdgeStates, NEW code \in {"", "OTHER"},
             Sync(e, state, version, code)
      PROVE  ExecStep /\ Extends(cmd') /\ UNCHANGED <<sent, worker>>
  <2>1. CASE Reactivate(e, state, version, "OTHER", cmd)
    BY <1>3, <1>4, <1>5, <1>9, <2>1, ReactivateShape DEF Sync, ExecStep
  <2> DEFINE reason == IF state \in (Terminal \ {"completed"}) \cup {"paused"}
                       THEN "OTHER" ELSE code
  <2>2. CASE Move(e, state, version, reason, cmd)
    <3>1. reason \in {"", "OTHER"}
      OBVIOUS
    <3> HIDE DEF reason
    <3> QED
      BY <1>6, <1>7, <1>9, <2>2, <3>1 DEF Sync
  <2> QED
    BY <1>9, <2>1, <2>2 DEF Sync
<1>10. CASE SafeHold(e, version)
  BY <1>7, <1>10 DEF SafeHold
<1>11. CASE VersionRaised(e, version)
  <2>1. /\ UNCHANGED <<cmd, sent, worker>> /\ version > exec[e].version
        /\ exec' = [exec EXCEPT ![e].version = version]
    BY <1>11 DEF VersionRaised
  <2>2. exec[e].state # "none"
    <3>1. PICK c \in sent : cmd[c].exec = e
      BY <1>1 DEF OnEdge, IsStartOf
    <3> QED
      BY <3>1 DEF IInv, Known, Started
  <2> DEFINE x == [exec[e] EXCEPT !.version = version]
  <2>3. /\ x \in ExecRecord /\ x.version = version
        /\ x.state = exec[e].state /\ x.code = exec[e].code
    BY <1>3 DEF ExecRecord
  <2>4. exec' = [exec EXCEPT ![e] = x] /\ exec'[e] = x
    BY <2>1 DEF IInv, TypeOK
  <2> HIDE DEF x
  <2>5. Reports(e)
    BY <2>1, <2>2, <2>3, <2>4 DEF Reports, OnlyAt, Rises
  <2> QED
    BY <1>4, <2>1, <2>5 DEF ExecStep
<1> QED
  BY <1>2, <1>8, <1>9, <1>10, <1>11

-----------------------------------------------------------------------------
(* The inductive invariant. *)

\* Every step of the system has the shape.
LEMMA NextShape == ASSUME IInv, [Next]_vars PROVE StepShape
<1>1. CASE UNCHANGED vars
  <2>1. Extends(cmd)
    BY SameExtends DEF IInv
  <2>2. Extends(cmd') /\ UNCHANGED <<exec, sent, worker>>
    BY <1>1, <2>1 DEF vars
  <2> QED
    BY <2>2, WorkerRests DEF StepShape, ExecStep
<1>2. CASE Request
  <2>1. UNCHANGED <<sent, worker>>
    BY <1>2 DEF Request, StartTask, Control, ForceExit, Recover, RepairStart
  <2> QED
    BY <1>2, <2>1, RequestShape, WorkerRests DEF StepShape
<1>3. CASE Housekeeping
  BY <1>3, PublishShape, TimeoutShape DEF Housekeeping
<1>4. CASE CommandMessage
  BY <1>4, CommandMessageShape, WorkerRests DEF StepShape
<1>5. CASE TaskMessage
  BY <1>5, TaskMessageShape, WorkerRests DEF StepShape
<1> QED
  BY <1>1, <1>2, <1>3, <1>4, <1>5 DEF Next

\* A command whose type says that it was created is in use.
LEMMA TypedInUse ==
    ASSUME Known, NEW c \in Commands, cmd[c].type # "none"
    PROVE  c \in InUse(cmd)
<1>1. NoCommand.type = "none"
  BY DEF NoCommand
<1> QED
  BY <1>1 DEF Known, WellFormed

\* Where the executions that a step leaves alone are.
LEMMA Elsewhere ==
    ASSUME IInv, NEW e \in Executions, OnlyAt(e)
    PROVE  /\ exec' \in [Executions -> ExecRecord]
           /\ \A f \in Executions \ {e} : exec'[f] = exec[f]
<1>1. exec \in [Executions -> ExecRecord]
  BY DEF IInv, TypeOK, ExecRecord
<1>2. exec' = [exec EXCEPT ![e] = exec'[e]] /\ exec'[e] \in ExecRecord
  BY DEF OnlyAt
<1> DEFINE x == exec'[e]
<1>3. exec' = [exec EXCEPT ![e] = x] /\ x \in ExecRecord
  BY <1>2
<1> HIDE DEF x
<1> QED
  BY <1>1, <1>3

\* Execution f before and after a step: as it was, moved by transition, begun,
\* revived or reported.
LEMMA ExecCases ==
    ASSUME IInv, ExecStep, NEW f \in Executions
    PROVE  /\ exec[f] \in ExecRecord
           /\ exec'[f] \in ExecRecord
           /\ exec'[f] = exec[f] \/ Moves(f) \/ Begins(f) \/ Revives(f) \/ Reports(f)
<1>1. exec[f] \in ExecRecord
  BY DEF IInv, TypeOK, ExecRecord
<1>2. CASE UNCHANGED exec
  BY <1>1, <1>2
<1>3. CASE \E e \in Executions : Moves(e) \/ Begins(e) \/ Revives(e) \/ Reports(e)
  <2>1. PICK e \in Executions : Moves(e) \/ Begins(e) \/ Revives(e) \/ Reports(e)
    BY <1>3
  <2>2. OnlyAt(e)
    BY <2>1 DEF Moves, Begins, Revives, Reports
  <2>3. exec'[f] \in ExecRecord /\ (f # e => exec'[f] = exec[f])
    BY <2>2, Elsewhere
  <2> QED
    BY <1>1, <2>1, <2>3
<1> QED
  BY <1>2, <1>3 DEF ExecStep

\* Empty tables and a thread at rest satisfy the invariant.
LEMMA InitInv == Init => IInv
<1> SUFFICES ASSUME Init PROVE IInv
  OBVIOUS
<1>1. /\ exec = [e \in Executions |-> Absent] /\ cmd = [c \in Commands |-> NoCommand]
      /\ sent = {} /\ worker = AtRest
  BY DEF Init
<1>2. Absent \in ExecRecord /\ Absent.state = "none"
  BY DEF Absent, ExecRecord, Codes
<1>3. NoCommand \in CmdRecord /\ NoCommand.type = "none"
  BY DEF NoCommand, CmdRecord, Codes
<1>4. AtRest \in WorkerRecord /\ AtRest.pc = "idle" /\ AtRest.todo = {}
  BY DEF AtRest, WorkerRecord
<1>5. cmd \in [Commands -> CmdRecord] /\ InUse(cmd) = {}
  <2>1. "none" \notin Types
    BY DEF Types, ControlTarget
  <2> QED
    BY <1>1, <1>3, <2>1 DEF InUse
<1>6. TypeOK
  <2>1. exec \in [Executions -> ExecRecord]
    BY <1>1, <1>2
  <2> QED
    BY <1>1, <1>4, <1>5, <2>1 DEF TypeOK, ExecRecord, CmdRecord, WorkerRecord
<1>7. Known
  BY <1>1, <1>4, <1>5 DEF Known, WellFormed
<1>8. Started
  BY <1>1, <1>5 DEF Started
<1>9. \A e \in Executions : exec[e].state \notin Active /\ exec[e].state # "timed_out"
  BY <1>1, <1>2 DEF Active
<1>10. OneActive /\ SaysSo
  BY <1>9 DEF OneActive, IsActive, SaysSo
<1>11. EnderAtWork
  BY <1>1, <1>4 DEF EnderAtWork
<1> QED
  BY <1>6, <1>7, <1>8, <1>10, <1>11 DEF IInv

\* The invariant survives every step.
LEMMA NextInv == IInv /\ [Next]_vars => IInv'
<1> SUFFICES ASSUME IInv, [Next]_vars PROVE IInv'
  OBVIOUS
<1>1. ExecStep /\ Extends(cmd') /\ WorkerStep
  BY NextShape DEF StepShape
<1>2. \A f \in Executions :
         /\ exec[f] \in ExecRecord
         /\ exec'[f] \in ExecRecord
         /\ exec'[f] = exec[f] \/ Moves(f) \/ Begins(f) \/ Revives(f) \/ Reports(f)
  BY <1>1, ExecCases
<1>3. exec' \in [Executions -> ExecRecord]
  <2>1. CASE UNCHANGED exec
    BY <2>1 DEF IInv, TypeOK, ExecRecord
  <2>2. CASE \E e \in Executions : OnlyAt(e)
    BY <2>2, Elsewhere
  <2> QED
    BY <1>1, <2>1, <2>2 DEF ExecStep, Moves, Begins, Revives, Reports
<1>4. /\ cmd' \in [Commands -> CmdRecord]
      /\ \A c \in Commands : cmd'[c] = NoCommand \/ c \in InUse(cmd')
      /\ \A c \in InUse(cmd') : c \in InUse(cmd) \/ Exists(cmd'[c].exec)
      /\ \A c \in InUse(cmd) : /\ c \in InUse(cmd') /\ cmd'[c].type = cmd[c].type
                               /\ cmd'[c].exec = cmd[c].exec
  BY <1>1 DEF Extends, WellFormed
<1>5. /\ worker' \in WorkerRecord
      /\ worker'.todo \subseteq InUse(cmd')
      /\ worker'.pc \in {"mark", "save", "look", "apply"} => worker'.cmd \in InUse(cmd')
      /\ worker'.pc = "apply" /\ worker'.target = "timed_out" =>
            cmd'[worker'.cmd].type \in {"cancel", "resume_forward", "recover"}
      /\ sent' \subseteq InUse(cmd')
  BY <1>1 DEF WorkerStep, Grounded
<1>6. TypeOK'
  <2>1. InUse(cmd') \subseteq Commands
    BY DEF InUse
  <2> QED
    BY <1>3, <1>4, <1>5, <2>1 DEF TypeOK, ExecRecord, CmdRecord, WorkerRecord
<1>7. Known'
  BY <1>4, <1>5 DEF Known, WellFormed, InUse
<1>8. EnderAtWork'
  BY <1>5 DEF EnderAtWork, Ender
<1>9. \A f \in Executions :
         /\ exec[f].state # "none" => exec'[f].state # "none"
         /\ exec'[f] = Absent \/ exec'[f].state # "none"
  <2> SUFFICES ASSUME NEW f \in Executions
               PROVE  /\ exec[f].state # "none" => exec'[f].state # "none"
                      /\ exec'[f] = Absent \/ exec'[f].state # "none"
    OBVIOUS
  <2>1. CASE exec'[f] = exec[f]
    BY <2>1 DEF IInv, Started
  <2>2. CASE Moves(f)
    <3>1. exec'[f].state \in States
      BY <2>2, AllowedStates DEF Moves
    <3> QED
      BY <3>1 DEF States, Active, Terminal
  <2>3. CASE Begins(f)
    BY <2>3 DEF Begins
  <2>4. CASE Revives(f)
    BY <2>4, Disjoint DEF Revives
  <2>5. CASE Reports(f)
    BY <2>5 DEF Reports
  <2> QED
    BY <1>2, <2>1, <2>2, <2>3, <2>4, <2>5
<1>10. Started'
  <2>1. \A c \in InUse(cmd') : cmd'[c].exec \in Executions
    BY DEF InUse
  <2>2. \A c \in InUse(cmd') : exec'[cmd'[c].exec].state # "none"
    BY <1>4, <1>9, <2>1 DEF IInv, Started, Exists
  <2> QED
    BY <1>9, <2>2 DEF Started, InUse
<1>11. OneActive'
  <2>1. \A f, g \in Executions :
           exec[f].state \in Active /\ exec[g].state \in Active => f = g
    BY DEF IInv, OneActive, IsActive
  <2>2. ASSUME NEW e \in Executions, Begins(e) \/ Revives(e)
        PROVE  \A f \in Executions : exec'[f].state \in Active => f = e
    <3>1. \A f \in Executions \ {e} : exec[f].state \notin Active
      BY <2>2 DEF Begins, Revives, Alone, IsActive
    <3>2. OnlyAt(e)
      BY <2>2 DEF Begins, Revives
    <3> QED
      BY <3>1, <3>2, Elsewhere
  <2>3. CASE \A f \in Executions : ~Begins(f) /\ ~Revives(f)
    <3>1. \A f \in Executions : exec'[f].state \in Active => exec[f].state \in Active
      BY <1>2, <2>3 DEF Moves, Reports, Allowed
    <3> QED
      BY <2>1, <3>1 DEF OneActive, IsActive
  <2> QED
    BY <2>2, <2>3 DEF OneActive, IsActive
<1>12. SaysSo'
  <2> SUFFICES ASSUME NEW f \in Executions, exec'[f].state = "timed_out"
               PROVE  exec'[f].code \in {Timeout, Expired}
    BY DEF SaysSo
  <2>1. CASE exec'[f] = exec[f] \/ Reports(f)
    BY <2>1 DEF IInv, SaysSo, Reports
  <2>2. CASE Moves(f)
    BY <2>2 DEF Moves, GivesUp
  <2>3. ~Begins(f) /\ ~Revives(f)
    BY DEF Begins, Revives, Active
  <2> QED
    BY <1>2, <2>1, <2>2, <2>3
<1> QED
  BY <1>6, <1>7, <1>8, <1>10, <1>11, <1>12 DEF IInv

\* Whatever the requests, the housekeeping thread and the Edge do.
THEOREM Invariance == Spec => []IInv
BY InitInv, NextInv, PTL DEF Spec

\* The tables hold what models.py declares, and the thread is somewhere.
THEOREM TypeCorrect == Spec => []TypeOK
<1>1. IInv => TypeOK
  BY DEF IInv
<1> QED
  BY <1>1, Invariance, PTL

\* create_execution and reconcile_edge_active_after_center_timeout never give
\* the robot a second active execution.
THEOREM OneActiveAlways == Spec => []OneActive
<1>1. IInv => OneActive
  BY DEF IInv
<1> QED
  BY <1>1, Invariance, PTL

-----------------------------------------------------------------------------
(* What a step may never do. *)

\* The sweeper ends an execution only for its own unanswered cancel, forward
\* resume or recovery (mark_timeout); otherwise the Edge has answered that time
\* ran out, and not to a pause, resume or recovery (_handle_command_result).
THEOREM EndedByTimeoutAlways == Spec => EndedByTimeout
<1>1. ASSUME IInv, [Next]_vars, NEW e \in Executions,
             exec[e].state # "timed_out", exec'[e].state = "timed_out"
      PROVE  \/ /\ worker' # worker
                /\ cmd[worker.cmd].exec = e
                /\ cmd[worker.cmd].type \in {"cancel", "resume_forward", "recover"}
                /\ exec'[e].code = Timeout
             \/ /\ worker' = worker
                /\ exec'[e].code \in {Timeout, Expired}
                /\ \E c \in sent :
                      /\ cmd[c].exec = e
                      /\ cmd[c].type \notin {"pause", "resume", "recover"}
  <2>1. Moves(e) \/ Begins(e) \/ Revives(e) \/ Reports(e)
    BY <1>1, NextShape, ExecCases DEF StepShape
  <2>2. Moves(e)
    BY <1>1, <2>1 DEF Begins, Revives, Reports, Active
  <2>3. GivesUp(e, exec'[e].code)
    BY <1>1, <2>2 DEF Moves
  <2> QED
    BY <1>1, <2>3 DEF GivesUp, IInv, EnderAtWork, Ender
<1>2. IInv /\ [Next]_vars =>
        [\A e \in Executions :
            exec[e].state # "timed_out" /\ exec'[e].state = "timed_out" =>
                \/ /\ worker' # worker
                   /\ cmd[worker.cmd].exec = e
                   /\ cmd[worker.cmd].type \in {"cancel", "resume_forward", "recover"}
                   /\ exec'[e].code = Timeout
                \/ /\ worker' = worker
                   /\ exec'[e].code \in {Timeout, Expired}
                   /\ \E c \in sent :
                         /\ cmd[c].exec = e
                         /\ cmd[c].type \notin {"pause", "resume", "recover"}]_vars
  BY <1>1
<1> QED
  BY <1>2, Invariance, PTL DEF Spec, EndedByTimeout

\* transition, reactivation and apply_progress only ever raise the version.
THEOREM VersionsAlwaysAdvance == Spec => VersionsAdvance
<1>1. ASSUME IInv, [Next]_vars, NEW e \in Executions
      PROVE  /\ exec'[e].version >= exec[e].version
             /\ exec'[e].state # exec[e].state => exec'[e].version > exec[e].version
  <2>1. /\ exec[e] \in ExecRecord /\ exec'[e] \in ExecRecord
        /\ exec'[e] = exec[e] \/ Moves(e) \/ Begins(e) \/ Revives(e) \/ Reports(e)
    BY <1>1, NextShape, ExecCases DEF StepShape
  <2>2. exec[e].version \in Nat /\ exec'[e].version \in Nat
    BY <2>1 DEF ExecRecord
  <2>3. CASE Begins(e)
    <3>1. Absent.version = 0
      BY DEF Absent
    <3> QED
      BY <2>3, <3>1 DEF Begins
  <2> QED
    BY <2>1, <2>2, <2>3 DEF Moves, Revives, Reports, Rises
<1>2. IInv /\ [Next]_vars =>
        [\A e \in Executions :
            /\ exec'[e].version >= exec[e].version
            /\ exec'[e].state # exec[e].state => exec'[e].version > exec[e].version]_vars
  BY <1>1
<1> QED
  BY <1>2, Invariance, PTL DEF Spec, VersionsAdvance

\* No transition leaves a terminal state; only the reactivation of an execution
\* the center timed out does.
THEOREM EndIsAlwaysFinal == Spec => EndIsFinal
<1>1. ASSUME IInv, [Next]_vars, NEW e \in Executions,
             IsTerminal(e), exec'[e].state # exec[e].state
      PROVE  exec[e].state = "timed_out" /\ IsActive(e)'
  <2>1. exec'[e] = exec[e] \/ Moves(e) \/ Begins(e) \/ Revives(e) \/ Reports(e)
    BY <1>1, NextShape, ExecCases DEF StepShape
  <2>2. exec[e].state \in Terminal /\ exec[e].state \notin Active
    BY <1>1, Disjoint DEF IsTerminal
  <2>3. ~Moves(e) /\ ~Reports(e)
    BY <1>1, <2>2 DEF Moves, Reports, Allowed
  <2>4. ~Begins(e)
    <3>1. Absent.state \notin Terminal
      BY DEF Absent, Terminal
    <3> QED
      BY <2>2, <3>1 DEF Begins
  <2>5. Revives(e)
    BY <1>1, <2>1, <2>3, <2>4
  <2>6. exec[e].state \in {"timed_out", "interrupted"} /\ exec'[e].state \in Active
    BY <2>5 DEF Revives, TimedOutByCenter
  <2> QED
    BY <2>2, <2>6 DEF IsActive, Active
<1>2. IInv /\ [Next]_vars =>
        [\A e \in Executions :
            IsTerminal(e) /\ exec'[e].state # exec[e].state =>
                exec[e].state = "timed_out" /\ IsActive(e)']_vars
  BY <1>1
<1> QED
  BY <1>2, Invariance, PTL DEF Spec, EndIsFinal

\* The step that ends an execution closes its start command with it, whoever
\* takes it.
THEOREM StartAlwaysFollowsEnd == Spec => StartFollowsEnd
<1>1. ASSUME IInv, [Next]_vars, NEW e \in Executions, NEW c \in Commands,
             IsStartOf(c, e), ~IsTerminal(e), IsTerminal(e)'
      PROVE  cmd'[c].status = StatusOf(exec'[e].state)
  <2>1. ExecStep /\ Extends(cmd')
    BY <1>1, NextShape DEF StepShape
  <2>2. exec'[e] = exec[e] \/ Moves(e) \/ Begins(e) \/ Revives(e) \/ Reports(e)
    BY <1>1, <2>1, ExecCases
  <2>3. exec'[e].state \in Terminal /\ exec[e].state \notin Terminal
    BY <1>1 DEF IsTerminal
  <2>4. ~Begins(e) /\ ~Revives(e)
    BY <2>3, Disjoint DEF Begins, Revives, Active
  <2>5. Moves(e)
    BY <2>2, <2>3, <2>4 DEF Reports
  <2>6. c \in InUse(cmd)
    BY <1>1, TypedInUse DEF IInv, IsStartOf
  <2>7. cmd'[c].type = "start" /\ cmd'[c].exec = e
    BY <1>1, <2>1, <2>6 DEF Extends, IsStartOf
  <2> QED
    BY <2>3, <2>5, <2>7 DEF Moves
<1>2. IInv /\ [Next]_vars =>
        [\A e \in Executions, c \in Commands :
            IsStartOf(c, e) /\ ~IsTerminal(e) /\ IsTerminal(e)' =>
                cmd'[c].status = StatusOf(exec'[e].state)]_vars
  BY <1>1
<1> QED
  BY <1>2, Invariance, PTL DEF Spec, StartFollowsEnd

-----------------------------------------------------------------------------
(* The start command of an execution that has ended. *)

\* The situation of StartStaysClosed.
Closed(c, e) ==
    /\ IsStartOf(c, e) /\ IsTerminal(e) /\ IsTerminal(e)'
    /\ cmd[c].status = StatusOf(exec[e].state)
KeptOrWorked(c) ==
    \/ cmd'[c].status = cmd[c].status
    \/ worker' # worker /\ c \in worker.todo \cup {worker.cmd}
Excepted(c, e) ==
    /\ exec[e].state = "timed_out"
    /\ exec[e].code = Expired \/ cmd'[c].status = "failed"

\* A transition of another execution leaves the command as its caller does,
\* and an execution that has ended makes none.
LEMMA MoveSpares ==
    ASSUME NEW e, NEW c \in Commands, exec[e].state \in Terminal, NEW f, NEW target, NEW version,
           NEW code, NEW commands, commands[c].exec = e, Move(f, target, version, code, commands)
    PROVE  f # e /\ cmd'[c] = commands[c]
<1>1. exec[f].state \in Active
  BY DEF Move, CanMove, Allowed
<1>2. f # e
  BY <1>1, Disjoint
<1> QED
  BY <1>2 DEF Move, Reconciled

\* One that ends as it had ended changes nothing.
LEMMA ReconciledSpares ==
    ASSUME NEW e, NEW c \in Commands, Closed(c, e), NEW f, cmd' = Reconciled(cmd, f, exec[f])
    PROVE  cmd'[c] = cmd[c]
  BY DEF Closed, IsStartOf, Reconciled

LEMMA NewSpares ==
    ASSUME IInv, NEW c \in Commands, cmd[c].type = "start", NEW d \in Commands, Unused(d),
           NEW type, NEW f
    PROVE  NewCommand(d, type, f)[c] = cmd[c]
<1>1. NoCommand.type = "none" /\ cmd[d] = NoCommand
  BY DEF Unused, NoCommand
<1>2. c # d
  BY <1>1
<1> QED
  BY <1>2 DEF NewCommand, IInv, TypeOK

LEMMA ReactivateSpares ==
    ASSUME IInv, NEW e \in Executions, NEW c, Closed(c, e), NEW f, NEW target, NEW version, NEW code,
           NEW commands, Reactivate(f, target, version, code, commands)
    PROVE  f # e
<1> SUFFICES ASSUME f = e PROVE FALSE
  OBVIOUS
<1>1. exec'[e].state = target /\ target \in Active
  BY DEF Reactivate, IInv, TypeOK
<1> QED
  BY <1>1, Disjoint DEF Closed, IsTerminal

LEMMA RequestSpares ==
    ASSUME IInv, NEW e \in Executions, NEW c \in Commands, Closed(c, e), Request
    PROVE  cmd'[c] = cmd[c]
<1>1. cmd[c].type = "start" /\ cmd[c].exec = e /\ exec[e].state \in Terminal
  BY DEF Closed, IsStartOf, IsTerminal
<1>2. ASSUME NEW f \in Executions, NEW d \in Commands, StartTask(f, d) \/ Recover(f, d)
      PROVE  cmd'[c] = cmd[c]
  <2>1. Unused(d) /\ (cmd' = NewCommand(d, "start", f) \/ cmd' = NewCommand(d, "recover", f))
    BY <1>2 DEF StartTask, Recover
  <2> QED
    BY <1>1, <2>1, NewSpares
<1>3. ASSUME NEW f \in Executions, NEW d \in Commands, NEW type \in DOMAIN ControlTarget,
             Control(f, d, type)
      PROVE  cmd'[c] = cmd[c]
  <2>1. NewCommand(d, type, f)[c] = cmd[c]
    BY <1>1, <1>3, NewSpares DEF Control
  <2> DEFINE new == NewCommand(d, type, f)
  <2>2. PICK s, v, k : Move(f, s, v, k, new)
    BY <1>3 DEF Control
  <2> HIDE DEF new
  <2> QED
    BY <1>1, <2>1, <2>2, MoveSpares DEF new
<1>4. ASSUME NEW f \in Executions, NEW d \in Commands, ForceExit(f, d)
      PROVE  cmd'[c] = cmd[c]
  <2>1. NewCommand(d, "force_exit", f)[c] = cmd[c]
    BY <1>1, <1>4, NewSpares DEF ForceExit
  <2> QED
    BY <1>1, <1>4, <2>1, MoveSpares DEF ForceExit
<1>5. ASSUME NEW f \in Executions, RepairStart(f)
      PROVE  cmd'[c] = cmd[c]
  BY <1>5, ReconciledSpares DEF RepairStart
<1> QED
  BY <1>2, <1>3, <1>4, <1>5 DEF Request

\* The thread writes only to rows it has fetched.
LEMMA HousekeepingSpares ==
    ASSUME IInv, NEW e \in Executions, NEW c \in Commands, Closed(c, e), Housekeeping
    PROVE  KeptOrWorked(c)
<1>1. cmd[c].type = "start" /\ cmd[c].exec = e /\ exec[e].state \in Terminal
  BY DEF Closed, IsStartOf, IsTerminal
<1>2. CASE UNCHANGED cmd
  BY <1>2 DEF KeptOrWorked
<1>3. CASE MarkPublished
  <2>1. worker.pc = "mark" /\ worker'.pc \in {"idle", "publish"}
    BY <1>3 DEF MarkPublished, Following, AtRest
  <2> QED
    BY <1>3, <2>1 DEF MarkPublished, KeptOrWorked, IInv, TypeOK
<1>4. ASSUME NEW d \in Commands, PublishFails(d)
      PROVE  KeptOrWorked(c)
  <2>1. worker' # worker /\ d \in worker.todo
    BY <1>4 DEF PublishFails, AtRest
  <2>2. c # d => cmd'[c] = cmd[c]
    BY <1>4 DEF PublishFails, IInv, TypeOK
  <2> QED
    BY <2>1, <2>2 DEF KeptOrWorked
<1>5. ASSUME NEW d \in Commands, TimeoutPrecheck(d)
      PROVE  cmd'[c] = cmd[c]
  BY <1>5, ReconciledSpares DEF TimeoutPrecheck
<1>6. CASE TimeoutSave
  <2>1. worker' # worker
    BY <1>6 DEF TimeoutSave, IInv, TypeOK
  <2>2. c # worker.cmd => cmd'[c] = cmd[c]
    BY <1>6 DEF TimeoutSave, IInv, TypeOK
  <2> QED
    BY <2>1, <2>2 DEF KeptOrWorked
<1>7. CASE TimeoutApply
  BY <1>1, <1>7, MoveSpares DEF TimeoutApply, KeptOrWorked
<1>8. CASE \/ FetchPending \/ TimeoutLook \/ HousekeepingFails
           \/ \E overdue \in SUBSET Commands : FetchOverdue(overdue)
           \/ \E d \in Commands : Publish(d)
  BY <1>2, <1>8 DEF FetchPending, TimeoutLook, HousekeepingFails, FetchOverdue, Publish
<1> QED
  BY <1>3, <1>4, <1>5, <1>6, <1>7, <1>8 DEF Housekeeping, KeptOrWorked

\* A message about another command leaves this one to what the execution does.
LEMMA SetSpares ==
    ASSUME IInv, NEW c \in Commands, NEW d, d # c, NEW status
    PROVE  SetStatus(d, status)[c] = cmd[c]
  BY DEF SetStatus, IInv, TypeOK

LEMMA AckSpares ==
    ASSUME IInv, NEW e \in Executions, NEW c \in Commands, Closed(c, e), NEW d \in sent,
           NEW accepted \in BOOLEAN, NEW version, Ack(d, accepted, version)
    PROVE  cmd'[c] = cmd[c]
<1>1. cmd[c].type = "start" /\ cmd[c].exec = e /\ exec[e].state \in Terminal
  BY DEF Closed, IsStartOf, IsTerminal
<1> DEFINE acked == SetStatus(d, IF accepted THEN "accepted" ELSE "rejected")
<1>2. acked[c].exec = e
  BY <1>1 DEF SetStatus, IInv, TypeOK
<1>3. \/ cmd[d].type # "start" /\ cmd' = acked
      \/ \E v, k : cmd[d].type = "start" /\ Reactivate(cmd[d].exec, "accepted", v, k, acked)
      \/ \E s, v, k : cmd[d].type = "start" /\ Move(cmd[d].exec, s, v, k, acked)
  BY DEF Ack
<1>4. ASSUME NEW s, NEW v, NEW k, Move(cmd[d].exec, s, v, k, acked)
      PROVE  cmd[d].exec # e /\ cmd'[c] = acked[c]
  <2> HIDE DEF acked
  <2> QED
    BY <1>1, <1>2, <1>4, MoveSpares
<1>5. cmd'[c] = acked[c]
  BY <1>3, <1>4 DEF Reactivate
<1>6. d # c
  <2> SUFFICES ASSUME d = c PROVE FALSE
    OBVIOUS
  <2>1. ASSUME NEW v, NEW k PROVE ~Reactivate(e, "accepted", v, k, acked)
    BY ReactivateSpares
  <2> HIDE DEF acked
  <2> QED
    BY <1>1, <1>3, <1>4, <2>1
<1> QED
  BY <1>5, <1>6, SetSpares

\* Progress reopens a start that the timer closed only with its execution,
\* unless the Edge had given the execution as expired.
LEMMA ProgressSpares ==
    ASSUME IInv, NEW e \in Executions, NEW c \in Commands, Closed(c, e), NEW d \in sent,
           NEW version, Progress(d, version)
    PROVE  cmd'[c] = cmd[c] \/ Excepted(c, e)
<1>1. cmd[c].type = "start" /\ cmd[c].exec = e /\ exec[e].state \in Terminal
      /\ cmd[c].status = StatusOf(exec[e].state)
  BY DEF Closed, IsStartOf, IsTerminal
<1>2. cmd' = SetStatus(d, "executing")
  BY DEF Progress, Reactivate
<1>3. d # c \/ Excepted(c, e)
  <2> SUFFICES ASSUME d = c, ~Excepted(c, e) PROVE FALSE
    OBVIOUS
  <2>1. cmd[c].status \notin OpenStatuses
    BY <1>1 DEF StatusOf, Terminal, OpenStatuses
  <2>2. ClosedByTimer(c)
    BY <2>1 DEF Progress, TakesProgress
  <2>3. exec[e].state = "timed_out"
    BY <1>1, <2>2 DEF ClosedByTimer, StatusOf, Terminal
  <2>4. TimedOutByCenter(e)
    BY <2>3 DEF TimedOutByCenter, IInv, SaysSo, Excepted
  <2> QED
    BY <1>1, <2>2, <2>4, ReactivateSpares DEF Progress
<1> QED
  BY <1>2, <1>3, SetSpares

\* A repeated result is the one the command was closed with, or a failure that
\* time is blamed for.
LEMMA ResultSpares ==
    ASSUME IInv, NEW e \in Executions, NEW c \in Commands, Closed(c, e), NEW d \in sent,
           NEW result \in Results(cmd[d].type), NEW version, Result(d, result, version)
    PROVE  cmd'[c].status = cmd[c].status \/ Excepted(c, e)
<1>1. cmd[c].type = "start" /\ cmd[c].exec = e /\ exec[e].state \in Terminal
      /\ cmd[c].status = StatusOf(exec[e].state)
  BY DEF Closed, IsStartOf, IsTerminal
<1> DEFINE answered == [cmd EXCEPT ![d].status = result.status,
                                   ![d].code = result.code]
           target == ResultTarget(cmd[d].type, result, exec[cmd[d].exec].state)
<1>2. \/ target = exec[cmd[d].exec].state /\ cmd' = answered
      \/ \E v, k : Move(cmd[d].exec, target, v, k, answered)
  BY DEF Result
<1>3. answered[c].exec = e /\ (d # c => answered[c] = cmd[c])
  BY <1>1 DEF IInv, TypeOK
<1>a. ASSUME NEW v, NEW k, Move(cmd[d].exec, target, v, k, answered)
      PROVE  cmd[d].exec # e /\ cmd'[c] = answered[c]
  <2> HIDE DEF answered, target
  <2> QED
    BY <1>1, <1>3, <1>a, MoveSpares
<1>4. cmd'[c] = answered[c]
  BY <1>2, <1>a
<1>5. CASE d # c
  BY <1>3, <1>4, <1>5
<1>6. CASE d = c
  <2>1. target = exec[e].state
    BY <1>1, <1>2, <1>6, <1>a
  <2>2. answered[c].status = result.status
    BY <1>6 DEF IInv, TypeOK
  <2>3. \/ result.final = "none" /\ result.status = "failed"
        \/ result.final = "none" /\ result.status = "timed_out"
           /\ result.code \in {Timeout, Expired}
        \/ result.status = "succeeded" /\ result.final = "completed"
        \/ result.status = result.final /\ result.final \in {"failed", "cancelled"}
    BY <1>1, <1>6, ErrorCodesAssumption DEF Results, Answers, Timeout, Expired
  <2>4. CASE result.final = "none"
    <3>1. target = IF result.code \in {Timeout, Expired} THEN "timed_out" ELSE "failed"
      BY <1>1, <1>6, <2>4 DEF ResultTarget
    <3> HIDE DEF target, answered
    <3>2. CASE result.status = "failed"
      <4>1. exec[e].state = "timed_out" => Excepted(c, e)
        BY <1>4, <2>2, <3>2 DEF Excepted
      <4>2. exec[e].state # "timed_out" => exec[e].state = "failed"
        BY <2>1, <3>1
      <4>3. exec[e].state = "failed" => cmd[c].status = "failed"
        BY <1>1 DEF StatusOf
      <4> QED
        BY <1>4, <2>2, <3>2, <4>1, <4>2, <4>3
    <3>3. CASE result.status = "timed_out" /\ result.code \in {Timeout, Expired}
      BY <1>1, <1>4, <2>1, <2>2, <3>1, <3>3 DEF StatusOf
    <3> QED
      BY <2>3, <2>4, <3>2, <3>3
  <2>5. CASE result.final # "none"
    <3>1. exec[e].state = result.final
      BY <2>1, <2>5 DEF ResultTarget
    <3> QED
      BY <1>1, <1>4, <2>2, <2>3, <2>5, <3>1 DEF StatusOf
  <2> QED
    BY <2>4, <2>5
<1> QED
  BY <1>5, <1>6

LEMMA TaskMessageSpares ==
    ASSUME IInv, NEW e \in Executions, NEW c \in Commands, Closed(c, e), TaskMessage
    PROVE  cmd'[c] = cmd[c]
<1>1. cmd[c].exec = e /\ exec[e].state \in Terminal
  BY DEF Closed, IsStartOf, IsTerminal
<1>2. \/ cmd' = cmd
      \/ \E f, s, v, k : Move(f, s, v, k, cmd)
      \/ \E f, s, v, k : Reactivate(f, s, v, k, cmd)
  BY DEF TaskMessage, TaskEvent, Sync, SafeHold, VersionRaised
<1> QED
  BY <1>1, <1>2, MoveSpares DEF Reactivate

\* No message changes the start command of an execution that has ended: only
\* the housekeeping thread's own writes to a row it has fetched can, and answers
\* blamed on time once the execution has timed out
\* (_handle_command_ack, _handle_command_progress, _handle_command_result).
THEOREM StartAlwaysStaysClosed == Spec => StartStaysClosed
<1>1. ASSUME IInv, Next, NEW e \in Executions, NEW c \in Commands, Closed(c, e)
      PROVE  KeptOrWorked(c) \/ Excepted(c, e)
  <2>1. CASE Request
    BY <1>1, <2>1, RequestSpares DEF KeptOrWorked
  <2>2. CASE Housekeeping
    BY <1>1, <2>2, HousekeepingSpares
  <2>3. CASE CommandMessage
    <3>1. PICK d \in sent : \E version :
                  \/ \E accepted \in BOOLEAN : Ack(d, accepted, version)
                  \/ Progress(d, version)
                  \/ \E result \in Results(cmd[d].type) : Result(d, result, version)
      BY <2>3 DEF CommandMessage
    <3> QED
      BY <1>1, <3>1, AckSpares, ProgressSpares, ResultSpares DEF KeptOrWorked
  <2>4. CASE TaskMessage
    BY <1>1, <2>4, TaskMessageSpares DEF KeptOrWorked
  <2> QED
    BY <1>1, <2>1, <2>2, <2>3, <2>4 DEF Next
<1>2. IInv /\ [Next]_vars =>
        [\A e \in Executions, c \in Commands :
            /\ IsStartOf(c, e) /\ IsTerminal(e) /\ IsTerminal(e)'
            /\ cmd[c].status = StatusOf(exec[e].state)
            => \/ cmd'[c].status = cmd[c].status
               \/ worker' # worker /\ c \in worker.todo \cup {worker.cmd}
               \/ /\ exec[e].state = "timed_out"
                  /\ exec[e].code = Expired \/ cmd'[c].status = "failed"]_vars
  BY <1>1 DEF Closed, KeptOrWorked, Excepted
<1> QED
  BY <1>2, Invariance, PTL DEF Spec, StartStaysClosed

-----------------------------------------------------------------------------
(* The abstract lifecycle. *)

\* Active states are one phase, the others keep their name.
LEMMA Phases ==
    ASSUME NEW s \in States \cup {"none"}
    PROVE  /\ s \in Active <=> Phase(s) = "active"
           /\ s \notin Active => Phase(s) = s
BY DEF Phase, States, Active, Terminal

\* A step that raises the version of e alone, in the lifecycle's variables.
LEMMA ChangeMaps ==
    ASSUME IInv, NEW e \in Executions, OnlyAt(e), Rises(e)
    PROVE  LET ph == [f \in Executions |-> Phase(exec[f].state)]
               v == [f \in Executions |-> exec[f].version]
           IN  /\ ph' = [ph EXCEPT ![e] = Phase(exec'[e].state)]
               /\ v'[e] > v[e]
               /\ v' = [v EXCEPT ![e] = v'[e]]
<1>1. \A f \in Executions \ {e} : exec'[f] = exec[f]
  BY Elsewhere
<1> QED
  BY <1>1 DEF Rises

\* The center implements the lifecycle: create_execution begins, transition
\* advances or ends, reconcile_edge_active_after_center_timeout revives, and
\* nothing else happens to an execution.
THEOREM CenterImplementsLifecycle == Spec => ImplementsLifecycle
<1> DEFINE ph == [f \in Executions |-> Phase(exec[f].state)]
           v == [f \in Executions |-> exec[f].version]
<1>1. Init => Lifecycle!Init
  <2> SUFFICES ASSUME Init PROVE Lifecycle!Init
    OBVIOUS
  <2>1. Absent.state = "none" /\ Absent.version = 0
    BY DEF Absent
  <2>2. \A f \in Executions : exec[f] = Absent
    BY DEF Init
  <2>3. Phase("none") = "none"
    BY DEF Phase, Active
  <2> QED
    BY <2>1, <2>2, <2>3 DEF Lifecycle!Init
<1>2. ASSUME IInv, [Next]_vars
      PROVE  Lifecycle!Next \/ UNCHANGED <<ph, v>>
  <2>1. ExecStep
    BY <1>2, NextShape DEF StepShape
  <2>2. CASE UNCHANGED exec
    BY <2>2
  <2>3. ASSUME NEW e \in Executions, Moves(e) \/ Begins(e) \/ Revives(e) \/ Reports(e)
        PROVE  Lifecycle!Begin(e) \/ Lifecycle!Advance(e)
               \/ Lifecycle!End(e) \/ Lifecycle!Revive(e)
    <3> DEFINE s == exec[e].state
               t == exec'[e].state
    <3>1. OnlyAt(e)
      BY <2>3 DEF Moves, Begins, Revives, Reports
    <3>2. /\ exec[e] \in ExecRecord /\ exec'[e] \in ExecRecord
          /\ \A f \in Executions \ {e} : exec'[f] = exec[f]
      BY <1>2, <2>1, <3>1, ExecCases, Elsewhere
    <3>3. s \in States \cup {"none"} /\ t \in States \cup {"none"}
      BY <3>2 DEF ExecRecord
    <3>4. Rises(e)
      <4>1. Absent.version = 0
        BY DEF Absent
      <4> QED
        BY <2>3, <4>1 DEF Moves, Begins, Revives, Reports, Rises
    <3>5. /\ ph' = [ph EXCEPT ![e] = Phase(t)]
          /\ v'[e] > v[e]
          /\ v' = [v EXCEPT ![e] = v'[e]]
      BY <1>2, <3>1, <3>4, ChangeMaps
    <3>6. \A f \in Executions : exec[f].state \in States \cup {"none"}
      BY <1>2 DEF IInv, TypeOK
    <3>7. (\A f \in Executions : ~IsActive(f)) => Lifecycle!RobotFree
      BY <3>6, Phases DEF IsActive, Lifecycle!RobotFree
    <3>8. ph[e] = Phase(s)
      OBVIOUS
    <3>9. CASE Moves(e)
      <4>1. s \in Active /\ t \in States
        BY <3>9, AllowedStates DEF Moves
      <4>2. ph[e] = "active"
        BY <3>3, <3>8, <4>1, Phases
      <4>3. CASE t \in Active
        <5>1. Phase(t) = "active"
          BY <3>3, <4>3, Phases
        <5> QED
          BY <3>5, <4>2, <5>1 DEF Lifecycle!Advance, Lifecycle!Change
      <4>4. CASE t \in Terminal
        <5>1. Phase(t) = t
          BY <3>3, <4>4, Phases, Disjoint
        <5>2. t \in Lifecycle!Ends
          BY <4>4 DEF Terminal, Lifecycle!Ends, Lifecycle!GivenUp
        <5> HIDE DEF t
        <5> QED
          BY <3>5, <4>2, <5>1, <5>2 DEF Lifecycle!End, Lifecycle!Change
      <4> QED
        BY <4>1, <4>3, <4>4 DEF States
    <3>10. CASE Begins(e)
      <4>1. s = "none" /\ Phase(s) = "none"
        <5>1. Absent.state = "none"
          BY DEF Absent
        <5>2. s = "none"
          BY <3>10, <5>1 DEF Begins
        <5> QED
          BY <5>2 DEF Phase, Active
      <4>2. Phase(t) = "active"
        BY <3>10 DEF Begins, Phase, Active
      <4>3. Lifecycle!RobotFree
        BY <3>7, <3>10 DEF Begins
      <4> QED
        BY <3>5, <3>8, <4>1, <4>2, <4>3 DEF Lifecycle!Begin, Lifecycle!Change
    <3>11. CASE Revives(e)
      <4>1. Phase(t) = "active"
        BY <3>11 DEF Revives, Phase
      <4>2. CASE s = "interrupted"
        <5>1. ph[e] = "active"
          BY <3>8, <4>2 DEF Phase, Active
        <5> QED
          BY <3>5, <4>1, <5>1 DEF Lifecycle!Advance, Lifecycle!Change
      <4>3. CASE s = "timed_out"
        <5>1. ph[e] = "timed_out" /\ s \notin Active
          BY <3>8, <4>3 DEF Phase, Active
        <5>2. \A f \in Executions : ~IsActive(f)
          BY <3>11, <5>1 DEF Revives, Alone, IsActive
        <5>3. Lifecycle!RobotFree
          BY <3>7, <5>2
        <5> QED
          BY <3>5, <4>1, <5>1, <5>3 DEF Lifecycle!Revive, Lifecycle!Change, Lifecycle!GivenUp
      <4> QED
        BY <3>11, <4>2, <4>3 DEF Revives, TimedOutByCenter
    <3>12. CASE Reports(e)
      <4>1. s # "none" /\ t = s
        BY <3>12 DEF Reports
      <4>2. ph[e] # "none" /\ Phase(t) = ph[e]
        BY <3>3, <3>8, <4>1, Phases
      <4> QED
        BY <3>5, <4>2 DEF Lifecycle!Advance, Lifecycle!Change
    <3> QED
      BY <2>3, <3>9, <3>10, <3>11, <3>12
  <2> QED
    BY <2>1, <2>2, <2>3 DEF ExecStep, Lifecycle!Next
<1>3. IInv /\ [Next]_vars => [Lifecycle!Next]_(Lifecycle!lifecycle)
  BY <1>2 DEF Lifecycle!lifecycle
<1> QED
  BY <1>1, <1>3, Invariance, PTL DEF Spec, ImplementsLifecycle, Lifecycle!Spec

=============================================================================
