--------------------------- MODULE TaskLifecycle ---------------------------
(***************************************************************************)
(* What the center promises about the task executions of one robot, with   *)
(* nothing said of commands, messages or timers: one task at a time, ended *)
(* once, every change under a greater version.  Only a task that was given *)
(* up for lost can come back, and only while the robot has no other.       *)
(*                                                                         *)
(* CenterTask is shown to implement this.                                  *)
(***************************************************************************)
EXTENDS Naturals

CONSTANT Executions

VARIABLES
    phase,      \* per execution: none, active, or how it ended
    version     \* per execution: the version of its latest change

lifecycle == <<phase, version>>

GivenUp == "timed_out"
Ends == {"completed", "failed", "cancelled", "rejected", GivenUp}

Init ==
    /\ phase = [e \in Executions |-> "none"]
    /\ version = [e \in Executions |-> 0]

RobotFree == \A e \in Executions : phase[e] # "active"

\* e goes to phase p under a version greater than its last.
Change(e, p) ==
    /\ phase' = [phase EXCEPT ![e] = p]
    /\ version'[e] > version[e]
    /\ version' = [version EXCEPT ![e] = version'[e]]

Begin(e) == phase[e] = "none" /\ RobotFree /\ Change(e, "active")

\* Something happened to the task, or was reported of it, after its end too.
Advance(e) == phase[e] # "none" /\ Change(e, phase[e])

End(e) == phase[e] = "active" /\ \E p \in Ends : Change(e, p)

Revive(e) == phase[e] = GivenUp /\ RobotFree /\ Change(e, "active")

Next == \E e \in Executions : Begin(e) \/ Advance(e) \/ End(e) \/ Revive(e)

Spec == Init /\ [][Next]_lifecycle

=============================================================================
