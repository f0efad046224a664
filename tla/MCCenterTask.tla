---------------------------- MODULE MCCenterTask ----------------------------
(* Bounded instances of CenterTask for TLC. *)
EXTENDS CenterTask, TLC

\* Executions and commands are only told apart by what they hold.
Symmetry == Permutations(Executions) \cup Permutations(Commands)

=============================================================================
