-------------------------- MODULE MCRecoveryLease --------------------------
(* Bounded instances of RecoveryLease for TLC. *)
EXTENDS RecoveryLease, TLC

\* The recovery threads are interchangeable in every safety property.
Symmetry == Permutations(Workers)

=============================================================================
