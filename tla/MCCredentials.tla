---------------------------- MODULE MCCredentials ---------------------------
(* Credentials with interchangeable operators and bounded histories. *)
EXTENDS Credentials, TLC

CONSTANTS
  MaxKeys,   \* bound: how many key pairs are generated
  MaxPurges  \* bound: how often the control plane is purged

Symmetry == Permutations(Operators)
Bounded == keys <= MaxKeys /\ purges <= MaxPurges
=============================================================================
