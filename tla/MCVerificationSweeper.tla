------------------------ MODULE MCVerificationSweeper ------------------------
(* Instances of VerificationSweeper for TLC. *)
EXTENDS VerificationSweeper, TLC

\* Pods are interchangeable in Init, Next and the invariants.
PodSymmetry == Permutations(Pods)
=============================================================================
