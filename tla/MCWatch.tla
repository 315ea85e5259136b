------------------------------- MODULE MCWatch -------------------------------
(* Instances of Watch for TLC. *)
EXTENDS Watch, TLC

AnyPayment == Permutations(Watched)

=============================================================================
