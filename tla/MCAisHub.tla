------------------------------ MODULE MCAisHub ------------------------------
(* The instance of AisHub that TLC checks.                                  *)
EXTENDS AisHub, TLC

(* A vessel that is renamed with its second report.                         *)
MCNamed == Mmsis \X {1}
Symmetry == Permutations(Requests) \cup Permutations(Mmsis)
=============================================================================
