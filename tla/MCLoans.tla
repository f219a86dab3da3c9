------------------------------ MODULE MCLoans ------------------------------
(* Workloads for model-checking Loans on small instances.                  *)
EXTENDS Loans, TLC

Everything == AllEndpoints

\* Calls are interchangeable.
CallSymmetry == Permutations(Calls)
=============================================================================
