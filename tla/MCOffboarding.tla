---------------------------- MODULE MCOffboarding ----------------------------
(* Small instances of Offboarding composed with AssetCustody for TLC. *)
EXTENDS Offboarding, TLC

OneUnit == [s \in StockItems |-> 1]

Everything ==
  {"assign", "laptop", "createSystem", "deleteSystem", "updateSystem",
   "initiate", "complete", "cancel", "delete", "exitDate", "task"}

\* The calls are interchangeable, and so are the employees.
Interchangeable == Permutations(Calls) \cup Permutations(Employees)
=============================================================================
