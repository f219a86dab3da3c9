-------------------------- MODULE MCChangeRequests --------------------------
(* Small instances of ChangeRequests for TLC. *)
EXTENDS ChangeRequests, TLC

Everything ==
  {"submit", "approve", "reject", "delete", "migrate", "edit", "photosToLinks", "photosFromLinks"}

NewPhoto == {<<1, "new">>}

CallSymmetry == Permutations(Calls) \cup Permutations(Contents)
=============================================================================
