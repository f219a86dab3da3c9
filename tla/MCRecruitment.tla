---------------------------- MODULE MCRecruitment ----------------------------
(* Small instances of Recruitment for TLC. *)
EXTENDS Recruitment, TLC

Everything ==
  {"stage", "restore", "schedule", "createOffer", "updateOffer", "review", "link", "answer", "hire", "delete"}

\* The calls are interchangeable, and so are the identities.
Interchangeable == Permutations(Tasks) \cup Permutations(Identities)
=============================================================================
