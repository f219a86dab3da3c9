-------------------------- MODULE MCScheduledMail --------------------------
(* Constant values for model-checking ScheduledMail on small instances.    *)
EXTENDS ScheduledMail

MCReviewOf == [f \in Reviews |-> CHOOSE a \in Apps : TRUE]
MCEndOf == [f \in Reviews |-> 1]
=============================================================================
