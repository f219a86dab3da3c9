--------------------------- MODULE MCOnboarding ---------------------------
(* The small instance Onboarding is model-checked on.                      *)
EXTENDS Onboarding

MCItems == {"email", "form"}

\* HR sets an address, or the status, or both.
MCEdited == {<<"a", Unsent>>, <<"b", "active">>, <<Unsent, "departed">>, <<Unsent, "active">>}
=============================================================================
