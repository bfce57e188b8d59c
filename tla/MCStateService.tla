--------------------------- MODULE MCStateService ----------------------------
(* Instances of StateService for TLC. *)
EXTENDS StateService, TLC

CONSTANTS v1, v2

MCPushValues(f) ==
  CASE f = Backend -> {"ENABLED", "DISABLED", "UNKNOWN"}
    [] f = Os -> {"ALLOWED", "DENIED", "UNKNOWN"}
    [] f = Braze -> {"REGISTERED", "NOT_REGISTERED", "UNKNOWN"}
    [] OTHER -> {"UNKNOWN"}

\* The facts that are compared; any field may have either of two values.
MCProfileFacts == {<<"auth", "email">>, <<"backend", "email">>, <<"job_profile", "email">>,
                   <<"backend", "postal_code">>, <<"job_profile", "postal_code">>}
MCProfileValues(f) == {v1, v2}
AnyValue == Permutations({v1, v2})
=============================================================================
