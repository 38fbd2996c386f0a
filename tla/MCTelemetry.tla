----------------------------- MODULE MCTelemetry -----------------------------
(* The plans of the instance: a manual session, which modules and timers     *)
(* switch, or a session by itself or following the screen and then another.  *)
EXTENDS Telemetry, TLC

MCPlans == {<<"MANUAL">>, <<"POWER", "DEFAULT">>, <<"DEFAULT", "DEFAULT">>}

(* The modules are interchangeable.                                          *)
Symmetric == Permutations(Modules)
=============================================================================
