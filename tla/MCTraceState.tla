---------------------------- MODULE MCTraceState ----------------------------
(* Instances of TraceState: a commercial and a beta device in developer     *)
(* mode, with two processes that ask for application traces.                *)
EXTENDS TraceState, TLC

CONSTANTS a1, a2

(* At most one hitrace call of an operation fails.                          *)
MCFailureSets == {f \in SUBSET Calls : Cardinality(f) <= 1}

(* The processes are interchangeable.                                       *)
Symmetric == Permutations(Apps)
=============================================================================
