---------------------------- MODULE MCTelemetry ----------------------------
(* Finite instances of Telemetry. *)
EXTENDS Telemetry, TLC

\* Requests that succeed with the rule planner and requests that fail.
SomePlanners == {"rule", None}

\* Worker threads are interchangeable.
Workers == Permutations(Threads)
=============================================================================
