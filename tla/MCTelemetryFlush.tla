-------------------------- MODULE MCTelemetryFlush --------------------------
(* Instances of TelemetryFlush for TLC. *)
EXTENDS TelemetryFlush
=============================================================================
