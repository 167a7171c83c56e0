------------------------- MODULE MCTraceAttribution -------------------------
(* Instances of TraceAttribution for TLC. *)
EXTENDS TraceAttribution, TLC

Symmetric == Permutations(Trace)
=============================================================================
