--------------------------- MODULE MCOtlpDelivery ---------------------------
(* Instance of OtlpDelivery for TLC: a root and a span that ended after it *)
(* are exported together, a child of the same trace at the same time.      *)
EXTENDS OtlpDelivery

CONSTANTS e1, e2, t1, root, child, late

MCGiven == (e1 :> <<root, late>>) @@ (e2 :> <<child>>)
MCTraceOf == [s \in {root, child, late} |-> t1]
MCFull == (root :> 1) @@ (child :> 2) @@ (late :> 2)
MCBare == (root :> 1) @@ (child :> 1) @@ (late :> 2)
=============================================================================
