----------------------------- MODULE ImportLedger -----------------------------
(***************************************************************************)
(* What an import of prepared traces promises of what Hue holds, without   *)
(* processes, progress files or requests: the values of a trace come       *)
(* before its batches, its batches arrive in their declared order, and the *)
(* import is completed once every trace is whole.                          *)
(***************************************************************************)
EXTENDS Naturals, Sequences

CONSTANTS
    Trace,      \* the traces of the bundle
    Values,     \* Values[t]: the large values of a trace
    Batches     \* Batches[t]: its batches, in declared order

VARIABLES
    held,       \* the values Hue has stored and completed
    landed,     \* the batches Hue has acknowledged or will
    completed   \* the import is completed

ItemsOf(list) == {list[i] : i \in DOMAIN list}
AllValues == UNION {ItemsOf(Values[t]) : t \in Trace}
AllBatches == UNION {ItemsOf(Batches[t]) : t \in Trace}

Whole(t) == ItemsOf(Values[t]) \subseteq held /\ ItemsOf(Batches[t]) \subseteq landed

(* The batch may arrive: the values of its trace and the batches before it *)
(* have.                                                                   *)
Due(t, i) ==
    /\ ItemsOf(Values[t]) \subseteq held
    /\ \A j \in DOMAIN Batches[t] : j < i => Batches[t][j] \in landed

Init == held = {} /\ landed = {} /\ completed = FALSE

Hold(v) ==
    /\ held' = held \cup {v}
    /\ UNCHANGED <<landed, completed>>

Land(t, i) ==
    /\ Due(t, i)
    /\ landed' = landed \cup {Batches[t][i]}
    /\ UNCHANGED <<held, completed>>

Complete ==
    /\ \A t \in Trace : Whole(t)
    /\ completed' = TRUE
    /\ UNCHANGED <<held, landed>>

Next ==
    \/ \E v \in AllValues : Hold(v)
    \/ \E t \in Trace : \E i \in DOMAIN Batches[t] : Land(t, i)
    \/ Complete

Spec == Init /\ [][Next]_<<held, landed, completed>>
=============================================================================
