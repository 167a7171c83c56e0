--------------------------- MODULE MCManagedTarget ---------------------------
(***************************************************************************)
(* Instance of ManagedTarget: two requests, for one execution or for two   *)
(* whose names do not matter; the target of one of them returns files.     *)
(***************************************************************************)
EXTENDS ManagedTarget

CONSTANTS h1, h2, e1, e2

MCMaxFiles == [h \in Handler |-> IF h = h1 THEN 2 ELSE 0]
MCInit == Init /\ execution[h1] = e1
MCSpec == MCInit /\ [][Next]_vars /\ Fairness
=============================================================================
