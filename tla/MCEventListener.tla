--------------------------- MODULE MCEventListener ---------------------------
(***************************************************************************)
(* Instance of EventListener.                                              *)
(***************************************************************************)
EXTENDS EventListener

CONSTANTS d1, d2
=============================================================================
