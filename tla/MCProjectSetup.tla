---------------------------- MODULE MCProjectSetup ----------------------------
(***************************************************************************)
(* Instance of ProjectSetup.                                               *)
(***************************************************************************)
EXTENDS ProjectSetup
=============================================================================
