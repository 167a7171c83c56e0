---------------------------- MODULE MCValueUploads ----------------------------
(***************************************************************************)
(* Instance of ValueUploads: two references to one value, of which one's   *)
(* file has changed, and one to each of three others, with a single place. *)
(***************************************************************************)
EXTENDS ValueUploads

CONSTANTS u1, u2, u3, u4, u5, x1, x2, x3

MCValue == u1 :> "a" @@ u2 :> "a" @@ u3 :> "b" @@ u4 :> "c" @@ u5 :> "d"
MCHeld == u1 :> {x1} @@ u2 :> {x1, x2} @@ u3 :> {x1} @@ u4 :> {} @@ u5 :> {x3}
MCBytes == x1 :> 1 @@ x2 :> 2 @@ x3 :> 2
=============================================================================
