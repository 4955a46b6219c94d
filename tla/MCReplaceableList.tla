-------------------------- MODULE MCReplaceableList --------------------------
(***************************************************************************)
(* ReplaceableList with one award, contact or relay the list has (b) and   *)
(* one it has not (a).                                                     *)
(***************************************************************************)
EXTENDS ReplaceableList

CONSTANTS a, b

MCOverrides == {[add |-> {a}, drop |-> {}], [add |-> {}, drop |-> {b}]}
=============================================================================
