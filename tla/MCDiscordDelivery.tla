-------------------------- MODULE MCDiscordDelivery --------------------------
(***************************************************************************)
(* DiscordDelivery on a small instance.  The lease is longer than the      *)
(* three delays together, as five minutes is longer than twenty seconds    *)
(* and the D1 calls around them.                                           *)
(***************************************************************************)
EXTENDS DiscordDelivery, TLC

Symmetry == Permutations(Tick)
=============================================================================
