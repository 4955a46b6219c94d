---------------------------- MODULE MCAwardTick ----------------------------
(***************************************************************************)
(* AwardTick on a small instance.                                          *)
(***************************************************************************)
EXTENDS AwardTick, TLC

\* Ticks, creators, seconds and tokens are only ever compared for equality.
Symmetry ==
  Permutations(Tick) \cup Permutations(Creator) \cup Permutations(Stamp)
    \cup Permutations(Token)
=============================================================================
