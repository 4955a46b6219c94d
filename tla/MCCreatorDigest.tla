--------------------------- MODULE MCCreatorDigest ---------------------------
(***************************************************************************)
(* CreatorDigest on a small instance.  With four creators, one a page, a   *)
(* walk takes one to three pages, and a day may have more creators than    *)
(* the audience cap, or more to scan than the page bound.                  *)
(***************************************************************************)
EXTENDS CreatorDigest, TLC

\* Ticks are only compared for equality; creators are ordered by the cursor.
Symmetry == Permutations(Tick)
=============================================================================
