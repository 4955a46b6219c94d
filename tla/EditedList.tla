----------------------------- MODULE EditedList -----------------------------
(***************************************************************************)
(* What a list on the relays promises the person who edits it with the     *)
(* badge client: the list changes only by the edits that were asked for,   *)
(* each of them applied to the list as it stands.  An edit that was asked  *)
(* for may be applied once, again without effect, or never.                *)
(*                                                                         *)
(* An edit is a record [add, drop] of two sets of entries.                 *)
(***************************************************************************)
CONSTANT Entry

VARIABLES
  list,   \* the entries of the list
  asked   \* the edits asked for and not yet answered

vars == <<list, asked>>

Edit == [add : SUBSET Entry, drop : SUBSET Entry]

Edited(entries, e) == (entries \cup e.add) \ e.drop

Init ==
  /\ list \subseteq Entry
  /\ asked = {}

Ask ==
  /\ \E e \in asked' : e \in Edit /\ asked' = asked \cup {e}
  /\ UNCHANGED list

Apply(e) ==
  /\ list' = Edited(list, e)
  /\ UNCHANGED asked

Answer(e) ==
  /\ asked' = asked \ {e}
  /\ UNCHANGED list

Next ==
  \/ Ask
  \/ \E e \in asked : Apply(e) \/ Answer(e)

Spec == Init /\ [][Next]_vars
=============================================================================
