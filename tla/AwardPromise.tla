---------------------------- MODULE AwardPromise ----------------------------
(***************************************************************************)
(* What the award run of one closed period promises to those who watch it  *)
(* from outside, the relay's readers and the Discord channel: one winner,  *)
(* one award event for that winner, announced after it is out, and         *)
(* completed after it is announced.  AwardTick implements it.              *)
(***************************************************************************)
CONSTANTS Creator, Stamp, NULL

VARIABLES
  winner,      \* the run's winner, or NULL
  award,       \* the run's award event, or NULL
  relay,       \* the award events of this run the relay has
  announced,   \* the winners Discord was told of
  completed    \* the run is over

vars == <<winner, award, relay, announced, completed>>

Init ==
  /\ winner = NULL
  /\ award = NULL
  /\ relay = {}
  /\ announced = {}
  /\ completed = FALSE

Choose ==
  /\ winner = NULL
  /\ winner' \in Creator
  /\ UNCHANGED <<award, relay, announced, completed>>

Sign ==
  /\ winner # NULL
  /\ award = NULL
  /\ \E s \in Stamp : award' = [winner |-> winner, stamp |-> s]
  /\ UNCHANGED <<winner, relay, announced, completed>>

Publish ==
  /\ award # NULL
  /\ relay' = {award}
  /\ UNCHANGED <<winner, award, announced, completed>>

Announce ==
  /\ relay # {}
  /\ announced' = {winner}
  /\ UNCHANGED <<winner, award, relay, completed>>

Complete ==
  /\ announced # {}
  /\ completed' = TRUE
  /\ UNCHANGED <<winner, award, relay, announced>>

Next == Choose \/ Sign \/ Publish \/ Announce \/ Complete

Spec == Init /\ [][Next]_vars
=============================================================================
