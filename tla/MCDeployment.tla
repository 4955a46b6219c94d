---------------------------- MODULE MCDeployment ----------------------------
(***************************************************************************)
(* Deployment with a migration that comes with the second commit.          *)
(***************************************************************************)
EXTENDS Deployment, TLC

CONSTANT m1

MCRequired == (0 :> {}) @@ (1 :> {}) @@ (2 :> {m1})
=============================================================================
