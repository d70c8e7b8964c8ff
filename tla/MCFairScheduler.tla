-------------------------- MODULE MCFairScheduler --------------------------
(* FairScheduler for TLC. *)
EXTENDS FairScheduler

CONSTANTS r1, r2, r3
=============================================================================
