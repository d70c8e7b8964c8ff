--------------------------- MODULE MCOwnerService ---------------------------
(* OwnerService for TLC: owner b has a partition, owner e has an empty one. *)
EXTENDS OwnerService, TLC

CONSTANTS a, b, e

MCNRows == (a :> 0) @@ (b :> 3) @@ (e :> 0)
=============================================================================
