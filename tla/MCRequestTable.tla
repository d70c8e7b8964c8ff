--------------------------- MODULE MCRequestTable ---------------------------
(* RequestTable for TLC: two queries, one of them with a caller that may stop
   pulling. *)
EXTENDS RequestTable, TLC

CONSTANTS r1, r2, self

MCNRows == (r1 :> 2) @@ (r2 :> 1) @@ (self :> 0)
=============================================================================
