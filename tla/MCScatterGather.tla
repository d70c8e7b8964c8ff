--------------------------- MODULE MCScatterGather ---------------------------
(* ScatterGather for TLC: gateway a, owner b next to it, owner c behind b. *)
EXTENDS ScatterGather, TLC

CONSTANTS a, b, c

MCPos == (a :> 0) @@ (b :> 1) @@ (c :> 2)

(* c is reached through b. *)
MCHop     == (b :> b) @@ (c :> b)
MCPullMax == (b :> 2) @@ (c :> 2)

(* Rows at every owner; the gateway's own may be none. *)
MCRows       == (a :> 1) @@ (b :> 1) @@ (c :> 1)
MCRemoteRows == (a :> 0) @@ (b :> 2) @@ (c :> 1)

(* Two nodes: the gateway and one neighbour. *)
MCPairPos     == (a :> 0) @@ (b :> 1)
MCPairHop     == (b :> b)
MCPairPullMax == (b :> 2)
MCPairRows    == (a :> 2) @@ (b :> 3)
MCFewRows     == (a :> 1) @@ (b :> 2)
MCRemoteFew   == (a :> 0) @@ (b :> 2)
MCPullOne     == (b :> 1)
=============================================================================
