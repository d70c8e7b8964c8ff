------------------------------ MODULE MCPyNode ------------------------------
(* PyNode for TLC: the gateway a without a shard, the owners b and c. *)
EXTENDS PyNode, TLC

CONSTANTS a, b, c

MCOwners == <<b, c>>

NoFile == [file |-> FALSE, size |-> 0, found |-> 0]
File(size, found) == [file |-> TRUE, size |-> size, found |-> found]

(* Rows at both owners; none found at one; no file, or one without rows. *)
MCShards == {(a :> NoFile) @@ (b :> File(4, 3)) @@ (c :> s) :
                s \in {File(4, 1), File(4, 0), NoFile, File(0, 0)}}
=============================================================================
