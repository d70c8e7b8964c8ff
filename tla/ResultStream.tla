---------------------------- MODULE ResultStream ----------------------------
(***************************************************************************)
(* What the gateway promises a client while nothing fails: chunks bring    *)
(* the rows of every owner in order and without gaps, and the stream is    *)
(* called complete only when every row has been delivered.  Once the       *)
(* client has asked for the end, a chunk on its way may leave rows out,    *)
(* but still brings none twice and none before an earlier one.             *)
(***************************************************************************)
EXTENDS Naturals, Sequences

CONSTANTS Sources, Total    \* Total[s]: the rows source s has to give

VARIABLES received, status

Init ==
    /\ received = [s \in Sources |-> <<>>]
    /\ status = "open"

(* s has given its rows up to some later point. *)
Extends(s) ==
    \E k \in Len(received[s])..Total[s] : received'[s] = [i \in 1..k |-> i]

Chunk ==
    /\ status = "open"
    /\ DOMAIN received' = Sources
    /\ \A s \in Sources : Extends(s)
    /\ UNCHANGED status

LastChunk ==
    /\ status = "open"
    /\ received' = [s \in Sources |-> [i \in 1..Total[s] |-> i]]
    /\ status' = "complete"

(* The client cancels, or leaves. *)
Leave ==
    /\ status = "open"
    /\ status' = "left"
    /\ UNCHANGED received

(* s has given some more of its rows, in order. *)
Trails(s) ==
    LET new == received'[s]
    IN  /\ Len(received[s]) <= Len(new)
        /\ received[s] = SubSeq(new, 1, Len(received[s]))
        /\ \A i \in 1..Len(new) : new[i] <= Total[s]
        /\ \A i, j \in 1..Len(new) : i < j => new[i] < new[j]

LateChunk ==
    /\ status = "left"
    /\ DOMAIN received' = Sources
    /\ \A s \in Sources : Trails(s)
    /\ UNCHANGED status

Next == Chunk \/ LastChunk \/ Leave \/ LateChunk

Spec == Init /\ [][Next]_<<received, status>>
=============================================================================
