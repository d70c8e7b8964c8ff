------------------------------- MODULE Lists -------------------------------
(* SelectSeq for a set in place of a test: a function of its arguments, about
   which lemmas can be stated. *)
EXTENDS Integers, Sequences

(* The elements of s that are in S, in order. *)
Filter(s, S) ==
    LET kept[i \in 0..Len(s)] ==
          IF i = 0 THEN <<>>
          ELSE IF s[i] \in S THEN Append(kept[i - 1], s[i]) ELSE kept[i - 1]
    IN  kept[Len(s)]
=============================================================================
