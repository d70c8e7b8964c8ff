--------------------------- MODULE FairScheduler ---------------------------
(***************************************************************************)
(* FairScheduler (cpp/common/scheduler.cpp): the queue from which a node's *)
(* producer thread picks the query that gets the next turn.  Handlers add  *)
(* and remove queries from other threads; every method holds mu_ from      *)
(* beginning to end and is one action.                                     *)
(***************************************************************************)
EXTENDS Naturals, Sequences

CONSTANTS
    Rids,       \* request ids
    Weights,    \* weights add() is called with
    Modes       \* values of scheduler.mode in the overlay

ASSUME SchedulerAssumption ==
    /\ Weights \subseteq Nat \ {0}
    /\ Modes \subseteq {"fifo", "round_robin", "weighted_round_robin"}

VARIABLES
    mode,       \* mode_
    q,          \* q_: entries with rid, weight, credits
    cursor,     \* cursor_, counted from 0
    served      \* what the last next() returned, {} if the queue was empty

vars == <<mode, q, cursor, served>>

Entry(r, w) == [rid |-> r, weight |-> w, credits |-> w]

Queued == {q[i].rid : i \in 1..Len(q)}

Init == mode \in Modes /\ q = <<>> /\ cursor = 0 /\ served = {}

-----------------------------------------------------------------------------
(* A known rid only gets its weight changed. *)
Add(r, w) ==
    /\ q' = IF r \in Queued
            THEN [i \in 1..Len(q) |->
                     IF q[i].rid = r THEN [q[i] EXCEPT !.weight = w] ELSE q[i]]
            ELSE Append(q, Entry(r, w))
    /\ UNCHANGED <<mode, cursor, served>>

(* erase() moves the entries behind i one place forward. *)
Without(i) == SubSeq(q, 1, i - 1) \o SubSeq(q, i + 1, Len(q))

(* Mutant: the cursor is only wrapped once it is past the end. *)
CursorInPast(n) == IF cursor > n THEN 0 ELSE cursor

(* The cursor when n entries are left. *)
CursorIn(n) == IF cursor >= n THEN 0 ELSE cursor

Remove(r) ==
    \E i \in 1..Len(q) :
        /\ q[i].rid = r
        /\ q' = Without(i)
        /\ cursor' = CursorIn(Len(q) - 1)
        /\ UNCHANGED <<mode, served>>

-----------------------------------------------------------------------------
(* next() *)

Here == cursor + 1

(* Mutant: the turn passes on to nobody. *)
AdvanceNowhere == cursor

Advance == (cursor + 1) % Len(q)

NextEmpty ==
    /\ q = <<>>
    /\ served' = {}
    /\ UNCHANGED <<mode, q, cursor>>

(* Always the front. *)
NextFifo ==
    /\ mode = "fifo" /\ q # <<>>
    /\ served' = {q[1].rid}
    /\ UNCHANGED <<mode, q, cursor>>

NextRoundRobin ==
    /\ mode = "round_robin" /\ q # <<>>
    /\ served' = {q[Here].rid}
    /\ cursor' = Advance
    /\ UNCHANGED <<mode, q>>

(* Mutant: credits are not filled up again when they are used up. *)
SpentToZero(e) == [e EXCEPT !.credits = @ - 1]

(* A credit of e is spent; the last one fills them up to the weight. *)
Spent(e) ==
    [e EXCEPT !.credits = IF e.credits = 1 THEN e.weight ELSE e.credits - 1]

(* The entry at the cursor has credits: see CreditsLeft.  The loop over
   entries without any and the return after it are never reached. *)
NextWeighted ==
    /\ mode = "weighted_round_robin" /\ q # <<>>
    /\ q[Here].credits > 0
    /\ served' = {q[Here].rid}
    /\ q' = [q EXCEPT ![Here] = Spent(q[Here])]
    /\ cursor' = IF q[Here].credits = 1 THEN Advance ELSE cursor
    /\ UNCHANGED mode

NextRid == NextEmpty \/ NextFifo \/ NextRoundRobin \/ NextWeighted

Next ==
    \/ \E r \in Rids, w \in Weights : Add(r, w)
    \/ \E r \in Rids : Remove(r)
    \/ NextRid

Spec == Init /\ [][Next]_vars

(* The producer thread calls next() for ever. *)
FairSpec == Spec /\ WF_vars(NextRid)

-----------------------------------------------------------------------------
TypeOK ==
    /\ mode \in Modes
    /\ q \in Seq([rid : Rids, weight : Weights, credits : Nat])
    /\ cursor \in Nat
    /\ served \subseteq Rids

(* scheduler.cpp:59: next() reads q_[cursor_] without a check, so every
   interleaving of add, remove and next leaves the cursor on an entry, or at
   0 in an empty queue. *)
CursorOnEntry == cursor = 0 \/ cursor < Len(q)

(* scheduler.cpp:70-83: every entry has a credit, also after its weight has
   changed, so the loop in next() returns in its first round. *)
CreditsLeft == \A i \in 1..Len(q) : q[i].credits > 0

(* scheduler.cpp:39: a query has one entry, so one remove() is enough. *)
OneEntryEach ==
    \A i, j \in 1..Len(q) : q[i].rid = q[j].rid => i = j

EntriesAreSound == CreditsLeft /\ OneEntryEach

(* Every query in the queue has weight 1, the only one node.cpp uses, and
   the mode is one that takes turns. *)
EvenTurns == mode # "fifo" /\ \A i \in 1..Len(q) : q[i].weight = 1

(* "fair scheduler across concurrent request IDs" (scheduler.hpp:2): where
   turns are even, a query in the queue gets one or leaves, whatever is added
   and removed in the meantime -- although a removal in front of the cursor
   makes the cursor skip an entry. *)
NoStarvation ==
    []EvenTurns =>
        \A r \in Rids : (r \in Queued) ~> (served = {r} \/ r \notin Queued)
=============================================================================
