---------------------------- MODULE OwnerService ----------------------------
(***************************************************************************)
(* One data owner on its own: its producer, its PullChunk handler, and the *)
(* caller that prefetcher_loop is to it -- one call at a time, issued      *)
(* again when it expires, no more calls after a last reply or an error.    *)
(***************************************************************************)
EXTENDS DataOwner

CONSTANTS
    PullSizes,      \* the rows a PullChunk may ask for
    MaxTimeouts     \* bound: calls that expire at the caller

ASSUME CallerAssumption ==
    /\ PullSizes \subseteq Nat \ {0}
    /\ MaxTimeouts \in Nat

VARIABLES
    taken,      \* taken[o]: the rows the caller has received
    caller,     \* "asking", then "finished" or "refused"
    timeouts    \* calls that have expired

vars == <<ownerVars, taken, caller, timeouts>>

Init ==
    /\ OwnerInit({})
    /\ taken = [o \in Remote |-> <<>>]
    /\ caller = [o \in Remote |-> "start"]
    /\ timeouts = 0

(* ForwardQuery with this owner as its target. *)
Forward(o) ==
    /\ caller[o] = "start"
    /\ RegisterRequest(o)
    /\ caller' = [caller EXCEPT ![o] = "asking"]
    /\ UNCHANGED <<taken, timeouts>>

Produce(o) ==
    /\ \/ ProduceBegin(o)
       \/ ProduceCheck(o)
       \/ ProduceRow(o)
       \/ ProduceStore(o)
       \/ ProduceEmptyPart(o)
    /\ UNCHANGED <<taken, caller, timeouts>>

Ask(o) ==
    /\ caller[o] = "asking"
    /\ PullSend(o)
    /\ UNCHANGED <<taken, caller, timeouts>>

Serve(o) ==
    /\ \/ PullFind(o)
       \/ \E max \in PullSizes : PullDrain(o, max)
       \/ PullFinish(o)
       \/ PullNotFound(o) /\ PullFail(o)
    /\ UNCHANGED <<taken, caller, timeouts>>

(* The reply fills the caller's slot. *)
Receive(o) ==
    /\ pull[o].stage = "replied"
    /\ PullReturn(o)
    /\ taken' = [taken EXCEPT ![o] = @ \o pull[o].rows]
    /\ caller' = [caller EXCEPT ![o] =
                     IF pull[o].last THEN "finished" ELSE @]
    /\ UNCHANGED timeouts

ReceiveError(o) ==
    /\ pull[o].stage = "error"
    /\ PullReturn(o)
    /\ caller' = [caller EXCEPT ![o] = "refused"]
    /\ UNCHANGED <<taken, timeouts>>

Expire(o) ==
    /\ timeouts < MaxTimeouts
    /\ PullExpire(o)
    /\ timeouts' = timeouts + 1
    /\ UNCHANGED <<taken, caller>>

Late(o) ==
    /\ \/ LateFind(o)
       \/ \E max \in PullSizes : LateDrain(o, max)
       \/ LateFinish(o)
    /\ UNCHANGED <<taken, caller, timeouts>>

(* CancelQuery, from the gateway or a relay; the caller may go on asking. *)
Cancel(o) ==
    /\ registered[o]
    /\ CancelRequest(o)
    /\ UNCHANGED <<taken, caller, timeouts>>

(* Nothing is left to do once every caller is through. *)
Finish ==
    /\ \A o \in Remote : caller[o] \in {"finished", "refused"}
    /\ UNCHANGED vars

Next ==
    \/ \E o \in Remote :
          \/ Forward(o)
          \/ Produce(o)
          \/ Ask(o)
          \/ Serve(o)
          \/ Receive(o)
          \/ ReceiveError(o)
          \/ Expire(o)
          \/ Late(o)
          \/ Cancel(o)
    \/ Finish

Spec == Init /\ [][Next]_vars

(* The producer thread runs, handlers run, and the caller keeps asking. *)
Fairness ==
    \A o \in Remote :
        /\ WF_vars(Forward(o))
        /\ WF_vars(Produce(o))
        /\ WF_vars(Ask(o))
        /\ WF_vars(Serve(o))
        /\ WF_vars(Receive(o))
        /\ WF_vars(ReceiveError(o))

FairSpec == Spec /\ Fairness

-----------------------------------------------------------------------------
TypeOK ==
    /\ OwnerTypeOK
    /\ taken \in [Remote -> Seq(Nat)]
    /\ caller \in [Remote -> {"start", "asking", "finished", "refused"}]
    /\ timeouts \in Nat

(* Back-pressure: the producer never queues more than kMaxBuffered rows,
   though it checks the size once per turn and once per row, in separate
   critical sections, while PullChunk empties the deque in between. *)
BufferCap == \A n \in Nodes : Len(matched[n]) <= MaxBuffered

(* As long as no call has expired, the rows the caller has, the rows in the
   reply on its way and the rows in the deque are, one after the other,
   exactly the rows produced so far: none lost, doubled or out of order. *)
Conservation ==
    \A o \in Remote :
        timeouts = 0 /\ ~cancelled[o] =>
            taken[o] \o pull[o].rows \o matched[o]
                = Rows(matched_cursor[o])

(* A caller that saw is_last and no deadline has every matching row: the
   drain, the read of done_producing and the second look at the deque are
   in an order that cannot miss a row the producer adds in between. *)
LastMeansAll ==
    \A o \in Remote :
        timeouts = 0 /\ ~cancelled[o] /\ caller[o] = "finished" =>
            taken[o] = Rows(NRows[o])

(* Expired calls lose rows but never double or reorder them. *)
TakenInOrder ==
    \A o \in Remote : \A i, j \in 1..Len(taken[o]) :
        i < j => taken[o][i] < taken[o][j]

(* A caller that was told is_last, or NOT_FOUND by an owner with rows, leaves
   nothing behind: the owner has dropped the request. *)
FinishedIsDropped ==
    \A o \in Remote \cap HasPart :
        caller[o] \in {"finished", "refused"} => ~registered[o]

(* node.cpp:768: a query that has been cancelled makes its owner queue one
   row at the most, whatever its turn was in the middle of: CancelQuery marks
   the request before it clears the deque, and the producer looks at the mark
   before each row. *)
CancelStopsProducer ==
    \A o \in Remote : cancelled[o] =>
        /\ Len(matched[o]) <= 1
        /\ producer[o] = "push" => matched[o] = <<>>

(* A caller that keeps asking is told is_last or refused, whatever expires
   and whoever cancels. *)
CallerFinishes ==
    \A o \in Remote : <>(caller[o] \in {"finished", "refused"})
=============================================================================
