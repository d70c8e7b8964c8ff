------------------------ MODULE ScatterGatherProofs ------------------------
(***************************************************************************)
(* The safety of one query at the gateway, proved for any overlay, any     *)
(* number of rows, attempts and faults, and any sizes of deque and chunk.  *)
(*                                                                         *)
(*   Types, and the bounds of the owners        GatewayTypeCorrect         *)
(*   The flow of control, and the slots         GatewayMemoryBounded,      *)
(*                                              OwnersStayDone,            *)
(*                                              CancelLeavesNoThread       *)
(*   The fan-out                                ForwardReachesNeighbours   *)
(*   Rows in order                              ClientRowsInOrder          *)
(*   Chunks that carry rows                     ChunksCarryRows            *)
(*   What a query that ends leaves behind       DoneReleases,              *)
(*                                              CancelReleases             *)
(*   Full hits                                  FullHitsAreHonest          *)
(*   The stream of chunks                       GatewayImplementsStream    *)
(***************************************************************************)
EXTENDS ScatterGather, DataOwnerProofs, FiniteSetTheorems

-----------------------------------------------------------------------------
(* Types, and the bounds of the owners *)

(* The state keeps its types, and every owner its bounds. *)
Typed == TypeOK /\ OwnerInv

(* What a FetchChunk takes, and what it leaves. *)
LEMMA Taken ==
    ASSUME TypeOK, NEW m \in FetchSizes, NEW take \in RoundRobin(m),
           NEW n \in Nodes
    PROVE  /\ Source(n) \in Seq(Nat) /\ take[n] \in 0..Len(Source(n))
           /\ SubSeq(Source(n), 1, take[n]) \in Seq(Nat)
           /\ Left(n, take[n]) \in Seq(Nat)
           /\ Len(Left(n, take[n])) = Len(Source(n)) - take[n]
<1>1. Source(n) \in Seq(Nat)
  BY DEF Source, TypeOK, OwnerTypeOK, Nodes, Remote
<1>2. take \in [Nodes -> 0..m] /\ take[n] <= Len(Source(n)) /\ m \in Nat
  BY GatewayAssumption DEF RoundRobin
<1>3. take[n] \in 0..Len(Source(n))
  BY <1>1, <1>2, LenProperties
<1> QED BY <1>1, <1>3, Split DEF Left

(* A crash ends an owner's query and fails the calls that pass through it;
   its bounds hold. *)
LEMMA CrashKeeps ==
    ASSUME Typed, NEW o \in Remote, NodeCrash(o)
    PROVE  OwnerInv'
<1>1. o \in Nodes
  BY RemoteIsNode
<1>2. /\ up' = [up EXCEPT ![o] = FALSE]
      /\ registered' = [registered EXCEPT ![o] = FALSE]
      /\ producer' = [producer EXCEPT ![o] = "idle"]
      /\ UNCHANGED <<matched, matched_cursor, done_producing, cancelled, quota,
                     lateFound, produced, registrations>>
  BY DEF NodeCrash
<1>3. /\ pull' \in [Remote ->
            [stage : {"none", "sent", "found", "drained", "replied", "error"},
             rows : Seq(Nat), last : BOOLEAN]]
      /\ lateSent' \in [Remote -> Nat] /\ lateEmpty' \in [Remote -> Nat]
  BY EmptySeq DEF NodeCrash, Failed, Typed, OwnerInv, OwnerTypeOK
<1>4. OwnerTypeOK'
  BY <1>1, <1>2, <1>3 DEF Typed, OwnerInv, OwnerTypeOK
<1>5. CursorInRange' /\ BufferRoom'
  BY <1>2 DEF Typed, OwnerInv, OwnerTypeOK, CursorInRange, BufferRoom, InTurn
<1> QED BY <1>4, <1>5 DEF OwnerInv

(* The gateway takes rows from the front of its own deque, or all of them. *)
LEMMA SelfShortened ==
    ASSUME Typed, UNCHANGED <<matched_cursor, done_producing, producerVars,
                              callVars, up, registrations>>,
           registered' \in [Nodes -> BOOLEAN],
           cancelled' \in [Nodes -> BOOLEAN],
           NEW rest \in Seq(Nat), Len(rest) <= Len(matched[Self]),
           matched' = [matched EXCEPT ![Self] = rest]
    PROVE  OwnerInv'
<1>1. Self \in Nodes
  BY DEF Nodes
<1>2. OwnerTypeOK'
  BY DEF Typed, OwnerInv, OwnerTypeOK, producerVars, callVars
<1>3. CursorInRange'
  BY DEF Typed, OwnerInv, CursorInRange, InTurn, producerVars
<1>4. BufferRoom'
  <2> SUFFICES ASSUME NEW n \in Nodes
               PROVE  Len(matched'[n]) \in Nat
               /\ Len(matched'[n]) <= Len(matched[n])
    BY OwnerFacts DEF Typed, OwnerInv, BufferRoom, InTurn, producerVars
  <2>1. CASE n = Self
    BY <1>1, <2>1, LenProperties, OwnerFacts DEF Typed, OwnerInv, OwnerTypeOK
  <2>2. CASE n # Self
    BY <2>2, OwnerFacts DEF Typed, OwnerInv, OwnerTypeOK
  <2> QED BY <2>1, <2>2
<1> QED BY <1>2, <1>3, <1>4 DEF OwnerInv

(* Marks of the request that no row depends on. *)
LEMMA MarkKeeps ==
    ASSUME Typed, UNCHANGED <<matched, matched_cursor, done_producing,
                              producerVars, callVars, registrations>>,
           registered' \in [Nodes -> BOOLEAN],
           cancelled' \in [Nodes -> BOOLEAN],
           up' \in [Remote -> BOOLEAN]
    PROVE  OwnerInv'
BY DEF Typed, OwnerInv, OwnerTypeOK, CursorInRange, BufferRoom, InTurn,
       producerVars, callVars

(* What FetchChunk and CancelQuery do to the gateway's own request. *)
LEMMA FetchOwner ==
    ASSUME Typed, FetchStep \/ CancelStep
    PROVE  OwnerInv'
<1>0. Self \in Nodes /\ Typed
  BY DEF Nodes
<1>1. ASSUME NEW m \in FetchSizes, FetchServe(m) PROVE OwnerInv'
  <2>1. PICK take \in RoundRobin(m) :
           matched' = [matched EXCEPT ![Self] = Left(Self, take[Self])]
    BY <1>1 DEF FetchServe
  <2>2. /\ Left(Self, take[Self]) \in Seq(Nat)
        /\ Len(Left(Self, take[Self])) <= Len(matched[Self])
    <3>1. /\ Source(Self) = matched[Self] /\ matched[Self] \in Seq(Nat)
      BY <1>0 DEF Source, Typed, TypeOK, OwnerTypeOK
    <3>2. /\ Left(Self, take[Self]) \in Seq(Nat)
          /\ take[Self] \in 0..Len(Source(Self))
          /\ Len(Left(Self, take[Self])) = Len(Source(Self)) - take[Self]
      BY <1>0, Taken DEF Typed
    <3> QED BY <3>1, <3>2, LenProperties
  <2> QED BY <1>0, <1>1, <2>1, <2>2, SelfShortened DEF FetchServe, Typed,
          TypeOK,
             OwnerTypeOK
<1>2. CASE CancelClear
  <2>1. <<>> \in Seq(Nat) /\ Len(<<>>) = 0
    BY EmptySeq
  <2>2. Len(<<>>) <= Len(matched[Self])
    BY <1>0, <2>1, OwnerFacts DEF Typed
  <2>3. /\ matched' = [matched EXCEPT ![Self] = <<>>]
        /\ UNCHANGED <<registered, cancelled>>
        /\ UNCHANGED <<matched_cursor, done_producing, producerVars,
                       callVars, up, registrations>>
    BY <1>2 DEF CancelClear
  <2>4. registered' \in [Nodes -> BOOLEAN] /\ cancelled' \in [Nodes -> BOOLEAN]
    BY <2>3 DEF Typed, TypeOK, OwnerTypeOK
  <2> QED BY <2>1, <2>2, <2>3, <2>4, SelfShortened
<1>3. CASE FetchDrop \/ CancelDrop
  BY <1>0, <1>3, MarkKeeps DEF FetchDrop, CancelDrop, DropRequest, Typed,
     TypeOK,
     OwnerTypeOK
<1>4. ASSUME NEW o \in Remote, CancelFan(o) PROVE OwnerInv'
  <2>1. Hop[o] \in Remote
    BY GatewayAssumption
  <2> QED BY <1>0, <1>4, <2>1, CancelKeeps, StutterKeeps DEF CancelFan, Typed
<1>5. CASE FetchArm \/ FetchBlock \/ FetchJoin \/ FetchReply \/ CancelJoin
           \/ CancelReply
  BY <1>0, <1>5, StutterKeeps DEF FetchArm, FetchBlock, FetchJoin, FetchReply,
     CancelJoin, CancelReply, Typed
<1> QED BY <1>1, <1>2, <1>3, <1>4, <1>5 DEF FetchStep, CancelStep

(* Whatever the gateway, its peers and the network do, every owner keeps
   the bounds OwnerInv states. *)
LEMMA OwnerKeeps ==
    ASSUME Typed, [Next]_vars
    PROVE  OwnerInv'
<1>0. OwnerInv /\ Self \in Nodes /\ Typed
  BY DEF Typed, Nodes
<1>1. CASE SubmitQuery
  BY <1>0, <1>1, RegisterKeeps DEF SubmitQuery
<1>2. CASE \/ FetchBegin \/ SpawnPrefetchers \/ ClientLeave \/ Finish
           \/ UNCHANGED vars
  BY <1>0, <1>2, StutterKeeps DEF FetchBegin, SpawnPrefetchers, ClientLeave,
     Finish, vars
<1>3. CASE CancelBegin
  BY <1>0, <1>3, MarkKeeps DEF CancelBegin, Typed, TypeOK, OwnerTypeOK
<1>4. ASSUME NEW n \in Nodes, Produce(n) PROVE OwnerInv'
  BY <1>0, <1>4, BeginKeeps, CheckKeeps, RowKeeps, StoreKeeps, EmptyPartKeeps
     DEF Produce
<1>5. CASE ProduceNotify
  BY <1>0, <1>5 DEF ProduceNotify, OwnerInv, OwnerTypeOK, CursorInRange,
     BufferRoom, InTurn, requestVars, callVars
<1>6. ASSUME NEW o \in Remote, ForwardAttempt(o) \/ ForwardLate(o)
         PROVE OwnerInv'
  BY <1>0, <1>6, RemoteIsNode, RegisterKeeps, StutterKeeps
     DEF ForwardAttempt, ForwardAccepted, ForwardUnavailable,
         ForwardRelayFailed, ForwardDeadline, ForwardLate
<1>7. ASSUME NEW o \in Remote, Prefetch(o) \/ PrefetcherDeadline(o)
         PROVE OwnerInv'
  BY <1>0, <1>7, SendKeeps, ReturnKeeps, ExpireKeeps, StutterKeeps
     DEF Prefetch, PrefetcherCheck, PrefetcherStop, PrefetcherWait,
         PrefetcherPull, PrefetcherReply, PrefetcherError, PrefetcherDeadline
<1>8. ASSUME NEW o \in Remote, PullChunk(o) \/ PullLate(o) PROVE OwnerInv'
  <2>1. PullMax[o] \in Nat
    BY GatewayAssumption
  <2> QED BY <1>0, <1>8, <2>1, DrainKeeps, FinishKeeps, FailKeeps,
             LateFindDrainKeeps, LateFinishKeeps
          DEF PullChunk, PullFindDrain, PullLate
<1>9. ASSUME NEW o \in Remote, NodeUp(o) PROVE OwnerInv'
  BY <1>0, <1>9, MarkKeeps DEF NodeUp, Typed, TypeOK, OwnerTypeOK, requestVars
<1>10. ASSUME NEW o \in Remote, NodeCrash(o) PROVE OwnerInv'
  BY <1>0, <1>10, CrashKeeps
<1> QED BY <1>0, <1>1, <1>2, <1>3, <1>4, <1>5, <1>6, <1>7, <1>8, <1>9, <1>10,
           FetchOwner DEF Next, FaultStep

(* Threads that are woken up are still threads. *)
LEMMA WokenTypes ==
    ASSUME TypeOK
    PROVE  /\ WokenPrefetchers
                 \in [Remote -> {"none", "check", "blocked", "pull", "exit"}]
           /\ WokenFetch \in {"idle", "eval", "armed", "blocked", "drop",
                              "join", "reply"}
BY DEF TypeOK, WokenPrefetchers, WokenFetch

(* The bounded counters count up, lateForward up and down. *)
LEMMA Counts ==
    ASSUME TypeOK, NEW o \in Remote
    PROVE  /\ timeouts + 1 \in Nat /\ crashes + 1 \in Nat /\ lates + 1 \in Nat
           /\ [lateForward EXCEPT ![o] = @ + 1] \in [Remote -> Nat]
           /\ lateForward[o] > 0 =>
                 [lateForward EXCEPT ![o] = @ - 1] \in [Remote -> Nat]
           /\ [lateForward EXCEPT ![o] = 0] \in [Remote -> Nat]
<1>1. lateForward \in [Remote -> Nat] /\ lateForward[o] \in Nat
  BY DEF TypeOK
<1>2. /\ lateForward[o] + 1 \in Nat
      /\ lateForward[o] > 0 => lateForward[o] - 1 \in Nat
  BY <1>1
<1>3. timeouts + 1 \in Nat /\ crashes + 1 \in Nat /\ lates + 1 \in Nat
  BY DEF TypeOK
<1> QED BY <1>1, <1>2, <1>3

(* Every step keeps the types of the gateway's variables. *)
LEMMA GatewayTypes ==
    ASSUME Typed, [Next]_vars
    PROVE  TypeOK'
<1>0. /\ TypeOK /\ OwnerTypeOK' /\ Typed
      /\ WokenPrefetchers \in [Remote -> {"none", "check", "blocked", "pull",
                                          "exit"}]
      /\ WokenFetch \in {"idle", "eval", "armed", "blocked", "drop", "join",
                         "reply"}
      /\ Self \in Nodes /\ Remote \subseteq Owners
  BY OwnerKeeps, WokenTypes DEF Typed, OwnerInv, Nodes, Remote
<1> USE DEF clientVars, stateVars, submitVars, fetchVars, cancelVars, faultVars
<1>1. CASE SubmitQuery
  BY <1>0, <1>1, GatewayAssumption DEF SubmitQuery, TypeOK, UpFront, Remote
<1>2. ASSUME NEW o \in Remote, ForwardAttempt(o) PROVE TypeOK'
  <2>1. attempt' \in 0..(MaxAttempts - 1)
    <3>1. \/ attempt' = 0
          \/ attempt' = attempt + 1 /\ attempt + 1 < MaxAttempts
      BY <1>2
         DEF ForwardAttempt, ForwardAccepted, ForwardUnavailable,
             ForwardRelayFailed, ForwardDeadline, ForwardAgain, ForwardedTo
    <3>2. MaxAttempts \in Nat \ {0} /\ attempt \in 0..(MaxAttempts - 1)
      BY <1>0, GatewayAssumption DEF TypeOK
    <3> QED BY <3>1, <3>2
  <2>2. toForward' \subseteq Remote
    BY <1>0, <1>2
       DEF ForwardAttempt, ForwardAccepted, ForwardUnavailable, TypeOK,
           ForwardRelayFailed, ForwardDeadline, ForwardAgain, ForwardedTo
  <2>3. client_producers_done' \in [Owners -> BOOLEAN]
    BY <1>0, <1>2
       DEF ForwardAttempt, ForwardAccepted, ForwardUnavailable, TypeOK,
           ForwardRelayFailed, ForwardDeadline, ForwardAgain, ForwardedTo
  <2>4. /\ timeouts' \in Nat /\ crashes' \in Nat /\ lates' \in Nat
        /\ lateForward' \in [Remote -> Nat]
    <3>1. CASE ForwardDeadline(o)
      <4>1. UNCHANGED <<timeouts, crashes>>
        BY <3>1 DEF ForwardDeadline
      <4>2. /\ lates' = lates + 1
            /\ lateForward' = [lateForward EXCEPT ![o] = @ + 1]
        BY <3>1 DEF ForwardDeadline
      <4>3. /\ lates + 1 \in Nat
            /\ [lateForward EXCEPT ![o] = @ + 1] \in [Remote -> Nat]
        BY <1>0, Counts
      <4> QED BY <1>0, <4>1, <4>2, <4>3 DEF TypeOK
    <3>2. CASE \/ ForwardAccepted(o) \/ ForwardUnavailable(o)
               \/ ForwardRelayFailed(o)
      <4>1. UNCHANGED faultVars
        BY <3>2 DEF ForwardAccepted, ForwardUnavailable, ForwardRelayFailed
      <4> QED BY <1>0, <4>1 DEF TypeOK
    <3> QED BY <1>2, <3>1, <3>2 DEF ForwardAttempt
  <2> QED BY <1>0, <1>2, <2>1, <2>2, <2>3, <2>4 DEF ForwardAttempt, TypeOK
<1>3. CASE SpawnPrefetchers
  BY <1>0, <1>3 DEF SpawnPrefetchers, TypeOK
<1>4. CASE FetchBegin \/ FetchArm \/ FetchBlock \/ FetchJoin
  BY <1>0, <1>4 DEF FetchBegin, FetchArm, FetchBlock, FetchJoin, TypeOK,
     Terminal
<1>5. ASSUME NEW m \in FetchSizes, FetchServe(m) PROVE TypeOK'
  <2>1. PICK take \in RoundRobin(m) :
          /\ chunk' = [n \in Nodes |-> SubSeq(Source(n), 1, take[n])]
          /\ prefetch_buf' = [o \in Remote |-> Left(o, take[o])]
          /\ client_producers_done' = [o \in Owners |-> Promoted(o, take[o])]
    BY <1>5 DEF FetchServe
  <2>2. ASSUME NEW n \in Nodes
        PROVE  /\ SubSeq(Source(n), 1, take[n]) \in Seq(Nat)
               /\ Left(n, take[n]) \in Seq(Nat)
    BY <1>0, Taken
  <2>3. /\ chunk' \in [Nodes -> Seq(Nat)]
        /\ prefetch_buf' \in [Remote -> Seq(Nat)]
    BY <2>1, <2>2, RemoteIsNode
  <2>4. \A o \in Owners : Promoted(o, take[o]) \in BOOLEAN
    BY <1>0 DEF Promoted, Ended, TypeOK, OwnerTypeOK, Nodes, Remote
  <2>5. client_producers_done' \in [Owners -> BOOLEAN]
    BY <2>1, <2>4
  <2> QED BY <1>0, <1>5, <2>3, <2>5 DEF FetchServe, TypeOK
<1>6. CASE FetchDrop
  <2>1. hit' \in Nat
    <3>1. IsFiniteSet(owners_responded)
      BY <1>0, GatewayAssumption, FS_Subset DEF TypeOK
    <3> QED BY <1>6, <3>1, FS_CardinalityType DEF FetchDrop
  <2>2. prefetch_stop' \in BOOLEAN
    BY <1>0, <1>6 DEF FetchDrop, DropRequest, TypeOK, OwnerTypeOK
  <2> QED BY <1>0, <1>6, <2>1, <2>2 DEF FetchDrop, DropRequest, TypeOK
<1>7. CASE FetchReply
  <2>1. \A n \in Nodes : delivered[n] \o chunk[n] \in Seq(Nat)
    BY <1>0, ConcatProperties DEF TypeOK
  <2>2. delivered' \in [Nodes -> Seq(Nat)] /\ chunk' \in [Nodes -> Seq(Nat)]
    BY <1>0, <1>7, <2>1, EmptySeq DEF FetchReply, TypeOK
  <2> QED BY <1>0, <1>7, <2>2 DEF FetchReply, TypeOK, Terminal
<1>8. CASE CancelBegin
  BY <1>0, <1>8 DEF CancelBegin, TypeOK, Terminal
<1>9. CASE CancelClear
  BY <1>0, <1>9, EmptySeq DEF CancelClear, CancelTargets, NotifyAll, TypeOK
<1>10. ASSUME NEW o \in Remote, CancelFan(o) PROVE TypeOK'
  BY <1>0, <1>10, Counts DEF CancelFan, TypeOK
<1>11. CASE CancelDrop
  <2>2. prefetch_stop' \in BOOLEAN
    BY <1>0, <1>11 DEF CancelDrop, DropRequest, TypeOK, OwnerTypeOK
  <2> QED BY <1>0, <1>11, <2>2 DEF CancelDrop, DropRequest, NotifyAll, TypeOK
<1>12. CASE CancelJoin \/ CancelReply \/ ClientLeave
  BY <1>0, <1>12 DEF CancelJoin, CancelReply, ClientLeave, TypeOK, Terminal
<1>13. CASE ProduceNotify \/ \E n \in Nodes : Produce(n)
  BY <1>0, <1>13 DEF ProduceNotify, NotifyAll, Produce, TypeOK
<1>14. ASSUME NEW o \in Remote, PrefetcherCheck(o) \/ PrefetcherDeadline(o)
       PROVE TypeOK'
  <2>1. CASE PrefetcherCheck(o)
    <3>1. \E p \in {"exit", "blocked", "pull"} :
             prefetcher' = [prefetcher EXCEPT ![o] = p]
      BY <2>1 DEF PrefetcherCheck, PrefetcherStop, PrefetcherWait,
                  PrefetcherPull
    <3>2. prefetcher' \in [Remote -> {"none", "check", "blocked", "pull",
                                      "exit"}]
      BY <1>0, <3>1 DEF TypeOK
    <3> QED BY <1>0, <2>1, <3>2 DEF PrefetcherCheck, TypeOK
  <2>2. CASE PrefetcherDeadline(o)
    <3>1. timeouts' \in Nat
      BY <1>0, <2>2, Counts DEF PrefetcherDeadline
    <3> QED BY <1>0, <2>2, <3>1 DEF PrefetcherDeadline, TypeOK
  <2> QED BY <1>14, <2>1, <2>2
<1>15. ASSUME NEW o \in Remote, PrefetcherReply(o) PROVE TypeOK'
  <2>1. /\ prefetch_buf[o] \o pull[o].rows \in Seq(Nat)
        /\ pull[o].last \in BOOLEAN
    <3>1. prefetch_buf[o] \in Seq(Nat) /\ pull[o].rows \in Seq(Nat)
      BY <1>0 DEF TypeOK, OwnerTypeOK
    <3>2. pull[o].last \in BOOLEAN
      BY <1>0 DEF TypeOK, OwnerTypeOK
    <3> QED BY <3>1, <3>2, ConcatProperties
  <2> QED BY <1>0, <1>15, <2>1 DEF PrefetcherReply, TypeOK
<1>16. ASSUME NEW o \in Remote, PrefetcherError(o) PROVE TypeOK'
  BY <1>0, <1>16 DEF PrefetcherError, TypeOK
<1>17. ASSUME NEW o \in Remote,
              PullChunk(o) \/ NodeUp(o) \/ PullLate(o) \/ NodeCrash(o)
                \/ ForwardLate(o)
       PROVE  TypeOK'
  <2>1. UNCHANGED <<clientVars, stateVars, submitVars, fetchVars, cancelVars,
                    prefetcher>>
    BY <1>17 DEF PullChunk, NodeUp, PullLate, NodeCrash, ForwardLate,
                 Unaffected
  <2>2. /\ timeouts' \in Nat /\ crashes' \in Nat /\ lates' \in Nat
        /\ lateForward' \in [Remote -> Nat]
    <3>1. CASE NodeCrash(o)
      BY <1>0, <3>1, Counts DEF NodeCrash, TypeOK
    <3>2. CASE ForwardLate(o)
      BY <1>0, <3>2, Counts DEF ForwardLate, TypeOK
    <3>3. CASE PullChunk(o) \/ NodeUp(o) \/ PullLate(o)
      BY <1>0, <3>3 DEF PullChunk, NodeUp, PullLate, TypeOK
    <3> QED BY <1>17, <3>1, <3>2, <3>3
  <2> QED BY <1>0, <2>1, <2>2 DEF TypeOK
<1>18. CASE Finish \/ UNCHANGED vars
  BY <1>0, <1>18 DEF Finish, vars, TypeOK
<1> QED BY <1>1, <1>2, <1>3, <1>4, <1>5, <1>6, <1>7, <1>8, <1>9, <1>10, <1>11,
           <1>12, <1>13, <1>14, <1>15, <1>16, <1>17, <1>18
        DEF Next, FetchStep, CancelStep, Prefetch, FaultStep

(* Types and bounds hold in every reachable state. *)
LEMMA TypesInvariant == Spec => []Typed
<1>1. Init => Typed
  <2> SUFFICES ASSUME Init PROVE Typed
    OBVIOUS
  <2>1. OwnerInv
    BY InitKeeps DEF Init
  <2>2. 0 \in 0..(MaxAttempts - 1) /\ 0 \in Nat /\ <<>> \in Seq(Nat)
    BY GatewayAssumption, EmptySeq
  <2>3. OwnerTypeOK
    BY <2>1 DEF OwnerInv
  <2> QED BY <2>1, <2>2, <2>3 DEF Init, Typed, TypeOK
<1>2. Typed /\ [Next]_vars => Typed'
  BY OwnerKeeps, GatewayTypes DEF Typed
<1> QED BY <1>1, <1>2, PTL DEF Spec

(* node.hpp: for any overlay, any data and any bounds, every variable of
   the gateway, its peers and the calls between them stays within its type. *)
THEOREM GatewayTypeCorrect == Spec => []TypeOK
<1>1. Typed => TypeOK
  BY DEF Typed
<1> QED BY <1>1, TypesInvariant, PTL

-----------------------------------------------------------------------------
(* The flow of control, and the slots *)

(* Where client, submit, fetch and cancel may be at the same time. *)
ClientPlace ==
    /\ client = "start" <=> submit = "idle"
    /\ client = "submitting" => submit = "forward"
    /\ client \notin {"start", "submitting", "failed"} => submit = "done"
    /\ client \in {"start", "submitting", "ready"} => fetch = "idle"
    /\ fetch # "idle" => submit = "done"
    /\ client = "fetching" => fetch # "idle"
    /\ cancel # "idle" <=> client = "cancelling"

(* Until SubmitQuery answers, nothing but its forwards has started. *)
SubmitPlace ==
    /\ toForward \subseteq Eligible \ {Self}
    /\ submit # "forward" => toForward = {}
    /\ submit # "done" =>
          /\ ~prefetch_stop /\ ~cancelled[Self]
          /\ owners_responded \subseteq Eligible \cap {Self}
          /\ \A o \in Remote : prefetcher[o] = "none"
    /\ submit = "forward" => registered[Self]
    /\ registered[Self] => submit # "idle"

(* The request is dropped once, by the last chunk or by the cancel, and who
   drops it waits for the prefetchers. *)
StopPlace ==
    /\ submit = "done" /\ ~prefetch_stop => registered[Self]
          /\ ~cancelled[Self]
    /\ cancelled[Self] => client \in {"cancelling", "cancelled"}
    /\ cancel # "idle" => cancelled[Self]
    /\ client = "ready" => registered[Self]
    /\ cancelled[Self] /\ cancel # "clear" => fetch \notin {"armed", "blocked"}
    /\ submit = "done" /\ ~registered[Self] =>
          /\ AllExited \/ cancel = "join"
          /\ ~cancelled[Self] =>
                /\ fetch = "idle" \/ (fetch \in {"join", "reply"} /\ isLast)
                /\ \A o \in Owners : client_producers_done[o]
    /\ cancel \in {"join", "ack"} => ~registered[Self]
    /\ cancel = "ack" => AllExited
    /\ client \in {"done", "cancelled"} => ~registered[Self]
    /\ client = "cancelled" => AllExited

(* The last chunk is the one after which every owner is done. *)
LastPlace ==
    /\ fetch \in {"drop", "join"} => isLast
    /\ fetch \in {"drop", "join", "reply"} /\ isLast =>
          \A o \in Owners : client_producers_done[o]
    /\ fetch \in {"join", "reply"} /\ isLast => ~registered[Self]
    /\ client = "done" => \A o \in Owners : client_producers_done[o]
    /\ fetch \in {"idle", "eval", "armed", "blocked"} =>
          \A n \in Nodes : chunk[n] = <<>>

(* Where the four flows of control of one query may be together. *)
Control == ClientPlace /\ SubmitPlace /\ StopPlace /\ LastPlace

(* One prefetcher, its slot and its call. *)
Slotted(o) ==
    /\ prefetcher[o] = "pull" <=> pull[o].stage # "none"
    /\ pull[o].stage = "none" => pull[o] = NoCall
    /\ pull[o].stage \in {"none", "sent", "error"} =>
          pull[o].rows = <<>> /\ ~pull[o].last
    /\ pull[o].last => pull[o].stage = "replied" /\ pull[o].rows = <<>>
    /\ prefetcher[o] \in {"none", "pull"} => prefetch_buf[o] = <<>>
    /\ prefetch_done_map[o] => prefetcher[o] = "exit"
    /\ client_producers_done[o] =>
          prefetch_buf[o] = <<>> /\ prefetcher[o] \in {"none", "exit"}
    /\ Len(prefetch_buf[o]) <= PullMax[o] /\ Len(pull[o].rows) <= PullMax[o]
    /\ prefetcher[o] # "none" => o \in Eligible

(* Every prefetcher's slot. *)
Slots == \A o \in Remote : Slotted(o)

(* Nothing that Control is about changes. *)
ControlSame ==
    /\ UNCHANGED <<client, submit, toForward, fetch, chunk, isLast, cancel,
                   prefetch_stop, owners_responded>>
    /\ client_producers_done' = client_producers_done
    /\ registered'[Self] = registered[Self]
    /\ cancelled'[Self] = cancelled[Self]
    /\ prefetcher' = prefetcher

(* What a step at one owner leaves alone at another node. *)
LEMMA NodeAlone ==
    ASSUME Typed, NEW o \in Remote, NEW n \in Nodes, n # o,
           \/ RegisterRequest(o) \/ CancelRequest(o)
           \/ PullSend(o) \/ PullReturn(o) \/ PullExpire(o) \/ PullChunk(o)
           \/ NodeUp(o) \/ PullLate(o) \/ NodeCrash(o)
    PROVE  /\ registered'[n] = registered[n]
           /\ cancelled'[n] = cancelled[n]
           /\ matched'[n] = matched[n]
           /\ matched_cursor'[n] = matched_cursor[n]
           /\ done_producing'[n] = done_producing[n]
           /\ producer'[n] = producer[n]
           /\ registrations'[n] = registrations[n]
<1> USE DEF Typed, TypeOK, OwnerTypeOK, requestVars, producerVars
<1>1. CASE RegisterRequest(o)
  BY <1>1, SMTT(20) DEF RegisterRequest
<1>2. CASE CancelRequest(o)
  BY <1>2 DEF CancelRequest
<1>3. CASE PullSend(o) \/ PullReturn(o) \/ PullExpire(o)
  BY <1>3 DEF PullSend, PullReturn, PullExpire
<1>4. CASE PullChunk(o)
  BY <1>4 DEF PullChunk, PullFindDrain, Drained, PullFinish, DropAtLast,
              PullFail
<1>5. CASE NodeUp(o) \/ PullLate(o)
  BY <1>5 DEF NodeUp, PullLate, LateFindDrain, LateFinish, DropAtLast
<1>6. CASE NodeCrash(o)
  BY <1>6 DEF NodeCrash
<1> QED BY <1>1, <1>2, <1>3, <1>4, <1>5, <1>6

(* The gateway's own request in particular. *)
LEMMA SelfAlone ==
    ASSUME Typed, NEW o \in Remote,
           \/ RegisterRequest(o) \/ CancelRequest(o)
           \/ PullSend(o) \/ PullReturn(o) \/ PullExpire(o) \/ PullChunk(o)
           \/ NodeUp(o) \/ PullLate(o) \/ NodeCrash(o)
    PROVE  /\ registered'[Self] = registered[Self]
           /\ cancelled'[Self] = cancelled[Self]
           /\ matched'[Self] = matched[Self]
           /\ matched_cursor'[Self] = matched_cursor[Self]
           /\ done_producing'[Self] = done_producing[Self]
           /\ producer'[Self] = producer[Self]
           /\ registrations'[Self] = registrations[Self]
<1>1. Self \in Nodes /\ o # Self
  BY DEF Nodes, Remote
<1> QED BY <1>1, NodeAlone

(* A step that is about other things keeps it. *)
LEMMA ControlSameKeeps ==
    ASSUME Control, ControlSame
    PROVE  Control'
BY DEF Control, ControlSame, ClientPlace, SubmitPlace, StopPlace, LastPlace,
       AllExited

(* A producer neither enters nor drops nor cancels a query. *)
LEMMA ProduceAlone ==
    ASSUME Typed, NEW n \in Nodes, Produce(n)
    PROVE  registered' = registered /\ cancelled' = cancelled
BY DEF Produce, ProduceBegin, ProduceCheck, ProduceRow, ProduceStore,
       ProduceEmptyPart, requestVars

(* A thread that has returned stays so; one that waits is woken at most. *)
LEMMA Woken ==
    ASSUME TypeOK
    PROVE  /\ \A o \in Remote :
                 \/ /\ prefetcher[o] # "blocked"
                    /\ WokenPrefetchers[o] = prefetcher[o]
                 \/ prefetcher[o] = "blocked" /\ WokenPrefetchers[o] = "check"
           /\ \/ fetch # "blocked" /\ WokenFetch = fetch
              \/ fetch = "blocked" /\ WokenFetch = "eval"
<1>1. \A o \in Remote : WokenPrefetchers[o] =
         IF prefetcher[o] = "blocked" THEN "check" ELSE prefetcher[o]
  BY DEF WokenPrefetchers
<1>2. WokenFetch = IF fetch = "blocked" THEN "eval" ELSE fetch
  BY DEF WokenFetch
<1> QED BY <1>1, <1>2

(* Every step keeps the flows of control where they may be together. *)
LEMMA ControlKeeps ==
    ASSUME Typed, Control, Slots, [Next]_vars
    PROVE  Control'
<1>0. /\ Typed /\ TypeOK /\ Control /\ Slots /\ Self \in Nodes
      /\ registered \in [Nodes -> BOOLEAN] /\ cancelled \in [Nodes -> BOOLEAN]
      /\ Remote \subseteq Owners /\ Self \notin Remote
      /\ client_producers_done \in [Owners -> BOOLEAN]
      /\ client \in {"start", "submitting", "ready", "fetching", "cancelling"}
                     \cup Terminal
      /\ submit \in {"idle", "forward", "done"}
      /\ fetch \in {"idle", "eval", "armed", "blocked", "drop", "join",
         "reply"}
      /\ cancel \in {"idle", "clear", "fan", "join", "ack"}
      /\ prefetcher \in [Remote -> {"none", "check", "blocked", "pull",
         "exit"}]
      /\ isLast \in BOOLEAN
  BY DEF Typed, TypeOK, OwnerTypeOK, Nodes, Remote
<1> USE DEF Control
<1>1. CASE SubmitQuery
  <2>1. /\ client = "start" /\ submit = "idle" /\ fetch = "idle"
           /\ cancel = "idle"
        /\ ~registered[Self]
    BY <1>0, <1>1 DEF SubmitQuery, ClientPlace, SubmitPlace
  <2>2. registered'[Self] /\ ~cancelled'[Self]
    BY <1>0, <1>1, <2>1 DEF SubmitQuery, RegisterRequest
  <2>3. /\ client' = "submitting" /\ submit' = "forward"
        /\ toForward' = Eligible \ {Self}
           /\ owners_responded' = Eligible \cap {Self}
        /\ UNCHANGED <<fetch, chunk, isLast, cancel, prefetch_stop,
           prefetcher>>
    BY <1>1 DEF SubmitQuery, UpFront, fetchVars, cancelVars
  <2> QED BY <1>0, <2>1, <2>2, <2>3 DEF ClientPlace, SubmitPlace, StopPlace,
          LastPlace
<1>2. ASSUME NEW o \in Remote, ForwardAttempt(o) PROVE Control'
  <2>1. /\ registered'[Self] = registered[Self]
           /\ cancelled'[Self] = cancelled[Self]
    BY <1>0, <1>2, SelfAlone
       DEF ForwardAttempt, ForwardAccepted, ForwardUnavailable,
           ForwardRelayFailed, ForwardDeadline, ownerVars, requestVars
  <2>2. /\ submit = "forward" /\ toForward' \subseteq toForward
        /\ UNCHANGED <<client, submit, fetch, chunk, isLast, cancel,
                       prefetch_stop, owners_responded, prefetcher>>
    BY <1>2
       DEF ForwardAttempt, ForwardAccepted, ForwardUnavailable, ForwardedTo,
           ForwardRelayFailed, ForwardDeadline, ForwardAgain,
           clientVars, fetchVars, cancelVars
  <2> QED BY <1>0, <2>1, <2>2 DEF ClientPlace, SubmitPlace, StopPlace,
          LastPlace
<1>3. CASE SpawnPrefetchers
  <2>1. /\ submit = "forward" /\ toForward = {} /\ submit' = "done"
        /\ client' = IF client = "submitting" THEN "ready" ELSE client
        /\ UNCHANGED <<registered, cancelled, fetch, chunk, isLast, cancel,
                       prefetch_stop, owners_responded, toForward,
                       client_producers_done>>
    BY <1>3 DEF SpawnPrefetchers, ownerVars, requestVars, stateVars, fetchVars,
                cancelVars
  <2> QED BY <1>0, <2>1 DEF ClientPlace, SubmitPlace, StopPlace, LastPlace,
          Terminal
<1>4. CASE FetchBegin
  <2>1. /\ UNCHANGED <<registered, cancelled, submit, chunk, isLast, cancel,
                       prefetch_stop, owners_responded, toForward, prefetcher,
                       client_producers_done>>
        /\ client = "ready" /\ fetch = "idle"
        /\ IF registered[Self]
           THEN client' = "fetching" /\ fetch' = "eval"
           ELSE client' = "failed" /\ UNCHANGED fetch
    BY <1>4 DEF FetchBegin, ownerVars, requestVars, stateVars, submitVars,
                cancelVars
  <2> QED BY <1>0, <2>1 DEF ClientPlace, SubmitPlace, StopPlace, LastPlace,
          AllExited
<1>5. CASE FetchArm \/ FetchBlock \/ FetchJoin
  <2>1. /\ UNCHANGED <<client, registered, cancelled, submit, chunk, isLast,
           cancel,
                       prefetch_stop, owners_responded, toForward, prefetcher,
                       client_producers_done>>
        /\ \/ fetch = "eval" /\ fetch' = "armed" /\ ~cancelled[Self]
           \/ fetch = "armed" /\ fetch' = "blocked"
           \/ fetch = "join" /\ fetch' = "reply"
    BY <1>5 DEF FetchArm, FetchBlock, FetchJoin, ownerVars, requestVars,
                clientVars, stateVars, submitVars, cancelVars, FetchReady
  <2> QED BY <1>0, <2>1 DEF ClientPlace, SubmitPlace, StopPlace, LastPlace,
          AllExited
<1>6. ASSUME NEW m \in FetchSizes, FetchServe(m) PROVE Control'
  <2>1. /\ UNCHANGED <<client, registered, cancelled, submit, cancel,
                       prefetch_stop, owners_responded, toForward>>
        /\ prefetcher' = WokenPrefetchers
        /\ fetch = "eval" 
        /\ isLast' = \A o \in Owners : client_producers_done'[o]
        /\ fetch' = IF isLast' THEN "drop" ELSE "reply"
    BY <1>6 DEF FetchServe, clientVars, submitVars, cancelVars
  <2>2. \A o \in Owners : client_producers_done[o] => client_producers_done'[o]
    BY <1>6 DEF FetchServe, Promoted
  <2>3. AllExited => AllExited'
    BY <1>0, <2>1, Woken DEF AllExited
  <2>4. submit = "done"
    BY <1>0, <2>1 DEF ClientPlace
  <2>5. isLast' \in BOOLEAN
    BY <2>1
  <2> QED BY <1>0, <2>1, <2>2, <2>3, <2>4, <2>5 DEF ClientPlace, SubmitPlace,
          StopPlace, LastPlace
<1>7. CASE FetchDrop
  <2>1. /\ UNCHANGED <<client, cancelled, submit, chunk, isLast, cancel,
                       owners_responded, toForward, client_producers_done>>
        /\ fetch = "drop" /\ ~registered'[Self]
        /\ prefetch_stop' = (prefetch_stop \/ registered[Self])
        /\ \/ registered[Self] /\ fetch' = "join"
              /\ prefetcher' = WokenPrefetchers
           \/ ~registered[Self] /\ fetch' = "reply" /\ UNCHANGED prefetcher
    BY <1>0, <1>7 DEF FetchDrop, DropRequest, submitVars, cancelVars
  <2>2. \A o \in Owners : client_producers_done[o]
    BY <1>0, <2>1 DEF LastPlace
  <2>3. AllExited
    BY <1>0, <2>2 DEF Slots, Slotted, AllExited
  <2>4. AllExited'
    BY <1>0, <2>1, <2>3, Woken DEF AllExited
  <2> QED BY <1>0, <2>1, <2>2, <2>3, <2>4 DEF ClientPlace, SubmitPlace,
          StopPlace, LastPlace
<1>8. CASE FetchReply
  <2>1. /\ UNCHANGED <<registered, cancelled, submit, isLast, cancel,
           prefetch_stop,
                       owners_responded, toForward, client_producers_done,
                       prefetcher>>
        /\ fetch = "reply" /\ fetch' = "idle"
        /\ chunk' = [n \in Nodes |-> <<>>]
        /\ client' = IF client # "fetching" THEN client
                     ELSE IF isLast THEN "done" ELSE "ready"
    BY <1>8 DEF FetchReply, ownerVars, requestVars, stateVars, submitVars,
       cancelVars
  <2> QED BY <1>0, <2>1 DEF ClientPlace, SubmitPlace, StopPlace, LastPlace,
          AllExited
<1>9. CASE CancelBegin
  <2>1. /\ UNCHANGED <<registered, submit, isLast, chunk, fetch,
                       owners_responded, toForward, client_producers_done,
                       prefetcher>>
        /\ cancel = "idle" /\ client \in {"ready", "fetching"}
        /\ \/ /\ registered[Self] /\ client' = "cancelling"
              /\ cancel' = "clear"
              /\ cancelled'[Self] /\ prefetch_stop'
           \/ /\ ~registered[Self] /\ client' = "cancelled"
              /\ UNCHANGED <<cancel, cancelled, prefetch_stop>>
    BY <1>0, <1>9 DEF CancelBegin, submitVars, fetchVars
  <2> QED BY <1>0, <2>1 DEF ClientPlace, SubmitPlace, StopPlace, LastPlace,
          AllExited
<1>10. CASE CancelClear
  <2>1. /\ UNCHANGED <<client, registered, cancelled, submit, isLast, chunk,
           prefetch_stop,
                       owners_responded, toForward, client_producers_done>>
        /\ cancel = "clear" /\ fetch # "armed" /\ cancel' = "fan"
        /\ prefetcher' = WokenPrefetchers /\ fetch' = WokenFetch
    BY <1>10 DEF CancelClear, NotifyAll, MuFree, submitVars, clientVars
  <2>2. AllExited => AllExited'
    BY <1>0, <2>1, Woken DEF AllExited
  <2>3. submit = "done"
    BY <1>0, <2>1 DEF ClientPlace
  <2> QED BY <1>0, <2>1, <2>2, <2>3, Woken DEF ClientPlace, SubmitPlace,
          StopPlace, LastPlace
<1>11. ASSUME NEW o \in Remote, CancelFan(o) PROVE Control'
  <2>1. Hop[o] \in Remote
    BY GatewayAssumption
  <2>2. registered'[Self] = registered[Self]
           /\ cancelled'[Self] = cancelled[Self]
    BY <1>0, <1>11, <2>1, SelfAlone DEF CancelFan, ownerVars, requestVars
  <2> QED BY <1>11, <2>2, ControlSameKeeps DEF CancelFan, ControlSame,
          clientVars,
             stateVars, submitVars, fetchVars
<1>12. CASE CancelDrop
  <2>1. /\ UNCHANGED <<client, cancelled, submit, chunk, isLast,
                       owners_responded, toForward, client_producers_done>>
        /\ cancel = "fan" /\ fetch # "armed" /\ ~registered'[Self]
        /\ prefetch_stop' = (prefetch_stop \/ registered[Self])
        /\ \/ /\ registered[Self] /\ cancel' = "join"
              /\ prefetcher' = WokenPrefetchers /\ fetch' = WokenFetch
           \/ ~registered[Self] /\ cancel' = "ack" /\ UNCHANGED <<fetch,
                 prefetcher>>
    BY <1>0, <1>12 DEF CancelDrop, DropRequest, NotifyAll, MuFree, submitVars,
       clientVars
  <2>2. AllExited => AllExited'
    BY <1>0, <2>1, Woken DEF AllExited
  <2>3. submit = "done" /\ cancelled[Self]
    BY <1>0, <2>1 DEF ClientPlace, StopPlace
  <2> QED BY <1>0, <2>1, <2>2, <2>3, Woken DEF ClientPlace, SubmitPlace,
          StopPlace, LastPlace
<1>13. CASE CancelJoin \/ CancelReply
  <2>1. /\ UNCHANGED <<registered, cancelled, submit, fetch, chunk, isLast,
                       owners_responded, toForward, client_producers_done,
                       prefetch_stop, prefetcher>>
        /\ \/ cancel = "join" /\ AllExited /\ cancel' = "ack"
              /\ client' = client
           \/ cancel = "ack" /\ cancel' = "idle" /\ client' = "cancelled"
    BY <1>13 DEF CancelJoin, CancelReply, ownerVars, requestVars, clientVars,
       stateVars, submitVars, fetchVars
  <2> QED BY <1>0, <2>1 DEF ClientPlace, SubmitPlace, StopPlace, LastPlace,
          AllExited
<1>14. CASE ClientLeave
  <2>1. /\ UNCHANGED <<registered, cancelled, submit, fetch, chunk, isLast,
           cancel,
                       owners_responded, toForward, client_producers_done,
                       prefetch_stop, prefetcher>>
        /\ \/ client = "ready" /\ client' = "abandoned"
           \/ client \in {"submitting", "fetching"} /\ client' = "failed"
    BY <1>14 DEF ClientLeave, ownerVars, requestVars,
       stateVars, submitVars, fetchVars, cancelVars
  <2> QED BY <1>0, <2>1 DEF ClientPlace, SubmitPlace, StopPlace, LastPlace,
          AllExited
<1>15. ASSUME NEW n \in Nodes, Produce(n) PROVE Control'
  BY <1>0, <1>15, ProduceAlone, ControlSameKeeps DEF Produce, ControlSame,
     clientVars, stateVars, submitVars, fetchVars, cancelVars
<1>16. CASE ProduceNotify
  <2>1. /\ UNCHANGED <<client, registered, cancelled, submit, chunk, isLast,
           cancel,
                       owners_responded, toForward, client_producers_done,
                       prefetch_stop>>
        /\ prefetcher' = WokenPrefetchers /\ fetch' = WokenFetch
    BY <1>16 DEF ProduceNotify, NotifyAll, clientVars, requestVars,
       stateVars, submitVars, cancelVars
  <2>2. AllExited => AllExited'
    BY <1>0, <2>1, Woken DEF AllExited
  <2> QED BY <1>0, <2>1, <2>2, Woken DEF ClientPlace, SubmitPlace, StopPlace,
          LastPlace
<1>17. ASSUME NEW o \in Remote, PrefetcherCheck(o) \/ PrefetcherDeadline(o)
       PROVE Control'
  <2>1. /\ UNCHANGED <<client, submit, toForward, fetch, chunk, isLast, cancel,
                       prefetch_stop, owners_responded, client_producers_done>>
        /\ \E p \in {"exit", "blocked", "pull", "check"} :
              prefetcher' = [prefetcher EXCEPT ![o] = p]
        /\ prefetcher[o] \in {"pull", "check"}
    BY <1>17 DEF PrefetcherCheck, PrefetcherStop, PrefetcherWait,
       PrefetcherPull, PrefetcherDeadline, clientVars, stateVars, submitVars,
       fetchVars, cancelVars
  <2>2. registered'[Self] = registered[Self]
           /\ cancelled'[Self] = cancelled[Self]
    BY <1>0, <1>17, SelfAlone DEF PrefetcherCheck, PrefetcherStop,
       PrefetcherWait,
       PrefetcherPull, PrefetcherDeadline, ownerVars, requestVars
  <2>3. ~AllExited /\ submit = "done"
    BY <1>0, <2>1 DEF AllExited, SubmitPlace
  <2> QED BY <1>0, <2>1, <2>2, <2>3 DEF ClientPlace, SubmitPlace, StopPlace,
          LastPlace
<1>18. ASSUME NEW o \in Remote, PrefetcherReply(o) \/ PrefetcherError(o)
          PROVE Control'
  <2>1. /\ UNCHANGED <<client, submit, toForward, chunk, isLast, cancel,
                       prefetch_stop>>
        /\ prefetcher[o] = "pull" /\ fetch' = WokenFetch
        /\ \A p \in Owners : client_producers_done[p]
              => client_producers_done'[p]
    BY <1>0, <1>18 DEF PrefetcherReply, PrefetcherError, clientVars, stateVars,
       submitVars, cancelVars
  <2>2. registered'[Self] = registered[Self]
           /\ cancelled'[Self] = cancelled[Self]
    BY <1>0, <1>18, SelfAlone DEF PrefetcherReply, PrefetcherError
  <2>3. ~AllExited /\ submit = "done"
    BY <1>0, <2>1 DEF AllExited, SubmitPlace
  <2> QED BY <1>0, <2>1, <2>2, <2>3, Woken DEF ClientPlace, SubmitPlace,
          StopPlace, LastPlace
<1>19. ASSUME NEW o \in Remote,
              PullChunk(o) \/ NodeUp(o) \/ PullLate(o) \/ NodeCrash(o)
                \/ ForwardLate(o)
       PROVE  Control'
  <2>1. UNCHANGED <<clientVars, stateVars, submitVars, fetchVars, cancelVars,
                    prefetcher>>
    BY <1>19 DEF PullChunk, NodeUp, PullLate, NodeCrash, ForwardLate,
                 Unaffected
  <2>2. registered'[Self] = registered[Self]
           /\ cancelled'[Self] = cancelled[Self]
    BY <1>0, <1>19, SelfAlone DEF ForwardLate
  <2> QED BY <1>0, <2>1, <2>2, ControlSameKeeps DEF ControlSame,
     clientVars, stateVars, submitVars, fetchVars, cancelVars
<1>20. CASE Finish \/ UNCHANGED vars
  BY <1>0, <1>20, ControlSameKeeps DEF Finish, vars, ControlSame, clientVars,
     stateVars, submitVars, fetchVars, cancelVars, ownerVars, requestVars
<1> QED BY <1>1, <1>2, <1>3, <1>4, <1>5, <1>6, <1>7, <1>8, <1>9, <1>10, <1>11,
           <1>12, <1>13, <1>14, <1>15, <1>16, <1>17, <1>18, <1>19, <1>20
        DEF Next, FetchStep, CancelStep, Prefetch, FaultStep

(* Nothing that Slotted(p) is about changes, but that p's prefetcher may be
   woken. *)
SlotSame(p) ==
    /\ prefetcher' \in {prefetcher, WokenPrefetchers}
    /\ pull'[p] = pull[p] /\ prefetch_buf'[p] = prefetch_buf[p]
    /\ prefetch_done_map'[p] = prefetch_done_map[p]
    /\ client_producers_done'[p] = client_producers_done[p]

(* A thread that is woken looks at its slot again and has changed nothing
   yet. *)
LEMMA SlotSameKeeps ==
    ASSUME TypeOK, NEW p \in Remote, Slotted(p), SlotSame(p)
    PROVE  Slotted(p)'
<1>1. \/ prefetcher'[p] = prefetcher[p]
      \/ prefetcher[p] = "blocked" /\ prefetcher'[p] = "check"
  BY Woken DEF SlotSame
<1> QED BY <1>1 DEF Slotted, SlotSame

(* A step at owner o leaves the calls to the others alone. *)
LEMMA OtherCalls ==
    ASSUME Typed, NEW o \in Remote, NEW p \in Remote, p # o,
           \/ PullSend(o) \/ PullReturn(o) \/ PullExpire(o) \/ PullChunk(o)
    PROVE  pull'[p] = pull[p]
BY DEF PullSend, PullReturn, PullExpire, PullChunk, PullFindDrain, Drained,
       PullFinish, PullFail, Typed, TypeOK, OwnerTypeOK

(* What a call and a slot hold. *)
LEMMA CallTypes ==
    ASSUME Typed, NEW o \in Remote
    PROVE  /\ pull[o] \in [stage : {"none", "sent", "found", "drained",
                                    "replied", "error"},
                           rows : Seq(Nat), last : BOOLEAN]
           /\ pull[o].rows \in Seq(Nat) /\ prefetch_buf[o] \in Seq(Nat)
           /\ Len(pull[o].rows) \in Nat /\ Len(prefetch_buf[o]) \in Nat
           /\ PullMax[o] \in Nat \ {0}
<1>1. /\ pull[o] \in [stage : {"none", "sent", "found", "drained",
                                    "replied", "error"},
                      rows : Seq(Nat), last : BOOLEAN]
      /\ prefetch_buf[o] \in Seq(Nat)
  BY DEF Typed, TypeOK, OwnerTypeOK
<1>2. pull[o].rows \in Seq(Nat)
  BY <1>1
<1> QED BY <1>1, <1>2, LenProperties, GatewayAssumption

(* The handler of a call moves it on: what it may answer. *)
LEMMA HandlerSlotted ==
    ASSUME Typed, NEW o \in Remote, Slotted(o), PullChunk(o)
    PROVE  Slotted(o)'
<1>1. /\ pull[o].stage # "none"
      /\ UNCHANGED <<prefetcher, prefetch_buf, prefetch_done_map,
                     client_producers_done>>
  BY DEF PullChunk, PullFindDrain, PullFinish, PullFail, stateVars
<1>2. /\ pull'[o].stage \in {"drained", "replied", "error"}
      /\ Len(pull'[o].rows) <= PullMax[o]
      /\ pull'[o].stage = "error" => pull'[o].rows = <<>> /\ ~pull'[o].last
      /\ pull'[o].last => pull'[o].stage = "replied" /\ pull'[o].rows = <<>>
  <2>1. CASE PullFindDrain(o, PullMax[o])
    <3>1. /\ pull'[o].stage = "drained" /\ ~pull'[o].last
          /\ pull'[o].rows = SubSeq(matched[o], 1, Take(o, PullMax[o]))
      BY <2>1 DEF PullFindDrain, Drained, Typed, TypeOK, OwnerTypeOK
    <3>2. Take(o, PullMax[o]) \in 0..Len(matched[o]) /\ Take(o,
             PullMax[o]) <= PullMax[o]
      <4>1. matched[o] \in Seq(Nat) /\ Len(matched[o]) \in Nat
        BY RemoteIsNode, OwnerFacts DEF Typed
      <4> QED BY <4>1, CallTypes DEF Take
    <3>3. matched[o] \in Seq(Nat)
      BY RemoteIsNode, OwnerFacts DEF Typed
    <3>4. Len(SubSeq(matched[o], 1, Take(o, PullMax[o]))) = Take(o, PullMax[o])
      BY <3>2, <3>3, Split
    <3> QED BY <3>1, <3>2, <3>4
  <2>2. CASE PullFinish(o)
    BY <2>2 DEF PullFinish, Slotted, Typed, TypeOK, OwnerTypeOK
  <2>3. CASE PullFail(o)
    <3>1. pull'[o] = Failed /\ Len(<<>>) = 0 /\ PullMax[o] \in Nat
      BY <2>3, CallTypes DEF PullFail, Typed, TypeOK, OwnerTypeOK
    <3> QED BY <3>1 DEF Failed
  <2> QED BY <2>1, <2>2, <2>3 DEF PullChunk
<1> QED BY <1>1, <1>2 DEF Slotted

(* Every step keeps every slot. *)
LEMMA SlotsKeep ==
    ASSUME Typed, Control, Slots, [Next]_vars
    PROVE  Slots'
<1> SUFFICES ASSUME NEW p \in Remote PROVE Slotted(p)'
  BY DEF Slots
<1>0. /\ Typed /\ TypeOK /\ Control /\ Slotted(p) /\ p \in Owners /\ p # Self
      /\ client_producers_done \in [Owners -> BOOLEAN]
      /\ prefetcher \in [Remote -> {"none", "check", "blocked", "pull",
         "exit"}]
      /\ Len(<<>>) = 0 /\ PullMax[p] \in Nat \ {0}
  BY CallTypes DEF Typed, TypeOK, Remote, Slots
<1>1. CASE SubmitQuery
  <2>1. /\ prefetcher[p] = "none"
        /\ UNCHANGED <<prefetch_buf, prefetch_done_map, prefetcher, pull>>
    BY <1>0, <1>1 DEF SubmitQuery, Control, ClientPlace, SubmitPlace,
                      RegisterRequest, callVars
  <2> QED BY <1>0, <2>1 DEF Slotted
<1>2. ASSUME NEW o \in Remote, ForwardAttempt(o) PROVE Slotted(p)'
  <2>1. /\ prefetcher[p] = "none"
        /\ UNCHANGED <<prefetch_buf, prefetch_done_map, prefetcher, pull>>
    BY <1>0, <1>2
       DEF ForwardAttempt, ForwardAccepted, ForwardUnavailable,
           ForwardRelayFailed, ForwardDeadline, RegisterRequest, callVars,
           ownerVars, Control, SubmitPlace
  <2> QED BY <1>0, <2>1 DEF Slotted
<1>3. CASE SpawnPrefetchers
  <2>1. /\ prefetcher[p] = "none"
        /\ prefetcher'[p] = IF p \in Eligible /\ ~client_producers_done[p]
                            THEN "check" ELSE "none"
        /\ UNCHANGED <<prefetch_buf, prefetch_done_map, pull,
                       client_producers_done>>
    BY <1>0, <1>3 DEF SpawnPrefetchers, Control, SubmitPlace, ownerVars,
                      callVars, stateVars
  <2> QED BY <1>0, <2>1 DEF Slotted
<1>4. ASSUME NEW m \in FetchSizes, FetchServe(m) PROVE Slotted(p)'
  <2>1. PICK take \in RoundRobin(m) :
          /\ prefetch_buf' = [o \in Remote |-> Left(o, take[o])]
          /\ client_producers_done' = [o \in Owners |-> Promoted(o, take[o])]
    BY <1>4 DEF FetchServe
  <2>2. /\ prefetcher' = WokenPrefetchers
        /\ UNCHANGED <<pull, prefetch_done_map>>
    BY <1>4 DEF FetchServe, callVars
  <2>3. /\ prefetch_buf'[p] \in Seq(Nat)
        /\ Len(prefetch_buf'[p]) = Len(prefetch_buf[p]) - take[p]
        /\ take[p] \in 0..Len(prefetch_buf[p])
    <3>1. p \in Nodes /\ Source(p) = prefetch_buf[p] /\ TypeOK
      BY <1>0, RemoteIsNode DEF Source, Remote, Typed
    <3>2. prefetch_buf'[p] = Left(p, take[p])
      BY <2>1
    <3> QED BY <2>1, <3>1, <3>2, Taken
  <2>4. Len(prefetch_buf[p]) \in Nat /\ prefetch_buf[p] \in Seq(Nat)
    BY <1>0, CallTypes
  <2>5. /\ Len(prefetch_buf'[p]) <= PullMax[p]
        /\ prefetch_buf[p] = <<>> => prefetch_buf'[p] = <<>>
    BY <1>0, <2>3, <2>4, EmptySeq DEF Slotted
  <2>6. client_producers_done'[p] =>
           \/ client_producers_done[p]
           \/ prefetch_done_map[p] /\ prefetch_buf'[p] = <<>>
    <3>1. client_producers_done'[p] = Promoted(p, take[p])
      BY <1>0, <2>1
    <3>2. take[p] = Len(prefetch_buf[p]) => prefetch_buf'[p] = <<>>
      BY <2>3, <2>4, EmptySeq
    <3> QED BY <1>0, <3>1, <3>2 DEF Promoted, Ended, Source
  <2>7. \/ prefetcher'[p] = prefetcher[p]
        \/ prefetcher[p] = "blocked" /\ prefetcher'[p] = "check"
    BY <1>0, <2>2, Woken
  <2> QED BY <1>0, <2>2, <2>5, <2>6, <2>7 DEF Slotted
<1>5. CASE FetchDrop \/ CancelDrop \/ ProduceNotify
  <2>1. SlotSame(p)
    BY <1>5 DEF FetchDrop, CancelDrop, DropRequest, ProduceNotify, NotifyAll,
       SlotSame, callVars, stateVars
  <2> QED BY <1>0, <2>1, SlotSameKeeps
<1>6. CASE CancelClear
  <2>1. /\ prefetcher' = WokenPrefetchers
        /\ prefetch_buf'[p] = <<>>
        /\ UNCHANGED <<pull, prefetch_done_map, client_producers_done>>
    BY <1>6 DEF CancelClear, NotifyAll, callVars
  <2>2. \/ prefetcher'[p] = prefetcher[p]
        \/ prefetcher[p] = "blocked" /\ prefetcher'[p] = "check"
    BY <1>0, <2>1, Woken
  <2> QED BY <1>0, <2>1, <2>2 DEF Slotted
<1>7. ASSUME UNCHANGED <<stateVars, prefetcher, pull>> PROVE Slotted(p)'
  BY <1>0, <1>7, SlotSameKeeps DEF SlotSame, stateVars
<1>8. CASE FetchBegin \/ FetchArm \/ FetchBlock \/ FetchJoin \/ FetchReply
           \/ CancelJoin \/ CancelReply \/ ClientLeave \/ Finish
           \/ UNCHANGED vars
  BY <1>7, <1>8 DEF FetchBegin, FetchArm, FetchBlock, FetchJoin, FetchReply,
     CancelJoin, CancelReply, ClientLeave, Finish, vars, ownerVars, callVars
<1>9. CASE CancelBegin
  BY <1>0, <1>9, SlotSameKeeps DEF CancelBegin, SlotSame, callVars
<1>10. ASSUME NEW o \in Remote,
              CancelFan(o) \/ NodeUp(o) \/ ForwardLate(o) \/ PullLate(o)
       PROVE  Slotted(p)'
  BY <1>7, <1>10 DEF CancelFan, CancelRequest, NodeUp, ForwardLate,
     RegisterRequest, PullLate, LateFindDrain, LateFinish, Unaffected, ownerVars,
     callVars
<1>11. ASSUME NEW n \in Nodes, Produce(n) PROVE Slotted(p)'
  <2>1. pull' = pull
    BY <1>11 DEF Produce, ProduceBegin, ProduceCheck, ProduceRow, ProduceStore,
       ProduceEmptyPart, callVars
  <2> QED BY <1>7, <1>11, <2>1 DEF Produce
<1>12. ASSUME NEW o \in Remote, PrefetcherCheck(o) PROVE Slotted(p)'
  <2>1. stateVars' = stateVars /\ prefetcher[o] = "check"
    BY <1>12 DEF PrefetcherCheck
  <2>2. CASE p # o
    <3>1. pull'[p] = pull[p]
      BY <1>0, <1>12, <2>2, OtherCalls DEF PrefetcherCheck, PrefetcherStop,
         PrefetcherWait, PrefetcherPull, ownerVars, callVars
    <3>2. prefetcher'[p] = prefetcher[p]
      BY <1>0, <1>12, <2>2 DEF PrefetcherCheck, PrefetcherStop,
         PrefetcherWait, PrefetcherPull
    <3> QED BY <1>0, <2>1, <3>1, <3>2 DEF Slotted, stateVars
  <2>3. CASE p = o /\ (PrefetcherStop(o) \/ PrefetcherWait(o))
    <3>1. prefetcher'[p] \in {"exit", "blocked"} /\ pull' = pull
          /\ (prefetch_done_map[p] => prefetcher'[p] = "exit")
      BY <1>0, <2>3, <2>1 DEF PrefetcherStop, PrefetcherWait, ownerVars,
         callVars, Slotted
    <3> QED BY <1>0, <2>1, <2>3, <3>1 DEF Slotted, stateVars
  <2>4. CASE p = o /\ PrefetcherPull(o)
    <3>1. /\ prefetcher'[p] = "pull" /\ pull'[p] = Sent
          /\ prefetch_buf[p] = <<>> /\ ~prefetch_done_map[p]
      BY <1>0, <2>4 DEF PrefetcherPull, PullSend, SlotEmpty, Typed, TypeOK,
         OwnerTypeOK
    <3> QED BY <1>0, <2>1, <2>4, <3>1 DEF Slotted, stateVars, Sent
  <2> QED BY <1>12, <2>2, <2>3, <2>4 DEF PrefetcherCheck
<1>13. ASSUME NEW o \in Remote, PrefetcherDeadline(o) PROVE Slotted(p)'
  <2>1. stateVars' = stateVars /\ prefetcher[o] = "pull"
    BY <1>13 DEF PrefetcherDeadline
  <2>2. CASE p # o
    <3>1. pull'[p] = pull[p] /\ prefetcher'[p] = prefetcher[p]
      BY <1>0, <1>13, <2>2, OtherCalls DEF PrefetcherDeadline
    <3> QED BY <1>0, <2>1, <3>1 DEF Slotted, stateVars
  <2>3. CASE p = o
    <3>1. pull'[p] = NoCall /\ prefetcher'[p] = "check"
      BY <1>0, <1>13, <2>3 DEF PrefetcherDeadline, PullExpire, Typed, TypeOK,
         OwnerTypeOK
    <3> QED BY <1>0, <2>1, <2>3, <3>1 DEF Slotted, stateVars, NoCall
  <2> QED BY <2>2, <2>3
<1>14. ASSUME NEW o \in Remote, PrefetcherReply(o) \/ PrefetcherError(o)
       PROVE  Slotted(p)'
  <2>1. prefetcher[o] = "pull" /\ PullReturn(o)
    BY <1>14 DEF PrefetcherReply, PrefetcherError
  <2>2. CASE p # o
    <3>1. pull'[p] = pull[p]
      BY <1>0, <2>1, <2>2, OtherCalls
    <3>2. /\ prefetch_buf'[p] = prefetch_buf[p]
          /\ prefetch_done_map'[p] = prefetch_done_map[p]
          /\ client_producers_done'[p] = client_producers_done[p]
          /\ prefetcher'[p] = WokenPrefetchers[p]
      BY <1>0, <1>14, <2>2 DEF PrefetcherReply, PrefetcherError, TypeOK,
         WokenPrefetchers
    <3>3. \/ prefetcher'[p] = prefetcher[p]
          \/ prefetcher[p] = "blocked" /\ prefetcher'[p] = "check"
      BY <1>0, <3>2, Woken
    <3> QED BY <1>0, <3>1, <3>2, <3>3 DEF Slotted
  <2>3. CASE p = o
    <3>1. pull'[p] = NoCall /\ prefetch_buf[p] = <<>>
      BY <1>0, <2>1, <2>3 DEF PullReturn, Slotted, Typed, TypeOK, OwnerTypeOK
    <3>2. <<>> \o pull[p].rows = pull[p].rows
      BY <1>0, CallTypes, ConcatEmptySeq
    <3>3. CASE PrefetcherReply(o)
      <4>1. /\ prefetch_buf'[p] = pull[p].rows
            /\ prefetch_done_map'[p] = (prefetch_done_map[p] \/ pull[p].last)
            /\ client_producers_done' = client_producers_done
            /\ prefetcher'[p] = IF pull[p].last THEN "exit" ELSE "check"
        BY <1>0, <2>3, <3>1, <3>2, <3>3 DEF PrefetcherReply, TypeOK,
           WokenPrefetchers
      <4> QED BY <1>0, <2>1, <2>3, <3>1, <4>1 DEF Slotted, NoCall
    <3>4. CASE PrefetcherError(o)
      <4>1. /\ prefetch_buf'[p] = <<>> /\ prefetcher'[p] = "exit"
            /\ p \in Eligible
        BY <1>0, <2>1, <2>3, <3>1, <3>4 DEF PrefetcherError, WokenPrefetchers,
           Slotted
      <4> QED BY <1>0, <3>1, <4>1 DEF Slotted, NoCall
    <3> QED BY <1>14, <3>3, <3>4
  <2> QED BY <2>2, <2>3
<1>15. ASSUME NEW o \in Remote, PullChunk(o) PROVE Slotted(p)'
  <2>1. CASE p = o
    BY <1>0, <1>15, <2>1, HandlerSlotted
  <2>2. CASE p # o
    <3>1. pull'[p] = pull[p]
      BY <1>0, <1>15, <2>2, OtherCalls
    <3> QED BY <1>0, <1>15, <3>1, SlotSameKeeps DEF PullChunk, SlotSame,
            stateVars
  <2> QED BY <2>1, <2>2
<1>16. ASSUME NEW o \in Remote, NodeCrash(o) PROVE Slotted(p)'
  <2>1. UNCHANGED <<stateVars, prefetcher>>
    BY <1>16 DEF NodeCrash, Unaffected
  <2>2. \/ pull'[p] = pull[p]
        \/ pull[p].stage # "none" /\ pull'[p] = Failed
    <3>1. pull' = [q \in Remote |->
             IF \/ q = o /\ pull[q].stage \in {"sent", "drained"}
                \/ (q # o /\ Hop[q] = o) /\ pull[q].stage # "none"
             THEN Failed ELSE pull[q]]
      BY <1>16 DEF NodeCrash
    <3> QED BY <3>1
  <2> QED BY <1>0, <2>1, <2>2 DEF Slotted, stateVars, Failed
<1> QED BY <1>1, <1>2, <1>3, <1>4, <1>5, <1>6, <1>8, <1>9, <1>10, <1>11,
           <1>12, <1>13, <1>14, <1>15, <1>16
        DEF Next, FetchStep, CancelStep, Prefetch, FaultStep

(* The inductive invariant most of the gateway's safety rests on. *)
GatewayInv == Typed /\ Control /\ Slots

(* It holds in every reachable state. *)
LEMMA GatewayInvariant == Spec => []GatewayInv
<1>1. Init => Control /\ Slots
  <2> SUFFICES ASSUME Init PROVE Control /\ Slots
    OBVIOUS
  <2>1. Control
    BY DEF Init, OwnerInit, Control, ClientPlace, SubmitPlace, StopPlace,
           LastPlace, Nodes, AllExited
  <2>2. ASSUME NEW o \in Remote PROVE Slotted(o)
    <3>1. /\ pull[o] = NoCall /\ prefetcher[o] = "none"
          /\ prefetch_buf[o] = <<>> /\ ~prefetch_done_map[o]
          /\ ~client_producers_done[o]
      BY DEF Init, OwnerInit, Remote
    <3>2. PullMax[o] \in Nat /\ Len(<<>>) = 0
      BY GatewayAssumption, EmptySeq
    <3> QED BY <3>1, <3>2 DEF Slotted, NoCall
  <2> QED BY <2>1, <2>2 DEF Slots
<1>2. Typed /\ Control /\ Slots /\ [Next]_vars => Control' /\ Slots'
  BY ControlKeeps, SlotsKeep
<1> QED BY <1>1, <1>2, TypesInvariant, PTL DEF Spec, GatewayInv

(* node.cpp:61, 719: however slow the client is and whatever fails, no
   deque holds more than MaxBuffered rows and no slot more than one
   PullChunk's. *)
THEOREM GatewayMemoryBounded == Spec => []BoundedMemory
<1>1. GatewayInv => BoundedMemory
  <2> SUFFICES ASSUME GatewayInv PROVE BoundedMemory
    OBVIOUS
  <2>1. \A n \in Nodes : Len(matched[n]) <= MaxBuffered
    BY OwnerFacts, OwnerAssumption
       DEF GatewayInv, Typed, OwnerInv, BufferRoom, InTurn
  <2> QED BY <2>1 DEF GatewayInv, Slots, Slotted, BoundedMemory
<1> QED BY <1>1, GatewayInvariant, PTL

(* node.cpp:395: once the gateway takes an owner for done, its slot is
   empty and its prefetcher has returned, so that no row of it can still
   arrive. *)
THEOREM OwnersStayDone == Spec => []DoneIsFinal
<1>1. GatewayInv => DoneIsFinal
  BY DEF GatewayInv, Slots, Slotted, DoneIsFinal, Remote
<1> QED BY <1>1, GatewayInvariant, PTL

(* node.cpp:440, 673: when CancelQuery is acknowledged, the request is
   gone, no FetchChunk waits on prefetch_cv and no prefetcher still runs. *)
THEOREM CancelLeavesNoThread == Spec => []CancelQuiesces
<1>1. GatewayInv => CancelQuiesces
  BY DEF GatewayInv, Control, StopPlace, ClientPlace, AllExited, CancelQuiesces
<1> QED BY <1>1, GatewayInvariant, PTL

-----------------------------------------------------------------------------
(* The fan-out *)

(* A node that has not registered the query has done nothing for it. *)
Fresh(n) ==
    registrations[n] = 0 =>
        ~registered[n] /\ producer[n] = "idle" /\ matched_cursor[n] = 0

(* No node has. *)
FreshNodes == \A n \in Nodes : Fresh(n)

(* A query is entered into a clean request, and is counted. *)
LEMMA RegisterFresh ==
    ASSUME Typed, NEW o \in Nodes, RegisterRequest(o), FreshNodes
    PROVE  /\ FreshNodes'
           /\ \A n \in Nodes : registrations[n] <= registrations'[n]
           /\ registrations'[o] > 0
<1>1. registrations \in [Nodes -> Nat] /\ registered \in [Nodes -> BOOLEAN]
      /\ producer \in [Nodes -> {"idle", "check", "push", "store", "notify"}]
      /\ matched_cursor \in [Nodes -> Nat]
  BY DEF Typed, TypeOK, OwnerTypeOK
<1>2. CASE registered[o]
  <2>1. UNCHANGED <<registered, producer, matched_cursor, registrations>>
    BY <1>2 DEF RegisterRequest, requestVars, producerVars
  <2> QED BY <1>1, <1>2, <2>1 DEF FreshNodes, Fresh
<1>3. CASE ~registered[o]
  <2>1. /\ registrations' = [registrations EXCEPT ![o] = @ + 1]
        /\ registered' = [registered EXCEPT ![o] = TRUE]
        /\ producer' = [producer EXCEPT ![o] = "idle"]
        /\ matched_cursor' = [matched_cursor EXCEPT ![o] = 0]
    BY <1>3 DEF RegisterRequest
  <2> QED BY <1>1, <2>1 DEF FreshNodes, Fresh
<1> QED BY <1>2, <1>3

(* Only a registered request is worked on. *)
LEMMA FreshSteps ==
    ASSUME Typed, FreshNodes, [Next]_vars
    PROVE  /\ FreshNodes'
           /\ \A n \in Nodes : registrations[n] <= registrations'[n]
<1>0. /\ Typed /\ FreshNodes /\ Self \in Nodes /\ Remote \subseteq Nodes
      /\ registrations \in [Nodes -> Nat] /\ registered \in [Nodes -> BOOLEAN]
      /\ producer \in [Nodes -> {"idle", "check", "push", "store", "notify"}]
      /\ matched_cursor \in [Nodes -> Nat]
  BY RemoteIsNode DEF Typed, TypeOK, OwnerTypeOK, Nodes
<1> DEFINE Goal == /\ FreshNodes'
                   /\ \A n \in Nodes : registrations[n] <= registrations'[n]
(* Registrations do not change, and no request is entered or worked on. *)
<1>1. ASSUME UNCHANGED <<registrations, matched_cursor>>,
             \A n \in Nodes : /\ registered'[n] => registered[n]
                              /\ \/ producer'[n] = producer[n]
                                 \/ producer'[n] = "idle"
      PROVE  Goal
  BY <1>0, <1>1 DEF FreshNodes, Fresh
<1>2. CASE SubmitQuery
  BY <1>0, <1>2, RegisterFresh DEF SubmitQuery
<1>3. ASSUME NEW o \in Remote, ForwardAttempt(o) \/ ForwardLate(o) PROVE Goal
  <2>1. RegisterRequest(o) \/ UNCHANGED ownerVars
    BY <1>3 DEF ForwardAttempt, ForwardAccepted, ForwardUnavailable,
                ForwardRelayFailed, ForwardDeadline, ForwardLate
  <2> QED BY <1>0, <1>1, <2>1, RegisterFresh DEF ownerVars, requestVars,
             producerVars
<1>4. ASSUME NEW n \in Nodes, Produce(n) PROVE Goal
  <2>1. /\ registered' = registered /\ registrations' = registrations
        /\ registered[n] \/ producer[n] # "idle"
        /\ \A m \in Nodes : m # n => /\ producer'[m] = producer[m]
                                     /\ matched_cursor'[m] = matched_cursor[m]
    BY <1>0, <1>4 DEF Produce, ProduceBegin, ProduceCheck, ProduceRow,
       ProduceStore, ProduceEmptyPart, requestVars
  <2> QED BY <1>0, <2>1 DEF FreshNodes, Fresh
<1>5. CASE ProduceNotify
  <2>1. UNCHANGED <<registrations, matched_cursor, registered>>
    BY <1>5 DEF ProduceNotify, requestVars
  <2>2. producer' = [producer EXCEPT ![Self] = "idle"]
    BY <1>5 DEF ProduceNotify
  <2> QED BY <1>0, <1>1, <2>1, <2>2
<1>6. CASE FetchDrop \/ CancelDrop
  BY <1>0, <1>1, <1>6 DEF FetchDrop, CancelDrop, DropRequest, producerVars
<1>7. CASE \/ CancelBegin \/ CancelClear \/ \E m \in FetchSizes : FetchServe(m)
  BY <1>0, <1>1, <1>7 DEF CancelBegin, CancelClear, FetchServe, producerVars
<1>8. ASSUME UNCHANGED ownerVars PROVE Goal
  BY <1>1, <1>8 DEF ownerVars, requestVars, producerVars
<1>9. CASE \/ FetchBegin \/ FetchArm \/ FetchBlock \/ FetchJoin \/ FetchReply
           \/ CancelJoin \/ CancelReply \/ ClientLeave \/ SpawnPrefetchers
           \/ Finish \/ UNCHANGED vars
  BY <1>8, <1>9 DEF FetchBegin, FetchArm, FetchBlock, FetchJoin, FetchReply,
     CancelJoin, CancelReply, ClientLeave, SpawnPrefetchers, Finish, vars
<1>10. ASSUME NEW o \in Remote, CancelFan(o) PROVE Goal
  <2>1. Hop[o] \in Remote
    BY GatewayAssumption
  <2>2. CASE CancelRequest(Hop[o])
    <3>1. UNCHANGED <<registrations, matched_cursor, producer>>
      BY <2>2 DEF CancelRequest, producerVars
    <3>2. \A n \in Nodes : registered'[n] => registered[n]
      BY <1>0, <2>2 DEF CancelRequest
    <3> QED BY <1>0, <1>1, <3>1, <3>2
  <2> QED BY <1>8, <1>10, <2>2 DEF CancelFan
<1>11. ASSUME NEW o \in Remote,
              Prefetch(o) \/ PrefetcherDeadline(o) \/ NodeUp(o)
       PROVE  Goal
  <2>1. UNCHANGED <<requestVars, producerVars, registrations>>
    BY <1>11 DEF Prefetch, PrefetcherCheck, PrefetcherStop, PrefetcherWait,
       PrefetcherPull, PrefetcherReply, PrefetcherError, PrefetcherDeadline,
       PullSend, PullReturn, PullExpire, NodeUp, ownerVars
  <2> QED BY <1>1, <2>1 DEF requestVars, producerVars
<1>12. ASSUME NEW o \in Remote, PullChunk(o) \/ PullLate(o) PROVE Goal
  <2>1. /\ UNCHANGED <<registrations, matched_cursor, producer>>
        /\ \/ registered' = registered
           \/ \E last \in BOOLEAN : DropAtLast(o, last)
    <3>1. CASE PullChunk(o)
      BY <3>1 DEF PullChunk, PullFindDrain, Drained, PullFinish, PullFail,
         requestVars, producerVars
    <3>2. CASE PullLate(o)
      <4>1. NoMoreRows(o) \in BOOLEAN
        BY DEF NoMoreRows, Typed, TypeOK, OwnerTypeOK
      <4> QED BY <3>2, <4>1 DEF PullLate, LateFindDrain, LateFinish, producerVars
    <3> QED BY <1>12, <3>1, <3>2
  <2> QED BY <1>0, <1>1, <2>1 DEF DropAtLast
<1>13. ASSUME NEW o \in Remote, NodeCrash(o) PROVE Goal
  <2>1. /\ registered' = [registered EXCEPT ![o] = FALSE]
        /\ producer' = [producer EXCEPT ![o] = "idle"]
        /\ UNCHANGED <<registrations, matched_cursor>>
    BY <1>13 DEF NodeCrash
  <2> QED BY <1>0, <1>1, <2>1
<1> QED BY <1>2, <1>3, <1>4, <1>5, <1>6, <1>7, <1>9, <1>10, <1>11, <1>12,
           <1>13 DEF Next, FetchStep, CancelStep, FaultStep

(* The fan-out takes an owner off its list only when the owner has the query,
   when it is given up, or when a relay answers for it. *)
LEMMA ForwardKeeps ==
    ASSUME Typed, FreshNodes, DirectForwardRegisters, [Next]_vars
    PROVE  DirectForwardRegisters'
<1> SUFFICES ASSUME NEW o \in Eligible \cap Remote, submit' # "idle",
                    o \notin toForward', ~client_producers_done'[o],
                    Hop[o] = o
             PROVE  registrations'[o] > 0
  BY DEF DirectForwardRegisters
<1>0. /\ o \in Nodes /\ o # Self /\ o \in Owners /\ o \in Remote
      /\ registrations[o] \in Nat /\ registrations'[o] \in Nat
      /\ registrations[o] <= registrations'[o]
      /\ client_producers_done \in [Owners -> BOOLEAN]
      /\ Typed /\ FreshNodes
  <2>1. o \in Nodes /\ Typed'
    BY RemoteIsNode, OwnerKeeps, GatewayTypes DEF Typed
  <2> QED BY <2>1, FreshSteps DEF Typed, TypeOK, OwnerTypeOK, Remote
<1>1. ASSUME submit # "idle", o \notin toForward, ~client_producers_done[o]
      PROVE  registrations'[o] > 0
  BY <1>0, <1>1 DEF DirectForwardRegisters
<1>2. CASE SubmitQuery
  BY <1>0, <1>2 DEF SubmitQuery
<1>3. ASSUME NEW p \in Remote, ForwardAttempt(p) PROVE registrations'[o] > 0
  <2>1. CASE p = o /\ ForwardAccepted(o)
    BY <1>0, <2>1, RegisterFresh DEF ForwardAccepted
  <2>2. CASE p = o /\ (ForwardUnavailable(o) \/ ForwardDeadline(o))
    <3>1. ForwardAgain(o)
      BY <2>2 DEF ForwardUnavailable, ForwardDeadline
    <3> QED BY <1>0, <1>1, <1>3, <3>1 DEF ForwardAgain, ForwardedTo,
               ForwardAttempt
  <2>3. CASE p = o /\ ForwardRelayFailed(o)
    BY <2>3 DEF ForwardRelayFailed
  <2>4. CASE p # o
    <3>1. /\ toForward' = toForward \/ toForward' = toForward \ {p}
          /\ client_producers_done'[o] = client_producers_done[o]
      BY <1>0, <1>3, <2>4
         DEF ForwardAttempt, ForwardAccepted, ForwardUnavailable,
             ForwardRelayFailed, ForwardDeadline, ForwardAgain, ForwardedTo
    <3> QED BY <1>1, <1>3, <2>4, <3>1 DEF ForwardAttempt
  <2> QED BY <1>3, <2>1, <2>2, <2>3, <2>4 DEF ForwardAttempt
<1>4. ASSUME submit # "idle", toForward' = toForward,
             client_producers_done[o] => client_producers_done'[o]
      PROVE  registrations'[o] > 0
  BY <1>1, <1>4
<1>5. ASSUME NEW m \in FetchSizes, FetchServe(m) PROVE registrations'[o] > 0
  <2>1. /\ submit' = submit /\ toForward' = toForward
        /\ client_producers_done[o] => client_producers_done'[o]
    BY <1>0, <1>5 DEF FetchServe, Promoted, submitVars
  <2> QED BY <1>4, <2>1
<1>6. ASSUME UNCHANGED <<stateVars, submitVars>> PROVE registrations'[o] > 0
  BY <1>4, <1>6 DEF stateVars, submitVars
<1>7. CASE SpawnPrefetchers
  BY <1>4, <1>7 DEF SpawnPrefetchers, stateVars
<1>8. CASE \/ FetchBegin \/ FetchArm \/ FetchBlock \/ FetchJoin \/ FetchReply
           \/ CancelJoin \/ CancelReply \/ ClientLeave \/ ProduceNotify
           \/ Finish \/ UNCHANGED vars
           \/ \E n \in Nodes : Produce(n)
           \/ \E p \in Remote : CancelFan(p)
  BY <1>6, <1>8 DEF FetchBegin, FetchArm, FetchBlock, FetchJoin, FetchReply,
     CancelJoin, CancelReply, ClientLeave, ProduceNotify, Finish, vars,
     Produce, CancelFan
<1>9. CASE FetchDrop \/ CancelDrop \/ CancelBegin \/ CancelClear
  BY <1>4, <1>9 DEF FetchDrop, CancelDrop, DropRequest, CancelBegin,
     CancelClear, submitVars
<1>10. ASSUME NEW p \in Remote, Prefetch(p) PROVE registrations'[o] > 0
  <2>1. /\ submit' = submit /\ toForward' = toForward
        /\ client_producers_done[o] => client_producers_done'[o]
    BY <1>0, <1>10 DEF Prefetch, PrefetcherCheck, PrefetcherReply,
       PrefetcherError, stateVars, submitVars
  <2> QED BY <1>4, <2>1
<1>11. ASSUME NEW p \in Remote,
              PullChunk(p) \/ NodeUp(p) \/ FaultStep(p)
       PROVE  registrations'[o] > 0
  BY <1>6, <1>11 DEF PullChunk, NodeUp, FaultStep, PrefetcherDeadline,
     ForwardLate, PullLate, NodeCrash, Unaffected
<1> QED BY <1>2, <1>3, <1>5, <1>7, <1>8, <1>9, <1>10, <1>11
        DEF Next, FetchStep, CancelStep

(* Both hold in every reachable state. *)
LEMMA FreshInvariant == Spec => [](FreshNodes /\ DirectForwardRegisters)
<1>1. Init => FreshNodes /\ DirectForwardRegisters
  BY DEF Init, OwnerInit, FreshNodes, Fresh, DirectForwardRegisters
<1>2. Typed /\ FreshNodes /\ [Next]_vars => FreshNodes'
  BY FreshSteps
<1>3. Typed /\ FreshNodes /\ DirectForwardRegisters /\ [Next]_vars
         => DirectForwardRegisters'
  BY ForwardKeeps
<1> QED BY <1>1, <1>2, <1>3, TypesInvariant, PTL DEF Spec

(* node.cpp:271: for any number of attempts, every neighbour that the fan-
   out does not give up has registered the query, however often its calls
   expired. *)
THEOREM ForwardReachesNeighbours == Spec => []DirectForwardRegisters
BY FreshInvariant, PTL

-----------------------------------------------------------------------------
(* Rows in order *)

(* Five stretches of one stream of rows, the oldest first. *)
Five(h, b, c, d, e) == h \o (b \o (c \o (d \o e)))

(* All of it is a sequence of rows. *)
LEMMA FiveTypes ==
    ASSUME NEW h \in Seq(Nat), NEW b \in Seq(Nat), NEW c \in Seq(Nat),
           NEW d \in Seq(Nat), NEW e \in Seq(Nat)
    PROVE  /\ Five(h, b, c, d, e) \in Seq(Nat)
           /\ d \o e \in Seq(Nat) /\ c \o (d \o e) \in Seq(Nat)
           /\ b \o (c \o (d \o e)) \in Seq(Nat)
<1>1. d \o e \in Seq(Nat)
  BY ConcatProperties
<1>2. c \o (d \o e) \in Seq(Nat)
  BY <1>1, ConcatProperties
<1>3. b \o (c \o (d \o e)) \in Seq(Nat)
  BY <1>2, ConcatProperties
<1>4. h \o (b \o (c \o (d \o e))) \in Seq(Nat)
  BY <1>3, ConcatProperties
<1> QED BY <1>1, <1>2, <1>3, <1>4 DEF Five

(* Rows move on from one stretch to the one before it. *)
LEMMA RowsMove ==
    ASSUME NEW h \in Seq(Nat), NEW b \in Seq(Nat), NEW c \in Seq(Nat),
           NEW d \in Seq(Nat), NEW e \in Seq(Nat)
    PROVE  /\ Five(h \o b, <<>>, c, d, e) = Five(h, b, c, d, e)
           /\ Five(h, b \o c, <<>>, d, e) = Five(h, b, c, d, e)
           /\ Five(h, <<>>, b \o c, d, e) = Five(h, b, c, d, e)
           /\ Five(h, b, c \o d, <<>>, e) = Five(h, b, c, d, e)
           /\ Five(h, b, c, <<>>, d \o e) = Five(h, b, c, d, e)
           /\ Five(h, <<>>, <<>>, <<>>, b \o e) = Five(h, b, <<>>, <<>>, e)
<1>1. /\ \A s \in Seq(Nat) : <<>> \o s = s
      /\ d \o e \in Seq(Nat) /\ c \o (d \o e) \in Seq(Nat)
      /\ b \o (c \o (d \o e)) \in Seq(Nat) /\ b \o e \in Seq(Nat)
  BY FiveTypes, ConcatEmptySeq, ConcatProperties
<1>2. (h \o b) \o (c \o (d \o e)) = h \o (b \o (c \o (d \o e)))
  <2> DEFINE u == c \o (d \o e)
  <2>1. u \in Seq(Nat)
    BY <1>1
  <2> HIDE DEF u
  <2>2. (h \o b) \o u = h \o (b \o u)
    BY <2>1, RowsAssociate, ZenonT(60)
  <2> QED BY <2>2 DEF u
<1>3. (b \o c) \o (d \o e) = b \o (c \o (d \o e))
  <2> DEFINE u == d \o e
  <2>1. u \in Seq(Nat)
    BY <1>1
  <2> HIDE DEF u
  <2>2. (b \o c) \o u = b \o (c \o u)
    BY <2>1, RowsAssociate, ZenonT(60)
  <2> QED BY <2>2 DEF u
<1>4. (c \o d) \o e = c \o (d \o e)
  BY RowsAssociate, ZenonT(60)
<1>5. Five(h \o b, <<>>, c, d, e) = Five(h, b, c, d, e)
  BY <1>1, <1>2 DEF Five
<1>6. /\ Five(h, b \o c, <<>>, d, e) = Five(h, b, c, d, e)
      /\ Five(h, <<>>, b \o c, d, e) = Five(h, b, c, d, e)
  <2>1. b \o c \in Seq(Nat)
    BY ConcatProperties
  <2>2. (b \o c) \o (d \o e) \in Seq(Nat)
    BY <1>1, <1>3
  <2> QED BY <1>1, <1>3, <2>1, <2>2 DEF Five
<1>7. Five(h, b, c \o d, <<>>, e) = Five(h, b, c, d, e)
  BY <1>1, <1>4 DEF Five
<1>8. Five(h, b, c, <<>>, d \o e) = Five(h, b, c, d, e)
  BY <1>1 DEF Five
<1>9. Five(h, <<>>, <<>>, <<>>, b \o e) = Five(h, b, <<>>, <<>>, e)
  BY <1>1 DEF Five
<1> QED BY <1>5, <1>6, <1>7, <1>8, <1>9

(* One stretch, or the front of the last one, gets lost. *)
LEMMA RowsLost ==
    ASSUME NEW h \in Seq(Nat), NEW b \in Seq(Nat), NEW c \in Seq(Nat),
           NEW d \in Seq(Nat), NEW e \in Seq(Nat), NEW k \in Nat,
           Ordered(Five(h, b, c, d, e), k)
    PROVE  /\ Ordered(Five(h, <<>>, c, d, e), k)
           /\ Ordered(Five(h, b, <<>>, d, e), k)
           /\ Ordered(Five(h, b, c, <<>>, e), k)
           /\ Ordered(Five(h, b, c, d, <<>>), k)
           /\ \A f, g \in Seq(Nat) : e = f \o g =>
                 Ordered(Five(h, b, c, d, g), k)
<1>1. /\ \A s \in Seq(Nat) : <<>> \o s = s /\ s \o <<>> = s
      /\ <<>> \in Seq(Nat)
  BY ConcatEmptySeq, EmptySeq
<1>2. /\ d \o e \in Seq(Nat) /\ c \o (d \o e) \in Seq(Nat)
      /\ b \o (c \o (d \o e)) \in Seq(Nat) /\ b \o (d \o e) \in Seq(Nat)
  <2>1. d \o e \in Seq(Nat) /\ c \o (d \o e) \in Seq(Nat)
        /\ b \o (c \o (d \o e)) \in Seq(Nat)
    BY FiveTypes
  <2> QED BY <2>1, ConcatProperties
<1>3. Ordered(h \o (b \o (c \o (d \o e))), k)
  BY DEF Five
<1>4. Ordered(Five(h, <<>>, c, d, e), k)
  <2>1. Ordered(h \o (c \o (d \o e)), k)
    BY <1>2, <1>3, OrderedErase
  <2>2. <<>> \o (c \o (d \o e)) = c \o (d \o e)
    BY <1>1, <1>2
  <2> QED BY <2>1, <2>2 DEF Five
<1> DEFINE ab == h \o b
<1>5. ab \in Seq(Nat)
  BY ConcatProperties
<1>6. ASSUME NEW t \in Seq(Nat) PROVE ab \o t = h \o (b \o t)
  BY RowsAssociate, ZenonT(60)
<1> HIDE DEF ab
<1> DEFINE abc == ab \o c
<1>7. abc \in Seq(Nat)
  BY <1>5, ConcatProperties
<1>8. ASSUME NEW t \in Seq(Nat) PROVE abc \o t = ab \o (c \o t)
  BY <1>5, RowsAssociate, ZenonT(60)
<1> HIDE DEF abc
<1> DEFINE abcd == abc \o d
<1>9. abcd \in Seq(Nat)
  BY <1>7, ConcatProperties
<1>10. ASSUME NEW t \in Seq(Nat) PROVE abcd \o t = abc \o (d \o t)
  BY <1>7, RowsAssociate, ZenonT(60)
<1> HIDE DEF abcd
<1>11. Ordered(Five(h, b, <<>>, d, e), k)
  <2>1. Ordered(ab \o (c \o (d \o e)), k)
    BY <1>2, <1>3, <1>6
  <2>2. Ordered(ab \o (d \o e), k)
    BY <1>2, <1>5, <2>1, OrderedErase
  <2> QED BY <1>1, <1>2, <1>6, <2>2 DEF Five
<1>12. Ordered(Five(h, b, c, <<>>, e), k)
  <2>1. Ordered(abc \o (d \o e), k)
    BY <1>2, <1>3, <1>6, <1>8
  <2>2. Ordered(abc \o e, k)
    BY <1>7, <2>1, OrderedErase
  <2>3. c \o e \in Seq(Nat)
    BY ConcatProperties
  <2> QED BY <1>1, <1>6, <1>8, <2>2, <2>3 DEF Five
(* The last stretch loses f at its front and keeps g. *)
<1>13. ASSUME NEW f \in Seq(Nat), NEW g \in Seq(Nat), e = f \o g
       PROVE  Ordered(Five(h, b, c, d, g), k)
  <2>1. /\ d \o g \in Seq(Nat) /\ c \o (d \o g) \in Seq(Nat)
    BY FiveTypes
  <2>2. Ordered(abcd \o (f \o g), k)
    BY <1>2, <1>3, <1>6, <1>8, <1>10, <1>13
  <2>3. Ordered(abcd \o g, k)
    BY <1>9, <2>2, OrderedErase
  <2> QED BY <1>6, <1>8, <1>10, <2>1, <2>3 DEF Five
<1>14. Ordered(Five(h, b, c, d, <<>>), k)
  BY <1>1, <1>13
<1> QED BY <1>4, <1>11, <1>12, <1>13, <1>14

(* The stream holds the first k rows, none missing. *)
Whole(s, k) == s = Rows(k)

(* One more row behind the last stretch keeps the stream in order, and whole
   if it was. *)
LEMMA RowPushed ==
    ASSUME NEW h \in Seq(Nat), NEW b \in Seq(Nat), NEW c \in Seq(Nat),
           NEW d \in Seq(Nat), NEW e \in Seq(Nat), NEW k \in Nat
    PROVE  /\ Ordered(Five(h, b, c, d, e), k) =>
                 Ordered(Five(h, b, c, d, Append(e, k + 1)), k + 1)
           /\ Whole(Five(h, b, c, d, e), k) =>
                 Whole(Five(h, b, c, d, Append(e, k + 1)), k + 1)
<1>1. /\ d \o e \in Seq(Nat) /\ c \o (d \o e) \in Seq(Nat)
      /\ b \o (c \o (d \o e)) \in Seq(Nat) /\ k + 1 \in Nat
      /\ Five(h, b, c, d, e) \in Seq(Nat)
  BY FiveTypes
<1> DEFINE x == k + 1
<1> HIDE DEF x
<1>2. x \in Nat
  BY <1>1 DEF x
<1>3. d \o Append(e, x) = Append(d \o e, x)
  BY <1>2, ConcatAppend, Zenon
<1>4. c \o Append(d \o e, x) = Append(c \o (d \o e), x)
  BY <1>1, <1>2, ConcatAppend, ZenonT(30)
<1>5. b \o Append(c \o (d \o e), x) = Append(b \o (c \o (d \o e)), x)
  BY <1>1, <1>2, ConcatAppend, ZenonT(30)
<1>6. h \o Append(b \o (c \o (d \o e)), x) = Append(Five(h, b, c, d, e), x)
  BY <1>1, <1>2, ConcatAppend, ZenonT(30) DEF Five
<1>7. Five(h, b, c, d, Append(e, x)) = Append(Five(h, b, c, d, e), x)
  BY <1>3, <1>4, <1>5, <1>6 DEF Five
<1>8. Ordered(Five(h, b, c, d, e), k) =>
         Ordered(Append(Five(h, b, c, d, e), k + 1), k + 1)
  BY <1>1, OrderedAppend
<1>9. Whole(Five(h, b, c, d, e), k) =>
         Whole(Append(Five(h, b, c, d, e), k + 1), k + 1)
  BY NextRow DEF Whole
<1> QED BY <1>7, <1>8, <1>9 DEF x

(* The rows of node n on their way from its deque to the client: in the
   deque, in a PullChunk's answer, in the slot, in the chunk being sent, with
   the client.  The gateway's own go from the deque to the chunk. *)
Slot(n)  == IF n = Self THEN <<>> ELSE prefetch_buf[n]
Reply(n) == IF n = Self THEN <<>> ELSE pull[n].rows

Stream(n) == Five(delivered[n], chunk[n], Slot(n), Reply(n), matched[n])

(* Those that have left the deque. *)
Got(n) == Five(delivered[n], chunk[n], Slot(n), Reply(n), <<>>)

(* Of a query a node has entered once, the rows on their way are in order. *)
InOrder(n) ==
    registrations[n] <= 1 => Ordered(Stream(n), matched_cursor[n])

(* At every node. *)
AllInOrder == \A n \in Nodes : InOrder(n)

(* The stretches hold rows. *)
LEMMA StretchTypes ==
    ASSUME Typed, NEW n \in Nodes
    PROVE  /\ delivered[n] \in Seq(Nat) /\ chunk[n] \in Seq(Nat)
           /\ Slot(n) \in Seq(Nat) /\ Reply(n) \in Seq(Nat)
           /\ matched[n] \in Seq(Nat) /\ matched_cursor[n] \in Nat
           /\ registrations[n] \in Nat
<1>1. Slot(n) \in Seq(Nat) /\ Reply(n) \in Seq(Nat)
  <2>1. CASE n = Self
    BY <2>1, EmptySeq DEF Slot, Reply
  <2>2. CASE n # Self
    <3>1. n \in Remote
      BY <2>2 DEF Nodes, Remote
    <3> QED BY <2>2, <3>1, CallTypes DEF Slot, Reply
  <2> QED BY <2>1, <2>2
<1> QED BY <1>1 DEF Typed, TypeOK, OwnerTypeOK

(* Nothing that InOrder(n) is about changes. *)
StreamSame(n) ==
    /\ delivered'[n] = delivered[n] /\ chunk'[n] = chunk[n]
    /\ Slot(n)' = Slot(n) /\ Reply(n)' = Reply(n)
    /\ matched'[n] = matched[n] /\ matched_cursor'[n] = matched_cursor[n]
    /\ registrations'[n] = registrations[n]

(* The order is kept then. *)
LEMMA StreamSameKeeps ==
    ASSUME NEW n \in Nodes, InOrder(n), StreamSame(n)
    PROVE  InOrder(n)'
BY DEF InOrder, StreamSame, Stream

(* The deque loses rows at its front, or all of them. *)
LEMMA DequeLoses ==
    ASSUME Typed, NEW n \in Nodes, InOrder(n),
           delivered'[n] = delivered[n], chunk'[n] = chunk[n],
           Slot(n)' = Slot(n), Reply(n)' = Reply(n),
           matched_cursor'[n] = matched_cursor[n],
           registrations'[n] <= 1 => registrations[n] <= 1,
           \/ matched'[n] = matched[n] \/ matched'[n] = <<>>
           \/ \E lost, left \in Seq(Nat) :
                 matched[n] = lost \o left /\ matched'[n] = left
    PROVE  InOrder(n)'
<1> SUFFICES ASSUME registrations'[n] <= 1
             PROVE  Ordered(Stream(n), matched_cursor[n])'
  BY DEF InOrder
<1>1. Ordered(Stream(n), matched_cursor[n])
  BY DEF InOrder
<1>2. Ordered(Five(delivered[n], chunk[n], Slot(n), Reply(n), matched'[n]),
              matched_cursor[n])
  BY <1>1, StretchTypes, RowsLost DEF Stream
<1> QED BY <1>2 DEF Stream

(* A step at another owner. *)
LEMMA OtherStream ==
    ASSUME Typed, NEW o \in Remote, NEW n \in Nodes, n # o, InOrder(n),
           \/ RegisterRequest(o) \/ CancelRequest(o)
           \/ PullSend(o) \/ PullReturn(o) \/ PullExpire(o) \/ PullChunk(o)
           \/ NodeUp(o) \/ PullLate(o),
           delivered'[n] = delivered[n], chunk'[n] = chunk[n],
           Slot(n)' = Slot(n)
    PROVE  InOrder(n)'
<1>1. /\ matched'[n] = matched[n] /\ matched_cursor'[n] = matched_cursor[n]
      /\ registrations'[n] = registrations[n]
  BY NodeAlone
<1>2. Reply(n)' = Reply(n)
  <2>1. CASE n \in Remote
    <3>1. pull'[n] = pull[n]
      BY <2>1, OtherCalls DEF RegisterRequest, CancelRequest, NodeUp, PullLate,
         LateFindDrain, LateFinish, callVars
    <3> QED BY <3>1 DEF Reply
  <2>2. CASE n = Self
    BY <2>2 DEF Reply
  <2> QED BY <2>1, <2>2 DEF Nodes, Remote
<1> QED BY <1>1, <1>2, StreamSameKeeps DEF StreamSame

(* Entering the query a first time leaves an empty stream empty. *)
LEMMA RegisterInOrder ==
    ASSUME Typed, FreshNodes, NEW o \in Nodes, RegisterRequest(o),
           NEW n \in Nodes, InOrder(n),
           UNCHANGED <<delivered, chunk, prefetch_buf>>
    PROVE  InOrder(n)'
<1>1. /\ Slot(n)' = Slot(n) /\ Reply(n)' = Reply(n)
  BY DEF RegisterRequest, callVars, Slot, Reply
<1>2. CASE registered[o] \/ n # o
  <2>1. /\ matched'[n] = matched[n] /\ matched_cursor'[n] = matched_cursor[n]
        /\ registrations'[n] = registrations[n]
    BY <1>2 DEF RegisterRequest, requestVars, Typed, TypeOK, OwnerTypeOK
  <2> QED BY <1>1, <2>1, StreamSameKeeps DEF StreamSame
<1>3. CASE ~registered[o] /\ n = o
  <2>1. /\ matched'[n] = <<>> /\ matched_cursor'[n] = 0
        /\ registrations'[n] = registrations[n] + 1
    BY <1>3 DEF RegisterRequest, Typed, TypeOK, OwnerTypeOK
  <2>2. CASE registrations[n] = 0
    <3>1. matched_cursor[n] = 0
      BY <2>2 DEF FreshNodes, Fresh
    <3> QED BY <1>1, <2>1, <2>2, <3>1, DequeLoses
  <2>3. CASE registrations[n] # 0
    BY <2>1, <2>3, StretchTypes DEF InOrder
  <2> QED BY <2>2, <2>3
<1> QED BY <1>2, <1>3

(* The producer. *)
LEMMA ProduceInOrder ==
    ASSUME Typed, NEW p \in Nodes, Produce(p), NEW n \in Nodes, InOrder(n)
    PROVE  InOrder(n)'
<1>1. /\ UNCHANGED <<delivered, chunk, prefetch_buf, pull, registrations>>
      /\ Slot(n)' = Slot(n) /\ Reply(n)' = Reply(n)
  BY DEF Produce, ProduceBegin, ProduceCheck, ProduceRow, ProduceStore,
         ProduceEmptyPart, callVars, clientVars, stateVars, fetchVars, Slot,
         Reply
<1>2. CASE ~ProduceRow(p) \/ n # p
  <2>1. matched'[n] = matched[n] /\ matched_cursor'[n] = matched_cursor[n]
    BY <1>2 DEF Produce, ProduceBegin, ProduceCheck, ProduceRow, ProduceStore,
       ProduceEmptyPart, requestVars, Typed, TypeOK, OwnerTypeOK
  <2> QED BY <1>1, <2>1, StreamSameKeeps DEF StreamSame
<1>3. CASE ProduceRow(p) /\ n = p
  <2>1. /\ matched'[n] = Append(matched[n], matched_cursor[n] + 1)
        /\ matched_cursor'[n] = matched_cursor[n] + 1
    BY <1>3 DEF ProduceRow, Pushed, Typed, TypeOK, OwnerTypeOK
  <2> SUFFICES ASSUME registrations[n] <= 1
               PROVE  Ordered(Stream(n), matched_cursor[n])'
    BY <1>1 DEF InOrder
  <2>2. Ordered(Five(delivered[n], chunk[n], Slot(n), Reply(n), matched[n]),
                matched_cursor[n])
    BY DEF InOrder, Stream
  <2>3. Ordered(Five(delivered[n], chunk[n], Slot(n), Reply(n),
                     Append(matched[n], matched_cursor[n] + 1)),
                matched_cursor[n] + 1)
    BY <2>2, StretchTypes, RowPushed
  <2> QED BY <1>1, <2>1, <2>3 DEF Stream
<1> QED BY <1>2, <1>3

(* The stream stays as it is, only the stretches it is cut into change. *)
LEMMA CutElsewhere ==
    ASSUME NEW n \in Nodes, InOrder(n), Stream(n)' = Stream(n),
           matched_cursor'[n] = matched_cursor[n],
           registrations'[n] = registrations[n]
    PROVE  InOrder(n)'
BY DEF InOrder

(* FetchChunk moves rows from the slots and the gateway's deque to the
   chunk. *)
LEMMA ServeMoves ==
    ASSUME Typed, Control, NEW m \in FetchSizes, FetchServe(m), NEW n \in Nodes
    PROVE  Stream(n)' = Stream(n) /\ (n # Self => Got(n)' = Got(n))
<1>1. PICK take \in RoundRobin(m) :
         /\ chunk' = [p \in Nodes |-> SubSeq(Source(p), 1, take[p])]
         /\ matched' = [matched EXCEPT ![Self] = Left(Self, take[Self])]
         /\ prefetch_buf' = [o \in Remote |-> Left(o, take[o])]
  BY DEF FetchServe
<1>2. delivered' = delivered /\ pull' = pull /\ Reply(n)' = Reply(n)
  BY DEF FetchServe, clientVars, callVars, Reply
<1>3. chunk[n] = <<>>
  BY DEF FetchServe, Control, LastPlace
<1> DEFINE front == SubSeq(Source(n), 1, take[n])
           rest  == Left(n, take[n])
<1>4. /\ front \in Seq(Nat) /\ rest \in Seq(Nat) /\ Source(n) \in Seq(Nat)
      /\ take[n] \in 0..Len(Source(n))
  BY Taken DEF Typed
<1>5. Source(n) = front \o rest
  BY <1>4, Split DEF Left
<1>6. chunk'[n] = front
  BY <1>1
<1>7. /\ delivered[n] \in Seq(Nat) /\ Reply(n) \in Seq(Nat)
      /\ matched[n] \in Seq(Nat)
  BY StretchTypes
<1>8. CASE n = Self
  <2>1. /\ Slot(n) = <<>> /\ Slot(n)' = <<>> /\ Reply(n) = <<>>
        /\ Source(n) = matched[n]
    BY <1>8 DEF Slot, Reply, Source
  <2>2. matched'[n] = rest
    BY <1>1, <1>8 DEF Typed, TypeOK, OwnerTypeOK
  <2> HIDE DEF front, rest
  <2>3. Five(delivered[n], <<>>, <<>>, <<>>, front \o rest)
           = Five(delivered[n], front, <<>>, <<>>, rest)
    BY <1>4, <1>7, RowsMove, EmptySeq, SMTT(20)
  <2> QED BY <1>2, <1>3, <1>5, <1>6, <1>8, <2>1, <2>2, <2>3 DEF Stream
<1>9. CASE n # Self
  <2>1. n \in Remote
    BY <1>9 DEF Nodes, Remote
  <2>2. /\ Slot(n) = Source(n) /\ Slot(n)' = rest
        /\ matched'[n] = matched[n]
    BY <1>1, <1>9, <2>1 DEF Slot, Source, Typed, TypeOK, OwnerTypeOK
  <2> HIDE DEF front, rest
  <2>3. ASSUME NEW e \in Seq(Nat)
        PROVE  Five(delivered[n], <<>>, front \o rest, Reply(n), e)
                  = Five(delivered[n], front, rest, Reply(n), e)
    BY <1>4, <1>7, RowsMove, SMTT(20)
  <2>4. Stream(n)' = Stream(n)
    BY <1>2, <1>3, <1>5, <1>6, <1>7, <2>2, <2>3 DEF Stream
  <2>5. Got(n)' = Got(n)
    BY <1>2, <1>3, <1>5, <1>6, <2>2, <2>3, EmptySeq DEF Got
  <2> QED BY <2>4, <2>5
<1> QED BY <1>8, <1>9

(* And so keeps their order. *)
LEMMA ServeInOrder ==
    ASSUME Typed, Control, NEW m \in FetchSizes, FetchServe(m),
           NEW n \in Nodes, InOrder(n)
    PROVE  InOrder(n)'
BY ServeMoves, CutElsewhere DEF FetchServe

(* The chunk reaches the client. *)
LEMMA DeliverMoves ==
    ASSUME Typed, FetchReply, client # "failed", NEW n \in Nodes
    PROVE  Stream(n)' = Stream(n) /\ Got(n)' = Got(n)
<1>1. /\ chunk'[n] = <<>> /\ Slot(n)' = Slot(n) /\ Reply(n)' = Reply(n)
      /\ matched' = matched /\ delivered'[n] = delivered[n] \o chunk[n]
  BY DEF FetchReply, ownerVars, requestVars, callVars, stateVars, Slot, Reply
<1>2. ASSUME NEW e \in Seq(Nat)
      PROVE  Five(delivered[n] \o chunk[n], <<>>, Slot(n), Reply(n), e)
                = Five(delivered[n], chunk[n], Slot(n), Reply(n), e)
  BY StretchTypes, RowsMove
<1>3. Stream(n)' = Stream(n)
  BY <1>1, <1>2, StretchTypes DEF Stream
<1>4. Got(n)' = Got(n)
  BY <1>1, <1>2, EmptySeq DEF Got
<1> QED BY <1>3, <1>4

(* Or is lost: the client has left. *)
LEMMA DeliverInOrder ==
    ASSUME Typed, FetchReply, NEW n \in Nodes, InOrder(n)
    PROVE  InOrder(n)'
<1>1. /\ chunk'[n] = <<>> /\ Slot(n)' = Slot(n) /\ Reply(n)' = Reply(n)
      /\ matched' = matched /\ matched_cursor' = matched_cursor
      /\ registrations' = registrations
      /\ client = "failed" => delivered' = delivered
  BY DEF FetchReply, ownerVars, requestVars, callVars, stateVars, Slot, Reply
<1>2. CASE client = "failed"
  <2> SUFFICES ASSUME registrations[n] <= 1
               PROVE  Ordered(Stream(n), matched_cursor[n])'
    BY <1>1 DEF InOrder
  <2>1. Ordered(Five(delivered[n], chunk[n], Slot(n), Reply(n), matched[n]),
                matched_cursor[n])
    BY DEF InOrder, Stream
  <2>2. Ordered(Five(delivered[n], <<>>, Slot(n), Reply(n), matched[n]),
                matched_cursor[n])
    BY <2>1, StretchTypes, RowsLost
  <2> QED BY <1>1, <1>2, <2>2 DEF Stream
<1>3. CASE client # "failed"
  BY <1>1, <1>3, DeliverMoves, CutElsewhere
<1> QED BY <1>2, <1>3

(* CancelQuery empties the gateway's deque and every slot. *)
LEMMA ClearInOrder ==
    ASSUME Typed, CancelClear, NEW n \in Nodes, InOrder(n)
    PROVE  InOrder(n)'
<1>1. /\ UNCHANGED <<delivered, chunk, matched_cursor, registrations, pull>>
      /\ Reply(n)' = Reply(n)
      /\ n = Self => matched'[n] = <<>> /\ Slot(n)' = Slot(n)
      /\ n # Self => matched'[n] = matched[n] /\ Slot(n)' = <<>>
  BY DEF CancelClear, clientVars, callVars, Reply, Slot, Typed, TypeOK,
         OwnerTypeOK, Nodes, Remote
<1>2. CASE n = Self
  BY <1>1, <1>2, DequeLoses
<1>3. CASE n # Self
  <2> SUFFICES ASSUME registrations[n] <= 1
               PROVE  Ordered(Stream(n), matched_cursor[n])'
    BY <1>1 DEF InOrder
  <2>1. Ordered(Five(delivered[n], chunk[n], Slot(n), Reply(n), matched[n]),
                matched_cursor[n])
    BY DEF InOrder, Stream
  <2>2. Ordered(Five(delivered[n], chunk[n], <<>>, Reply(n), matched[n]),
                matched_cursor[n])
    BY <2>1, StretchTypes, RowsLost
  <2> QED BY <1>1, <1>3, <2>2 DEF Stream
<1> QED BY <1>2, <1>3

(* A peer is told of the cancel. *)
LEMMA ToldInOrder ==
    ASSUME Typed, NEW o \in Remote, CancelRequest(o), NEW n \in Nodes,
           UNCHANGED <<delivered, chunk, prefetch_buf>>, InOrder(n)
    PROVE  InOrder(n)'
<1>1. /\ UNCHANGED <<matched_cursor, registrations, pull>>
      /\ matched'[n] \in {matched[n], <<>>}
      /\ Slot(n)' = Slot(n) /\ Reply(n)' = Reply(n)
  BY DEF CancelRequest, callVars, Typed, TypeOK, OwnerTypeOK, Slot, Reply
<1> QED BY <1>1, DequeLoses

(* The rows a PullChunk's answer holds are lost: the caller's deadline has
   expired, or a node on the way has crashed. *)
LEMMA AnswerLost ==
    ASSUME Typed, NEW n \in Nodes, InOrder(n),
           UNCHANGED <<delivered, chunk, prefetch_buf, matched, matched_cursor,
                       registrations>>,
           Reply(n)' \in {Reply(n), <<>>}
    PROVE  InOrder(n)'
<1>1. Slot(n)' = Slot(n)
  BY DEF Slot
<1>2. CASE Reply(n)' = Reply(n)
  BY <1>1, <1>2, StreamSameKeeps DEF StreamSame
<1>3. CASE Reply(n)' = <<>>
  <2> SUFFICES ASSUME registrations[n] <= 1
               PROVE  Ordered(Stream(n), matched_cursor[n])'
    BY DEF InOrder
  <2>1. Ordered(Five(delivered[n], chunk[n], Slot(n), Reply(n), matched[n]),
                matched_cursor[n])
    BY DEF InOrder, Stream
  <2>2. Ordered(Five(delivered[n], chunk[n], Slot(n), <<>>, matched[n]),
                matched_cursor[n])
    BY <2>1, StretchTypes, RowsLost
  <2> QED BY <1>1, <1>3, <2>2 DEF Stream
<1> QED BY <1>2, <1>3

(* The owner's handler moves rows from the deque to its answer. *)
LEMMA DrainMoves ==
    ASSUME Typed, Slots, NEW o \in Remote, PullFindDrain(o, PullMax[o]),
           UNCHANGED <<delivered, chunk, prefetch_buf>>
    PROVE  Stream(o)' = Stream(o)
<1>1. /\ pull[o].rows = <<>>
      /\ pull'[o].rows = SubSeq(matched[o], 1, Take(o, PullMax[o]))
      /\ matched'[o] = Rest(o, PullMax[o])
      /\ o \in Nodes /\ o # Self
  BY RemoteIsNode DEF PullFindDrain, Drained, Slots, Slotted, Typed, TypeOK,
     OwnerTypeOK, Remote
<1> DEFINE front == SubSeq(matched[o], 1, Take(o, PullMax[o]))
           rest  == Rest(o, PullMax[o])
<1>2. front \o rest = matched[o] /\ front \in Seq(Nat) /\ rest \in Seq(Nat)
  BY DequeSplit, DrainedDeque, GatewayAssumption DEF Typed
<1>3. Reply(o) = <<>> /\ Reply(o)' = front /\ Slot(o)' = Slot(o)
  BY <1>1 DEF Reply, Slot
<1>4. matched[o] = front \o rest /\ matched'[o] = rest
  BY <1>1, <1>2
<1> HIDE DEF front, rest
<1>5. Five(delivered[o], chunk[o], Slot(o), <<>>, front \o rest)
         = Five(delivered[o], chunk[o], Slot(o), front, rest)
  <2>1. /\ delivered[o] \in Seq(Nat) /\ chunk[o] \in Seq(Nat)
        /\ Slot(o) \in Seq(Nat)
    BY <1>1, StretchTypes
  <2>2. \A h, b, c \in Seq(Nat) :
           Five(h, b, c, <<>>, front \o rest) = Five(h, b, c, front, rest)
    <3>1. front \in Seq(Nat) /\ rest \in Seq(Nat)
      BY <1>2
    <3> QED BY <3>1, RowsMove
  <2> QED BY <2>1, <2>2
<1> QED BY <1>3, <1>4, <1>5 DEF Stream

(* Whatever the handler answers, the rows stay in order. *)
LEMMA HandlerInOrder ==
    ASSUME Typed, Slots, NEW o \in Remote, PullChunk(o),
           NEW n \in Nodes, InOrder(n)
    PROVE  InOrder(n)'
<1>1. UNCHANGED <<delivered, chunk, prefetch_buf>> /\ Slot(n)' = Slot(n)
  BY DEF PullChunk, clientVars, stateVars, fetchVars, Slot
<1>2. CASE n # o
  BY <1>1, <1>2, OtherStream
<1>3. CASE n = o /\ (PullFinish(o) \/ PullFail(o))
  <2>1. /\ UNCHANGED <<matched, matched_cursor, registrations>>
        /\ pull'[o].rows = pull[o].rows
    BY <1>3 DEF PullFinish, PullFail, Failed, requestVars, Slots, Slotted,
       Typed, TypeOK, OwnerTypeOK
  <2> QED BY <1>1, <1>3, <2>1, AnswerLost DEF Reply
<1>4. CASE n = o /\ PullFindDrain(o, PullMax[o])
  BY <1>1, <1>4, DrainMoves, CutElsewhere DEF PullFindDrain, Drained
<1> QED BY <1>2, <1>3, <1>4 DEF PullChunk

(* The handler of a call that has expired drains the deque into nothing. *)
LEMMA LateInOrder ==
    ASSUME Typed, NEW o \in Remote, PullLate(o), NEW n \in Nodes, InOrder(n)
    PROVE  InOrder(n)'
<1>1. /\ UNCHANGED <<delivered, chunk, prefetch_buf, pull, matched_cursor,
                     registrations>>
      /\ Slot(n)' = Slot(n) /\ Reply(n)' = Reply(n)
  BY DEF PullLate, Unaffected, LateFindDrain, LateFinish, clientVars, stateVars,
         fetchVars, Slot, Reply
<1>2. CASE matched'[n] = matched[n]
  BY <1>1, <1>2, DequeLoses
<1>3. CASE matched'[n] # matched[n]
  <2>1. n = o /\ matched'[o] = Rest(o, PullMax[o])
    BY <1>3 DEF PullLate, LateFindDrain, LateFinish, Typed, TypeOK, OwnerTypeOK
  <2>2. /\ SubSeq(matched[o], 1, Take(o, PullMax[o])) \o Rest(o, PullMax[o])
              = matched[o]
        /\ SubSeq(matched[o], 1, Take(o, PullMax[o])) \in Seq(Nat)
        /\ Rest(o, PullMax[o]) \in Seq(Nat)
    BY DequeSplit, DrainedDeque, GatewayAssumption DEF Typed
  <2> QED BY <1>1, <2>1, <2>2, DequeLoses
<1> QED BY <1>2, <1>3

(* The prefetcher moves the rows of an answer to its slot. *)
LEMMA ReturnElsewhere ==
    ASSUME Typed, NEW o \in Remote, PrefetcherReply(o) \/ PrefetcherError(o),
           NEW n \in Nodes
    PROVE  /\ UNCHANGED <<delivered, chunk, matched, matched_cursor,
                          registrations>>
           /\ n # o => Slot(n)' = Slot(n) /\ Reply(n)' = Reply(n)
<1>1. PullReturn(o) /\ UNCHANGED <<delivered, chunk>>
  BY DEF PrefetcherReply, PrefetcherError, clientVars
<1>2. ASSUME n # o, n \in Remote
      PROVE  prefetch_buf'[n] = prefetch_buf[n] /\ pull'[n] = pull[n]
  BY <1>1, <1>2, OtherCalls DEF PrefetcherReply, PrefetcherError, Typed, TypeOK
<1> QED BY <1>1, <1>2 DEF PullReturn, requestVars, Slot, Reply, Nodes, Remote

(* None is lost if it has answered. *)
LEMMA ReplyMoves ==
    ASSUME Typed, NEW o \in Remote, PrefetcherReply(o), NEW n \in Nodes
    PROVE  Stream(n)' = Stream(n) /\ Got(n)' = Got(n)
<1>1. /\ UNCHANGED <<delivered, chunk, matched>>
      /\ n # o => Slot(n)' = Slot(n) /\ Reply(n)' = Reply(n)
  BY ReturnElsewhere
<1>2. CASE n # o
  BY <1>1, <1>2 DEF Stream, Got
<1>3. CASE n = o
  <2>1. /\ Reply(n)' = <<>> /\ Slot(n)' = Slot(n) \o Reply(n)
    BY <1>3 DEF PrefetcherReply, PullReturn, NoCall, Reply, Slot, Remote,
       Typed, TypeOK, OwnerTypeOK
  <2>2. ASSUME NEW e \in Seq(Nat)
        PROVE  Five(delivered[n], chunk[n], Slot(n) \o Reply(n), <<>>, e)
                  = Five(delivered[n], chunk[n], Slot(n), Reply(n), e)
    BY StretchTypes, RowsMove
  <2> QED BY <1>1, <2>1, <2>2, StretchTypes, EmptySeq DEF Stream, Got
<1> QED BY <1>2, <1>3

(* An error loses those that it held; the others stay in order. *)
LEMMA ReplyInOrder ==
    ASSUME Typed, Slots, NEW o \in Remote,
           PrefetcherReply(o) \/ PrefetcherError(o), NEW n \in Nodes,
           InOrder(n)
    PROVE  InOrder(n)'
<1>1. UNCHANGED <<delivered, chunk, matched, matched_cursor, registrations>>
  BY ReturnElsewhere
<1>2. CASE PrefetcherReply(o)
  BY <1>1, <1>2, ReplyMoves, CutElsewhere
<1>3. CASE PrefetcherError(o)
  <2>1. prefetch_buf' = prefetch_buf
    BY <1>3 DEF PrefetcherError
  <2>2. Reply(n)' \in {Reply(n), <<>>}
    <3>1. n = o => Reply(n)' = <<>>
      BY <1>3 DEF PrefetcherError, PullReturn, NoCall, Reply, Typed, TypeOK,
         OwnerTypeOK
    <3> QED BY <3>1, ReturnElsewhere
  <2> QED BY <1>1, <2>1, <2>2, AnswerLost
<1> QED BY <1>2, <1>3

(* Every step keeps the rows of every node in order. *)
LEMMA OrderKeeps ==
    ASSUME Typed, Control, Slots, FreshNodes, AllInOrder, [Next]_vars
    PROVE  AllInOrder'
<1> SUFFICES ASSUME NEW n \in Nodes PROVE InOrder(n)'
  BY DEF AllInOrder
<1>0. /\ Typed /\ Control /\ Slots /\ FreshNodes /\ InOrder(n)
      /\ Self \in Nodes /\ Remote \subseteq Nodes
  BY RemoteIsNode DEF AllInOrder, Nodes
<1>1. CASE SubmitQuery
  BY <1>0, <1>1, RegisterInOrder DEF SubmitQuery, fetchVars
<1>2. ASSUME UNCHANGED <<matched, matched_cursor, registrations, pull,
                         delivered, chunk, prefetch_buf>>
      PROVE  InOrder(n)'
  BY <1>0, <1>2, StreamSameKeeps DEF StreamSame, Slot, Reply
<1>3. ASSUME NEW o \in Remote, ForwardAttempt(o) \/ ForwardLate(o)
      PROVE  InOrder(n)'
  <2>1. UNCHANGED <<delivered, chunk, prefetch_buf>>
    BY <1>3 DEF ForwardAttempt, ForwardLate, Unaffected, clientVars, fetchVars,
                stateVars
  <2>2. RegisterRequest(o) \/ UNCHANGED ownerVars
    BY <1>3 DEF ForwardAttempt, ForwardAccepted, ForwardUnavailable,
                ForwardRelayFailed, ForwardDeadline, ForwardLate
  <2> QED BY <1>0, <1>2, <2>1, <2>2, RegisterInOrder
          DEF ownerVars, requestVars, callVars
<1>4. ASSUME UNCHANGED <<ownerVars, clientVars, stateVars, fetchVars>>
      PROVE  InOrder(n)'
  BY <1>2, <1>4 DEF ownerVars, requestVars, callVars, clientVars, stateVars,
                    fetchVars
<1>5. CASE \/ FetchBegin \/ FetchArm \/ FetchBlock \/ FetchJoin
           \/ CancelJoin \/ CancelReply \/ ClientLeave \/ SpawnPrefetchers
           \/ Finish \/ UNCHANGED vars
  BY <1>2, <1>5 DEF FetchBegin, FetchArm, FetchBlock, FetchJoin, CancelJoin,
     CancelReply, ClientLeave, SpawnPrefetchers, Finish, vars, ownerVars,
     requestVars, callVars, clientVars, stateVars, fetchVars
<1>6. CASE FetchDrop \/ CancelDrop \/ CancelBegin \/ ProduceNotify
  BY <1>2, <1>6 DEF FetchDrop, CancelDrop, DropRequest, CancelBegin,
     ProduceNotify, requestVars, callVars, clientVars, stateVars, fetchVars
<1>7. ASSUME NEW o \in Remote, CancelFan(o) PROVE InOrder(n)'
  <2>1. Hop[o] \in Remote
    BY GatewayAssumption
  <2>2. CASE CancelRequest(Hop[o])
    BY <1>0, <1>7, <2>1, <2>2, ToldInOrder DEF CancelFan, clientVars,
       stateVars, fetchVars
  <2> QED BY <1>4, <1>7, <2>2 DEF CancelFan
<1>8. ASSUME NEW o \in Remote, PrefetcherCheck(o) \/ PrefetcherDeadline(o)
      PROVE  InOrder(n)'
  <2>1. UNCHANGED <<delivered, chunk, prefetch_buf>> /\ Slot(n)' = Slot(n)
    BY <1>8 DEF PrefetcherCheck, PrefetcherDeadline, clientVars, fetchVars,
                stateVars, Slot
  <2>2. CASE PullSend(o) \/ PullExpire(o)
    <3>1. UNCHANGED <<matched, matched_cursor, registrations>>
      BY <2>2 DEF PullSend, PullExpire, requestVars
    <3>2. PICK call \in {Sent, NoCall} : pull' = [pull EXCEPT ![o] = call]
      BY <2>2 DEF PullSend, PullExpire
    <3>3. Reply(n)' \in {Reply(n), <<>>}
      <4>1. \A p \in Remote : pull'[p].rows \in {pull[p].rows, <<>>}
        <5>1. call.rows = <<>>
          BY DEF Sent, NoCall
        <5> QED BY <1>0, <3>2, <5>1 DEF Typed, TypeOK, OwnerTypeOK
      <4> QED BY <4>1 DEF Reply, Nodes, Remote
    <3> QED BY <1>0, <2>1, <3>1, <3>3, AnswerLost
  <2>3. CASE UNCHANGED ownerVars
    BY <1>2, <2>1, <2>3 DEF ownerVars, requestVars, callVars
  <2> QED BY <1>8, <2>2, <2>3 DEF PrefetcherCheck, PrefetcherDeadline,
             PrefetcherStop, PrefetcherWait, PrefetcherPull
<1>9. ASSUME NEW o \in Remote, NodeUp(o) PROVE InOrder(n)'
  BY <1>2, <1>9 DEF NodeUp, Unaffected, requestVars, callVars, clientVars,
     stateVars, fetchVars
<1>10. ASSUME NEW o \in Remote, NodeCrash(o) PROVE InOrder(n)'
  <2>1. UNCHANGED <<matched, matched_cursor, registrations, delivered, chunk,
                    prefetch_buf>>
    BY <1>10 DEF NodeCrash, Unaffected, clientVars, stateVars, fetchVars
  <2>2. \A p \in Remote : pull'[p] \in {pull[p], Failed}
    BY <1>10 DEF NodeCrash
  <2>3. Reply(n)' \in {Reply(n), <<>>}
    BY <2>2 DEF Reply, Failed, Nodes, Remote
  <2> QED BY <1>0, <2>1, <2>3, AnswerLost
<1>11. ASSUME NEW p \in Nodes, Produce(p) PROVE InOrder(n)'
  BY <1>0, <1>11, ProduceInOrder
<1>12. CASE FetchReply
  BY <1>0, <1>12, DeliverInOrder
<1>13. CASE CancelClear
  BY <1>0, <1>13, ClearInOrder
<1>14. ASSUME NEW m \in FetchSizes, FetchServe(m) PROVE InOrder(n)'
  BY <1>0, <1>14, ServeInOrder
<1>15. ASSUME NEW o \in Remote, PrefetcherReply(o) \/ PrefetcherError(o)
       PROVE  InOrder(n)'
  BY <1>0, <1>15, ReplyInOrder
<1>16. ASSUME NEW o \in Remote, PullChunk(o) PROVE InOrder(n)'
  BY <1>0, <1>16, HandlerInOrder
<1>17. ASSUME NEW o \in Remote, PullLate(o) PROVE InOrder(n)'
  BY <1>0, <1>17, LateInOrder
<1> QED BY <1>1, <1>3, <1>5, <1>6, <1>7, <1>8, <1>9, <1>10, <1>11, <1>12,
           <1>13, <1>14, <1>15, <1>16, <1>17
        DEF Next, FetchStep, CancelStep, Prefetch, FaultStep

(* They are in order in every reachable state. *)
LEMMA OrderInvariant == Spec => []AllInOrder
<1>1. Init => AllInOrder
  <2> SUFFICES ASSUME Init, NEW n \in Nodes
               PROVE  Ordered(Stream(n), matched_cursor[n])
    BY DEF AllInOrder, InOrder
  <2>1. /\ delivered[n] = <<>> /\ chunk[n] = <<>> /\ matched[n] = <<>>
        /\ Slot(n) = <<>> /\ Reply(n) = <<>> /\ matched_cursor[n] = 0
    BY DEF Init, OwnerInit, Slot, Reply, NoCall, Nodes, Remote
  <2>2. Five(<<>>, <<>>, <<>>, <<>>, <<>>) = <<>>
    BY ConcatEmptySeq, EmptySeq DEF Five
  <2> QED BY <2>1, <2>2, OrderedNone DEF Stream
<1>2. GatewayInv /\ FreshNodes /\ AllInOrder /\ [Next]_vars => AllInOrder'
  BY OrderKeeps DEF GatewayInv
<1> QED BY <1>1, <1>2, GatewayInvariant, FreshInvariant, PTL DEF Spec

(* node.cpp:570, 805: for any number of deadlines, late handlers, crashes
   and cancels, the client gets the rows of a node that has entered the
   query once in the order the node has them, and none of them twice. *)
THEOREM ClientRowsInOrder == Spec => []NoRowTwice
<1>1. Typed /\ AllInOrder => NoRowTwice
  <2> SUFFICES ASSUME Typed, AllInOrder, NEW o \in Owners,
                      registrations[o] <= 1
               PROVE  \A i, j \in 1..Len(delivered[o]) :
                          i < j => delivered[o][i] < delivered[o][j]
    BY DEF NoRowTwice
  <2>0. o \in Nodes
    BY DEF Nodes
  <2>1. Ordered(Stream(o), matched_cursor[o])
    BY <2>0 DEF AllInOrder, InOrder
  <2>2. /\ delivered[o] \in Seq(Nat) /\ matched_cursor[o] \in Nat
        /\ chunk[o] \o (Slot(o) \o (Reply(o) \o matched[o])) \in Seq(Nat)
    <3>1. /\ delivered[o] \in Seq(Nat) /\ chunk[o] \in Seq(Nat)
          /\ Slot(o) \in Seq(Nat) /\ Reply(o) \in Seq(Nat)
          /\ matched[o] \in Seq(Nat) /\ matched_cursor[o] \in Nat
      BY <2>0, StretchTypes
    <3> QED BY <3>1, FiveTypes
  <2>3. Ordered(delivered[o], matched_cursor[o])
    BY <2>1, <2>2, OrderedFront DEF Stream, Five
  <2> QED BY <2>3 DEF Ordered
<1> QED BY <1>1, TypesInvariant, OrderInvariant, PTL

-----------------------------------------------------------------------------
(* Chunks that carry rows *)

(* A function that is 0 everywhere on a finite set adds up to 0. *)
LEMMA SumOfNothing ==
    ASSUME NEW S, IsFiniteSet(S)
    PROVE  Sum([x \in S |-> 0]) = 0
<1> DEFINE z == [x \in S |-> 0]
           pick(s) == CHOOSE x \in s : TRUE
           Eq(f) == f = [s \in SUBSET S |-> IF s = {} THEN 0
                                  ELSE z[pick(s)] + f[s \ {pick(s)}]]
           iter == CHOOSE f : Eq(f)
<1>1. Sum(z) = iter[S]
  BY DEF Sum, FoldFunction, FoldFunctionOnSet, MapThenFoldSet
<1>2. Eq([s \in SUBSET S |-> 0])
  OBVIOUS
<1>3. Eq(iter)
  BY <1>2, Zenon
<1> HIDE DEF iter
<1>4. \A s \in SUBSET S : iter[s] = IF s = {} THEN 0
                                     ELSE z[pick(s)] + iter[s \ {pick(s)}]
  BY <1>3
<1> DEFINE Bad == {s \in SUBSET S : iter[s] # 0}
<1>5. ASSUME Bad # {} PROVE FALSE
  <2>1. Bad \subseteq FiniteSubsetsOf(S)
    BY FS_Subset DEF FiniteSubsetsOf
  <2>2. PICK s \in Bad : \A t \in Bad : <<t, s>> \notin StrictSubsetOrdering(S)
    BY <1>5, <2>1, WFMin, FS_StrictSubsetOrderingWellFounded, Zenon
  <2>3. CASE s = {}
    BY <1>4, <2>2, <2>3
  <2>4. CASE s # {}
    <3>1. pick(s) \in s
      BY <2>4
    <3>2. s \ {pick(s)} \in SUBSET S /\ s \ {pick(s)} # s
      BY <3>1
    <3>3. <<s \ {pick(s)}, s>> \in StrictSubsetOrdering(S)
      BY <3>2 DEF StrictSubsetOrdering
    <3>4. iter[s \ {pick(s)}] = 0
      BY <2>2, <3>2, <3>3
    <3>5. s \in SUBSET S /\ iter[s] # 0
      BY <2>2
    <3>6. z[pick(s)] = 0
      BY <3>1, <3>5
    <3> HIDE DEF pick, z
    <3>7. iter[s] = z[pick(s)] + iter[s \ {pick(s)}]
      BY <1>4, <2>4, <3>5
    <3> QED BY <3>4, <3>5, <3>6, <3>7
  <2> QED BY <2>3, <2>4
<1> QED BY <1>1, <1>5

(* A FetchChunk that goes on because a row waits takes a row. *)
LEMMA DrainTakes ==
    ASSUME Typed, NEW m \in FetchSizes, NEW take \in RoundRobin(m), HaveData
    PROVE  \E n \in Nodes : take[n] > 0
<1> SUFFICES ASSUME \A n \in Nodes : ~(take[n] > 0) PROVE FALSE
  OBVIOUS
<1>1. /\ take \in [Nodes -> 0..m] /\ m \in Nat \ {0}
      /\ Sum(take) = m \/ \A n \in Nodes : take[n] = Len(Source(n))
  BY GatewayAssumption DEF RoundRobin
<1>2. take = [n \in Nodes |-> 0]
  BY <1>1
<1>3. IsFiniteSet(Nodes)
  BY GatewayAssumption, FS_AddElement DEF Nodes
<1>4. Sum(take) = 0
  BY <1>2, <1>3, SumOfNothing
<1>5. PICK n \in Nodes : Source(n) # <<>>
  BY DEF HaveData
<1>6. Len(Source(n)) = 0 /\ Source(n) \in Seq(Nat)
  BY <1>1, <1>2, <1>4, Taken DEF Typed
<1> QED BY <1>5, <1>6, EmptySeq

(* A FetchChunk that goes on because nothing is left sends the last chunk. *)
LEMMA DrainedIsLast ==
    ASSUME Typed, NEW m \in FetchSizes, NEW take \in RoundRobin(m),
           AllDrained, ~HaveData, NEW o \in Owners
    PROVE  Promoted(o, take[o])
<1>1. o \in Nodes
  BY DEF Nodes
<1>2. Source(o) = <<>> /\ take[o] \in 0..Len(Source(o))
  BY <1>1, Taken DEF HaveData, Typed
<1>3. take[o] = Len(Source(o))
  BY <1>2, EmptySeq
<1>4. client_producers_done[o] \/ Ended(o)
  BY DEF AllDrained, Ended, Remote
<1> QED BY <1>3, <1>4 DEF Promoted

(* So a chunk that is not the last one carries a row. *)
LEMMA ServeHasRows ==
    ASSUME Typed, NEW m \in FetchSizes, FetchServe(m), ~cancelled[Self],
           ~isLast'
    PROVE  \E n \in Nodes : chunk'[n] # <<>>
<1>1. PICK take \in RoundRobin(m) :
         /\ chunk' = [n \in Nodes |-> SubSeq(Source(n), 1, take[n])]
         /\ client_producers_done' = [o \in Owners |-> Promoted(o, take[o])]
  BY DEF FetchServe
<1>2. HaveData
  <2>1. ASSUME AllDrained, ~HaveData PROVE FALSE
    <3>1. \A o \in Owners : client_producers_done'[o]
      BY <1>1, <2>1, DrainedIsLast
    <3> QED BY <3>1 DEF FetchServe
  <2> QED BY <2>1 DEF FetchServe, FetchReady
<1>3. PICK n \in Nodes : take[n] > 0
  BY <1>2, DrainTakes
<1>4. /\ Source(n) \in Seq(Nat) /\ take[n] \in 0..Len(Source(n))
      /\ chunk'[n] = SubSeq(Source(n), 1, take[n])
  BY <1>1, Taken DEF Typed
<1>5. Len(chunk'[n]) = take[n]
  BY <1>4, Split
<1> QED BY <1>3, <1>5, EmptySeq

(* It does until it is sent. *)
LEMMA RowsKeep ==
    ASSUME Typed, Control, ChunkHasRows, [Next]_vars
    PROVE  ChunkHasRows'
<1> SUFFICES ASSUME fetch' = "reply", ~isLast', ~cancelled'[Self]
             PROVE  \E n \in Nodes : chunk'[n] # <<>>
  BY DEF ChunkHasRows
<1>0. /\ Typed /\ Self \in Nodes /\ fetch \in {"idle", "eval", "armed",
                                    "blocked", "drop", "join", "reply"}
  BY DEF Typed, TypeOK, Nodes
<1>1. CASE UNCHANGED <<fetchVars, cancelled>>
  BY <1>1 DEF ChunkHasRows, fetchVars
<1>2. CASE fetchVars' = fetchVars /\ cancelled'[Self] = cancelled[Self]
  BY <1>2 DEF ChunkHasRows, fetchVars
<1>3. CASE SubmitQuery
  <2>1. fetch = "idle" /\ fetch' = fetch
    BY <1>3 DEF SubmitQuery, Control, ClientPlace, fetchVars
  <2> QED BY <2>1
<1>4. ASSUME NEW m \in FetchSizes, FetchServe(m)
      PROVE  \E n \in Nodes : chunk'[n] # <<>>
  <2>1. cancelled' = cancelled
    BY <1>4 DEF FetchServe
  <2> QED BY <1>0, <1>4, <2>1, ServeHasRows
<1>5. CASE FetchDrop \/ FetchJoin
  <2>1. fetch \in {"drop", "join"} /\ isLast' = isLast
    BY <1>5 DEF FetchDrop, FetchJoin
  <2> QED BY <2>1 DEF Control, LastPlace
<1>6. CASE FetchBegin \/ FetchArm \/ FetchBlock \/ FetchReply
  <2>1. fetch' # "reply" \/ fetch = "idle"
    BY <1>6 DEF FetchBegin, FetchArm, FetchBlock, FetchReply
  <2>2. fetch' # "reply"
    BY <1>6, <2>1 DEF FetchBegin, FetchArm, FetchBlock, FetchReply
  <2> QED BY <2>2
(* A notify moves no FetchChunk that is about to answer. *)
<1>7. ASSUME fetch' = WokenFetch, UNCHANGED <<chunk, isLast, cancelled>>
      PROVE  \E n \in Nodes : chunk'[n] # <<>>
  <2>1. fetch = "reply"
    BY <1>0, <1>7 DEF WokenFetch
  <2> QED BY <1>7, <2>1 DEF ChunkHasRows
<1>8. CASE CancelClear \/ CancelDrop \/ ProduceNotify
  BY <1>7, <1>8, <1>0 DEF CancelClear, CancelDrop, DropRequest, ProduceNotify,
     NotifyAll, requestVars, ChunkHasRows
<1>9. CASE CancelBegin
  <2>1. /\ fetchVars' = fetchVars
        /\ cancelled'[Self] = cancelled[Self] \/ cancelled'[Self]
    BY <1>0, <1>9 DEF CancelBegin, Typed, TypeOK, OwnerTypeOK
  <2> QED BY <1>2, <2>1
<1>10. CASE CancelJoin \/ CancelReply \/ ClientLeave \/ SpawnPrefetchers
           \/ Finish \/ UNCHANGED vars
  BY <1>1, <1>10 DEF CancelJoin, CancelReply, ClientLeave, SpawnPrefetchers,
     Finish, vars, ownerVars, requestVars
<1>11. ASSUME NEW n \in Nodes, Produce(n)
       PROVE  \E p \in Nodes : chunk'[p] # <<>>
  <2>1. cancelled' = cancelled
    BY <1>0, <1>11, ProduceAlone
  <2> QED BY <1>1, <1>11, <2>1 DEF Produce
<1>12. ASSUME NEW o \in Remote, ForwardAttempt(o) \/ ForwardLate(o)
       PROVE  \E n \in Nodes : chunk'[n] # <<>>
  <2>1. RegisterRequest(o) \/ UNCHANGED ownerVars
    BY <1>12 DEF ForwardAttempt, ForwardAccepted, ForwardUnavailable,
                ForwardRelayFailed, ForwardDeadline, ForwardLate
  <2>2. cancelled'[Self] = cancelled[Self]
    BY <1>0, <2>1, SelfAlone DEF ownerVars, requestVars
  <2> QED BY <1>2, <1>12, <2>2 DEF ForwardAttempt, ForwardLate, Unaffected
<1>13. ASSUME NEW o \in Remote, CancelFan(o)
       PROVE  \E n \in Nodes : chunk'[n] # <<>>
  <2>1. Hop[o] \in Remote
    BY GatewayAssumption
  <2>2. cancelled'[Self] = cancelled[Self]
    BY <1>0, <1>13, <2>1, SelfAlone DEF CancelFan, ownerVars, requestVars
  <2> QED BY <1>2, <1>13, <2>2 DEF CancelFan
<1>14. ASSUME NEW o \in Remote, Prefetch(o)
       PROVE  \E n \in Nodes : chunk'[n] # <<>>
  <2>1. cancelled' = cancelled
    BY <1>14 DEF Prefetch, PrefetcherCheck, PrefetcherStop, PrefetcherWait,
       PrefetcherPull, PrefetcherReply, PrefetcherError, PullSend, PullReturn,
       ownerVars, requestVars
  <2>2. CASE PrefetcherCheck(o)
    BY <1>1, <2>1, <2>2 DEF PrefetcherCheck
  <2>3. CASE PrefetcherReply(o) \/ PrefetcherError(o)
    BY <1>7, <2>1, <2>3 DEF PrefetcherReply, PrefetcherError
  <2> QED BY <1>14, <2>2, <2>3 DEF Prefetch
<1>15. ASSUME NEW o \in Remote,
              \/ PrefetcherDeadline(o) \/ PullChunk(o) \/ NodeUp(o)
              \/ PullLate(o) \/ NodeCrash(o)
       PROVE  \E n \in Nodes : chunk'[n] # <<>>
  <2>1. cancelled'[Self] = cancelled[Self]
    BY <1>0, <1>15, SelfAlone DEF PrefetcherDeadline
  <2> QED BY <1>2, <1>15, <2>1 DEF PrefetcherDeadline, PullChunk, NodeUp,
             PullLate, NodeCrash, Unaffected
<1> QED BY <1>3, <1>4, <1>5, <1>6, <1>8, <1>9, <1>10, <1>11, <1>12, <1>13,
           <1>14, <1>15 DEF Next, FetchStep, CancelStep, FaultStep

(* node.cpp:355: unless the query is cancelled, every chunk but the last
   one carries a row, whatever sizes the client and the owners ask for: the
   client never spins on empty chunks. *)
THEOREM ChunksCarryRows == Spec => []ChunkHasRows
<1>1. Init => ChunkHasRows
  BY DEF Init, ChunkHasRows
<1>2. GatewayInv /\ ChunkHasRows /\ [Next]_vars => ChunkHasRows'
  BY RowsKeep DEF GatewayInv
<1> QED BY <1>1, <1>2, GatewayInvariant, PTL DEF Spec

-----------------------------------------------------------------------------
(* What a query that ends leaves behind *)

(* The gateway takes owner o for done, or is about to. *)
Over(o) ==
    \/ submit # "idle" /\ client_producers_done[o]
    \/ prefetch_done_map[o]
    \/ pull[o].last \/ pull[o].stage = "error"

(* Where a cancel is while it tells the neighbours, and after. *)
ToldBy == {"fan", "join", "ack"}

(* Owner o when no deadline has expired and no node has crashed: it gets the
   query once, from the fan-out, and drops it with its last answer or when it
   is told. *)
Undisturbed(o) ==
    /\ lateForward[o] = 0 /\ lateSent[o] = 0 /\ lateEmpty[o] = 0
    /\ registered[o] => /\ up[o] /\ up[Hop[o]]
                        /\ submit # "idle" /\ o \notin toForward
    /\ o \in toForward => ~client_producers_done[o]
    /\ o \in HasPart /\ Over(o) => ~registered[o]
    /\ cancel \in {"join", "ack"} => o \notin toCancel
    /\ cancel \in ToldBy /\ o \notin toCancel /\ Hop[o] = o => ~registered[o]
    /\ client = "cancelled" /\ o \in HasPart /\ Hop[o] = o => ~registered[o]

(* As long as no fault happens, no owner is disturbed. *)
FaultlessInv == Faultless => \A o \in Remote : Undisturbed(o)

(* A step after which owner o is no worse off: it has not got the query, nor
   has the gateway taken it for done while it holds the query. *)
Harmless(o) ==
    /\ UNCHANGED <<lateForward, lateSent, lateEmpty>>
    /\ up[o] => up'[o]
    /\ up[Hop[o]] => up'[Hop[o]]
    /\ submit # "idle" => submit' # "idle"
    /\ toForward' \subseteq toForward
    /\ registered'[o] => registered[o]
    /\ o \in toForward' /\ client_producers_done'[o]
          => client_producers_done[o]
    /\ o \in HasPart /\ registered'[o] /\ Over(o)' => Over(o)
    /\ cancel' \in {"join", "ack"} /\ o \in toCancel' =>
          cancel \in {"join", "ack"} /\ o \in toCancel
    /\ cancel' \in ToldBy /\ o \notin toCancel' =>
          cancel \in ToldBy /\ o \notin toCancel
    /\ client' = "cancelled" => client = "cancelled"

(* An owner that is no worse off is still undisturbed. *)
LEMMA HarmlessKeeps ==
    ASSUME NEW o \in Remote, Undisturbed(o), Harmless(o)
    PROVE  Undisturbed(o)'
BY DEF Undisturbed, Harmless

(* Faults are counted up, never down. *)
LEMMA FaultsCount ==
    ASSUME [Next]_vars
    PROVE  /\ timeouts' = timeouts \/ timeouts' = timeouts + 1
           /\ crashes' = crashes \/ crashes' = crashes + 1
           /\ lates' = lates \/ lates' = lates + 1
BY DEF Next, vars, SubmitQuery, ForwardAttempt, ForwardAccepted,
     ForwardUnavailable, ForwardRelayFailed, ForwardDeadline,
     SpawnPrefetchers, FetchBegin, FetchStep, FetchServe, FetchArm,
     FetchBlock, FetchDrop, FetchJoin, FetchReply, CancelBegin, CancelStep,
     CancelClear, CancelFan, CancelDrop, CancelJoin, CancelReply,
     ClientLeave, Produce, ProduceNotify, Prefetch, PrefetcherCheck,
     PrefetcherReply, PrefetcherError, PullChunk, NodeUp, FaultStep,
     PrefetcherDeadline, ForwardLate, PullLate, NodeCrash, Finish, faultVars

(* A fault is not forgotten. *)
LEMMA FaultsStay ==
    ASSUME TypeOK, [Next]_vars, Faultless'
    PROVE  Faultless
<1>1. timeouts \in Nat /\ crashes \in Nat /\ lates \in Nat
  BY DEF TypeOK
<1> QED BY <1>1, FaultsCount DEF Faultless

(* What the fan-out does to an owner. *)
LEMMA ForwardUndisturbed ==
    ASSUME Typed, Control, Slots, NEW o \in Remote, ForwardAttempt(o),
           NEW p \in Remote, Undisturbed(p), Faultless, Faultless'
    PROVE  Undisturbed(p)'
<1>0. /\ o \in toForward /\ submit = "forward" /\ submit' = "forward"
      /\ cancel = "idle" /\ client # "cancelled"
      /\ UNCHANGED <<client, cancel, toCancel, prefetch_done_map>>
      /\ prefetcher[p] = "none" /\ Slotted(p) /\ p \in Owners
      /\ client_producers_done \in [Owners -> BOOLEAN]
      /\ registered \in [Nodes -> BOOLEAN] /\ o \in Nodes /\ p \in Nodes
  <2>1. /\ o \in toForward /\ submit = "forward" /\ submit' = "forward"
        /\ UNCHANGED <<client, cancel, toCancel, prefetch_done_map>>
    BY DEF ForwardAttempt, IsNext, clientVars, cancelVars
  <2> QED BY <2>1, RemoteIsNode
          DEF Control, ClientPlace, SubmitPlace, Slots, Typed, TypeOK,
              OwnerTypeOK, Remote
<1>1. pull[p].stage = "none" /\ ~pull[p].last /\ ~prefetch_done_map[p]
  BY <1>0 DEF Slotted, NoCall
<1>2. CASE ForwardAccepted(o)
  <2>1. /\ UNCHANGED <<pull, lateSent, lateEmpty, up, lateForward,
                       client_producers_done>>
        /\ toForward' = toForward \ {o}
    BY <1>2 DEF ForwardAccepted, ForwardedTo, RegisterRequest, callVars,
                faultVars
  <2>2. registered'[p] => registered[p] \/ p = o
    BY <1>0, <1>2 DEF ForwardAccepted, RegisterRequest, requestVars
  <2>3. up[Hop[o]] /\ up[o]
    BY <1>2 DEF ForwardAccepted
  <2>4. ~Over(p)' \/ p # o
    BY <1>0, <1>1, <2>1 DEF Over, Undisturbed
  <2>5. CASE p # o
    BY <1>0, <2>1, <2>2, <2>5, HarmlessKeeps DEF Harmless, Over
  <2>6. CASE p = o
    BY <1>0, <2>1, <2>3, <2>4, <2>6 DEF Undisturbed, ToldBy
  <2> QED BY <2>5, <2>6
<1>3. CASE ForwardUnavailable(o) \/ ForwardRelayFailed(o)
  <2>1. /\ UNCHANGED <<registered, pull, lateSent, lateEmpty, up, lateForward>>
        /\ toForward' \in {toForward, toForward \ {o}}
        /\ p # o => client_producers_done'[p] = client_producers_done[p]
        /\ o \in toForward' => client_producers_done' = client_producers_done
    BY <1>0, <1>3 DEF ForwardUnavailable, ForwardRelayFailed, ForwardAgain,
       ForwardedTo, ownerVars, requestVars, callVars, faultVars
  <2>2. p = o => ~registered[p]
    BY <1>0 DEF Undisturbed
  <2> QED BY <1>0, <2>1, <2>2, HarmlessKeeps DEF Harmless, Over
<1>4. CASE ForwardDeadline(o)
  BY <1>4 DEF ForwardDeadline, Faultless
<1> QED BY <1>2, <1>3, <1>4 DEF ForwardAttempt

(* What the handler of a PullChunk does to its owner. *)
LEMMA HandlerUndisturbed ==
    ASSUME Typed, NEW o \in Remote, PullChunk(o), NEW p \in Remote,
           Undisturbed(p)
    PROVE  Undisturbed(p)'
<1>0. /\ UNCHANGED <<client, cancel, toCancel, prefetch_done_map, submit,
                     toForward, client_producers_done, lateForward, lateSent,
                     lateEmpty, up>>
      /\ registered \in [Nodes -> BOOLEAN] /\ o \in Nodes
  BY RemoteIsNode
     DEF PullChunk, clientVars, cancelVars, stateVars, submitVars, faultVars,
         PullFindDrain, Drained, PullFinish, PullFail, Typed, TypeOK,
         OwnerTypeOK
<1>1. registered'[p] => registered[p]
  <2>1. CASE PullFinish(o)
    <3>1. \E last : registered' = [registered EXCEPT ![o] = @ /\ ~last]
      BY <2>1 DEF PullFinish, DropAtLast
    <3> QED BY <1>0, <3>1, RemoteIsNode
  <2>2. CASE PullFindDrain(o, PullMax[o]) \/ PullFail(o)
    BY <2>2 DEF PullFindDrain, Drained, PullFail, requestVars
  <2> QED BY <2>1, <2>2 DEF PullChunk
<1>2. CASE p # o
  <2>1. pull'[p] = pull[p]
    BY <1>2, OtherCalls
  <2> QED BY <1>0, <1>1, <2>1, HarmlessKeeps DEF Harmless, Over
<1>3. CASE p = o
  <2>1. CASE PullFindDrain(o, PullMax[o])
    <3>1. ~pull'[o].last /\ pull'[o].stage # "error"
      BY <2>1 DEF PullFindDrain, Drained, Typed, TypeOK, OwnerTypeOK
    <3> QED BY <1>0, <1>1, <1>3, <3>1, HarmlessKeeps DEF Harmless, Over
  <2>2. CASE PullFinish(o)
    <3>1. /\ pull'[o].stage # "error"
          /\ pull'[o].last => ~registered'[o]
      BY <1>0, <2>2 DEF PullFinish, DropAtLast, Typed, TypeOK, OwnerTypeOK
    <3> QED BY <1>0, <1>1, <1>3, <3>1, HarmlessKeeps DEF Harmless, Over
  <2>3. CASE (~up[Hop[o]] \/ ~up[o] \/ PullNotFound(o)) /\ PullFail(o)
    <3>1. o \in HasPart => ~registered[o]
      BY <1>3, <2>3 DEF Undisturbed, PullNotFound
    <3> QED BY <1>0, <1>1, <1>3, <3>1, HarmlessKeeps DEF Harmless
  <2> QED BY <2>1, <2>2, <2>3 DEF PullChunk
<1> QED BY <1>2, <1>3

(* Every step of a run without faults leaves every owner undisturbed. *)
LEMMA UndisturbedKeeps ==
    ASSUME Typed, Control, Slots, FaultlessInv, [Next]_vars
    PROVE  FaultlessInv'
<1> SUFFICES ASSUME Faultless', NEW p \in Remote PROVE Undisturbed(p)'
  BY DEF FaultlessInv
<1>0. /\ Typed /\ TypeOK /\ Control /\ Slots /\ Faultless /\ Faultless'
      /\ Slotted(p) /\ Undisturbed(p) /\ \A o \in Remote : Undisturbed(o)
      /\ p \in Owners /\ p # Self /\ p \in Nodes /\ Remote \subseteq Nodes
      /\ client_producers_done \in [Owners -> BOOLEAN]
      /\ prefetch_done_map \in [Remote -> BOOLEAN]
      /\ registered \in [Nodes -> BOOLEAN] /\ cancelled \in [Nodes -> BOOLEAN]
      /\ submit \in {"idle", "forward", "done"}
  <2>1. Typed /\ TypeOK
    BY DEF Typed
  <2>2. Faultless
    BY <2>1, FaultsStay
  <2> QED BY <2>1, <2>2, RemoteIsNode
          DEF FaultlessInv, Slots, TypeOK, OwnerTypeOK, Remote
<1>1. CASE SubmitQuery
  <2>1. /\ submit = "idle" /\ cancel = "idle"
    BY <1>0, <1>1 DEF SubmitQuery, Control, ClientPlace
  <2>2. ~registered[p] /\ ~registered'[p]
    BY <1>0, <1>1, <2>1 DEF SubmitQuery, Undisturbed, RegisterRequest,
       requestVars
  <2>3. /\ UNCHANGED <<up, lateForward, lateSent, lateEmpty, cancel, toCancel>>
        /\ client' = "submitting" /\ toForward' = Eligible \ {Self}
        /\ client_producers_done'[p] = (p \notin Eligible)
    BY <1>0, <1>1 DEF SubmitQuery, RegisterRequest, callVars, faultVars,
                      cancelVars
  <2> QED BY <1>0, <2>1, <2>2, <2>3 DEF Undisturbed, ToldBy
<1>2. ASSUME NEW o \in Remote, ForwardAttempt(o) PROVE Undisturbed(p)'
  BY <1>0, <1>2, ForwardUndisturbed
(* Nothing happens but at the gateway. *)
<1>3. ASSUME UNCHANGED <<up, callVars, lateForward, submitVars, stateVars,
                         cancelVars>>,
             registered'[p] = registered[p],
             client' # "cancelled" \/ client = "cancelled"
      PROVE  Undisturbed(p)'
  BY <1>0, <1>3, HarmlessKeeps DEF Harmless, Over, callVars, submitVars,
     stateVars, cancelVars
<1>4. CASE SpawnPrefetchers
  <2>1. /\ UNCHANGED <<registered, up, pull, lateForward, lateSent, lateEmpty,
                       toForward, cancel, toCancel, prefetch_done_map,
                       client_producers_done>>
        /\ submit = "forward" /\ submit' = "done"
        /\ client' \in {client, "ready"}
    BY <1>4 DEF SpawnPrefetchers, ownerVars, requestVars, callVars, faultVars,
                cancelVars, stateVars
  <2> QED BY <1>0, <2>1, HarmlessKeeps DEF Harmless, Over
<1>5. CASE FetchBegin \/ FetchArm \/ FetchBlock \/ FetchJoin \/ FetchReply
           \/ ClientLeave \/ Finish \/ UNCHANGED vars
  <2>1. UNCHANGED <<ownerVars, stateVars, submitVars, cancelVars, faultVars>>
    BY <1>5 DEF FetchBegin, FetchArm, FetchBlock, FetchJoin, FetchReply,
       ClientLeave, Finish, vars
  <2>2. client' # "cancelled" \/ client' = client
    BY <1>5 DEF FetchBegin, FetchArm, FetchBlock, FetchJoin, FetchReply,
       ClientLeave, Finish, vars, clientVars
  <2> QED BY <1>3, <2>1, <2>2 DEF ownerVars, requestVars, faultVars
<1>6. ASSUME NEW m \in FetchSizes, FetchServe(m) PROVE Undisturbed(p)'
  <2>1. submit = "done" /\ toForward = {}
    BY <1>0, <1>6 DEF FetchServe, Control, ClientPlace, SubmitPlace
  <2>2. client_producers_done'[p] =>
           client_producers_done[p] \/ prefetch_done_map[p]
    BY <1>0, <1>6 DEF FetchServe, Promoted, Ended
  <2>3. UNCHANGED <<registered, up, callVars, client, submitVars, cancelVars,
                    faultVars, prefetch_done_map>>
    BY <1>6 DEF FetchServe, clientVars
  <2> QED BY <1>0, <2>1, <2>2, <2>3, HarmlessKeeps
          DEF Harmless, Over, callVars, submitVars, cancelVars, faultVars
<1>7. CASE FetchDrop
  BY <1>0, <1>7, HarmlessKeeps DEF FetchDrop, DropRequest, Harmless, Over,
     callVars, submitVars, cancelVars, faultVars
<1>8. CASE CancelDrop
  <2>1. /\ UNCHANGED <<up, pull, lateForward, lateSent, lateEmpty, client,
                       submit, toForward, toCancel, prefetch_done_map,
                       client_producers_done>>
        /\ registered'[p] = registered[p]
        /\ cancel = "fan" /\ toCancel = {}
    BY <1>0, <1>8 DEF CancelDrop, DropRequest, callVars, submitVars,
                      faultVars, clientVars
  <2> QED BY <1>0, <2>1, HarmlessKeeps DEF Harmless, Over, ToldBy
<1>9. CASE CancelBegin
  <2>1. /\ UNCHANGED <<registered, up, pull, lateForward, lateSent, lateEmpty,
                       submit, toForward, toCancel, prefetch_done_map,
                       client_producers_done>>
        /\ cancel' \in {cancel, "clear"}
    BY <1>9 DEF CancelBegin, callVars, submitVars, faultVars
  <2>2. CASE registered[Self]
    <3>1. client' = "cancelling"
      BY <1>9, <2>2 DEF CancelBegin
    <3> QED BY <1>0, <2>1, <3>1, HarmlessKeeps DEF Harmless, Over, ToldBy
  (* The query is over already: there is nobody left to tell. *)
  <2>3. CASE ~registered[Self]
    <3>1. client \in {"ready", "fetching"} /\ cancel = "idle"
             /\ cancel' = cancel
      BY <1>9, <2>3 DEF CancelBegin
    <3>2. client_producers_done[p] /\ submit = "done"
      BY <1>0, <2>3, <3>1 DEF Control, ClientPlace, StopPlace, Terminal
    <3>3. p \in HasPart => ~registered[p]
      BY <1>0, <3>2 DEF Undisturbed, Over
    <3> QED BY <1>0, <2>1, <3>1, <3>3 DEF Undisturbed, Over, ToldBy
  <2> QED BY <2>2, <2>3
<1>10. CASE CancelClear
  <2>1. /\ UNCHANGED <<registered, up, pull, lateForward, lateSent, lateEmpty,
                       client, submit, toForward, prefetch_done_map,
                       client_producers_done>>
        /\ cancel' = "fan" /\ toCancel' = Remote
    BY <1>10 DEF CancelClear, CancelTargets, callVars, submitVars, faultVars,
                 clientVars
  <2> QED BY <1>0, <2>1, HarmlessKeeps DEF Harmless, Over, ToldBy
<1>11. ASSUME NEW o \in Remote, CancelFan(o) PROVE Undisturbed(p)'
  <2>1. /\ UNCHANGED <<up, pull, lateForward, lateSent, lateEmpty, client,
                       submit, toForward, cancel, prefetch_done_map,
                       client_producers_done>>
        /\ cancel = "fan" /\ toCancel' = toCancel \ {o}
        /\ CancelRequest(Hop[o])
    BY <1>0, <1>11 DEF CancelFan, CancelRequest, callVars, submitVars,
       stateVars, clientVars, ownerVars, Faultless
  <2>2. Hop[o] \in Nodes /\ (registered'[p] => registered[p])
    BY <1>0, <2>1, GatewayAssumption DEF CancelRequest
  <2>3. CASE p = o /\ Hop[o] = o
    <3>1. ~registered'[p]
      BY <1>0, <2>1, <2>3 DEF CancelRequest, Undisturbed
    <3> QED BY <1>0, <2>1, <3>1 DEF Undisturbed
  <2>4. CASE p # o
    BY <1>0, <2>1, <2>2, <2>4, HarmlessKeeps DEF Harmless, Over
  <2>5. CASE p = o /\ Hop[o] # o
    BY <1>0, <2>1, <2>2, <2>5 DEF Undisturbed, Over
  <2> QED BY <2>3, <2>4, <2>5
<1>12. CASE CancelJoin
  <2>1. /\ UNCHANGED <<ownerVars, client, submit, toForward, toCancel,
                       prefetch_done_map, client_producers_done, lateForward>>
        /\ cancel = "join" /\ cancel' = "ack"
    BY <1>12 DEF CancelJoin, clientVars, submitVars, stateVars, faultVars
  <2> QED BY <1>0, <2>1, HarmlessKeeps DEF Harmless, Over, ToldBy, ownerVars,
             requestVars, callVars
<1>13. CASE CancelReply
  <2>1. /\ UNCHANGED <<ownerVars, submit, toForward, toCancel,
                       prefetch_done_map, client_producers_done, lateForward>>
        /\ cancel = "ack" /\ cancel' = "idle" /\ client' = "cancelled"
    BY <1>13 DEF CancelReply, submitVars, stateVars, faultVars
  <2>2. Hop[p] = p => ~registered[p]
    BY <1>0, <2>1 DEF Undisturbed, ToldBy
  <2> QED BY <1>0, <2>1, <2>2 DEF Undisturbed, Over, ToldBy, ownerVars,
             requestVars, callVars
<1>14. ASSUME NEW n \in Nodes, Produce(n) PROVE Undisturbed(p)'
  <2>1. UNCHANGED <<registered, up, callVars>>
    BY <1>14 DEF Produce, ProduceBegin, ProduceCheck, ProduceRow,
       ProduceStore, ProduceEmptyPart, requestVars
  <2> QED BY <1>3, <1>14, <2>1 DEF Produce, clientVars, faultVars
<1>15. CASE ProduceNotify
  BY <1>3, <1>15 DEF ProduceNotify, requestVars, clientVars, faultVars
<1>16. ASSUME NEW o \in Remote, PrefetcherCheck(o) PROVE Undisturbed(p)'
  <2>1. /\ UNCHANGED <<registered, up, lateForward, lateSent, lateEmpty,
                       client, submitVars, stateVars, cancelVars>>
        /\ pull' \in {pull, [pull EXCEPT ![o] = Sent]}
    BY <1>16 DEF PrefetcherCheck, PrefetcherStop, PrefetcherWait,
       PrefetcherPull, PullSend, ownerVars, requestVars, callVars, clientVars,
       faultVars
  <2>2. pull'[p] \in {pull[p], Sent}
    BY <1>0, <2>1 DEF TypeOK, OwnerTypeOK
  <2> QED BY <1>0, <2>1, <2>2, HarmlessKeeps DEF Harmless, Over, submitVars,
             stateVars, cancelVars, Sent
<1>17. ASSUME NEW o \in Remote, PrefetcherReply(o) \/ PrefetcherError(o)
       PROVE  Undisturbed(p)'
  <2>1. /\ UNCHANGED <<registered, up, lateForward, lateSent, lateEmpty,
                       client, submitVars, cancelVars>>
        /\ pull' = [pull EXCEPT ![o] = NoCall]
        /\ prefetcher[o] = "pull"
    BY <1>17 DEF PrefetcherReply, PrefetcherError, PullReturn, requestVars,
       clientVars, faultVars
  <2>2. submit = "done" /\ toForward = {}
    BY <1>0, <2>1 DEF Control, SubmitPlace
  <2>3. pull'[p] \in {pull[p], NoCall}
    BY <1>0, <2>1 DEF TypeOK, OwnerTypeOK
  <2>4. /\ client_producers_done'[p] =>
              client_producers_done[p] \/ pull[p].stage = "error"
        /\ prefetch_done_map'[p] =>
              \/ prefetch_done_map[p]
              \/ pull[p].last \/ pull[p].stage = "error"
    BY <1>0, <1>17 DEF PrefetcherReply, PrefetcherError
  <2> QED BY <1>0, <2>1, <2>2, <2>3, <2>4, HarmlessKeeps
          DEF Harmless, Over, submitVars, cancelVars, NoCall
<1>18. ASSUME NEW o \in Remote, PullChunk(o) PROVE Undisturbed(p)'
  BY <1>0, <1>18, HandlerUndisturbed
<1>19. ASSUME NEW o \in Remote, NodeUp(o) PROVE Undisturbed(p)'
  <2>1. /\ up' = [up EXCEPT ![o] = TRUE]
        /\ UNCHANGED <<registered, callVars, lateForward, client, submitVars,
                       stateVars, cancelVars>>
    BY <1>19 DEF NodeUp, Unaffected, requestVars, faultVars, clientVars
  <2>2. /\ up[p] => up'[p]
        /\ up[Hop[p]] => up'[Hop[p]]
    BY <2>1, GatewayAssumption, <1>0 DEF TypeOK, OwnerTypeOK
  <2> QED BY <1>0, <2>1, <2>2, HarmlessKeeps DEF Harmless, Over, submitVars,
             stateVars, cancelVars, callVars
<1>20. ASSUME NEW o \in Remote, FaultStep(o) PROVE Undisturbed(p)'
  BY <1>0, <1>20 DEF FaultStep, PrefetcherDeadline, ForwardLate, PullLate,
     LateFindDrain, LateFinish, NodeCrash, Faultless, Undisturbed
<1> QED BY <1>1, <1>2, <1>4, <1>5, <1>6, <1>7, <1>8, <1>9, <1>10, <1>11,
           <1>12, <1>13, <1>14, <1>15, <1>16, <1>17, <1>18, <1>19, <1>20
        DEF Next, FetchStep, CancelStep, Prefetch

(* Every run without faults does. *)
LEMMA FaultlessInvariant == Spec => []FaultlessInv
<1>1. Init => FaultlessInv
  BY DEF Init, OwnerInit, FaultlessInv, Undisturbed, Over, NoCall, ToldBy,
         Nodes, Remote
<1>2. GatewayInv /\ FaultlessInv /\ [Next]_vars => FaultlessInv'
  BY UndisturbedKeeps DEF GatewayInv
<1> QED BY <1>1, <1>2, GatewayInvariant, PTL DEF Spec

(* node.cpp:659: as long as no call expires and no node crashes, a client
   that has its last chunk leaves no request behind, neither at the gateway
   nor at an owner that has rows. *)
THEOREM DoneReleases == Spec => []DoneIsReleased
<1>1. GatewayInv /\ FaultlessInv => DoneIsReleased
  <2> SUFFICES ASSUME GatewayInv, FaultlessInv, client = "done", Faultless,
                      NEW n \in HasPart \cup {Self}
               PROVE  ~registered[n]
    BY DEF DoneIsReleased
  <2>1. ~registered[Self]
    BY DEF GatewayInv, Control, StopPlace
  <2>2. CASE n # Self
    <3>1. n \in Remote /\ n \in HasPart /\ n \in Owners
      BY <2>2, OwnerAssumption DEF Remote
    <3>2. client_producers_done[n] /\ submit = "done"
      BY <3>1 DEF GatewayInv, Control, LastPlace, ClientPlace
    <3> QED BY <3>1, <3>2 DEF FaultlessInv, Undisturbed, Over
  <2> QED BY <2>1, <2>2
<1> QED BY <1>1, GatewayInvariant, FaultlessInvariant, PTL

(* node.cpp:461: as long as no call expires and no node crashes, an
   acknowledged CancelQuery leaves no request behind at a neighbour of the
   gateway that has rows. *)
THEOREM CancelReleases == Spec => []CancelReachesNeighbours
<1>1. FaultlessInv => CancelReachesNeighbours
  BY DEF FaultlessInv, Undisturbed, CancelReachesNeighbours
<1> QED BY <1>1, FaultlessInvariant, PTL

-----------------------------------------------------------------------------
(* Full hits *)

(* done_producing is only ever stored behind the last row. *)
DoneMeansAll ==
    \A n \in Nodes : done_producing[n] =>
        matched_cursor[n] = NRows[n] /\ producer[n] \in {"idle", "notify"}

(* The count of the last chunk, and whom it counts. *)
HitCounts ==
    /\ owners_responded \subseteq Eligible
    /\ (fetch \in {"join", "reply"} /\ isLast) \/ client = "done" =>
          hit = Cardinality(owners_responded)
    /\ client = "done" => fetch = "idle"

(* A step that is about other things keeps it. *)
LEMMA DoneSameKeeps ==
    ASSUME DoneMeansAll,
           UNCHANGED <<done_producing, matched_cursor, producer>>
    PROVE  DoneMeansAll'
BY DEF DoneMeansAll

(* Entering the query starts over. *)
LEMMA RegisterDone ==
    ASSUME Typed, DoneMeansAll, NEW o \in Nodes, RegisterRequest(o)
    PROVE  DoneMeansAll'
<1> SUFFICES ASSUME NEW n \in Nodes, done_producing'[n]
             PROVE  /\ matched_cursor'[n] = NRows[n]
                    /\ producer'[n] \in {"idle", "notify"}
  BY DEF DoneMeansAll
<1>1. CASE registered[o] \/ n # o
  <2>1. /\ done_producing'[n] = done_producing[n]
        /\ matched_cursor'[n] = matched_cursor[n] /\ producer'[n] = producer[n]
    <3>1. /\ DOMAIN done_producing = Nodes /\ DOMAIN matched_cursor = Nodes
          /\ DOMAIN producer = Nodes
      BY DEF Typed, TypeOK, OwnerTypeOK
    <3>2. CASE registered[o]
      BY <3>2 DEF RegisterRequest, requestVars, producerVars
    <3>3. CASE ~registered[o] /\ n # o
      BY <3>1, <3>3 DEF RegisterRequest
    <3> QED BY <1>1, <3>2, <3>3
  <2> QED BY <2>1 DEF DoneMeansAll
<1>2. CASE ~registered[o] /\ n = o
  BY <1>2 DEF RegisterRequest, Typed, TypeOK, OwnerTypeOK
<1> QED BY <1>1, <1>2

(* The producer stores it last. *)
LEMMA ProduceDone ==
    ASSUME Typed, DoneMeansAll, NEW p \in Nodes, Produce(p)
    PROVE  DoneMeansAll'
<1> SUFFICES ASSUME NEW n \in Nodes, done_producing'[n]
             PROVE  /\ matched_cursor'[n] = NRows[n]
                    /\ producer'[n] \in {"idle", "notify"}
  BY DEF DoneMeansAll
<1>0. /\ NRows[n] \in Nat /\ matched_cursor[n] \in Nat
      /\ matched_cursor[n] <= NRows[n]
      /\ n \notin HasPart => NRows[n] = 0
      /\ done_producing[n] =>
            matched_cursor[n] = NRows[n] /\ producer[n] \in {"idle", "notify"}
  BY OwnerFacts, OwnerAssumption DEF Typed, OwnerInv, CursorInRange, InTurn,
     DoneMeansAll
<1>1. CASE n # p
  BY <1>0, <1>1 DEF Produce, ProduceBegin, ProduceCheck, ProduceRow,
     ProduceStore, ProduceEmptyPart, requestVars, Typed, TypeOK, OwnerTypeOK
<1>2. CASE n = p
  <2>1. CASE ProduceBegin(p) \/ ProduceCheck(p) \/ ProduceRow(p)
    BY <1>0, <1>2, <2>1 DEF ProduceBegin, ProduceCheck, ProduceRow, requestVars
  <2>2. CASE ProduceStore(p)
    BY <1>0, <1>2, <2>2 DEF ProduceStore, StoredDone, Typed, TypeOK,
       OwnerTypeOK
  <2>3. CASE ProduceEmptyPart(p)
    BY <1>0, <1>2, <2>3 DEF ProduceEmptyPart, Typed, TypeOK, OwnerTypeOK
  <2> QED BY <2>1, <2>2, <2>3 DEF Produce
<1> QED BY <1>1, <1>2

(* Every step keeps it. *)
LEMMA DoneKeeps ==
    ASSUME Typed, DoneMeansAll, [Next]_vars
    PROVE  DoneMeansAll'
<1>0. Typed /\ Self \in Nodes /\ Remote \subseteq Nodes
  BY RemoteIsNode DEF Nodes
<1>1. CASE SubmitQuery
  BY <1>0, <1>1, RegisterDone DEF SubmitQuery
<1>2. ASSUME NEW o \in Remote, ForwardAttempt(o) \/ ForwardLate(o)
      PROVE  DoneMeansAll'
  <2>1. RegisterRequest(o) \/ UNCHANGED ownerVars
    BY <1>2 DEF ForwardAttempt, ForwardAccepted, ForwardUnavailable,
                ForwardRelayFailed, ForwardDeadline, ForwardLate
  <2> QED BY <1>0, <2>1, RegisterDone, DoneSameKeeps DEF ownerVars,
             requestVars, producerVars
<1>3. CASE \/ FetchBegin \/ FetchStep \/ CancelBegin \/ ClientLeave
           \/ SpawnPrefetchers \/ Finish \/ UNCHANGED vars
  <2>1. UNCHANGED <<done_producing, matched_cursor, producer>>
    BY <1>3 DEF FetchBegin, FetchStep, FetchServe, FetchArm, FetchBlock,
       FetchDrop, FetchJoin, FetchReply, DropRequest, CancelBegin,
       ClientLeave, SpawnPrefetchers, Finish, vars, ownerVars, requestVars,
       producerVars
  <2> QED BY <2>1, DoneSameKeeps
<1>4. CASE CancelStep
  <2>1. UNCHANGED <<done_producing, matched_cursor, producer>>
    BY <1>4 DEF CancelStep, CancelClear, CancelFan, CancelRequest, CancelDrop,
       DropRequest, CancelJoin, CancelReply, ownerVars, requestVars,
       producerVars
  <2> QED BY <2>1, DoneSameKeeps
<1>5. ASSUME NEW o \in Remote,
             Prefetch(o) \/ PullChunk(o) \/ NodeUp(o) \/ PullLate(o)
                \/ PrefetcherDeadline(o)
      PROVE  DoneMeansAll'
  <2>1. UNCHANGED <<done_producing, matched_cursor, producer>>
    BY <1>5 DEF Prefetch, PrefetcherCheck, PrefetcherStop, PrefetcherWait,
       PrefetcherPull, PrefetcherReply, PrefetcherError, PrefetcherDeadline,
       PullSend, PullReturn, PullExpire, PullChunk, PullFindDrain, Drained,
       PullFinish, PullFail, NodeUp, PullLate, LateFindDrain, LateFinish,
       ownerVars, requestVars, producerVars
  <2> QED BY <2>1, DoneSameKeeps
<1>6. ASSUME NEW p \in Nodes, Produce(p) PROVE DoneMeansAll'
  BY <1>0, <1>6, ProduceDone
<1>7. ASSUME NEW o \in Nodes, producer' = [producer EXCEPT ![o] = "idle"],
             UNCHANGED <<done_producing, matched_cursor>>
      PROVE  DoneMeansAll'
  BY <1>0, <1>7 DEF DoneMeansAll, Typed, TypeOK, OwnerTypeOK
<1>8. CASE ProduceNotify
  BY <1>0, <1>7, <1>8 DEF ProduceNotify, requestVars
<1>9. ASSUME NEW o \in Remote, NodeCrash(o) PROVE DoneMeansAll'
  BY <1>0, <1>7, <1>9 DEF NodeCrash
<1> QED BY <1>1, <1>2, <1>3, <1>4, <1>5, <1>6, <1>8, <1>9 DEF Next, FaultStep

(* Every step keeps the count. *)
LEMMA HitKeeps ==
    ASSUME Typed, Control, Slots, HitCounts, [Next]_vars
    PROVE  HitCounts'
<1>0. /\ fetch \in {"idle", "eval", "armed", "blocked", "drop", "join",
                    "reply"}
      /\ Self \in Nodes
  BY DEF Typed, TypeOK, Nodes
<1>1. ASSUME UNCHANGED <<owners_responded, hit, isLast, client>>,
             fetch' = fetch \/ fetch' = WokenFetch
      PROVE  HitCounts'
  BY <1>0, <1>1 DEF HitCounts, WokenFetch
<1>2. CASE SubmitQuery
  <2>1. fetch' = "idle" /\ client' = "submitting"
        /\ owners_responded' = UpFront
    BY <1>2 DEF SubmitQuery, Control, ClientPlace, fetchVars
  <2> QED BY <2>1 DEF HitCounts, UpFront
<1>3. CASE SpawnPrefetchers \/ ClientLeave \/ CancelBegin \/ CancelReply
  <2>1. UNCHANGED <<owners_responded, hit, isLast, fetch>>
    BY <1>3 DEF SpawnPrefetchers, ClientLeave, CancelBegin, CancelReply,
                stateVars, fetchVars
  <2>2. client' = "done" => client = "done"
    BY <1>3 DEF SpawnPrefetchers, ClientLeave, CancelBegin, CancelReply
  <2> QED BY <2>1, <2>2 DEF HitCounts
<1>4. CASE FetchBegin \/ FetchArm \/ FetchBlock
  <2>1. /\ UNCHANGED <<owners_responded, hit, isLast>>
        /\ fetch' = fetch \/ fetch' \in {"eval", "armed", "blocked"}
        /\ client' # "done" \/ (client' = client /\ fetch # "idle")
    BY <1>4 DEF FetchBegin, FetchArm, FetchBlock, stateVars, clientVars
  <2> QED BY <2>1 DEF HitCounts
<1>5. ASSUME NEW m \in FetchSizes, FetchServe(m) PROVE HitCounts'
  <2>1. /\ UNCHANGED <<owners_responded, hit, client>> /\ fetch = "eval"
        /\ fetch' = IF isLast' THEN "drop" ELSE "reply"
    BY <1>5 DEF FetchServe, clientVars
  <2> QED BY <2>1 DEF HitCounts
<1>6. CASE FetchDrop
  <2>1. /\ hit' = Cardinality(owners_responded)
        /\ UNCHANGED <<owners_responded, client>> /\ fetch = "drop"
    BY <1>6 DEF FetchDrop, DropRequest
  <2> QED BY <2>1 DEF HitCounts
<1>7. CASE FetchJoin
  <2>1. /\ UNCHANGED <<owners_responded, hit, isLast, client>>
        /\ fetch = "join" /\ fetch' = "reply"
    BY <1>7 DEF FetchJoin, stateVars, clientVars
  <2> QED BY <2>1 DEF HitCounts
<1>8. CASE FetchReply
  <2>1. /\ UNCHANGED <<owners_responded, hit, isLast>>
        /\ fetch = "reply" /\ fetch' = "idle"
        /\ client' = IF client # "fetching" THEN client
                     ELSE IF isLast THEN "done" ELSE "ready"
    BY <1>8 DEF FetchReply, stateVars
  <2> QED BY <2>1 DEF HitCounts
<1>9. CASE CancelClear \/ CancelDrop \/ ProduceNotify
  BY <1>1, <1>9 DEF CancelClear, CancelDrop, DropRequest, ProduceNotify,
     NotifyAll, clientVars, stateVars
<1>10. CASE CancelJoin \/ Finish \/ UNCHANGED vars
  BY <1>1, <1>10 DEF CancelJoin, Finish, vars, clientVars, stateVars, fetchVars
<1>11. ASSUME NEW p \in Nodes, Produce(p) PROVE HitCounts'
  BY <1>1, <1>11 DEF Produce, clientVars, stateVars, fetchVars
<1>12. ASSUME NEW o \in Remote,
             \/ ForwardAttempt(o) \/ ForwardLate(o) \/ CancelFan(o)
             \/ PrefetcherCheck(o) \/ PrefetcherError(o)
             \/ PrefetcherDeadline(o) \/ PullChunk(o) \/ NodeUp(o)
             \/ PullLate(o) \/ NodeCrash(o)
       PROVE  HitCounts'
  BY <1>1, <1>12 DEF ForwardAttempt, ForwardLate, CancelFan, PrefetcherCheck,
     PrefetcherError, PrefetcherDeadline, PullChunk, NodeUp, PullLate,
     NodeCrash, Unaffected, clientVars, stateVars, fetchVars
<1>13. ASSUME NEW o \in Remote, PrefetcherReply(o) PROVE HitCounts'
  <2>1. /\ owners_responded' = owners_responded \cup {o}
        /\ UNCHANGED <<hit, isLast, client>> /\ fetch' = WokenFetch
        /\ prefetcher[o] = "pull"
    BY <1>13 DEF PrefetcherReply, clientVars
  <2>2. o \in Eligible /\ ~client_producers_done[o] /\ o \in Owners
    BY <2>1 DEF Slots, Slotted, Remote
  <2>3. /\ ~(fetch \in {"join", "reply"} /\ isLast) /\ client # "done"
    BY <2>2 DEF Control, LastPlace
  <2> QED BY <1>0, <2>1, <2>2, <2>3 DEF HitCounts, WokenFetch
<1> QED BY <1>2, <1>3, <1>4, <1>5, <1>6, <1>7, <1>8, <1>9, <1>10, <1>11,
           <1>12, <1>13 DEF Next, FetchStep, CancelStep, Prefetch, FaultStep

(* Neither an expired call nor a crash nor a cancel nor a client that has
   left has cost a row. *)
Clean == timeouts = 0 /\ crashes = 0 /\ ~cancelled[Self] /\ client # "failed"

(* The gateway asks owner o for no more rows. *)
Closed(o) ==
    \/ submit # "idle" /\ client_producers_done[o]
    \/ prefetch_done_map[o] \/ pull[o].last

(* What a clean query has of owner o: all rows up to its cursor as long as it
   is served, none if it has not been reached, and, once it has answered and
   is closed, all of them. *)
Honest(o) ==
    /\ lateSent[o] = 0 /\ lateEmpty[o] = 0
    /\ registered[o] \/ lateForward[o] > 0 => up[o] /\ up[Hop[o]]
    /\ registered[o] /\ ~Closed(o) => Whole(Stream(o), matched_cursor[o])
    /\ ~registered[o] /\ ~Closed(o) =>
          /\ Got(o) = <<>> /\ o \notin owners_responded
          /\ pull[o].stage \in {"none", "sent", "error"}
    /\ Closed(o) /\ (o \in owners_responded \/ pull[o].last) =>
          Whole(Got(o), NRows[o])
    /\ pull[o].stage = "error" => o \notin owners_responded
    /\ o \notin HasPart =>
          /\ o \notin owners_responded
          /\ pull[o].stage \notin {"drained", "replied"}

(* And of the gateway's own rows. *)
HonestSelf ==
    /\ Whole(Stream(Self), matched_cursor[Self])
    /\ submit = "idle" => delivered[Self] = <<>>
    /\ submit # "idle" /\ Self \in Eligible /\ client_producers_done[Self] =>
          done_producing[Self] /\ matched[Self] = <<>>

(* All of it, as long as the query is clean. *)
HonestInv == Clean => HonestSelf /\ \A o \in Remote : Honest(o)

(* A step that moves the rows of o at most. *)
Calm(o) ==
    /\ Stream(o)' = Stream(o) /\ Got(o)' = Got(o)
    /\ matched_cursor'[o] = matched_cursor[o]
    /\ registered'[o] = registered[o]
    /\ Closed(o)' <=> Closed(o)
    /\ o \in owners_responded' <=> o \in owners_responded
    /\ pull'[o] = pull[o]
    /\ lateSent'[o] = lateSent[o] /\ lateEmpty'[o] = lateEmpty[o]
    /\ lateForward'[o] = lateForward[o]
    /\ up[o] => up'[o]
    /\ up[Hop[o]] => up'[Hop[o]]

(* The owner is as honest as before then. *)
LEMMA CalmKeeps ==
    ASSUME NEW o \in Remote, Honest(o), Calm(o)
    PROVE  Honest(o)'
BY DEF Honest, Calm

(* A step that is about other things. *)
LEMMA StillCalm ==
    ASSUME NEW o \in Remote,
           UNCHANGED <<delivered, chunk, prefetch_buf, submit, up, lateForward,
                       prefetch_done_map, client_producers_done,
                       owners_responded, callVars>>,
           matched'[o] = matched[o], matched_cursor'[o] = matched_cursor[o],
           registered'[o] = registered[o]
    PROVE  Calm(o)
BY DEF Calm, Stream, Got, Slot, Reply, Closed, callVars

(* A loss is not forgotten. *)
LEMMA CleanStays ==
    ASSUME Typed, Control, [Next]_vars, Clean'
    PROVE  Clean
<1>0. /\ timeouts \in Nat /\ crashes \in Nat /\ Self \in Nodes
      /\ cancelled \in [Nodes -> BOOLEAN] /\ Typed
  BY DEF Typed, TypeOK, OwnerTypeOK, Nodes
<1>1. timeouts = 0 /\ crashes = 0
  BY <1>0, FaultsCount DEF Clean
(* No cancel is undone, and no client that has left comes back. *)
<1>2. ASSUME cancelled[Self] \/ client = "failed" PROVE FALSE
  <2>1. submit # "idle" /\ client \notin {"start", "ready", "fetching"}
    BY <1>2 DEF Control, ClientPlace, SubmitPlace, StopPlace
  <2>2. CASE SubmitQuery \/ FetchBegin \/ CancelBegin
    BY <2>1, <2>2 DEF SubmitQuery, FetchBegin, CancelBegin
  <2>3. ASSUME cancelled'[Self] = cancelled[Self],
               client = "failed" => client' = "failed"
        PROVE  FALSE
    BY <1>2, <2>3 DEF Clean
  <2>4. CASE \/ FetchStep \/ ClientLeave \/ SpawnPrefetchers \/ ProduceNotify
             \/ Finish \/ UNCHANGED vars
    BY <2>1, <2>3, <2>4 DEF FetchStep, FetchServe, FetchArm, FetchBlock,
       FetchDrop, FetchJoin, FetchReply, DropRequest, ClientLeave,
       SpawnPrefetchers, ProduceNotify, Finish, vars, ownerVars, requestVars,
       clientVars
  <2>5. CASE CancelClear \/ CancelDrop \/ CancelJoin \/ CancelReply
    <3>1. cancelled' = cancelled
      BY <2>5 DEF CancelClear, CancelDrop, DropRequest, CancelJoin,
         CancelReply, ownerVars, requestVars
    <3>2. client = "failed" => cancel = "idle"
      BY DEF Control, ClientPlace
    <3> QED BY <2>3, <2>5, <3>1, <3>2 DEF CancelClear, CancelDrop, CancelJoin,
               CancelReply, clientVars
  <2>6. ASSUME NEW n \in Nodes, Produce(n) PROVE FALSE
    BY <1>0, <2>3, <2>6, ProduceAlone DEF Produce, clientVars
  <2>7. ASSUME NEW o \in Remote, ForwardAttempt(o) \/ ForwardLate(o)
        PROVE  FALSE
    <3>1. RegisterRequest(o) \/ UNCHANGED ownerVars
      BY <2>7 DEF ForwardAttempt, ForwardAccepted, ForwardUnavailable,
         ForwardRelayFailed, ForwardDeadline, ForwardLate
    <3>2. cancelled'[Self] = cancelled[Self]
      BY <1>0, <3>1, SelfAlone DEF ownerVars, requestVars
    <3> QED BY <2>3, <2>7, <3>2 DEF ForwardAttempt, ForwardLate, Unaffected,
               clientVars
  <2>8. ASSUME NEW o \in Remote, CancelFan(o) PROVE FALSE
    <3>1. Hop[o] \in Remote
      BY GatewayAssumption
    <3>2. cancelled'[Self] = cancelled[Self]
      BY <1>0, <2>8, <3>1, SelfAlone DEF CancelFan, ownerVars, requestVars
    <3> QED BY <2>3, <2>8, <3>2 DEF CancelFan, clientVars
  <2>9. ASSUME NEW o \in Remote, Prefetch(o) \/ PrefetcherDeadline(o)
        PROVE  FALSE
    <3>1. cancelled' = cancelled
      BY <2>9 DEF Prefetch, PrefetcherCheck, PrefetcherStop, PrefetcherWait,
         PrefetcherPull, PrefetcherReply, PrefetcherError, PrefetcherDeadline,
         PullSend, PullReturn, PullExpire, ownerVars, requestVars
    <3> QED BY <2>3, <2>9, <3>1 DEF Prefetch, PrefetcherCheck,
               PrefetcherReply, PrefetcherError, PrefetcherDeadline, clientVars
  <2>10. ASSUME NEW o \in Remote,
                PullChunk(o) \/ NodeUp(o) \/ PullLate(o) \/ NodeCrash(o)
         PROVE  FALSE
    <3>1. cancelled'[Self] = cancelled[Self]
      BY <1>0, <2>10, SelfAlone
    <3> QED BY <2>3, <2>10, <3>1 DEF PullChunk, NodeUp, PullLate, NodeCrash,
               Unaffected, clientVars
  <2> QED BY <2>2, <2>4, <2>5, <2>6, <2>7, <2>8, <2>9, <2>10
          DEF Next, CancelStep, FaultStep
<1> QED BY <1>1, <1>2 DEF Clean

(* Once the deque is empty, the rows on their way are those that have left
   it. *)
LEMMA DequeEmpty ==
    ASSUME NEW n \in Nodes, matched[n] = <<>>
    PROVE  Stream(n) = Got(n)
BY DEF Stream, Got

(* The fan-out, or a ForwardQuery that comes late, enters the query. *)
LEMMA RegisterHonest ==
    ASSUME Typed, NEW o \in Remote, RegisterRequest(o), Honest(o),
           UNCHANGED <<delivered, chunk, prefetch_buf, owners_responded,
                       prefetch_done_map, client_producers_done>>,
           submit' = submit, up[o] /\ up[Hop[o]],
           lateForward'[o] \in Nat
    PROVE  Honest(o)'
<1>1. /\ o \in Nodes /\ pull' = pull /\ up' = up
      /\ lateSent' = lateSent /\ lateEmpty' = lateEmpty
      /\ registered'[o]
      /\ Got(o)' = Got(o) /\ Closed(o)' = Closed(o)
  BY RemoteIsNode DEF RegisterRequest, callVars, requestVars, Got, Slot, Reply,
     Closed, Typed, TypeOK, OwnerTypeOK
<1>2. ~Closed(o) => Whole(Stream(o), matched_cursor[o])'
  <2>1. CASE registered[o]
    <3>1. matched'[o] = matched[o] /\ matched_cursor'[o] = matched_cursor[o]
      BY <2>1 DEF RegisterRequest, requestVars
    <3>2. Stream(o)' = Stream(o)
      BY <1>1, <3>1 DEF Stream, Slot, Reply
    <3> QED BY <2>1, <3>1, <3>2 DEF Honest
  <2>2. CASE ~registered[o]
    <3>1. matched'[o] = <<>> /\ matched_cursor'[o] = 0
      BY <1>1, <2>2 DEF RegisterRequest, Typed, TypeOK, OwnerTypeOK
    <3>2. Stream(o)' = Got(o)'
      BY <3>1 DEF Stream, Got
    <3> QED BY <1>1, <2>2, <3>1, <3>2, NoRows DEF Honest, Whole
  <2> QED BY <2>1, <2>2
<1> QED BY <1>1, <1>2 DEF Honest

(* SubmitQuery has asked nobody yet. *)
LEMMA SubmitHonest ==
    ASSUME Typed, Control, Slots, NEW p \in Remote, Honest(p), SubmitQuery
    PROVE  Honest(p)'
<1>1. /\ UNCHANGED <<delivered, chunk, prefetch_buf, prefetch_done_map, pull,
                     lateSent, lateEmpty, lateForward, up>>
      /\ matched'[p] = matched[p] /\ matched_cursor'[p] = matched_cursor[p]
      /\ registered'[p] = registered[p]
      /\ p \notin owners_responded'
      /\ submit = "idle" /\ prefetcher[p] = "none" /\ Slotted(p)
  <2>1. /\ matched'[p] = matched[p] /\ matched_cursor'[p] = matched_cursor[p]
        /\ registered'[p] = registered[p]
    <3>1. p # Self /\ p \in Nodes /\ Self \in Nodes /\ RegisterRequest(Self)
      BY RemoteIsNode DEF SubmitQuery, Remote, Nodes
    <3> QED BY <3>1, SMTT(20)
            DEF RegisterRequest, requestVars, Typed, TypeOK,
                OwnerTypeOK
  <2>2. UNCHANGED <<delivered, chunk, prefetch_buf, prefetch_done_map, pull,
                    lateSent, lateEmpty, lateForward, up>>
    BY DEF SubmitQuery, RegisterRequest, callVars, fetchVars, faultVars
  <2>3. submit = "idle" /\ prefetcher[p] = "none" /\ Slotted(p)
    BY DEF SubmitQuery, Control, ClientPlace, SubmitPlace, Slots
  <2>4. p \notin owners_responded'
    BY DEF SubmitQuery, UpFront, Remote
  <2> QED BY <2>1, <2>2, <2>3, <2>4
<1>2. pull[p].stage = "none" /\ ~pull[p].last /\ ~Closed(p)
  BY <1>1 DEF Slotted, Closed, NoCall
<1>3. Stream(p)' = Stream(p) /\ Got(p)' = Got(p)
  BY <1>1 DEF Stream, Got, Slot, Reply
<1> QED BY <1>1, <1>2, <1>3 DEF Honest

(* An owner that the fan-out gives up is closed, but has not answered. *)
LEMMA ForwardHonest ==
    ASSUME Typed, Control, Slots, NEW p \in Remote, Honest(p),
           NEW o \in Remote, ForwardAttempt(o)
    PROVE  Honest(p)'
<1>1. /\ UNCHANGED <<delivered, chunk, prefetch_buf, owners_responded,
                     prefetch_done_map, submit>>
      /\ submit = "forward" /\ prefetcher[p] = "none" /\ Slotted(p)
      /\ p \notin owners_responded /\ p \in Owners
      /\ lateForward \in [Remote -> Nat] /\ Typed
      /\ client_producers_done \in [Owners -> BOOLEAN]
  BY DEF ForwardAttempt, clientVars, fetchVars, Remote, Control, ClientPlace,
         SubmitPlace, Slots, Typed, TypeOK
<1>2. pull[p].stage = "none" /\ ~pull[p].last /\ ~prefetch_done_map[p]
  BY <1>1 DEF Slotted, NoCall
<1>3. CASE ForwardAccepted(o)
  <2>1. /\ UNCHANGED <<client_producers_done, lateForward>>
        /\ RegisterRequest(o) /\ up[o] /\ up[Hop[o]]
    BY <1>3 DEF ForwardAccepted, faultVars
  <2>2. CASE o = p
    BY <1>1, <2>1, <2>2, RegisterHonest
  <2>3. CASE o # p
    <3>1. /\ registered'[p] = registered[p] /\ matched'[p] = matched[p]
          /\ matched_cursor'[p] = matched_cursor[p]
      BY <2>1, <2>3, RemoteIsNode, NodeAlone
    <3>2. up' = up /\ callVars' = callVars
      BY <2>1 DEF RegisterRequest
    <3> QED BY <1>1, <2>1, <3>1, <3>2, StillCalm, CalmKeeps
  <2> QED BY <2>2, <2>3
<1>4. CASE ForwardUnavailable(o) \/ ForwardRelayFailed(o) \/ ForwardDeadline(o)
  <2>1. /\ UNCHANGED ownerVars
        /\ client_producers_done[p] => client_producers_done'[p]
        /\ lateForward'[p] = lateForward[p] \/ (up[p] /\ up[Hop[p]])
    <3>1. CASE ForwardUnavailable(o) \/ ForwardRelayFailed(o)
      BY <1>1, <3>1 DEF ForwardUnavailable, ForwardRelayFailed, ForwardAgain,
         ForwardedTo, faultVars
    <3>2. CASE ForwardDeadline(o)
      <4>1. /\ UNCHANGED ownerVars /\ up[Hop[o]] /\ up[o]
            /\ lateForward' = [lateForward EXCEPT ![o] = @ + 1]
        BY <3>2 DEF ForwardDeadline
      <4>2. client_producers_done[p] => client_producers_done'[p]
        BY <1>1, <3>2 DEF ForwardDeadline, ForwardAgain, ForwardedTo
      <4> QED BY <1>1, <4>1, <4>2
    <3> QED BY <1>4, <3>1, <3>2
  <2>2. /\ UNCHANGED <<pull, lateSent, lateEmpty, up, registered,
                       matched_cursor>>
        /\ Stream(p)' = Stream(p) /\ Got(p)' = Got(p)
    BY <1>1, <2>1 DEF ownerVars, requestVars, callVars, Stream, Got, Slot,
       Reply
  <2>3. Closed(p) => Closed(p)'
    BY <1>1, <2>1, <2>2 DEF Closed
  <2> QED BY <1>1, <1>2, <2>1, <2>2, <2>3 DEF Honest
<1> QED BY <1>3, <1>4 DEF ForwardAttempt

(* A relay that was slow, not lost, enters the query late. *)
LEMMA LateHonest ==
    ASSUME Typed, NEW p \in Remote, Honest(p), NEW o \in Remote, ForwardLate(o)
    PROVE  Honest(p)'
<1>1. /\ UNCHANGED <<delivered, chunk, prefetch_buf, owners_responded,
                     prefetch_done_map, client_producers_done, submit>>
      /\ RegisterRequest(o) /\ lateForward[o] > 0 /\ up[o]
      /\ lateForward' = [lateForward EXCEPT ![o] = @ - 1]
      /\ lateForward \in [Remote -> Nat] /\ Typed
  BY DEF ForwardLate, Unaffected, clientVars, fetchVars, stateVars, submitVars,
         Typed, TypeOK
<1>2. CASE o = p
  <2>1. up[Hop[p]] /\ lateForward'[p] \in Nat
    BY <1>1, <1>2 DEF Honest
  <2> QED BY <1>1, <1>2, <2>1, RegisterHonest
<1>3. CASE o # p
  <2>1. /\ registered'[p] = registered[p] /\ matched'[p] = matched[p]
        /\ matched_cursor'[p] = matched_cursor[p]
    BY <1>1, <1>3, RemoteIsNode, NodeAlone
  <2>2. up' = up /\ callVars' = callVars /\ lateForward'[p] = lateForward[p]
    BY <1>1, <1>3 DEF RegisterRequest
  <2>3. Calm(p)
    BY <1>1, <2>1, <2>2 DEF Calm, Stream, Got, Slot, Reply, Closed, callVars
  <2> QED BY <2>3, CalmKeeps
<1> QED BY <1>2, <1>3

(* The producer adds the next row. *)
LEMMA ProduceHonest ==
    ASSUME Typed, NEW p \in Remote, Honest(p), NEW n \in Nodes, Produce(n)
    PROVE  Honest(p)'
<1>0. p \in Nodes /\ Typed
  BY RemoteIsNode
<1>1. UNCHANGED <<delivered, chunk, prefetch_buf, submit, up, lateForward,
                  prefetch_done_map, client_producers_done, owners_responded,
                  callVars, registered>>
  BY <1>0, ProduceAlone DEF Produce, ProduceBegin, ProduceCheck, ProduceRow,
     ProduceStore, ProduceEmptyPart, clientVars, stateVars, submitVars,
     fetchVars, faultVars
<1>2. CASE ~ProduceRow(n) \/ n # p
  <2>1. matched'[p] = matched[p] /\ matched_cursor'[p] = matched_cursor[p]
    BY <1>0, <1>2 DEF Produce, ProduceBegin, ProduceCheck, ProduceRow,
       ProduceStore, ProduceEmptyPart, requestVars, Typed, TypeOK, OwnerTypeOK
  <2> QED BY <1>1, <2>1, StillCalm, CalmKeeps
<1>3. CASE ProduceRow(n) /\ n = p
  <2>1. /\ matched'[p] = Append(matched[p], matched_cursor[p] + 1)
        /\ matched_cursor'[p] = matched_cursor[p] + 1
    BY <1>0, <1>3 DEF ProduceRow, Pushed, Typed, TypeOK, OwnerTypeOK
  <2>2. /\ Slot(p)' = Slot(p) /\ Reply(p)' = Reply(p) /\ Got(p)' = Got(p)
        /\ Closed(p)' = Closed(p) /\ pull' = pull
        /\ lateSent' = lateSent /\ lateEmpty' = lateEmpty
    BY <1>1 DEF Slot, Reply, Got, Closed, callVars
  <2>3. ASSUME Whole(Stream(p), matched_cursor[p])
        PROVE  Whole(Stream(p), matched_cursor[p])'
    <3>1. Whole(Five(delivered[p], chunk[p], Slot(p), Reply(p), matched[p]),
                matched_cursor[p])
      BY <2>3 DEF Stream
    <3>2. Whole(Five(delivered[p], chunk[p], Slot(p), Reply(p),
                     Append(matched[p], matched_cursor[p] + 1)),
                matched_cursor[p] + 1)
      BY <1>0, <3>1, StretchTypes, RowPushed
    <3> QED BY <1>1, <2>1, <2>2, <3>2 DEF Stream
  <2> QED BY <1>1, <2>2, <2>3 DEF Honest
<1> QED BY <1>2, <1>3

(* The prefetcher's call, and what comes back. *)
LEMMA CheckHonest ==
    ASSUME Typed, NEW p \in Remote, Honest(p), Slotted(p),
           NEW o \in Remote, PrefetcherCheck(o)
    PROVE  Honest(p)'
<1>1. /\ UNCHANGED <<delivered, chunk, prefetch_buf, submit, lateForward,
                     prefetch_done_map, client_producers_done,
                     owners_responded>>
  BY DEF PrefetcherCheck, clientVars, stateVars, submitVars, fetchVars,
         faultVars
<1>2. CASE UNCHANGED ownerVars
  BY <1>1, <1>2, StillCalm, CalmKeeps DEF ownerVars, requestVars
<1>3. CASE PrefetcherPull(o) /\ o # p
  <2>1. pull'[p] = pull[p] /\ UNCHANGED <<requestVars, lateSent, lateEmpty,
           up>>
    BY <1>3 DEF PrefetcherPull, PullSend, Typed, TypeOK, OwnerTypeOK
  <2>2. Calm(p)
    BY <1>1, <2>1 DEF Calm, Stream, Got, Slot, Reply, Closed, requestVars
  <2> QED BY <2>2, CalmKeeps
<1>4. CASE PrefetcherPull(o) /\ o = p
  <2>1. /\ pull'[p] = Sent /\ UNCHANGED <<requestVars, lateSent, lateEmpty,
           up>>
        /\ pull[p] = NoCall
    BY <1>4 DEF PrefetcherPull, PullSend, Slotted, Typed, TypeOK, OwnerTypeOK
  <2>2. Stream(p)' = Stream(p) /\ Got(p)' = Got(p) /\ Closed(p)' = Closed(p)
    BY <1>1, <2>1 DEF Stream, Got, Slot, Reply, Closed, requestVars, Sent,
       NoCall
  <2> QED BY <1>1, <2>1, <2>2 DEF Honest, requestVars, Sent, NoCall
<1> QED BY <1>2, <1>3, <1>4 DEF PrefetcherCheck, PrefetcherStop, PrefetcherWait

(* The answer's rows go on to the slot; the last answer closes the owner. *)
LEMMA ReplyHonest ==
    ASSUME Typed, NEW p \in Remote, Honest(p), Slotted(p),
           NEW o \in Remote, PrefetcherReply(o)
    PROVE  Honest(p)'
<1>1. /\ UNCHANGED <<registered, matched_cursor, lateSent, lateEmpty, up,
                     submit, lateForward, client_producers_done>>
      /\ pull' = [pull EXCEPT ![o] = NoCall]
      /\ pull[o].stage = "replied" /\ prefetcher[o] = "pull"
      /\ owners_responded' = owners_responded \cup {o}
      /\ prefetch_done_map' =
            [prefetch_done_map EXCEPT ![o] = @ \/ pull[o].last]
  BY DEF PrefetcherReply, PullReturn, requestVars, submitVars, faultVars
<1>2. Stream(p)' = Stream(p) /\ Got(p)' = Got(p)
  BY ReplyMoves, RemoteIsNode
<1>3. CASE o # p
  <2>1. pull'[p] = pull[p] /\ prefetch_done_map'[p] = prefetch_done_map[p]
    BY <1>1, <1>3 DEF Typed, TypeOK, OwnerTypeOK
  <2>2. Calm(p)
    BY <1>1, <1>2, <1>3, <2>1 DEF Calm, Closed
  <2> QED BY <2>2, CalmKeeps
<1>4. CASE o = p
  <2>1. /\ pull'[p] = NoCall /\ ~prefetch_done_map[p]
        /\ ~client_producers_done[p]
        /\ prefetch_done_map'[p] = (prefetch_done_map[p] \/ pull[p].last)
    BY <1>1, <1>4 DEF Slotted, Typed, TypeOK, OwnerTypeOK
  <2>2. (Closed(p) <=> pull[p].last) /\ (Closed(p)' <=> pull[p].last)
    <3>1. Closed(p) <=> pull[p].last
      BY <2>1 DEF Closed
    <3>2. ~client_producers_done'[p] /\ ~pull'[p].last
      BY <1>1, <2>1 DEF NoCall
    <3>3. prefetch_done_map'[p] <=> pull[p].last
      BY <2>1, CallTypes
    <3> QED BY <3>1, <3>2, <3>3 DEF Closed
  <2>3. registered[p] \/ Closed(p)
    BY <1>1, <1>4 DEF Honest
  <2> QED BY <1>1, <1>2, <1>4, <2>1, <2>2, <2>3 DEF Honest, NoCall
<1> QED BY <1>3, <1>4

(* An error closes an owner, which then has not answered. *)
LEMMA ErrorHonest ==
    ASSUME Typed, NEW p \in Remote, Honest(p), Slotted(p),
           NEW o \in Remote, PrefetcherError(o)
    PROVE  Honest(p)'
<1>1. /\ UNCHANGED <<delivered, chunk, prefetch_buf, matched, registered,
                     matched_cursor, lateSent, lateEmpty, up, submit,
                     lateForward, owners_responded>>
      /\ pull' = [pull EXCEPT ![o] = NoCall]
      /\ pull[o].stage = "error"
      /\ prefetch_done_map' = [prefetch_done_map EXCEPT ![o] = TRUE]
      /\ client_producers_done' = [client_producers_done EXCEPT ![o] = TRUE]
  BY DEF PrefetcherError, PullReturn, requestVars, submitVars, faultVars,
         clientVars
<1>2. CASE o # p
  <2>1. /\ pull'[p] = pull[p] /\ prefetch_done_map'[p] = prefetch_done_map[p]
        /\ client_producers_done'[p] = client_producers_done[p]
    BY <1>1, <1>2 DEF Typed, TypeOK, OwnerTypeOK, Remote
  <2>2. Stream(p)' = Stream(p) /\ Got(p)' = Got(p)
    BY <1>1, <2>1 DEF Stream, Got, Slot, Reply
  <2>3. Closed(p)' = Closed(p)
    BY <1>1, <2>1 DEF Closed
  <2>4. Calm(p)
    BY <1>1, <2>1, <2>2, <2>3 DEF Calm
  <2> QED BY <2>4, CalmKeeps
<1>3. CASE o = p
  <2>1. pull'[p] = NoCall /\ prefetch_done_map'[p] /\ p \notin owners_responded
    BY <1>1, <1>3 DEF Honest, Typed, TypeOK, OwnerTypeOK
  <2> QED BY <1>1, <2>1 DEF Honest, Closed, NoCall
<1> QED BY <1>2, <1>3

(* The owner's handler drains the deque, ends the query or finds nothing. *)
LEMMA HandlerHonest ==
    ASSUME Typed, Slots, DoneMeansAll, NEW p \in Remote, Honest(p),
           NEW o \in Remote, PullChunk(o)
    PROVE  Honest(p)'
<1>0. /\ UNCHANGED <<delivered, chunk, prefetch_buf, submit, lateForward,
                     prefetch_done_map, client_producers_done,
                     owners_responded, up, lateSent, lateEmpty,
                     matched_cursor>>
      /\ Typed /\ Slotted(p) /\ p \in Nodes /\ p # Self
  BY RemoteIsNode
     DEF PullChunk, clientVars, stateVars, submitVars, fetchVars, faultVars,
         PullFindDrain, Drained, PullFinish, PullFail, requestVars, Slots,
         Remote
<1>1. CASE o # p
  <2>1. /\ registered'[p] = registered[p] /\ matched'[p] = matched[p]
        /\ pull'[p] = pull[p]
    BY <1>0, <1>1, NodeAlone, OtherCalls
  <2>2. Calm(p)
    BY <1>0, <2>1 DEF Calm, Stream, Got, Slot, Reply, Closed
  <2> QED BY <2>2, CalmKeeps
<1>2. CASE o = p
  <2>1. /\ pull[p].stage \in {"sent", "drained"} /\ prefetcher[p] = "pull"
    BY <1>0, <1>2 DEF PullChunk, PullFindDrain, PullFinish, PullFail, Slotted
  <2>2. ~prefetch_done_map[p] /\ ~client_producers_done[p] /\ ~pull[p].last
    BY <1>0, <2>1 DEF Slotted
  <2>3. ~Closed(p) /\ (Closed(p)' <=> pull'[p].last)
    BY <1>0, <2>2 DEF Closed
  <2>4. CASE PullFindDrain(p, PullMax[p])
    <3>1. /\ registered' = registered /\ registered[p] /\ p \in HasPart
          /\ ~pull'[p].last /\ pull'[p].stage = "drained"
      BY <2>4 DEF PullFindDrain, Drained, PullNotFound, Typed, TypeOK,
         OwnerTypeOK
    <3>2. Stream(p)' = Stream(p)
      BY <1>0, <2>4, DrainMoves
    <3> QED BY <1>0, <2>3, <3>1, <3>2 DEF Honest
  <2>5. CASE PullFinish(p)
    <3> DEFINE last == NoMoreRows(p) /\ pull[p].rows = <<>>
    <3>1. /\ pull[p].stage = "drained" /\ registered[p] /\ p \in HasPart
      BY <2>3, <2>5 DEF PullFinish, Honest
    <3>2. /\ pull'[p].stage = "replied" /\ (pull'[p].last <=> last)
          /\ pull'[p].rows = pull[p].rows /\ matched' = matched
          /\ registered'[p] <=> ~last
      BY <1>0, <2>5, <3>1 DEF PullFinish, DropAtLast, Typed, TypeOK,
         OwnerTypeOK
    <3>3. Stream(p)' = Stream(p) /\ Got(p)' = Got(p)
      BY <1>0, <3>2 DEF Stream, Got, Slot, Reply
    <3>4. last => Whole(Got(p), NRows[p])
      <4>1. Whole(Stream(p), matched_cursor[p])
        BY <2>3, <3>1 DEF Honest
      <4>2. last => matched[p] = <<>> /\ matched_cursor[p] = NRows[p]
        BY <1>0 DEF NoMoreRows, DoneMeansAll
      <4> QED BY <1>0, <4>1, <4>2, DequeEmpty
    <3> HIDE DEF last
    <3> QED BY <1>0, <2>3, <3>1, <3>2, <3>3, <3>4 DEF Honest
  <2>6. CASE (~up[Hop[p]] \/ ~up[p] \/ PullNotFound(p)) /\ PullFail(p)
    <3>1. /\ pull[p].stage = "sent" /\ pull'[p] = Failed
          /\ UNCHANGED <<matched, registered>>
      BY <2>6 DEF PullFail, requestVars, Typed, TypeOK, OwnerTypeOK
    <3>2. p \notin owners_responded
      BY <2>3, <2>6 DEF PullNotFound, Honest
    <3>3. Stream(p)' = Stream(p) /\ Got(p)' = Got(p)
      <4>1. pull'[p].rows = pull[p].rows
        BY <1>0, <3>1 DEF Slotted, Failed
      <4> QED BY <1>0, <3>1, <4>1 DEF Stream, Got, Slot, Reply
    <3> QED BY <1>0, <2>3, <3>1, <3>2, <3>3 DEF Honest, Failed
  <2> QED BY <1>2, <2>4, <2>5, <2>6 DEF PullChunk
<1> QED BY <1>1, <1>2

(* FetchChunk takes rows of o, and takes it for done if it has ended. *)
LEMMA ServeHonest ==
    ASSUME Typed, Control, NEW p \in Remote, Honest(p),
           NEW m \in FetchSizes, FetchServe(m)
    PROVE  Honest(p)'
<1>1. /\ UNCHANGED <<registered, matched_cursor, pull, lateSent, lateEmpty, up,
                     submit, lateForward, prefetch_done_map, owners_responded>>
      /\ submit = "done"
  BY DEF FetchServe, callVars, submitVars, faultVars, Control, ClientPlace
<1>2. Stream(p)' = Stream(p) /\ Got(p)' = Got(p)
  BY ServeMoves, RemoteIsNode DEF Remote
<1>3. /\ client_producers_done'[p] =>
            client_producers_done[p] \/ prefetch_done_map[p]
      /\ client_producers_done[p] => client_producers_done'[p]
  <2>1. PICK take \in RoundRobin(m) :
           client_producers_done' = [o \in Owners |-> Promoted(o, take[o])]
    BY DEF FetchServe
  <2>2. client_producers_done'[p] = Promoted(p, take[p]) /\ p # Self
    BY <2>1 DEF Remote
  <2> QED BY <2>2 DEF Promoted, Ended
<1>4. Closed(p)' <=> Closed(p)
  BY <1>1, <1>3 DEF Closed
<1>5. Calm(p)
  BY <1>1, <1>2, <1>4 DEF Calm
<1> QED BY <1>5, CalmKeeps

(* Every step of a clean query keeps every owner honest. *)
LEMMA HonestKeeps ==
    ASSUME Typed, Control, Slots, DoneMeansAll, Clean, Clean',
           \A o \in Remote : Honest(o), NEW p \in Remote, [Next]_vars
    PROVE  Honest(p)'
<1>0. /\ Typed /\ TypeOK /\ Control /\ Slots /\ Honest(p) /\ Slotted(p)
      /\ p \in Nodes /\ p # Self
      /\ cancel = "idle"
  BY RemoteIsNode DEF Typed, Slots, Remote, Control, StopPlace, Clean
<1>1. CASE SubmitQuery
  BY <1>0, <1>1, SubmitHonest
<1>2. ASSUME NEW o \in Remote, ForwardAttempt(o) PROVE Honest(p)'
  BY <1>0, <1>2, ForwardHonest
<1>3. CASE SpawnPrefetchers
  <2>1. /\ UNCHANGED <<ownerVars, delivered, chunk, lateForward, stateVars>>
        /\ submit = "forward" /\ submit' = "done"
    BY <1>3 DEF SpawnPrefetchers, fetchVars, faultVars
  <2>2. Calm(p)
    BY <2>1 DEF Calm, Stream, Got, Slot, Reply, Closed, ownerVars, requestVars,
       callVars, stateVars
  <2> QED BY <1>0, <2>2, CalmKeeps
<1>4. ASSUME NEW m \in FetchSizes, FetchServe(m) PROVE Honest(p)'
  BY <1>0, <1>4, ServeHonest
<1>5. CASE FetchReply
  <2>1. Stream(p)' = Stream(p) /\ Got(p)' = Got(p)
    BY <1>0, <1>5, DeliverMoves DEF Clean
  <2>2. Calm(p)
    BY <1>5, <2>1 DEF FetchReply, Calm, Closed, ownerVars, requestVars,
       callVars, stateVars, submitVars, faultVars
  <2> QED BY <1>0, <2>2, CalmKeeps
<1>6. CASE \/ FetchBegin \/ FetchArm \/ FetchBlock \/ FetchJoin \/ ClientLeave
           \/ Finish \/ UNCHANGED vars
  <2>1. UNCHANGED <<ownerVars, delivered, chunk, lateForward, stateVars,
                    submit>>
    BY <1>6 DEF FetchBegin, FetchArm, FetchBlock, FetchJoin, ClientLeave,
       Finish, vars, clientVars, submitVars, fetchVars, faultVars
  <2>2. Calm(p)
    BY <2>1 DEF Calm, Stream, Got, Slot, Reply, Closed, ownerVars, requestVars,
       callVars, stateVars
  <2> QED BY <1>0, <2>2, CalmKeeps
<1>7. CASE FetchDrop \/ ProduceNotify
  <2>1. /\ UNCHANGED <<delivered, chunk, prefetch_buf, submit, up, lateForward,
                       prefetch_done_map, client_producers_done,
                       owners_responded, callVars, matched, matched_cursor>>
        /\ registered'[p] = registered[p]
    BY <1>0, <1>7 DEF FetchDrop, DropRequest, ProduceNotify, requestVars,
       clientVars, stateVars, submitVars, faultVars, TypeOK, OwnerTypeOK
  <2> QED BY <1>0, <2>1, StillCalm, CalmKeeps
<1>8. CASE CancelBegin
  <2>1. ~registered[Self]
    BY <1>0, <1>8 DEF CancelBegin, Clean, TypeOK, OwnerTypeOK, Nodes
  <2>2. /\ UNCHANGED <<delivered, chunk, prefetch_buf, submit, up, lateForward,
                       prefetch_done_map, client_producers_done,
                       owners_responded, callVars, matched, matched_cursor,
                       registered>>
    BY <1>8 DEF CancelBegin, fetchVars, submitVars, faultVars
  <2> QED BY <1>0, <2>2, StillCalm, CalmKeeps
<1>9. CASE CancelStep
  BY <1>0, <1>9 DEF CancelStep, CancelClear, CancelFan, CancelDrop, CancelJoin,
     CancelReply
<1>10. ASSUME NEW n \in Nodes, Produce(n) PROVE Honest(p)'
  BY <1>0, <1>10, ProduceHonest
<1>11. ASSUME NEW o \in Remote, Prefetch(o) PROVE Honest(p)'
  BY <1>0, <1>11, CheckHonest, ReplyHonest, ErrorHonest DEF Prefetch
<1>12. ASSUME NEW o \in Remote, PullChunk(o) PROVE Honest(p)'
  BY <1>0, <1>12, HandlerHonest
<1>13. ASSUME NEW o \in Remote, NodeUp(o) PROVE Honest(p)'
  <2>1. /\ up' = [up EXCEPT ![o] = TRUE]
        /\ UNCHANGED <<requestVars, callVars, delivered, chunk, lateForward,
                       stateVars, submit>>
    BY <1>13 DEF NodeUp, Unaffected, clientVars, fetchVars, submitVars,
       faultVars
  <2>2. /\ up[p] => up'[p]
        /\ up[Hop[p]] => up'[Hop[p]]
    BY <1>0, <2>1, GatewayAssumption DEF TypeOK, OwnerTypeOK
  <2>3. Calm(p)
    BY <2>1, <2>2 DEF Calm, Stream, Got, Slot, Reply, Closed, requestVars,
       callVars, stateVars
  <2> QED BY <1>0, <2>3, CalmKeeps
<1>14. ASSUME NEW o \in Remote, ForwardLate(o) PROVE Honest(p)'
  BY <1>0, <1>14, LateHonest
(* Nothing expires and nothing crashes, so that no handler is left alone. *)
<1>15. ASSUME NEW o \in Remote,
              PrefetcherDeadline(o) \/ PullLate(o) \/ NodeCrash(o)
       PROVE  FALSE
  <2>1. lateSent[o] = 0 /\ lateEmpty[o] = 0
    BY DEF Honest
  <2> QED BY <1>15, <2>1 DEF Clean, PrefetcherDeadline, PullLate, LateFindDrain,
             LateFinish, NodeCrash
<1> QED BY <1>1, <1>2, <1>3, <1>4, <1>5, <1>6, <1>7, <1>8, <1>9, <1>10,
           <1>11, <1>12, <1>13, <1>14, <1>15 DEF Next, FetchStep, FaultStep

(* Nothing that HonestSelf is about changes but for rows that move. *)
SelfSame ==
    /\ Stream(Self)' = Stream(Self)
    /\ matched_cursor'[Self] = matched_cursor[Self]
    /\ submit' = "idle" => submit = "idle" /\ delivered' = delivered
    /\ submit' # "idle" /\ Self \in Eligible /\ client_producers_done'[Self]
          => submit # "idle" /\ client_producers_done[Self]
    /\ done_producing[Self] => done_producing'[Self]
    /\ matched[Self] = <<>> => matched'[Self] = <<>>

(* The gateway's own rows are as complete as before then. *)
LEMMA SelfSameKeeps ==
    ASSUME HonestSelf, SelfSame
    PROVE  HonestSelf'
BY DEF HonestSelf, SelfSame

(* SubmitQuery enters the query at the gateway too. *)
LEMMA SubmitSelf ==
    ASSUME Typed, Control, HonestSelf, SubmitQuery
    PROVE  HonestSelf'
<1>1. /\ Self \in Nodes /\ submit = "idle" /\ fetch = "idle"
      /\ ~registered[Self] /\ submit' = "forward"
  BY DEF SubmitQuery, Control, ClientPlace, SubmitPlace, Nodes
<1>2. /\ matched'[Self] = <<>> /\ matched_cursor'[Self] = 0
      /\ UNCHANGED <<delivered, chunk>>
      /\ Self \in Eligible => ~client_producers_done'[Self]
  BY <1>1, GatewayAssumption DEF SubmitQuery, RegisterRequest, fetchVars,
     Typed, TypeOK, OwnerTypeOK
<1>3. delivered[Self] = <<>> /\ chunk[Self] = <<>>
  BY <1>1 DEF HonestSelf, Control, LastPlace
<1>4. Stream(Self)' = <<>>
  <2>1. Five(<<>>, <<>>, <<>>, <<>>, <<>>) = <<>>
    BY ConcatEmptySeq, EmptySeq DEF Five
  <2> QED BY <1>2, <1>3, <2>1 DEF Stream, Slot, Reply
<1> QED BY <1>1, <1>2, <1>4, NoRows DEF HonestSelf, Whole

(* The gateway's own producer adds the next row. *)
LEMMA ProduceSelf ==
    ASSUME Typed, DoneMeansAll, HonestSelf, NEW n \in Nodes, Produce(n)
    PROVE  HonestSelf'
<1>0. Self \in Nodes /\ Typed /\ done_producing \in [Nodes -> BOOLEAN]
  BY DEF Nodes, Typed, TypeOK, OwnerTypeOK
<1>1. UNCHANGED <<delivered, chunk, submit, client_producers_done>>
  BY DEF Produce, clientVars, stateVars, submitVars, fetchVars
<1>2. done_producing[Self] => done_producing'[Self]
  BY <1>0 DEF Produce, ProduceBegin, ProduceCheck, ProduceRow, ProduceStore,
     ProduceEmptyPart, requestVars, StoredDone
<1>3. CASE ~ProduceRow(n) \/ n # Self
  <2>1. /\ matched'[Self] = matched[Self]
        /\ matched_cursor'[Self] = matched_cursor[Self]
    BY <1>0, <1>3 DEF Produce, ProduceBegin, ProduceCheck, ProduceRow,
       ProduceStore, ProduceEmptyPart, requestVars, Typed, TypeOK, OwnerTypeOK
  <2>2. Stream(Self)' = Stream(Self)
    BY <1>1, <2>1 DEF Stream, Slot, Reply
  <2> QED BY <1>1, <1>2, <2>1, <2>2, SelfSameKeeps DEF SelfSame
<1>4. CASE ProduceRow(n) /\ n = Self
  <2>1. /\ matched'[Self] = Append(matched[Self], matched_cursor[Self] + 1)
        /\ matched_cursor'[Self] = matched_cursor[Self] + 1
    BY <1>0, <1>4 DEF ProduceRow, Pushed, Typed, TypeOK, OwnerTypeOK
  <2>2. ~done_producing[Self]
    BY <1>0, <1>4 DEF ProduceRow, DoneMeansAll
  <2>3. Whole(Stream(Self), matched_cursor[Self])'
    <3>1. Whole(Five(delivered[Self], chunk[Self], Slot(Self), Reply(Self),
                     matched[Self]), matched_cursor[Self])
      BY DEF HonestSelf, Stream
    <3>2. Whole(Five(delivered[Self], chunk[Self], Slot(Self), Reply(Self),
                     Append(matched[Self], matched_cursor[Self] + 1)),
                matched_cursor[Self] + 1)
      BY <1>0, <3>1, StretchTypes, RowPushed
    <3>3. Slot(Self)' = Slot(Self) /\ Reply(Self)' = Reply(Self)
      BY DEF Slot, Reply
    <3> QED BY <1>1, <2>1, <3>2, <3>3 DEF Stream
  <2> QED BY <1>1, <2>2, <2>3 DEF HonestSelf
<1> QED BY <1>3, <1>4

(* FetchChunk takes the gateway's own rows from its deque. *)
LEMMA ServeSelf ==
    ASSUME Typed, Control, HonestSelf, NEW m \in FetchSizes, FetchServe(m)
    PROVE  HonestSelf'
<1>0. /\ Self \in Nodes /\ submit = "done" /\ submit' = submit
      /\ matched_cursor' = matched_cursor /\ done_producing' = done_producing
      /\ matched \in [Nodes -> Seq(Nat)]
  BY DEF FetchServe, submitVars, Control, ClientPlace, Nodes, Typed, TypeOK,
         OwnerTypeOK
<1>1. Stream(Self)' = Stream(Self)
  BY <1>0, ServeMoves
<1>2. PICK take \in RoundRobin(m) :
         /\ matched' = [matched EXCEPT ![Self] = Left(Self, take[Self])]
         /\ client_producers_done' = [o \in Owners |-> Promoted(o, take[o])]
  BY DEF FetchServe
<1>3. /\ Source(Self) = matched[Self]
      /\ matched'[Self] = Left(Self, take[Self])
      /\ matched'[Self] \in Seq(Nat) /\ take[Self] \in 0..Len(matched[Self])
      /\ Len(matched'[Self]) = Len(matched[Self]) - take[Self]
      /\ Len(matched[Self]) \in Nat
  <2>1. Source(Self) = matched[Self]
    BY DEF Source
  <2>2. /\ Left(Self, take[Self]) \in Seq(Nat)
        /\ take[Self] \in 0..Len(Source(Self))
        /\ Len(Left(Self, take[Self])) = Len(Source(Self)) - take[Self]
    BY <1>0, Taken DEF Typed
  <2> QED BY <1>0, <1>2, <2>1, <2>2, LenProperties
<1>4. matched[Self] = <<>> => matched'[Self] = <<>>
  <2>1. matched[Self] = <<>> => Len(matched'[Self]) = 0
    BY <1>3
  <2> QED BY <1>3, <2>1, EmptySeq
<1>5. Self \in Eligible /\ client_producers_done'[Self] =>
         done_producing'[Self] /\ matched'[Self] = <<>>
  <2> SUFFICES ASSUME Self \in Eligible, client_producers_done'[Self],
                      ~client_producers_done[Self]
               PROVE  done_producing[Self] /\ matched'[Self] = <<>>
    BY <1>0, <1>4 DEF HonestSelf
  <2>1. Promoted(Self, take[Self])
    BY <1>2, GatewayAssumption
  <2>2. done_producing[Self] /\ take[Self] = Len(matched[Self])
    BY <1>3, <2>1 DEF Promoted, Ended
  <2>3. Len(matched'[Self]) = 0
    BY <1>3, <2>2
  <2> QED BY <1>3, <2>2, <2>3, EmptySeq
<1> QED BY <1>0, <1>1, <1>5 DEF HonestSelf

(* Every step of a clean query keeps the gateway's own rows complete. *)
LEMMA HonestSelfKeeps ==
    ASSUME Typed, Control, Slots, DoneMeansAll, Clean, Clean', HonestSelf,
           [Next]_vars
    PROVE  HonestSelf'
<1>0. /\ Typed /\ TypeOK /\ Control /\ Slots /\ Self \in Nodes
      /\ cancel = "idle"
      /\ client_producers_done \in [Owners -> BOOLEAN]
  BY DEF Typed, TypeOK, Nodes, Control, StopPlace, Clean
<1>1. CASE SubmitQuery
  BY <1>0, <1>1, SubmitSelf
<1>2. ASSUME matched'[Self] = matched[Self],
             matched_cursor'[Self] = matched_cursor[Self],
             done_producing'[Self] = done_producing[Self],
             UNCHANGED <<delivered, chunk>>,
             Self \in Owners =>
                client_producers_done'[Self] = client_producers_done[Self],
             submit' = submit \/ (submit # "idle" /\ submit' # "idle")
      PROVE  HonestSelf'
  <2>1. Stream(Self)' = Stream(Self)
    BY <1>2 DEF Stream, Slot, Reply
  <2> QED BY <1>2, <2>1, SelfSameKeeps, GatewayAssumption DEF SelfSame
<1>3. ASSUME NEW o \in Remote, ForwardAttempt(o) \/ ForwardLate(o)
      PROVE  HonestSelf'
  <2>1. RegisterRequest(o) \/ UNCHANGED ownerVars
    BY <1>3 DEF ForwardAttempt, ForwardAccepted, ForwardUnavailable,
                ForwardRelayFailed, ForwardDeadline, ForwardLate
  <2>2. /\ matched'[Self] = matched[Self]
        /\ matched_cursor'[Self] = matched_cursor[Self]
        /\ done_producing'[Self] = done_producing[Self]
    BY <1>0, <2>1, SelfAlone DEF ownerVars, requestVars
  <2>3. Self \in Owners =>
           client_producers_done'[Self] = client_producers_done[Self]
    BY <1>0, <1>3 DEF ForwardAttempt, ForwardAccepted, ForwardUnavailable,
       ForwardRelayFailed, ForwardDeadline, ForwardAgain, ForwardedTo,
       ForwardLate, Unaffected, stateVars, Remote
  <2>4. UNCHANGED <<delivered, chunk, submit>>
    BY <1>3 DEF ForwardAttempt, ForwardLate, Unaffected, clientVars,
       fetchVars, submitVars
  <2> QED BY <1>2, <2>2, <2>3, <2>4
<1>4. CASE SpawnPrefetchers
  BY <1>2, <1>4 DEF SpawnPrefetchers, ownerVars, requestVars, stateVars,
     fetchVars
<1>5. ASSUME NEW m \in FetchSizes, FetchServe(m) PROVE HonestSelf'
  BY <1>0, <1>5, ServeSelf
<1>6. CASE FetchReply
  <2>1. Stream(Self)' = Stream(Self)
    BY <1>0, <1>6, DeliverMoves DEF Clean
  <2>2. submit = "done" /\ UNCHANGED <<submit, ownerVars, stateVars>>
    BY <1>0, <1>6 DEF FetchReply, submitVars, Control, ClientPlace
  <2> QED BY <2>1, <2>2, SelfSameKeeps
          DEF SelfSame, ownerVars, requestVars, stateVars
<1>7. CASE \/ FetchBegin \/ FetchArm \/ FetchBlock \/ FetchJoin \/ ClientLeave
           \/ Finish \/ UNCHANGED vars
  BY <1>2, <1>7 DEF FetchBegin, FetchArm, FetchBlock, FetchJoin, ClientLeave,
     Finish, vars, ownerVars, requestVars, clientVars, stateVars, submitVars,
     fetchVars
<1>8. CASE FetchDrop \/ ProduceNotify \/ CancelBegin
  BY <1>2, <1>8 DEF FetchDrop, DropRequest, ProduceNotify, CancelBegin,
     requestVars, clientVars, stateVars, submitVars, fetchVars
<1>9. CASE CancelStep
  BY <1>0, <1>9 DEF CancelStep, CancelClear, CancelFan, CancelDrop, CancelJoin,
     CancelReply
<1>10. ASSUME NEW n \in Nodes, Produce(n) PROVE HonestSelf'
  BY <1>0, <1>10, ProduceSelf
<1>11. ASSUME NEW o \in Remote, Prefetch(o) PROVE HonestSelf'
  <2>1. /\ UNCHANGED <<matched, matched_cursor, done_producing, delivered,
                       chunk, submit>>
    BY <1>11 DEF Prefetch, PrefetcherCheck, PrefetcherStop, PrefetcherWait,
       PrefetcherPull, PrefetcherReply, PrefetcherError, PullSend,
       PullReturn, ownerVars, requestVars, clientVars, submitVars, fetchVars
  <2>2. Self \in Owners =>
           client_producers_done'[Self] = client_producers_done[Self]
    BY <1>0, <1>11 DEF Prefetch, PrefetcherCheck, PrefetcherReply,
       PrefetcherError, stateVars, Remote
  <2> QED BY <1>2, <2>1, <2>2
<1>12. ASSUME NEW o \in Remote,
              \/ PullChunk(o) \/ NodeUp(o) \/ PullLate(o) \/ NodeCrash(o)
              \/ PrefetcherDeadline(o)
       PROVE  HonestSelf'
  <2>1. /\ matched'[Self] = matched[Self]
        /\ matched_cursor'[Self] = matched_cursor[Self]
        /\ done_producing'[Self] = done_producing[Self]
    BY <1>0, <1>12, SelfAlone DEF PrefetcherDeadline
  <2>2. UNCHANGED <<delivered, chunk, client_producers_done, submit>>
    BY <1>12 DEF PullChunk, NodeUp, PullLate, NodeCrash, PrefetcherDeadline,
       Unaffected, clientVars, stateVars, submitVars, fetchVars
  <2> QED BY <1>2, <2>1, <2>2
<1> QED BY <1>1, <1>3, <1>4, <1>5, <1>6, <1>7, <1>8, <1>9, <1>10, <1>11,
           <1>12 DEF Next, FetchStep, FaultStep

(* What the last chunk's count rests on. *)
CountInv == DoneMeansAll /\ HitCounts

(* It holds in every reachable state. *)
LEMMA CountInvariant == Spec => []CountInv
<1>1. Init => CountInv
  BY DEF Init, OwnerInit, CountInv, DoneMeansAll, HitCounts
<1>2. GatewayInv /\ CountInv /\ [Next]_vars => CountInv'
  BY DoneKeeps, HitKeeps DEF GatewayInv, CountInv
<1> QED BY <1>1, <1>2, GatewayInvariant, PTL DEF Spec

(* Every clean query is honest in every reachable state. *)
LEMMA HonestInvariant == Spec => []HonestInv
<1>1. Init => HonestInv
  <2> SUFFICES ASSUME Init PROVE HonestSelf /\ \A o \in Remote : Honest(o)
    BY DEF HonestInv
  <2>1. \A n \in Nodes :
           /\ delivered[n] = <<>> /\ chunk[n] = <<>> /\ matched[n] = <<>>
           /\ Slot(n) = <<>> /\ Reply(n) = <<>> /\ matched_cursor[n] = 0
    BY DEF Init, OwnerInit, Slot, Reply, NoCall, Nodes, Remote
  <2>2. Five(<<>>, <<>>, <<>>, <<>>, <<>>) = <<>>
    BY ConcatEmptySeq, EmptySeq DEF Five
  <2>3. HonestSelf
    BY <2>1, <2>2, NoRows DEF HonestSelf, Whole, Stream, Nodes, Init
  <2>4. ASSUME NEW o \in Remote PROVE Honest(o)
    <3>1. Got(o) = <<>> /\ o \in Nodes
      BY <2>1, <2>2, RemoteIsNode DEF Got
    <3> QED BY <3>1, RemoteIsNode DEF Init, OwnerInit, Honest, Closed, NoCall
  <2> QED BY <2>3, <2>4
<1>2. GatewayInv /\ CountInv /\ HonestInv /\ [Next]_vars => HonestInv'
  <2> SUFFICES ASSUME GatewayInv, CountInv, HonestInv, [Next]_vars, Clean'
               PROVE  HonestSelf' /\ \A o \in Remote : Honest(o)'
    BY DEF HonestInv
  <2>1. Clean
    BY CleanStays DEF GatewayInv
  <2>2. HonestSelf /\ \A o \in Remote : Honest(o)
    BY <2>1 DEF HonestInv
  <2> QED BY <2>1, <2>2, HonestKeeps, HonestSelfKeeps DEF GatewayInv, CountInv
<1> QED BY <1>1, <1>2, GatewayInvariant, CountInvariant, PTL DEF Spec

(* README.md:598: for any overlay and any data, a query that reports every
   eligible owner as hit, with no call expired and no node crashed, has
   given the client every row of every eligible owner, whichever owners
   came up late, were given up or answered with an error. *)
THEOREM FullHitsAreHonest == Spec => []HitsAreHonest
<1>1. GatewayInv /\ CountInv /\ HonestInv => HitsAreHonest
  <2> SUFFICES ASSUME GatewayInv, CountInv, HonestInv, client = "done",
                      hit = Cardinality(Eligible), timeouts = 0, crashes = 0,
                      NEW o \in Eligible
               PROVE  delivered[o] = Rows(NRows[o])
    BY DEF HitsAreHonest
  <2>0. /\ Typed /\ o \in Owners /\ o \in Nodes /\ Self \in Nodes
        /\ submit = "done"
        /\ fetch = "idle" /\ client_producers_done[o] /\ chunk[o] = <<>>
    BY GatewayAssumption DEF GatewayInv, CountInv, HitCounts, Nodes, Control,
       ClientPlace, LastPlace
  <2>1. Clean
    BY DEF GatewayInv, Control, StopPlace, Clean
  <2>2. owners_responded = Eligible
    <3>1. IsFiniteSet(Eligible)
      BY GatewayAssumption, FS_Subset
    <3> QED BY <3>1, FS_Subset DEF CountInv, HitCounts
  <2>3. CASE o = Self
    <3>1. /\ Whole(Stream(Self), matched_cursor[Self])
          /\ done_producing[Self] /\ matched[Self] = <<>>
      BY <2>0, <2>1, <2>3 DEF HonestInv, HonestSelf
    <3>2. matched_cursor[Self] = NRows[Self]
      BY <2>0, <3>1 DEF CountInv, DoneMeansAll
    <3>3. Stream(Self) = Five(delivered[Self], <<>>, <<>>, <<>>, <<>>)
      BY <2>0, <2>3, <3>1 DEF Stream, Slot, Reply
    <3>4. delivered[Self] \in Seq(Nat)
      BY <2>0, StretchTypes
    <3>5. Stream(Self) = delivered[Self]
      BY <3>3, <3>4, ConcatEmptySeq, EmptySeq DEF Five
    <3> QED BY <2>3, <3>1, <3>2, <3>5 DEF Whole
  <2>4. CASE o # Self
    <3>1. o \in Remote
      BY <2>0, <2>4 DEF Remote
    <3>2. Whole(Got(o), NRows[o])
      BY <2>0, <2>1, <2>2, <3>1 DEF HonestInv, Honest, Closed
    <3>3. prefetch_buf[o] = <<>> /\ pull[o].rows = <<>>
      BY <2>0, <3>1 DEF GatewayInv, Slots, Slotted
    <3>4. Got(o) = delivered[o]
      BY <2>0, <3>3, StretchTypes, ConcatEmptySeq, EmptySeq
         DEF Got, Five, Slot, Reply
    <3> QED BY <3>2, <3>4 DEF Whole
  <2> QED BY <2>3, <2>4
<1> QED BY <1>1, GatewayInvariant, CountInvariant, HonestInvariant, PTL

-----------------------------------------------------------------------------
(* The stream of chunks *)

(* What ResultStream is promised under: every owner listens, no call expires
   and no node crashes, and the owners asked are those that have the rows
   (which NothingPruned of QueryPlan is about). *)
NothingFails ==
    /\ Loading = {}
    /\ MaxTimeouts = 0 /\ MaxCrashes = 0 /\ MaxLate = 0
    /\ \A n \in Nodes : NRows[n] > 0 => n \in Eligible

(* So nothing has failed so far. *)
Smooth == timeouts = 0 /\ crashes = 0 /\ lates = 0 /\ \A o \in Remote : up[o]

(* A node gets the query once. *)
Once(n) ==
    /\ registrations[n] <= 1
    /\ n \in toForward \/ submit = "idle" => registrations[n] = 0

(* From its forward to its last answer owner o holds the query; it answers,
   and is done only after it has. *)
Served(o) ==
    /\ submit # "idle" /\ o \notin toForward =>
          registered[o] \/ pull[o].last \/ prefetch_done_map[o]
    /\ pull[o].stage # "error"
    /\ Closed(o) => o \in owners_responded \/ pull[o].last

(* All of it, for the owners with rows, as long as the query is clean. *)
SmoothInv ==
    /\ Smooth
    /\ \A n \in Nodes : Once(n)
    /\ Clean => \A o \in Remote : NRows[o] > 0 => Served(o)

(* It stays so. *)
LEMMA SmoothStays ==
    ASSUME NothingFails, Typed, Smooth, [Next]_vars
    PROVE  Smooth'
<1>0. /\ MaxTimeouts = 0 /\ MaxCrashes = 0 /\ MaxLate = 0
      /\ timeouts = 0 /\ crashes = 0 /\ lates = 0 /\ \A o \in Remote : up[o]
  BY DEF NothingFails, Smooth
<1>1. ASSUME UNCHANGED <<timeouts, crashes, lates, up>>
      PROVE  Smooth'
  BY <1>0, <1>1 DEF Smooth
<1>2. CASE SubmitQuery \/ SpawnPrefetchers \/ FetchBegin \/ CancelBegin
           \/ ClientLeave \/ ProduceNotify \/ Finish \/ UNCHANGED vars
  BY <1>1, <1>2 DEF SubmitQuery, RegisterRequest, SpawnPrefetchers,
     FetchBegin, CancelBegin, ClientLeave, ProduceNotify, Finish, vars,
     ownerVars, faultVars
<1>3. CASE FetchStep
  BY <1>1, <1>3 DEF FetchStep, FetchServe, FetchArm, FetchBlock, FetchDrop,
     FetchJoin, FetchReply, DropRequest, ownerVars, faultVars
<1>4. CASE CancelStep
  <2>1. ASSUME NEW o \in Remote, CancelFan(o)
        PROVE  Smooth'
    BY <1>0, <1>1, <2>1 DEF CancelFan, CancelRequest, ownerVars
  <2> QED BY <1>1, <1>4, <2>1 DEF CancelStep, CancelClear, CancelDrop,
             DropRequest, CancelJoin, CancelReply, ownerVars, faultVars
<1>5. ASSUME NEW n \in Nodes, Produce(n)
      PROVE  Smooth'
  BY <1>1, <1>5 DEF Produce, ProduceBegin, ProduceCheck, ProduceRow,
     ProduceStore, ProduceEmptyPart, faultVars
<1>6. ASSUME NEW o \in Remote, ForwardAttempt(o)
      PROVE  Smooth'
  BY <1>0, <1>1, <1>6 DEF ForwardAttempt, ForwardAccepted, RegisterRequest,
     ForwardUnavailable, ForwardRelayFailed, ForwardDeadline, ownerVars,
     faultVars
<1>7. ASSUME NEW o \in Remote, Prefetch(o)
      PROVE  Smooth'
  BY <1>1, <1>7 DEF Prefetch, PrefetcherCheck, PrefetcherStop, PrefetcherWait,
     PrefetcherPull, PullSend, PrefetcherReply, PrefetcherError, PullReturn,
     ownerVars, faultVars
<1>8. ASSUME NEW o \in Remote, PullChunk(o)
      PROVE  Smooth'
  BY <1>1, <1>8 DEF PullChunk, PullFindDrain, Drained, PullFinish, PullFail,
     faultVars
<1>9. ASSUME NEW o \in Remote, NodeUp(o)
      PROVE  Smooth'
  BY <1>0, <1>9 DEF NodeUp
<1>10. ASSUME NEW o \in Remote, FaultStep(o)
       PROVE  Smooth'
  <2>1. CASE ForwardLate(o) \/ PullLate(o)
    BY <1>1, <2>1 DEF ForwardLate, RegisterRequest, PullLate, LateFindDrain,
       LateFinish, faultVars
  <2>2. CASE PrefetcherDeadline(o) \/ NodeCrash(o)
    BY <1>0, <2>2 DEF PrefetcherDeadline, NodeCrash
  <2> QED BY <1>10, <2>1, <2>2 DEF FaultStep
<1> QED BY <1>2, <1>3, <1>4, <1>5, <1>6, <1>7, <1>8, <1>9, <1>10 DEF Next

(* An entry counts by one. *)
LEMMA RegisterCounts ==
    ASSUME Typed, NEW o \in Nodes, RegisterRequest(o), NEW m \in Nodes
    PROVE  \/ registrations'[m] = registrations[m]
           \/ m = o /\ registrations'[m] = registrations[m] + 1
<1>1. registrations \in [Nodes -> Nat]
  BY DEF Typed, TypeOK, OwnerTypeOK
<1>2. CASE registered[o]
  BY <1>2 DEF RegisterRequest
<1>3. CASE ~registered[o]
  <2>1. registrations' = [registrations EXCEPT ![o] = @ + 1]
    BY <1>3 DEF RegisterRequest
  <2> QED BY <1>1, <2>1
<1> QED BY <1>2, <1>3

(* Nothing but its forward enters the query at an owner. *)
LEMMA OnceKeeps ==
    ASSUME Typed, Control, Smooth, Smooth', FaultlessInv, [Next]_vars,
           \A n \in Nodes : Once(n)
    PROVE  \A n \in Nodes : Once(n)'
<1>0. /\ registrations \in [Nodes -> Nat] /\ Self \in Nodes
      /\ toForward \subseteq Remote
      /\ \A o \in Remote : lateForward[o] = 0 /\ up[o] /\ up[Hop[o]]
  BY GatewayAssumption DEF Typed, TypeOK, OwnerTypeOK, Nodes, FaultlessInv,
     Faultless, Undisturbed, Smooth
<1> SUFFICES ASSUME NEW n \in Nodes PROVE Once(n)'
  OBVIOUS
<1>1. ASSUME registrations'[n] = registrations[n], toForward' \subseteq toForward,
             submit' = "idle" => submit = "idle"
      PROVE  Once(n)'
  BY <1>1 DEF Once
<1>2. CASE SubmitQuery
  <2>1. submit = "idle" /\ submit' = "forward" /\ toForward' = Eligible \ {Self}
    BY <1>2 DEF SubmitQuery, Control, ClientPlace
  <2>2. \/ registrations'[n] = registrations[n]
        \/ n = Self /\ registrations'[n] = registrations[n] + 1
    BY <1>0, <1>2, RegisterCounts DEF SubmitQuery
  <2>3. registrations[n] = 0
    BY <2>1 DEF Once
  <2> QED BY <2>1, <2>2, <2>3 DEF Once
<1>3. ASSUME NEW o \in Remote, ForwardAttempt(o)
      PROVE  Once(n)'
  <2>1. o \in toForward /\ submit' = submit
    BY <1>3 DEF ForwardAttempt, IsNext
  <2>2. CASE ForwardAccepted(o)
    <3>1. toForward' = toForward \ {o}
      BY <2>2 DEF ForwardAccepted, ForwardedTo
    <3>2. \/ registrations'[n] = registrations[n]
          \/ n = o /\ registrations'[n] = registrations[n] + 1
      BY <2>2, RegisterCounts, RemoteIsNode DEF ForwardAccepted
    <3>3. CASE registrations'[n] = registrations[n]
      BY <1>1, <2>1, <3>1, <3>3
    <3>4. CASE n = o /\ registrations'[n] = registrations[n] + 1
      <4>1. registrations[n] = 0 /\ submit # "idle"
        BY <2>1, <3>4 DEF Once, Control, SubmitPlace
      <4> QED BY <2>1, <3>1, <3>4, <4>1 DEF Once
    <3> QED BY <3>2, <3>3, <3>4
  <2>3. CASE ForwardUnavailable(o) \/ ForwardRelayFailed(o)
    BY <1>0, <2>3 DEF ForwardUnavailable, ForwardRelayFailed
  <2>4. CASE ForwardDeadline(o)
    BY <2>4 DEF ForwardDeadline, Smooth
  <2> QED BY <1>3, <2>2, <2>3, <2>4 DEF ForwardAttempt
<1>4. ASSUME NEW o \in Remote, FaultStep(o)
      PROVE  Once(n)'
  <2>1. UNCHANGED <<registrations, toForward, submit>>
    BY <1>0, <1>4 DEF FaultStep, PrefetcherDeadline, PullExpire, ForwardLate,
       PullLate, LateFindDrain, LateFinish, NodeCrash, Unaffected, submitVars
  <2> QED BY <1>1, <2>1
<1>5. CASE \/ SpawnPrefetchers \/ FetchBegin \/ FetchStep \/ CancelBegin
           \/ CancelStep \/ ClientLeave \/ ProduceNotify
           \/ (\E m \in Nodes : Produce(m))
           \/ (\E o \in Remote : Prefetch(o) \/ PullChunk(o) \/ NodeUp(o))
           \/ Finish \/ UNCHANGED vars
  <2>1. CASE SpawnPrefetchers
    BY <1>1, <2>1 DEF SpawnPrefetchers, ownerVars
  <2>2. CASE FetchBegin \/ CancelBegin \/ ClientLeave \/ ProduceNotify
             \/ Finish \/ UNCHANGED vars
    <3>1. UNCHANGED <<registrations, submitVars>>
      BY <2>2 DEF FetchBegin, CancelBegin, ClientLeave, ProduceNotify, Finish,
         vars, ownerVars
    <3> QED BY <1>1, <3>1 DEF submitVars
  <2>3. CASE FetchStep
    <3>1. UNCHANGED <<registrations, submitVars>>
      BY <2>3 DEF FetchStep, FetchServe, FetchArm, FetchBlock, FetchDrop,
         FetchJoin, FetchReply, DropRequest, ownerVars
    <3> QED BY <1>1, <3>1 DEF submitVars
  <2>4. CASE CancelStep
    <3>1. UNCHANGED <<registrations, submitVars>>
      BY <2>4 DEF CancelStep, CancelClear, CancelFan, CancelRequest,
         CancelDrop, DropRequest, CancelJoin, CancelReply, ownerVars
    <3> QED BY <1>1, <3>1 DEF submitVars
  <2>5. ASSUME NEW m \in Nodes, Produce(m) PROVE Once(n)'
    <3>1. UNCHANGED <<registrations, submitVars>>
      BY <2>5 DEF Produce, ProduceBegin, ProduceCheck, ProduceRow,
         ProduceStore, ProduceEmptyPart
    <3> QED BY <1>1, <3>1 DEF submitVars
  <2>6. ASSUME NEW o \in Remote, Prefetch(o) \/ PullChunk(o) \/ NodeUp(o)
        PROVE  Once(n)'
    <3>1. UNCHANGED <<registrations, submitVars>>
      BY <2>6 DEF Prefetch, PrefetcherCheck, PrefetcherStop, PrefetcherWait,
         PrefetcherPull, PullSend, PrefetcherReply, PrefetcherError,
         PullReturn, PullChunk, PullFindDrain, Drained, PullFinish, PullFail,
         NodeUp, Unaffected, ownerVars
    <3> QED BY <1>1, <3>1 DEF submitVars
  <2> QED BY <1>5, <2>1, <2>2, <2>3, <2>4, <2>5, <2>6
<1> QED BY <1>2, <1>3, <1>4, <1>5 DEF Next

(* A step that takes nothing from owner o: neither the query nor an answer. *)
Kept(o) ==
    /\ submit' # "idle" /\ o \notin toForward' =>
          submit # "idle" /\ o \notin toForward
    /\ registered[o] => registered'[o]
    /\ pull'[o].last = pull[o].last
    /\ pull'[o].stage = pull[o].stage \/ pull'[o].stage # "error"
    /\ prefetch_done_map'[o] = prefetch_done_map[o]
    /\ client_producers_done'[o] /\ submit' # "idle" => Closed(o)
    /\ o \in owners_responded => o \in owners_responded'

(* What is kept serves on. *)
LEMMA KeptKeeps ==
    ASSUME NEW o \in Remote, Served(o), Kept(o)
    PROVE  Served(o)'
BY DEF Served, Kept, Closed

(* An owner with rows is served in every clean run without a failure. *)
LEMMA ServedKeeps ==
    ASSUME NothingFails, GatewayInv, FaultlessInv, SmoothInv, Smooth',
           [Next]_vars, Clean', NEW p \in Remote, NRows[p] > 0
    PROVE  Served(p)'
<1>0. /\ Typed /\ Control /\ Slots /\ Smooth /\ Clean /\ Served(p) /\ Slotted(p)
      /\ p \in Eligible /\ p \in HasPart /\ p \in Nodes /\ p \in Owners
      /\ p # Self /\ cancel = "idle"
      /\ \A o \in Remote : /\ up[o] /\ up[Hop[o]] /\ lateForward[o] = 0
                           /\ lateSent[o] = 0 /\ lateEmpty[o] = 0
      /\ registered \in [Nodes -> BOOLEAN]
      /\ client_producers_done \in [Owners -> BOOLEAN]
      /\ prefetch_done_map \in [Remote -> BOOLEAN]
  <2>1. Typed /\ Control /\ Slots /\ Smooth
    BY DEF GatewayInv, SmoothInv
  <2>2. Clean
    BY <2>1, CleanStays
  <2>3. Served(p) /\ Slotted(p)
    BY <2>1, <2>2 DEF SmoothInv, Slots
  <2>4. p \in Nodes /\ p \in Owners /\ p # Self
    BY DEF Remote, Nodes
  <2>5. p \in Eligible /\ p \in HasPart
    <3>1. NRows[p] # 0
      BY <2>4, OwnerAssumption
    <3> QED BY <2>4, <3>1, OwnerAssumption DEF NothingFails
  <2>6. cancel = "idle"
    BY <2>1, <2>2 DEF Control, StopPlace, Clean
  <2>7. \A o \in Remote : /\ up[o] /\ up[Hop[o]] /\ lateForward[o] = 0
                          /\ lateSent[o] = 0 /\ lateEmpty[o] = 0
    BY <2>1, GatewayAssumption DEF Smooth, FaultlessInv, Faultless, Undisturbed
  <2>8. /\ registered \in [Nodes -> BOOLEAN]
        /\ client_producers_done \in [Owners -> BOOLEAN]
        /\ prefetch_done_map \in [Remote -> BOOLEAN]
    BY <2>1 DEF Typed, TypeOK, OwnerTypeOK
  <2> QED BY <2>1, <2>2, <2>3, <2>4, <2>5, <2>6, <2>7, <2>8
<1>1. ASSUME UNCHANGED <<submit, toForward, pull, stateVars>>,
             registered'[p] = registered[p]
      PROVE  Served(p)'
  <2>1. Kept(p)
    BY <1>1 DEF Kept, Closed, stateVars
  <2> QED BY <1>0, <2>1, KeptKeeps
<1>2. CASE SubmitQuery
  <2>1. prefetcher[p] = "none" /\ submit = "idle"
    BY <1>0, <1>2 DEF SubmitQuery, Control, ClientPlace, SubmitPlace
  <2>2. pull[p] = NoCall /\ ~prefetch_done_map[p]
    BY <1>0, <2>1 DEF Slotted
  <2>3. /\ p \in toForward' /\ ~client_producers_done'[p]
        /\ pull' = pull /\ prefetch_done_map' = prefetch_done_map
    BY <1>0, <1>2 DEF SubmitQuery, RegisterRequest, callVars
  <2> QED BY <2>2, <2>3 DEF Served, Closed, NoCall
<1>3. ASSUME NEW o \in Remote, ForwardAttempt(o)
      PROVE  Served(p)'
  <2>1. ForwardAccepted(o) /\ submit = "forward"
    <3>1. ~ForwardDeadline(o)
      BY DEF ForwardDeadline, Smooth, SmoothInv
    <3> QED BY <1>0, <1>3, <3>1
            DEF ForwardAttempt, ForwardUnavailable, ForwardRelayFailed
  <2>2. /\ UNCHANGED <<submit, pull, stateVars>>
        /\ toForward' = toForward \ {o}
    BY <1>3, <2>1 DEF ForwardAttempt, ForwardAccepted, ForwardedTo,
       RegisterRequest, callVars, stateVars
  <2>3. registered'[p] <=> registered[p] \/ p = o
    <3>1. RegisterRequest(o) /\ o \in Nodes
      BY <2>1, RemoteIsNode DEF ForwardAccepted
    <3>2. CASE registered[o]
      BY <1>0, <3>1, <3>2 DEF RegisterRequest, requestVars
    <3>3. CASE ~registered[o]
      <4>1. registered' = [registered EXCEPT ![o] = TRUE]
        BY <3>1, <3>3 DEF RegisterRequest
      <4> QED BY <1>0, <3>1, <4>1
    <3> QED BY <3>2, <3>3
  <2> QED BY <1>0, <2>1, <2>2, <2>3 DEF Served, Closed, stateVars
<1>4. CASE SpawnPrefetchers
  <2>1. /\ submit = "forward" /\ submit' = "done"
        /\ UNCHANGED <<toForward, pull, stateVars, registered>>
    BY <1>4 DEF SpawnPrefetchers, ownerVars, callVars, requestVars
  <2> QED BY <1>0, <2>1 DEF Served, Closed, stateVars
<1>5. CASE FetchBegin \/ FetchArm \/ FetchBlock \/ FetchJoin \/ FetchReply
           \/ ClientLeave \/ Finish \/ UNCHANGED vars
  <2>1. UNCHANGED <<ownerVars, stateVars, submitVars>>
    BY <1>5 DEF FetchBegin, FetchArm, FetchBlock, FetchJoin, FetchReply,
       ClientLeave, Finish, vars
  <2> QED BY <1>1, <2>1 DEF ownerVars, requestVars, callVars, submitVars
<1>6. ASSUME NEW m \in FetchSizes, FetchServe(m)
      PROVE  Served(p)'
  <2>1. client_producers_done'[p] =>
           client_producers_done[p] \/ prefetch_done_map[p]
    BY <1>0, <1>6 DEF FetchServe, Promoted, Ended
  <2>2. UNCHANGED <<registered, pull, submit, toForward, prefetch_done_map,
                    owners_responded>>
    BY <1>6 DEF FetchServe, callVars, submitVars
  <2> QED BY <1>0, <2>1, <2>2, KeptKeeps DEF Kept, Closed
<1>7. CASE FetchDrop
  <2>1. /\ UNCHANGED <<pull, submit, toForward, prefetch_done_map,
                       client_producers_done, owners_responded>>
        /\ registered'[p] = registered[p]
    BY <1>0, <1>7 DEF FetchDrop, DropRequest, callVars, submitVars
  <2> QED BY <1>0, <2>1, KeptKeeps DEF Kept, Closed
(* A cancel that finds the query has cost rows; one that does not, has not. *)
<1>8. CASE CancelBegin
  <2>1. ~registered[Self]
    <3>1. cancelled \in [Nodes -> BOOLEAN] /\ Self \in Nodes
      BY <1>0 DEF Typed, TypeOK, OwnerTypeOK, Nodes
    <3> QED BY <1>8, <3>1 DEF CancelBegin, Clean
  <2>2. /\ UNCHANGED <<registered, pull, submit, toForward, prefetch_done_map,
                       client_producers_done, owners_responded>>
    BY <1>8, <2>1 DEF CancelBegin, callVars, submitVars
  <2> QED BY <1>0, <2>2, KeptKeeps DEF Kept, Closed
<1>9. ~CancelStep
  BY <1>0 DEF CancelStep, CancelClear, CancelFan, CancelDrop, CancelJoin,
     CancelReply
<1>10. ASSUME NEW n \in Nodes, Produce(n)
       PROVE  Served(p)'
  <2>1. UNCHANGED <<registered, pull, stateVars, submitVars>>
    BY <1>10 DEF Produce, ProduceBegin, ProduceCheck, ProduceRow,
       ProduceStore, ProduceEmptyPart, requestVars, callVars
  <2> QED BY <1>1, <2>1 DEF submitVars
<1>11. CASE ProduceNotify
  BY <1>1, <1>11 DEF ProduceNotify, requestVars, callVars, submitVars
<1>12. ASSUME NEW o \in Remote, PrefetcherCheck(o)
       PROVE  Served(p)'
  <2>1. /\ UNCHANGED <<registered, stateVars, submitVars>>
        /\ \/ pull' = pull
           \/ /\ pull[o].stage = "none"
              /\ pull' = [pull EXCEPT ![o] = Sent]
    BY <1>12 DEF PrefetcherCheck, PrefetcherStop, PrefetcherWait,
       PrefetcherPull, PullSend, ownerVars, requestVars, callVars
  <2>2. \/ pull'[p] = pull[p]
        \/ pull'[p] = Sent /\ pull[p] = NoCall
    BY <1>0, <2>1 DEF Slotted, Typed, TypeOK, OwnerTypeOK
  <2>3. /\ pull'[p].last = pull[p].last
        /\ \/ pull'[p].stage = pull[p].stage
           \/ pull'[p].stage # "error"
    <3>1. CASE pull'[p] = pull[p]
      BY <3>1
    <3>2. CASE pull'[p] = Sent /\ pull[p] = NoCall
      <4>1. pull'[p].last = Sent.last /\ pull[p].last = NoCall.last
        BY <3>2
      <4>2. Sent.last = NoCall.last /\ Sent.stage # "error"
        BY DEF Sent, NoCall
      <4> QED BY <3>2, <4>1, <4>2
    <3> QED BY <2>2, <3>1, <3>2
  <2>4. UNCHANGED <<submit, toForward, client_producers_done,
                    prefetch_done_map, owners_responded>>
    BY <2>1 DEF stateVars, submitVars
  <2>5. Kept(p)
    BY <2>1, <2>3, <2>4 DEF Kept, Closed
  <2> QED BY <1>0, <2>5, KeptKeeps
<1>13. ASSUME NEW o \in Remote, PrefetcherReply(o)
       PROVE  Served(p)'
  <2>1. /\ UNCHANGED <<registered, submit, toForward, client_producers_done>>
        /\ pull' = [pull EXCEPT ![o] = NoCall]
        /\ owners_responded' = owners_responded \cup {o}
        /\ prefetch_done_map' =
              [prefetch_done_map EXCEPT ![o] = @ \/ pull[o].last]
    BY <1>13 DEF PrefetcherReply, PullReturn, requestVars, submitVars
  <2>2. CASE p = o
    <3>1. pull'[p] = NoCall
      BY <1>0, <2>1, <2>2 DEF Typed, TypeOK, OwnerTypeOK
    <3>2. prefetch_done_map'[p] <=> prefetch_done_map[p] \/ pull[p].last
      BY <1>0, <2>1, <2>2
    <3>3. p \in owners_responded'
      BY <2>1, <2>2
    <3> QED BY <1>0, <2>1, <3>1, <3>2, <3>3 DEF Served, NoCall
  <2>3. CASE p # o
    <3>1. pull'[p] = pull[p] /\ prefetch_done_map'[p] = prefetch_done_map[p]
      BY <1>0, <2>1, <2>3 DEF Typed, TypeOK, OwnerTypeOK
    <3> QED BY <1>0, <2>1, <3>1, KeptKeeps DEF Kept, Closed
  <2> QED BY <2>2, <2>3
<1>14. ASSUME NEW o \in Remote, PrefetcherError(o)
       PROVE  Served(p)'
  <2>1. p # o
    BY <1>0, <1>14 DEF PrefetcherError, Served
  <2>2. /\ UNCHANGED <<registered, submit, toForward, owners_responded>>
        /\ pull' = [pull EXCEPT ![o] = NoCall]
        /\ prefetch_done_map' = [prefetch_done_map EXCEPT ![o] = TRUE]
        /\ client_producers_done' = [client_producers_done EXCEPT ![o] = TRUE]
    BY <1>14 DEF PrefetcherError, PullReturn, requestVars, submitVars
  <2>3. /\ pull'[p] = pull[p]
        /\ prefetch_done_map'[p] = prefetch_done_map[p]
        /\ client_producers_done'[p] = client_producers_done[p]
    BY <1>0, <2>1, <2>2 DEF Typed, TypeOK, OwnerTypeOK
  <2> QED BY <1>0, <2>2, <2>3, KeptKeeps DEF Kept, Closed
<1>15. ASSUME NEW o \in Remote, PullChunk(o)
       PROVE  Served(p)'
  <2>0. /\ UNCHANGED <<stateVars, submitVars>> /\ o \in Nodes
        /\ pull \in [Remote ->
              [stage : {"none", "sent", "found", "drained", "replied", "error"},
               rows : Seq(Nat), last : BOOLEAN]]
    BY <1>0, <1>15, RemoteIsNode DEF PullChunk, Typed, TypeOK, OwnerTypeOK
  <2>1. CASE p # o
    <3>1. pull'[p] = pull[p]
      BY <1>0, <1>15, <2>1, OtherCalls
    <3>2. registered'[p] = registered[p]
      BY <1>0, <1>15, <2>0, <2>1 DEF PullChunk, PullFindDrain, Drained,
         PullFinish, DropAtLast, PullFail, requestVars
    <3> QED BY <1>0, <2>0, <3>1, <3>2, KeptKeeps
            DEF Kept, Closed, stateVars, submitVars
  <2>2. CASE p = o /\ PullFindDrain(o, PullMax[o])
    <3>1. registered' = registered /\ ~pull'[p].last /\ pull'[p].stage = "drained"
      BY <2>0, <2>2 DEF PullFindDrain, Drained
    <3>2. ~pull[p].last /\ pull[p].last \in BOOLEAN /\ pull'[p].last \in BOOLEAN
      BY <1>0, <2>0, <2>2 DEF PullFindDrain, Drained, Slotted
    <3>3. Kept(p)
      BY <2>0, <3>1, <3>2 DEF Kept, Closed, stateVars, submitVars
    <3> QED BY <1>0, <3>3, KeptKeeps
  <2>3. CASE p = o /\ PullFinish(o)
    <3>1. /\ pull'[p].stage = "replied" /\ ~pull[p].last
          /\ registered'[p] = (registered[p] /\ ~pull'[p].last)
      <4>1. pull[p].stage = "drained"
        BY <2>3 DEF PullFinish
      <4> QED BY <1>0, <2>0, <2>3, <4>1 DEF PullFinish, DropAtLast, Slotted
    <3> QED BY <1>0, <2>0, <3>1 DEF Served, Closed, stateVars, submitVars
  (* It is there and holds the query: the call does not fail. *)
  <2>4. CASE p = o /\ (~up[Hop[o]] \/ ~up[o] \/ PullNotFound(o)) /\ PullFail(o)
    <3>1. pull[p].stage = "sent" /\ ~registered[p]
      BY <1>0, <2>4 DEF PullFail, PullNotFound
    <3>2. prefetcher[p] = "pull" /\ ~pull[p].last /\ ~prefetch_done_map[p]
      BY <1>0, <3>1 DEF Slotted
    <3>3. submit = "done" /\ toForward = {}
      BY <1>0, <3>2 DEF Control, SubmitPlace
    <3> QED BY <1>0, <3>1, <3>2, <3>3 DEF Served
  <2> QED BY <1>15, <2>1, <2>2, <2>3, <2>4 DEF PullChunk
<1>16. ASSUME NEW o \in Remote, NodeUp(o) \/ FaultStep(o)
       PROVE  FALSE
  BY <1>0, <1>16 DEF NodeUp, FaultStep, PrefetcherDeadline, ForwardLate,
     PullLate, LateFindDrain, LateFinish, NodeCrash, Smooth
<1> QED BY <1>2, <1>3, <1>4, <1>5, <1>6, <1>7, <1>8, <1>9, <1>10, <1>11,
           <1>12, <1>13, <1>14, <1>15, <1>16 DEF Next, FetchStep, Prefetch

(* Nothing has failed in any run, and every owner with rows is served. *)
LEMMA SmoothInvariant ==
    ASSUME NothingFails
    PROVE  Spec => []SmoothInv
<1>1. Init => SmoothInv
  <2> SUFFICES ASSUME Init PROVE SmoothInv
    OBVIOUS
  <2>1. Smooth
    BY DEF NothingFails, Smooth, Init, OwnerInit
  <2>2. \A n \in Nodes : Once(n)
    BY DEF Init, OwnerInit, Once
  <2>3. ASSUME NEW o \in Remote PROVE Served(o)
    BY DEF Init, OwnerInit, Served, Closed, NoCall
  <2> QED BY <2>1, <2>2, <2>3 DEF SmoothInv
<1>2. GatewayInv /\ FaultlessInv /\ SmoothInv /\ [Next]_vars => SmoothInv'
  <2> SUFFICES ASSUME GatewayInv, FaultlessInv, SmoothInv, [Next]_vars
               PROVE  SmoothInv'
    OBVIOUS
  <2>1. Smooth'
    BY SmoothStays DEF GatewayInv, SmoothInv
  <2>2. \A n \in Nodes : Once(n)'
    BY <2>1, OnceKeeps DEF GatewayInv, SmoothInv
  <2>3. Clean' => \A o \in Remote : NRows[o] > 0 => Served(o)'
    BY <2>1, ServedKeeps
  <2> QED BY <2>1, <2>2, <2>3 DEF SmoothInv
<1> QED BY <1>1, <1>2, GatewayInvariant, FaultlessInvariant, PTL DEF Spec

(* Nobody's rows are at the gateway before it has answered. *)
Silent(o) ==
    o \notin owners_responded =>
        delivered[o] = <<>> /\ chunk[o] = <<>> /\ prefetch_buf[o] = <<>>

SilentInv == \A o \in Remote : Silent(o)

(* What is on its way counts as an answer first. *)
LEMMA SilentKeeps ==
    ASSUME Typed, Control, SilentInv, [Next]_vars
    PROVE  SilentInv'
<1> SUFFICES ASSUME NEW p \in Remote, p \notin owners_responded'
             PROVE  /\ delivered'[p] = <<>> /\ chunk'[p] = <<>>
                    /\ prefetch_buf'[p] = <<>>
  BY DEF SilentInv, Silent
<1>0. /\ p \notin owners_responded => Silent(p)
      /\ prefetch_buf \in [Remote -> Seq(Nat)] /\ p \in Nodes /\ p # Self
  BY RemoteIsNode DEF SilentInv, Typed, TypeOK, Remote
<1>1. p \notin owners_responded
  <2>1. CASE SubmitQuery
    BY <2>1 DEF SubmitQuery, Control, ClientPlace, SubmitPlace, Remote
  <2>2. CASE ~SubmitQuery
    <3>1. owners_responded \subseteq owners_responded'
      <4>1. ASSUME NEW o \in Remote,
                   ForwardAttempt(o) \/ PullChunk(o) \/ NodeUp(o) \/ FaultStep(o)
            PROVE  owners_responded' = owners_responded
        BY <4>1 DEF ForwardAttempt, PullChunk, NodeUp, FaultStep,
           PrefetcherDeadline, ForwardLate, PullLate, NodeCrash, Unaffected,
           stateVars
      <4>2. ASSUME NEW o \in Remote, Prefetch(o)
            PROVE  owners_responded \subseteq owners_responded'
        BY <4>2 DEF Prefetch, PrefetcherCheck, PrefetcherReply,
           PrefetcherError, stateVars
      <4>3. CASE FetchStep \/ CancelStep
        BY <4>3 DEF FetchStep, FetchServe, FetchArm, FetchBlock, FetchDrop,
           FetchJoin, FetchReply, CancelStep, CancelClear, CancelFan,
           CancelDrop, CancelJoin, CancelReply, DropRequest, stateVars
      <4>4. CASE SpawnPrefetchers \/ FetchBegin \/ CancelBegin \/ ClientLeave
                 \/ ProduceNotify \/ (\E n \in Nodes : Produce(n)) \/ Finish
                 \/ UNCHANGED vars
        BY <4>4 DEF SpawnPrefetchers, FetchBegin, CancelBegin, ClientLeave,
           ProduceNotify, Produce, Finish, vars, stateVars
      <4> QED BY <2>2, <4>1, <4>2, <4>3, <4>4 DEF Next
    <3> QED BY <3>1
  <2> QED BY <2>1, <2>2
<1>2. delivered[p] = <<>> /\ chunk[p] = <<>> /\ prefetch_buf[p] = <<>>
  BY <1>0, <1>1 DEF Silent
<1>3. ASSUME UNCHANGED <<delivered, chunk>>,
             prefetch_buf'[p] = prefetch_buf[p]
      PROVE  /\ delivered'[p] = <<>> /\ chunk'[p] = <<>>
             /\ prefetch_buf'[p] = <<>>
  BY <1>2, <1>3
<1>4. ASSUME NEW m \in FetchSizes, FetchServe(m)
      PROVE  /\ delivered'[p] = <<>> /\ chunk'[p] = <<>>
             /\ prefetch_buf'[p] = <<>>
  <2>1. Source(p) = <<>>
    BY <1>0, <1>2 DEF Source
  <2>2. PICK take \in RoundRobin(m) :
           /\ chunk' = [n \in Nodes |-> SubSeq(Source(n), 1, take[n])]
           /\ prefetch_buf' = [o \in Remote |-> Left(o, take[o])]
    BY <1>4 DEF FetchServe
  <2>3. take[p] = 0
    <3>1. take[p] \in 0..m /\ take[p] <= Len(Source(p)) /\ m \in Nat
      BY <1>0, GatewayAssumption DEF RoundRobin
    <3> QED BY <2>1, <3>1, EmptySeq
  <2>4. SubSeq(<<>>, 1, 0) = <<>> /\ SubSeq(<<>>, 1, Len(<<>>)) = <<>>
    BY EmptySeq, SubSeqProperties
  <2>5. chunk'[p] = <<>> /\ prefetch_buf'[p] = <<>>
    BY <1>0, <2>1, <2>2, <2>3, <2>4, EmptySeq DEF Left
  <2> QED BY <1>2, <1>4, <2>5 DEF FetchServe, clientVars
<1>5. CASE FetchReply
  <2>1. <<>> \o <<>> = <<>>
    BY EmptySeq, ConcatEmptySeq
  <2> QED BY <1>0, <1>2, <1>5, <2>1 DEF FetchReply, stateVars
<1>6. CASE CancelClear
  BY <1>2, <1>6 DEF CancelClear, clientVars
<1>7. CASE SubmitQuery
  BY <1>3, <1>7 DEF SubmitQuery, fetchVars
<1>8. ASSUME NEW o \in Remote, PrefetcherReply(o)
      PROVE  /\ delivered'[p] = <<>> /\ chunk'[p] = <<>>
             /\ prefetch_buf'[p] = <<>>
  BY <1>0, <1>3, <1>8 DEF PrefetcherReply, clientVars
<1>9. ASSUME NEW o \in Remote, PrefetcherCheck(o) \/ PrefetcherError(o)
      PROVE  /\ delivered'[p] = <<>> /\ chunk'[p] = <<>>
             /\ prefetch_buf'[p] = <<>>
  BY <1>3, <1>9 DEF PrefetcherCheck, PrefetcherError, clientVars, stateVars,
     fetchVars
<1>10. ASSUME NEW o \in Remote,
              ForwardAttempt(o) \/ PullChunk(o) \/ NodeUp(o) \/ FaultStep(o)
       PROVE  /\ delivered'[p] = <<>> /\ chunk'[p] = <<>>
              /\ prefetch_buf'[p] = <<>>
  BY <1>3, <1>10 DEF ForwardAttempt, PullChunk, NodeUp, FaultStep,
     PrefetcherDeadline, ForwardLate, PullLate, NodeCrash, Unaffected,
     clientVars, stateVars, fetchVars
<1>11. CASE \/ FetchArm \/ FetchBlock \/ FetchDrop \/ FetchJoin
            \/ (\E o \in Remote : CancelFan(o))
            \/ CancelDrop \/ CancelJoin \/ CancelReply
  BY <1>3, <1>11 DEF FetchArm, FetchBlock, FetchDrop, FetchJoin, CancelFan,
     CancelDrop, CancelJoin, CancelReply, DropRequest, clientVars, stateVars,
     fetchVars
<1>12. CASE SpawnPrefetchers \/ FetchBegin \/ CancelBegin \/ ClientLeave
            \/ ProduceNotify \/ (\E n \in Nodes : Produce(n)) \/ Finish
            \/ UNCHANGED vars
  BY <1>3, <1>12 DEF SpawnPrefetchers, FetchBegin, CancelBegin, ClientLeave,
     ProduceNotify, Produce, Finish, vars, clientVars, stateVars, fetchVars
<1> QED BY <1>4, <1>5, <1>6, <1>7, <1>8, <1>9, <1>10, <1>11, <1>12
        DEF Next, FetchStep, CancelStep, Prefetch

(* So it is throughout. *)
LEMMA SilentInvariant == Spec => []SilentInv
<1>1. Init => SilentInv
  BY RemoteIsNode DEF Init, SilentInv, Silent
<1>2. GatewayInv /\ SilentInv /\ [Next]_vars => SilentInv'
  BY SilentKeeps DEF GatewayInv
<1> QED BY <1>1, <1>2, GatewayInvariant, PTL DEF Spec

(* What the client has of node n once the chunk on its way has arrived. *)
Ahead(n) == delivered[n] \o chunk[n]

(* The first stretch of the first k rows. *)
LEMMA RowsFront ==
    ASSUME NEW s \in Seq(Nat), NEW t \in Seq(Nat), NEW k \in Nat,
           s \o t = Rows(k)
    PROVE  s = Rows(Len(s)) /\ Len(s) <= k
<1>1. Len(s) \in Nat /\ Len(t) \in Nat /\ s \o t \in Seq(Nat)
  BY LenProperties, ConcatProperties
<1>2. Len(s) + Len(t) = k
  <2>1. Len(s \o t) = Len(s) + Len(t)
    BY ConcatProperties
  <2>2. Len(Rows(k)) = k
    BY DEF Rows
  <2> QED BY <2>1, <2>2
<1>3. ASSUME NEW i \in 1..Len(s)
      PROVE  s[i] = i
  <2>1. (s \o t)[i] = s[i]
    BY ConcatProperties
  <2>2. Rows(k)[i] = i
    BY <1>1, <1>2 DEF Rows
  <2> QED BY <2>1, <2>2
<1>4. s = [i \in 1..Len(s) |-> s[i]]
  BY LenProperties
<1> QED BY <1>1, <1>2, <1>3, <1>4 DEF Rows

(* The stretches, cut behind the chunk. *)
LEMMA CutAhead ==
    ASSUME Typed, NEW n \in Nodes
    PROVE  /\ Ahead(n) \in Seq(Nat)
           /\ Slot(n) \o (Reply(n) \o matched[n]) \in Seq(Nat)
           /\ Slot(n) \o (Reply(n) \o <<>>) \in Seq(Nat)
           /\ Stream(n) = Ahead(n) \o (Slot(n) \o (Reply(n) \o matched[n]))
           /\ Got(n) = Ahead(n) \o (Slot(n) \o (Reply(n) \o <<>>))
<1>1. /\ delivered[n] \in Seq(Nat) /\ chunk[n] \in Seq(Nat)
      /\ Slot(n) \in Seq(Nat) /\ Reply(n) \in Seq(Nat)
      /\ matched[n] \in Seq(Nat) /\ <<>> \in Seq(Nat)
  BY StretchTypes, EmptySeq
<1>2. Ahead(n) \in Seq(Nat)
  BY <1>1, ConcatProperties DEF Ahead
<1>3. /\ Slot(n) \o (Reply(n) \o matched[n]) \in Seq(Nat)
      /\ Slot(n) \o (Reply(n) \o <<>>) \in Seq(Nat)
  BY <1>1, FiveTypes
<1>4. ASSUME NEW u \in Seq(Nat)
      PROVE  (delivered[n] \o chunk[n]) \o u = delivered[n] \o (chunk[n] \o u)
  <2> DEFINE d == delivered[n]
             c == chunk[n]
  <2>1. d \in Seq(Nat) /\ c \in Seq(Nat)
    BY <1>1
  <2> HIDE DEF d, c
  <2>2. (d \o c) \o u = d \o (c \o u)
    BY <1>4, <2>1, RowsAssociate, Zenon
  <2> QED BY <2>2 DEF d, c
<1>5. Stream(n) = Ahead(n) \o (Slot(n) \o (Reply(n) \o matched[n]))
  BY <1>3, <1>4, Zenon DEF Stream, Five, Ahead
<1>6. Got(n) = Ahead(n) \o (Slot(n) \o (Reply(n) \o <<>>))
  BY <1>3, <1>4, Zenon DEF Got, Five, Ahead
<1> QED BY <1>2, <1>3, <1>5, <1>6

(* All that the parts of the argument know. *)
StreamInv ==
    /\ GatewayInv /\ CountInv /\ HonestInv /\ AllInOrder
    /\ SilentInv /\ SmoothInv

(* In any case the rows come in order, and within the owner's. *)
LEMMA AheadInOrder ==
    ASSUME StreamInv, NEW n \in Nodes
    PROVE  /\ Ahead(n) \in Seq(Nat)
           /\ Ordered(Ahead(n), matched_cursor[n])
           /\ matched_cursor[n] \in Nat /\ NRows[n] \in Nat
           /\ matched_cursor[n] <= NRows[n]
<1>1. Typed /\ OwnerInv
  BY DEF StreamInv, GatewayInv, Typed
<1>2. Ordered(Stream(n), matched_cursor[n])
  BY DEF StreamInv, AllInOrder, InOrder, SmoothInv, Once
<1>3. /\ matched_cursor[n] \in Nat /\ NRows[n] \in Nat
      /\ matched_cursor[n] <= NRows[n]
  BY <1>1, OwnerFacts DEF OwnerInv, CursorInRange
<1>4. /\ Ahead(n) \in Seq(Nat)
      /\ Slot(n) \o (Reply(n) \o matched[n]) \in Seq(Nat)
      /\ Stream(n) = Ahead(n) \o (Slot(n) \o (Reply(n) \o matched[n]))
  BY <1>1, CutAhead
<1>5. Ordered(Ahead(n), matched_cursor[n])
  BY <1>2, <1>3, <1>4, OrderedFront
<1> QED BY <1>3, <1>4, <1>5

(* As long as nothing has cost a row, none is missing. *)
LEMMA AheadWhole ==
    ASSUME StreamInv, Clean, submit = "done", NEW n \in Nodes
    PROVE  Ahead(n) = Rows(Len(Ahead(n))) /\ Len(Ahead(n)) <= NRows[n]
<1>0. /\ Typed /\ Ahead(n) \in Seq(Nat) /\ Len(Ahead(n)) \in Nat
      /\ matched_cursor[n] \in Nat /\ NRows[n] \in Nat
      /\ matched_cursor[n] <= NRows[n]
  BY AheadInOrder, LenProperties DEF StreamInv, GatewayInv
<1>1. CASE Whole(Stream(n), matched_cursor[n])
  <2>1. Ahead(n) \o (Slot(n) \o (Reply(n) \o matched[n]))
           = Rows(matched_cursor[n])
    BY <1>0, <1>1, CutAhead DEF Whole
  <2>2. Slot(n) \o (Reply(n) \o matched[n]) \in Seq(Nat)
    BY <1>0, CutAhead
  <2>3. Ahead(n) = Rows(Len(Ahead(n))) /\ Len(Ahead(n)) <= matched_cursor[n]
    BY <1>0, <2>1, <2>2, RowsFront
  <2> QED BY <1>0, <2>3
<1>2. CASE Whole(Got(n), NRows[n])
  <2>1. Ahead(n) \o (Slot(n) \o (Reply(n) \o <<>>)) = Rows(NRows[n])
    BY <1>0, <1>2, CutAhead DEF Whole
  <2>2. Slot(n) \o (Reply(n) \o <<>>) \in Seq(Nat)
    BY <1>0, CutAhead
  <2> QED BY <1>0, <2>1, <2>2, RowsFront
<1>3. CASE Ahead(n) = <<>>
  BY <1>0, <1>3, NoRows
<1>4. CASE n = Self
  BY <1>1, <1>4 DEF StreamInv, HonestInv, HonestSelf
<1>5. CASE n # Self
  <2>0. n \in Remote /\ Honest(n)
    BY <1>5 DEF Nodes, Remote, StreamInv, HonestInv
  <2>1. CASE registered[n] /\ ~Closed(n)
    BY <1>1, <2>0, <2>1 DEF Honest
  <2>2. CASE ~registered[n] /\ ~Closed(n)
    <3>1. Ahead(n) \o (Slot(n) \o (Reply(n) \o <<>>)) = Rows(0)
      BY <1>0, <2>0, <2>2, CutAhead, NoRows DEF Honest
    <3>2. Ahead(n) = Rows(Len(Ahead(n))) /\ Len(Ahead(n)) <= 0
      BY <1>0, <3>1, CutAhead, RowsFront
    <3> QED BY <1>0, <3>2
  <2>3. CASE Closed(n) /\ (n \in owners_responded \/ pull[n].last)
    BY <1>2, <2>0, <2>3 DEF Honest
  (* An owner that is closed without an answer has sent nothing. *)
  <2>4. CASE n \notin owners_responded
    <3>1. delivered[n] = <<>> /\ chunk[n] = <<>>
      BY <2>0, <2>4 DEF StreamInv, SilentInv, Silent
    <3> QED BY <1>3, <3>1, ConcatEmptySeq, EmptySeq DEF Ahead
  <2> QED BY <2>1, <2>2, <2>3, <2>4
<1> QED BY <1>4, <1>5

(* The last chunk leaves nothing out. *)
LEMMA LastWhole ==
    ASSUME NothingFails, StreamInv, Clean, fetch = "reply", isLast,
           NEW n \in Nodes
    PROVE  Ahead(n) = Rows(NRows[n])
<1>0. /\ Typed /\ submit = "done"
      /\ \A o \in Owners : client_producers_done[o]
      /\ Ahead(n) \in Seq(Nat) /\ NRows[n] \in Nat
  BY AheadInOrder DEF StreamInv, GatewayInv, Control, ClientPlace, LastPlace
<1>1. CASE NRows[n] = 0
  <2>1. Ahead(n) = Rows(Len(Ahead(n))) /\ Len(Ahead(n)) <= 0
    BY <1>0, <1>1, AheadWhole
  <2>2. Len(Ahead(n)) = 0
    BY <1>0, <2>1, LenProperties
  <2> QED BY <1>1, <2>1, <2>2
<1>2. CASE n = Self /\ NRows[n] > 0
  <2>1. Self \in Eligible /\ client_producers_done[Self]
    BY <1>0, <1>2, GatewayAssumption DEF NothingFails
  <2>2. /\ Whole(Stream(Self), matched_cursor[Self])
        /\ done_producing[Self] /\ matched[Self] = <<>>
    BY <1>0, <2>1 DEF StreamInv, HonestInv, HonestSelf
  <2>3. matched_cursor[Self] = NRows[Self]
    BY <1>2, <2>2 DEF StreamInv, CountInv, DoneMeansAll
  <2>4. Slot(Self) \o (Reply(Self) \o matched[Self]) = <<>>
    BY <2>2, EmptySeq, ConcatEmptySeq DEF Slot, Reply
  <2>5. Ahead(n) \o <<>> = Rows(NRows[n])
    BY <1>0, <1>2, <2>2, <2>3, <2>4, CutAhead DEF Whole
  <2> QED BY <1>0, <2>5, ConcatEmptySeq
<1>3. CASE n # Self /\ NRows[n] > 0
  <2>1. n \in Remote /\ client_producers_done[n]
    BY <1>0, <1>3 DEF Nodes, Remote
  <2>2. /\ prefetch_buf[n] = <<>> /\ pull[n] = NoCall
    <3>1. Slotted(n)
      BY <2>1 DEF StreamInv, GatewayInv, Slots
    <3>2. prefetcher[n] \in {"none", "exit"} /\ prefetch_buf[n] = <<>>
      BY <2>1, <3>1 DEF Slotted
    <3> QED BY <3>1, <3>2 DEF Slotted
  <2>3. Closed(n) /\ n \in owners_responded
    <3>1. Served(n) /\ Closed(n)
      BY <1>0, <1>3, <2>1 DEF StreamInv, SmoothInv, Closed
    <3> QED BY <2>2, <3>1 DEF Served, NoCall
  <2>4. Whole(Got(n), NRows[n])
    BY <2>1, <2>3 DEF StreamInv, HonestInv, Honest
  <2>5. Slot(n) \o (Reply(n) \o <<>>) = <<>>
    BY <1>3, <2>2, EmptySeq, ConcatEmptySeq DEF Slot, Reply, NoCall
  <2>6. Ahead(n) \o <<>> = Rows(NRows[n])
    BY <1>0, <2>4, <2>5, CutAhead DEF Whole
  <2> QED BY <1>0, <2>6, ConcatEmptySeq
<1> QED BY <1>0, <1>1, <1>2, <1>3

(* The client pulls, or has left; only a reply ends the stream. *)
Pulling == {"start", "submitting", "ready", "fetching"}
Gone == {"cancelling"} \cup (Terminal \ {"done"})

(* Short of a reply the client gets no rows, and a client that has gone never
   pulls again. *)
LEMMA ClientMoves ==
    ASSUME Typed, Control, [Next]_vars, ~FetchReply
    PROVE  /\ delivered' = delivered
           /\ \/ client' = client
              \/ client \in Pulling /\ client' \in Pulling \cup Gone
              \/ client \in Gone /\ client' \in Gone
<1>1. CASE SubmitQuery
  BY <1>1 DEF SubmitQuery, Pulling
<1>2. CASE SpawnPrefetchers
  BY <1>2 DEF SpawnPrefetchers, Pulling
<1>3. CASE FetchBegin \/ ClientLeave \/ CancelBegin
  <2>1. delivered' = delivered
    BY <1>3 DEF FetchBegin, ClientLeave, CancelBegin
  <2>2. client \in {"ready", "submitting", "fetching"}
    BY <1>3 DEF FetchBegin, ClientLeave, CancelBegin
  <2>3. client' \in {"fetching", "failed", "abandoned", "cancelling", "cancelled"}
    BY <1>3 DEF FetchBegin, ClientLeave, CancelBegin
  <2> QED BY <2>1, <2>2, <2>3 DEF Pulling, Gone, Terminal
<1>4. CASE FetchStep
  BY <1>4 DEF FetchStep, FetchServe, FetchArm, FetchBlock, FetchDrop,
     FetchJoin, clientVars
<1>5. CASE CancelStep
  <2>1. CASE CancelReply
    <3>1. client = "cancelling" /\ client' = "cancelled" /\ delivered' = delivered
      BY <2>1 DEF CancelReply, Control, ClientPlace
    <3> QED BY <3>1 DEF Gone, Terminal
  <2>2. CASE CancelClear \/ (\E o \in Remote : CancelFan(o)) \/ CancelDrop
             \/ CancelJoin
    BY <2>2 DEF CancelClear, CancelFan, CancelDrop, CancelJoin, clientVars
  <2> QED BY <1>5, <2>1, <2>2 DEF CancelStep
<1>6. CASE \/ ProduceNotify \/ (\E n \in Nodes : Produce(n)) \/ Finish
           \/ UNCHANGED vars
  BY <1>6 DEF ProduceNotify, Produce, Finish, vars, clientVars
<1>7. ASSUME NEW o \in Remote,
             \/ ForwardAttempt(o) \/ Prefetch(o) \/ PullChunk(o)
             \/ NodeUp(o) \/ FaultStep(o)
      PROVE  UNCHANGED clientVars
  BY <1>7 DEF ForwardAttempt, Prefetch, PrefetcherCheck, PrefetcherReply,
     PrefetcherError, PullChunk, NodeUp, FaultStep, PrefetcherDeadline,
     ForwardLate, PullLate, NodeCrash, Unaffected
<1> QED BY <1>1, <1>2, <1>3, <1>4, <1>5, <1>6, <1>7 DEF Next, clientVars

(* The first of two sequences, found again in front of the second. *)
LEMMA FrontOfConcat ==
    ASSUME NEW s \in Seq(Nat), NEW t \in Seq(Nat)
    PROVE  Len(s) <= Len(s \o t) /\ s = SubSeq(s \o t, 1, Len(s))
<1>1. /\ s \o t \in Seq(Nat) /\ Len(s) \in Nat /\ Len(t) \in Nat
      /\ Len(s \o t) = Len(s) + Len(t)
      /\ \A i \in 1..Len(s) : (s \o t)[i] = s[i]
  BY ConcatProperties, LenProperties
<1> DEFINE u == s \o t
<1> HIDE DEF u
<1>2. u \in Seq(Nat) /\ Len(s) \in 0..Len(u) /\ \A i \in 1..Len(s) : u[i] = s[i]
  BY <1>1 DEF u
<1>3. /\ SubSeq(u, 1, Len(s)) \in Seq(Nat) /\ Len(SubSeq(u, 1, Len(s))) = Len(s)
      /\ \A i \in 1..Len(s) : SubSeq(u, 1, Len(s))[i] = u[i]
  BY <1>2, SubSeqProperties
<1>4. SubSeq(u, 1, Len(s)) = s
  BY <1>2, <1>3, SeqEqual
<1> QED BY <1>1, <1>4 DEF u

(* Every step of the gateway is one of the stream's, or none. *)
LEMMA StreamStep ==
    ASSUME NothingFails, StreamInv, [Next]_vars
    PROVE  [Promise!Next]_<<delivered, StreamStatus>>
<1>0. /\ Typed /\ Control
      /\ delivered \in [Nodes -> Seq(Nat)] /\ chunk \in [Nodes -> Seq(Nat)]
  BY DEF StreamInv, GatewayInv, Typed, TypeOK
<1>1. CASE ~FetchReply
  <2>1. CASE delivered' = delivered /\ client' = client
    BY <2>1 DEF StreamStatus
  <2>2. CASE delivered' = delivered /\ client \in Pulling /\ client' \in Pulling
    BY <2>2 DEF StreamStatus, Pulling, Terminal
  <2>3. CASE delivered' = delivered /\ client \in Pulling /\ client' \in Gone
    <3>1. StreamStatus = "open" /\ StreamStatus' = "left"
      BY <2>3 DEF StreamStatus, Pulling, Gone, Terminal
    <3>2. Promise!Leave
      BY <2>3, <3>1 DEF Promise!Leave
    <3> QED BY <3>2 DEF Promise!Next
  <2>4. CASE delivered' = delivered /\ client \in Gone /\ client' \in Gone
    BY <2>4 DEF StreamStatus, Gone, Terminal
  <2> QED BY <1>0, <1>1, <2>1, <2>2, <2>3, <2>4, ClientMoves
<1>2. CASE FetchReply
  <2>0. /\ fetch = "reply" /\ submit = "done"
        /\ client \notin {"start", "submitting", "ready", "done"}
    BY <1>0, <1>2 DEF FetchReply, Control, ClientPlace, StreamInv, CountInv,
                      HitCounts
  <2>1. ASSUME client # "failed", NEW n \in Nodes
        PROVE  delivered'[n] = Ahead(n)
    BY <1>0, <1>2, <2>1 DEF FetchReply, Ahead
  <2>2. client # "failed" => DOMAIN delivered' = Nodes
    BY <1>2 DEF FetchReply
  <2>3. CASE client = "failed"
    BY <1>2, <2>3 DEF FetchReply, StreamStatus
  (* A chunk of a query that is not cancelled. *)
  <2>4. CASE client = "fetching"
    <3>1. Clean /\ StreamStatus = "open"
      BY <1>0, <2>4 DEF Clean, Control, StopPlace, StreamInv, SmoothInv,
                        Smooth, StreamStatus, Terminal
    <3>2. CASE isLast
      <4>1. StreamStatus' = "complete"
        BY <1>2, <2>4, <3>2 DEF FetchReply, StreamStatus
      <4>2. delivered' = [n \in Nodes |-> [i \in 1..NRows[n] |-> i]]
        BY <1>2, <2>0, <2>4, <3>1, <3>2, LastWhole
           DEF FetchReply, Ahead, Rows
      <4> QED BY <3>1, <4>1, <4>2 DEF Promise!Next, Promise!LastChunk
    <3>3. CASE ~isLast
      <4>1. StreamStatus' = "open"
        BY <1>2, <2>4, <3>3 DEF FetchReply, StreamStatus, Terminal
      <4>2. ASSUME NEW n \in Nodes
            PROVE  Promise!Extends(n)
        <5>1. /\ delivered[n] \in Seq(Nat) /\ chunk[n] \in Seq(Nat)
              /\ Ahead(n) = Rows(Len(Ahead(n)))
              /\ Len(Ahead(n)) <= NRows[n] /\ NRows[n] \in Nat
          BY <1>0, <2>0, <3>1, AheadWhole, AheadInOrder
        <5>2. Len(Ahead(n)) \in Len(delivered[n])..NRows[n]
          <6>1. /\ Len(Ahead(n)) = Len(delivered[n]) + Len(chunk[n])
                /\ Len(delivered[n]) \in Nat /\ Len(chunk[n]) \in Nat
            BY <5>1, ConcatProperties, LenProperties DEF Ahead
          <6> DEFINE a == Len(Ahead(n))
                     d == Len(delivered[n])
                     c == Len(chunk[n])
          <6>2. a = d + c /\ d \in Nat /\ c \in Nat /\ a <= NRows[n]
            BY <5>1, <6>1
          <6>3. NRows[n] \in Nat
            BY <5>1
          <6> HIDE DEF a, d, c
          <6>4. a \in d..NRows[n]
            BY <6>2, <6>3
          <6> QED BY <6>4 DEF a, d
        <5>3. delivered'[n] = [i \in 1..Len(Ahead(n)) |-> i]
          BY <2>1, <2>4, <5>1 DEF Rows
        <5> QED BY <5>2, <5>3 DEF Promise!Extends
      <4> QED BY <2>2, <2>4, <3>1, <4>1, <4>2
              DEF Promise!Next, Promise!Chunk
    <3> QED BY <3>2, <3>3
  (* One that overtakes the cancel. *)
  <2>5. CASE client \in Gone \ {"failed"}
    <3>1. StreamStatus = "left" /\ StreamStatus' = "left"
      BY <1>2, <2>5 DEF FetchReply, StreamStatus, Gone, Terminal
    <3>2. ASSUME NEW n \in Nodes
          PROVE  Promise!Trails(n)
      <4>1. /\ delivered[n] \in Seq(Nat) /\ chunk[n] \in Seq(Nat)
            /\ Ahead(n) \in Seq(Nat) /\ delivered'[n] = Ahead(n)
            /\ Ordered(Ahead(n), matched_cursor[n])
            /\ matched_cursor[n] \in Nat /\ NRows[n] \in Nat
            /\ matched_cursor[n] <= NRows[n]
        BY <1>0, <2>1, <2>5, AheadInOrder
      <4>2. /\ Len(delivered[n]) <= Len(Ahead(n))
            /\ delivered[n] = SubSeq(Ahead(n), 1, Len(delivered[n]))
        BY <4>1, FrontOfConcat DEF Ahead
      <4>3. \A i \in 1..Len(Ahead(n)) :
               Ahead(n)[i] <= NRows[n]
               /\ \A j \in 1..Len(Ahead(n)) :
                     i < j => Ahead(n)[i] < Ahead(n)[j]
        <5> SUFFICES ASSUME NEW i \in 1..Len(Ahead(n))
                     PROVE  Ahead(n)[i] <= NRows[n]
          BY <4>1 DEF Ordered
        <5>1. Ahead(n)[i] \in Nat /\ Ahead(n)[i] <= matched_cursor[n]
          BY <4>1, ElementOfSeq DEF Ordered
        <5> QED BY <4>1, <5>1
      <4> QED BY <4>1, <4>2, <4>3 DEF Promise!Trails
    <3> QED BY <2>2, <2>5, <3>1, <3>2 DEF Promise!Next, Promise!LateChunk
  <2>6. client \in {"start", "submitting", "ready", "fetching", "cancelling",
                    "done", "failed", "cancelled", "abandoned"}
    BY <1>0 DEF Typed, TypeOK, Terminal
  <2>7. client \in {"failed", "fetching", "cancelling", "cancelled", "abandoned"}
    BY <2>0, <2>6
  <2>8. {"cancelling", "cancelled", "abandoned"} \subseteq Gone \ {"failed"}
    BY DEF Gone, Terminal
  <2> QED BY <2>3, <2>4, <2>5, <2>7, <2>8
<1> QED BY <1>1, <1>2

(* node.cpp:315: for any overlay with a relay, any data, chunk sizes and
   client, as long as every owner answers and those with rows are asked, the
   chunks of the gateway are the stream it promises: of every owner the next
   rows, none missing, none twice, and the end only when all are delivered. *)
THEOREM GatewayImplementsStream ==
    ASSUME NothingFails
    PROVE  Spec => ImplementsStream
<1>1. Init => Promise!Init
  BY DEF Init, Promise!Init, StreamStatus, Terminal
<1>2. StreamInv /\ [Next]_vars => [Promise!Next]_<<delivered, StreamStatus>>
  BY StreamStep
<1>3. Spec => []StreamInv
  BY GatewayInvariant, CountInvariant, HonestInvariant, OrderInvariant,
     SilentInvariant, SmoothInvariant, PTL DEF StreamInv
<1> QED BY <1>1, <1>2, <1>3, PTL DEF Spec, ImplementsStream, Promise!Spec
=============================================================================
