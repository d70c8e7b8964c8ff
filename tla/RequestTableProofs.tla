------------------------- MODULE RequestTableProofs -------------------------
(***************************************************************************)
(* What is proved of one query in OwnerService holds of every query at a   *)
(* shared node, for any number of queries, any scheduler mode and any      *)
(* sizes.  Chunk sizes stay within the overlay's bounds, for all bounds,   *)
(* and the sizer has an entry of a query that ran to its end only while a  *)
(* handler that will drop it again is inside.                              *)
(***************************************************************************)
EXTENDS RequestTable, OwnerServiceProofs

-----------------------------------------------------------------------------
(* Chunk sizes *)

SizerInv == SizerTypeOK /\ WithinBounds

(* Clamp, Grown and Shrunk stay between the bounds. *)
LEMMA Steps ==
    ASSUME NEW n \in Nat
    PROVE  /\ Clamp(n) \in MinRows..MaxRows
           /\ n \in MinRows..MaxRows =>
                 Grown(n) \in MinRows..MaxRows /\ Shrunk(n) \in MinRows..MaxRows
           /\ Clamp(n) \in Nat \ {0}
           /\ n # 0 => Shrunk(n) \in Nat \ {0} /\ Grown(n) \in Nat \ {0}
BY ChunkingAssumption DEF Clamp, Grown, Shrunk, Lower, Higher

(* One decision of decide(), whichever way it was made. *)
LEMMA DecidedSize ==
    ASSUME NEW r \in Rids, NEW hint \in Hints, NEW p \in Paces, SizerInv
    PROVE  LET n == IF hint > 0 THEN Clamp(hint) ELSE Paced(r, p)
           IN  /\ n \in Nat \ {0}
               /\ InitialRows \in MinRows..MaxRows => n \in MinRows..MaxRows
<1>1. hint \in Nat /\ cur[r] \in Nat
  BY ChunkingAssumption DEF SizerInv, SizerTypeOK
<1>2. /\ Before(r) \in Nat \ {0}
      /\ InitialRows \in MinRows..MaxRows => Before(r) \in MinRows..MaxRows
  BY <1>1, ChunkingAssumption DEF SizerInv, WithinBounds, Before
<1>3. /\ Paced(r, p) \in Nat \ {0}
      /\ InitialRows \in MinRows..MaxRows => Paced(r, p) \in MinRows..MaxRows
  BY <1>2, Steps DEF Paced, Paces
<1> QED BY <1>1, <1>3, Steps

(* decide() keeps it. *)
LEMMA DecideKeeps ==
    ASSUME SizerInv, NEW r \in Rids, NEW hint \in Hints, NEW p \in Paces,
           Decide(r, hint, p)
    PROVE  SizerInv'
<1> DEFINE n == IF hint > 0 THEN Clamp(hint) ELSE Paced(r, p)
<1>1. /\ n \in Nat \ {0}
      /\ InitialRows \in MinRows..MaxRows => n \in MinRows..MaxRows
  BY DecidedSize
<1>2. /\ cur' = [cur EXCEPT ![r] = n]
      /\ has_last' = [has_last EXCEPT ![r] = TRUE]
  BY DEF Decide, Decided
<1> HIDE DEF n
<1>3. SizerTypeOK'
  BY <1>1, <1>2 DEF SizerInv, SizerTypeOK
<1>4. WithinBounds'
  BY <1>1, <1>2 DEF SizerInv, SizerTypeOK, WithinBounds
<1> QED BY <1>3, <1>4 DEF SizerInv

(* So do forget() and everybody else. *)
LEMMA ForgetKeeps ==
    ASSUME SizerInv, (\E r \in Rids : Forget(r)) \/ UNCHANGED sizerVars
    PROVE  SizerInv'
<1>1. ASSUME NEW r \in Rids, Forget(r) PROVE SizerInv'
  BY <1>1 DEF Forget, SizerInv, SizerTypeOK, WithinBounds
<1>2. CASE UNCHANGED sizerVars
  BY <1>2 DEF sizerVars, SizerInv, SizerTypeOK, WithinBounds
<1> QED BY <1>1, <1>2

LEMMA InitHolds == SizerInit => SizerInv
<1> SUFFICES ASSUME SizerInit PROVE SizerInv
  OBVIOUS
<1>1. \A r \in Rids : cur[r] = 0 /\ ~has_last[r]
  BY DEF SizerInit
<1>2. SizerTypeOK
  BY DEF SizerInit, SizerTypeOK
<1>3. WithinBounds
  BY <1>1 DEF WithinBounds
<1> QED BY <1>2, <1>3 DEF SizerInv

(* The inductive invariant. *)
LEMMA SizerInvariant == SizerSpec => []SizerInv
<1>1. SizerInv /\ [SizerNext]_sizerVars => SizerInv'
  BY DecideKeeps, ForgetKeeps DEF SizerNext
<1> QED BY <1>1, InitHolds, PTL DEF SizerSpec

(* scheduler.cpp:5-28: every chunk size decided is between min_rows and
   max_rows once the initial one is. *)
THEOREM SizerSafe == SizerSpec => [](SizerTypeOK /\ WithinBounds)
<1>1. SizerInv => SizerTypeOK /\ WithinBounds
  BY DEF SizerInv
<1> QED BY <1>1, SizerInvariant, PTL

(* Between the bounds only MaxRows cannot grow, only MinRows not shrink. *)
LEMMA NeverStuck ==
    ASSUME NEW n \in MinRows..MaxRows
    PROVE  (Grown(n) > n \/ n = MaxRows) /\ (Shrunk(n) < n \/ n = MinRows)
<1>1. n \in Nat \ {0} /\ MinRows <= n /\ n <= MaxRows
  BY ChunkingAssumption
<1>2. (3 * n) \div 2 + 1 > n /\ n \div 2 < n
  BY <1>1
<1> QED BY <1>1, <1>2, ChunkingAssumption DEF Grown, Shrunk, Lower, Higher

(* scheduler.hpp:20-22: between the bounds there is no size at which the
   sizer gets stuck. *)
THEOREM SizerAdapts == SizerSpec => []AlwaysAdapts
<1>1. SizerInv => AlwaysAdapts
  BY NeverStuck DEF SizerInv, WithinBounds, AlwaysAdapts
<1> QED BY <1>1, SizerInvariant, PTL

-----------------------------------------------------------------------------
(* Queries *)

(* A size is never above both the cap and the initial size. *)
Ceiling == Higher(MaxRows, InitialRows)

SizesFit == \A r \in Rids : cur[r] \in 0..Ceiling

(* Every size is within its bounds. *)
TableInv == SizerInv /\ SizesFit

(* What node.cpp:559-572 calls a query at this node is an owner there. *)
LEMMA RidsAreRemote == Remote = Rids /\ Rids \subseteq Nodes
BY TableAssumption DEF Remote, Nodes

(* decide() returns a size that a PullChunk of OwnerService may ask for. *)
LEMMA DecidedFits ==
    ASSUME SizerInv, SizesFit, NEW r \in Rids, NEW hint \in Hints,
           NEW p \in Paces, Decide(r, hint, p)
    PROVE  cur'[r] \in PullSizes /\ cur'[r] \in 0..Ceiling
<1> DEFINE n == IF hint > 0 THEN Clamp(hint) ELSE Paced(r, p)
<1>1. hint \in Nat /\ cur[r] \in 0..Ceiling /\ cur[r] \in Nat
  BY ChunkingAssumption DEF SizerInv, SizerTypeOK, SizesFit
<1>2. /\ Ceiling \in Nat /\ MaxRows <= Ceiling /\ InitialRows <= Ceiling
      /\ MinRows <= Ceiling
  BY ChunkingAssumption DEF Ceiling, Higher
<1>3. Before(r) \in 1..Ceiling
  BY <1>1, <1>2, ChunkingAssumption DEF Before
<1>4. /\ Clamp(hint) \in 1..Ceiling
      /\ \A m \in 1..Ceiling : Grown(m) \in 1..Ceiling /\ Shrunk(m) \in 1..Ceiling
  BY <1>1, <1>2, ChunkingAssumption DEF Clamp, Grown, Shrunk, Lower, Higher
<1>5. n \in 1..Ceiling
  BY <1>3, <1>4 DEF Paced, Paces
<1>6. cur'[r] = n
  BY DEF Decide, Decided, SizerInv, SizerTypeOK
<1> HIDE DEF n
<1> QED BY <1>2, <1>5, <1>6, TableAssumption DEF Ceiling

(* Every step of the node is a step of one owner, or invisible to all. *)
LEMMA TableStep ==
    ASSUME TableInv, [TableNext]_tableVars
    PROVE  [Next]_vars
<1>1. CASE ProducerThread
  <2>1. CASE PickQuery
    BY <2>1 DEF PickQuery
  <2>2. ASSUME NEW r \in Rids, SkipQuery(r) PROVE UNCHANGED vars
    BY <2>2 DEF SkipQuery
  <2>3. ASSUME NEW r \in Rids, BeginTurn(r) \/ GoOn(r) \/ EndTurn(r)
        PROVE  Next
    <3>1. Produce(r)
      BY <2>3 DEF BeginTurn, GoOn, EndTurn, Produce
    <3> QED BY <3>1, RidsAreRemote DEF Next
  <2> QED BY <1>1, <2>1, <2>2, <2>3 DEF ProducerThread
<1>2. ASSUME NEW r \in Rids, Register(r) \/ CancelQuery(r)
      PROVE  Next
  BY <1>2, RidsAreRemote DEF Register, CancelQuery, Next
<1>3. ASSUME NEW r \in Rids,
             CallerAsks(r) \/ CallerReceives(r) \/ CallerGivesUp(r)
      PROVE  Next
  BY <1>3, RidsAreRemote DEF CallerAsks, CallerReceives, CallerGivesUp, Next
<1>4. ASSUME NEW r \in Rids, Handler(r)
      PROVE  Next
  <2>1. SUFFICES Serve(r)
    BY RidsAreRemote DEF Next
  <2>2. CASE LookUp(r)
    BY <2>2 DEF LookUp, Serve
  <2>3. CASE DrainChunk(r)
    <3>1. cur'[r] \in PullSizes
      BY <2>3, DecidedFits DEF DrainChunk, TableInv
    <3> QED BY <2>3, <3>1 DEF DrainChunk, Serve
  <2>4. CASE FinishChunk(r)
    BY <2>4 DEF FinishChunk, Serve
  <2> QED BY <1>4, <2>2, <2>3, <2>4 DEF Handler
<1>5. ASSUME NEW r \in Rids, LateHandler(r)
      PROVE  Next
  <2>1. SUFFICES Late(r)
    BY RidsAreRemote DEF Next
  <2>2. CASE LateLookUp(r) \/ LateFinishChunk(r)
    BY <2>2 DEF LateLookUp, LateFinishChunk, Late
  <2>3. CASE LateDrainChunk(r)
    <3>1. cur'[r] \in PullSizes
      BY <2>3, DecidedFits DEF LateDrainChunk, TableInv
    <3> QED BY <2>3, <3>1 DEF LateDrainChunk, Late
  <2> QED BY <1>5, <2>2, <2>3 DEF LateHandler
<1>6. CASE UNCHANGED tableVars
  BY <1>6 DEF tableVars
<1> QED BY <1>1, <1>2, <1>3, <1>4, <1>5, <1>6 DEF TableNext

(* The sizer changes where a size is decided and where a query is dropped. *)
LEMMA SizerStep ==
    ASSUME TableInv, [TableNext]_tableVars
    PROVE  SizerInv' /\ SizesFit'
<1>1. cur \in [Rids -> Nat] /\ Ceiling \in Nat
  BY ChunkingAssumption DEF TableInv, SizerInv, SizerTypeOK, Ceiling, Higher
<1>2. ASSUME NEW r \in Rids, DrainChunk(r) \/ LateDrainChunk(r)
      PROVE  SizerInv' /\ SizesFit'
  <2>1. PICK hint \in Hints, p \in Paces : Decide(r, hint, p)
    BY <1>2 DEF DrainChunk, LateDrainChunk
  <2>2. SizerInv'
    BY <2>1, DecideKeeps DEF TableInv
  <2>3. cur'[r] \in 0..Ceiling
    BY <2>1, DecidedFits DEF TableInv
  <2>4. \A s \in Rids : s # r => cur'[s] = cur[s]
    BY <1>1, <2>1 DEF Decide, Decided
  <2> QED BY <2>2, <2>3, <2>4 DEF TableInv, SizesFit
<1>3. ASSUME NEW r \in Rids, Forget(r) PROVE SizerInv' /\ SizesFit'
  <2>1. SizerInv'
    BY <1>3, ForgetKeeps DEF TableInv
  <2>2. \A s \in Rids : cur'[s] = IF s = r THEN 0 ELSE cur[s]
    BY <1>1, <1>3 DEF Forget
  <2> QED BY <1>1, <2>1, <2>2 DEF TableInv, SizesFit
<1>4. CASE UNCHANGED sizerVars
  BY <1>4, ForgetKeeps DEF TableInv, sizerVars, SizesFit
<1>5. ASSUME NEW r \in Rids, CancelQuery(r) PROVE Forget(r)
  BY <1>5 DEF CancelQuery, Drop
<1>6. ASSUME NEW r \in Rids, FinishChunk(r) \/ LateFinishChunk(r)
      PROVE  Forget(r) \/ UNCHANGED sizerVars
  BY <1>6 DEF FinishChunk, LateFinishChunk, Drop
<1>7. ASSUME NEW r \in Rids, \/ LookUp(r) \/ LateLookUp(r) \/ Register(r)
                             \/ CallerAsks(r) \/ CallerReceives(r)
                             \/ CallerGivesUp(r)
      PROVE  UNCHANGED sizerVars
  BY <1>7 DEF LookUp, LateLookUp, CallerAsks, CallerReceives, CallerGivesUp,
              Register
<1>8. CASE ProducerThread
  BY <1>4, <1>8 DEF ProducerThread, PickQuery, SkipQuery, BeginTurn, GoOn,
                    EndTurn, ProduceStore, IterationOver, sizerVars
<1>9. CASE UNCHANGED tableVars
  BY <1>4, <1>9 DEF tableVars
<1> QED BY <1>2, <1>3, <1>4, <1>5, <1>6, <1>7, <1>8, <1>9
        DEF TableNext, Handler, LateHandler

(* What is known of sizes holds in every reachable state. *)
LEMMA TableInvariant == TableSpec => []TableInv
<1>1. TableInit => TableInv
  BY InitHolds, ChunkingAssumption
     DEF TableInit, SizerInit, SizesFit, Ceiling, Higher, TableInv
<1>2. TableInv /\ [TableNext]_tableVars => TableInv'
  BY SizerStep DEF TableInv
<1> QED BY <1>1, <1>2, PTL DEF TableSpec

(* node.cpp:611-683 and 734-789: to its caller, a query at a node that serves
   several with one producer thread, scheduler and sizer is as good as alone:
   no chunk size is out of PullSizes, and no step belongs to two queries. *)
LEMMA TableIsOwners == TableSpec => Spec
<1>1. TableInit => Init
  BY DEF TableInit
<1>2. TableInv /\ [TableNext]_tableVars => [Next]_vars
  BY TableStep
<1> QED BY <1>1, <1>2, TableInvariant, PTL DEF TableSpec, Spec

(* So what an owner promises its caller, it promises whatever happens to the
   other queries: bounded deques, rows conserved until a call expires and in
   order ever after, an honest is_last, and an end to producing after a
   cancel. *)
THEOREM QueriesAreServed ==
    TableSpec => [](BufferCap /\ Conservation /\ LastMeansAll /\ TakenInOrder
                      /\ FinishedIsDropped /\ CancelStopsProducer)
<1>1. Spec => [](BufferCap /\ Conservation /\ LastMeansAll /\ TakenInOrder
                   /\ FinishedIsDropped /\ CancelStopsProducer)
  BY OwnerBuffers, RowsConserved, LastIsHonest, RowsInOrder, OwnersForget,
     CancelStops, PTL
<1> QED BY <1>1, TableIsOwners, PTL

-----------------------------------------------------------------------------
(* Entries of the sizer *)

(* A step at one query does nothing to another. *)
Untroubled(r) ==
    /\ cur'[r] = cur[r] /\ registered'[r] = registered[r]
    /\ cancelled'[r] = cancelled[r] /\ pull'[r] = pull[r]
    /\ lateEmpty'[r] = lateEmpty[r]

Accounted(r) ==
    cur[r] # 0 => registered[r] \/ cancelled[r] \/ NearItsEnd(r)

LEMMA UntroubledKeeps ==
    ASSUME NEW r \in Rids, Accounted(r), Untroubled(r)
    PROVE  Accounted(r)'
BY DEF Accounted, Untroubled, NearItsEnd

(* The types of a query's part of the state, and what AllInv says of it. *)
LEMMA QueryFacts ==
    ASSUME AllInv, TableInv, NEW r \in Rids
    PROVE  /\ cur \in [Rids -> Nat] /\ r \in Remote /\ r \in Nodes
           /\ registered \in [Nodes -> BOOLEAN] /\ cancelled \in [Nodes -> BOOLEAN]
           /\ pull \in [Rids ->
                 [stage : {"none", "sent", "found", "drained", "replied", "error"},
                  rows : Seq(Nat), last : BOOLEAN]]
           /\ lateFound \in [Rids -> Nat] /\ lateEmpty \in [Rids -> Nat]
           /\ matched \in [Nodes -> Seq(Nat)]
           /\ StreamOf(r)
BY RidsAreRemote DEF AllInv, StreamInv, TableInv, SizerInv, SizerTypeOK, OwnerInv,
                     OwnerTypeOK

(* Every step of a query's own. *)
QueryStep(r) ==
    \/ Register(r) \/ CancelQuery(r)
    \/ CallerAsks(r) \/ CallerReceives(r) \/ CallerGivesUp(r)
    \/ Handler(r) \/ LateHandler(r)

(* What a decision leaves of the sizer. *)
LEMMA DecideSets ==
    ASSUME TableInv, NEW r \in Rids,
           \E hint \in Hints, p \in Paces : Decide(r, hint, p)
    PROVE  \E n \in PullSizes : cur' = [cur EXCEPT ![r] = n]
<1>1. PICK hint \in Hints, p \in Paces : Decide(r, hint, p)
  OBVIOUS
<1>2. cur'[r] \in PullSizes
  BY <1>1, DecidedFits DEF TableInv
<1>3. cur' = [cur EXCEPT ![r] = cur'[r]]
  BY <1>1 DEF Decide, Decided, TableInv, SizerInv, SizerTypeOK
<1> QED BY <1>2, <1>3

LEMMA OthersUntroubled ==
    ASSUME AllInv, TableInv, NEW r \in Rids, NEW s \in Rids, s # r, QueryStep(r)
    PROVE  Untroubled(s)
<1>1. /\ cur \in [Rids -> Nat] /\ r \in Remote /\ s \in Remote
      /\ pull \in [Rids -> [stage : {"none", "sent", "found", "drained",
                                     "replied", "error"},
                            rows : Seq(Nat), last : BOOLEAN]]
  BY QueryFacts
<1>2. cur'[s] = cur[s]
  <2>1. CASE DrainChunk(r) \/ LateDrainChunk(r)
    BY <1>1, <2>1, DecideSets DEF DrainChunk, LateDrainChunk
  <2>2. CASE CancelQuery(r) \/ FinishChunk(r) \/ LateFinishChunk(r)
    BY <1>1, <2>2 DEF CancelQuery, FinishChunk, LateFinishChunk, Drop, Forget,
                      sizerVars
  <2>3. CASE \/ Register(r) \/ CallerAsks(r) \/ CallerReceives(r)
             \/ CallerGivesUp(r) \/ LookUp(r) \/ LateLookUp(r)
    BY <2>3 DEF Register, CallerAsks, CallerReceives, CallerGivesUp, LookUp,
                LateLookUp, sizerVars
  <2> QED BY <2>1, <2>2, <2>3 DEF QueryStep, Handler, LateHandler
<1>3. \/ Forward(r) \/ Cancel(r) \/ Ask(r) \/ Receive(r) \/ ReceiveError(r)
      \/ Expire(r) \/ Serve(r) \/ Late(r)
  <2>1. CASE Handler(r)
    <3>1. ASSUME DrainChunk(r) PROVE Serve(r)
      <4>1. cur'[r] \in PullSizes
        BY <3>1, DecidedFits DEF DrainChunk, TableInv
      <4> QED BY <3>1, <4>1 DEF DrainChunk, Serve
    <3> QED BY <2>1, <3>1 DEF Handler, LookUp, FinishChunk, Serve
  <2>2. CASE LateHandler(r)
    <3>1. ASSUME LateDrainChunk(r) PROVE Late(r)
      <4>1. cur'[r] \in PullSizes
        BY <3>1, DecidedFits DEF LateDrainChunk, TableInv
      <4> QED BY <3>1, <4>1 DEF LateDrainChunk, Late
    <3> QED BY <2>2, <3>1 DEF LateHandler, LateLookUp, LateFinishChunk, Late
  <2>3. CASE ~Handler(r) /\ ~LateHandler(r)
    BY <2>3 DEF QueryStep, Register, CancelQuery, CallerAsks, CallerReceives,
                CallerGivesUp
  <2> QED BY <2>1, <2>2, <2>3
<1>4. Same(s)
  BY <1>1, <1>3, OthersSame
<1> QED BY <1>2, <1>4 DEF Same, Untroubled

(* A handler that decides after the query was dropped finds nothing in the
   deque, and when it is through it drops the query again. *)
LEMMA OwnAccounted ==
    ASSUME AllInv, TableInv, NEW r \in Rids, Accounted(r), QueryStep(r)
    PROVE  Accounted(r)'
<1>1. /\ cur \in [Rids -> Nat] /\ r \in Remote /\ r \in Nodes
      /\ registered \in [Nodes -> BOOLEAN] /\ cancelled \in [Nodes -> BOOLEAN]
      /\ pull \in [Rids ->
            [stage : {"none", "sent", "found", "drained", "replied", "error"},
             rows : Seq(Nat), last : BOOLEAN]]
      /\ lateFound \in [Rids -> Nat] /\ lateEmpty \in [Rids -> Nat]
      /\ matched \in [Nodes -> Seq(Nat)]
      /\ StreamOf(r)
  BY QueryFacts
(* A query that was dropped and not cancelled has no row left. *)
<1>2. ASSUME pull[r] # NoCall \/ lateFound[r] > 0 \/ lateEmpty[r] > 0,
             ~registered[r], ~cancelled[r]
      PROVE  done_producing[r] /\ matched[r] = <<>> /\ NoMoreRows(r)
  <2>1. caller[r] # "start"
    BY <1>1, <1>2 DEF StreamOf, Untouched
  <2> QED BY <1>1, <1>2, <2>1 DEF StreamOf, EndedEmpty, NoMoreRows
<1>3. CASE Register(r)
  <2>1. registered'[r]
    BY <1>1, <1>3 DEF Register, Forward, RegisterRequest, requestVars
  <2> QED BY <2>1 DEF Accounted
<1>4. CASE CancelQuery(r)
  <2>1. cur'[r] = 0
    BY <1>1, <1>4 DEF CancelQuery, Drop, Forget
  <2> QED BY <2>1 DEF Accounted
<1>5. CASE CallerAsks(r) \/ CallerReceives(r) \/ LookUp(r) \/ LateLookUp(r)
  <2>1. UNCHANGED <<cur, registered, cancelled, lateEmpty>>
    BY <1>5 DEF CallerAsks, CallerReceives, LookUp, LateLookUp, Ask, PullSend,
       Receive, ReceiveError, PullReturn, PullFind, PullFail, LateFind,
       requestVars, sizerVars
  <2>2. pull'[r] = pull[r] \/ pull[r].stage # "drained"
    BY <1>1, <1>5 DEF CallerAsks, CallerReceives, LookUp, LateLookUp, Ask, PullSend,
       Receive, ReceiveError, PullReturn, PullFind, PullFail, LateFind
  <2> QED BY <2>1, <2>2 DEF Accounted, NearItsEnd
<1>6. CASE CallerGivesUp(r)
  <2>1. UNCHANGED <<cur, registered, cancelled>>
    BY <1>6 DEF CallerGivesUp, Expire, PullExpire, requestVars, sizerVars
  <2>2. NearItsEnd(r) => lateEmpty'[r] > 0
    BY <1>1, <1>6 DEF CallerGivesUp, Expire, PullExpire, NearItsEnd
  <2> QED BY <2>1, <2>2 DEF Accounted, NearItsEnd
<1>7. CASE DrainChunk(r)
  <2>1. /\ pull[r].stage = "found" /\ UNCHANGED <<registered, cancelled>>
        /\ pull'[r].stage = "drained"
        /\ pull'[r].rows = SubSeq(matched[r], 1, Take(r, cur'[r]))
    BY <1>1, <1>7 DEF DrainChunk, PullDrain, Drained
  <2>2. ASSUME ~registered[r], ~cancelled[r] PROVE pull'[r].rows = <<>>
    <3>1. matched[r] = <<>>
      BY <1>2, <2>1, <2>2 DEF NoCall
    <3>2. \A k \in Nat : k <= 0 => SubSeq(matched[r], 1, k) = <<>>
      BY <3>1
    <3>3. Take(r, cur'[r]) \in Nat /\ Take(r, cur'[r]) <= Len(matched[r])
      <4>1. cur'[r] \in Nat
        BY <1>1, <1>7, DecideSets, CallerAssumption DEF DrainChunk
      <4> QED BY <1>1, <4>1, DrainedDeque DEF AllInv
    <3> QED BY <2>1, <3>1, <3>2, <3>3
  <2> QED BY <2>1, <2>2 DEF Accounted, NearItsEnd
<1>8. CASE LateDrainChunk(r)
  <2>1. /\ lateFound[r] > 0 /\ UNCHANGED <<registered, cancelled>>
        /\ matched[r] = <<>> => lateEmpty'[r] = lateEmpty[r] + 1
    BY <1>1, <1>8 DEF LateDrainChunk, LateDrain
  <2>2. ASSUME ~registered[r], ~cancelled[r] PROVE lateEmpty'[r] > 0
    <3>1. matched[r] = <<>>
      BY <1>2, <2>1, <2>2
    <3> QED BY <1>1, <2>1, <3>1
  <2> QED BY <2>1, <2>2 DEF Accounted, NearItsEnd
<1>9. CASE FinishChunk(r)
  <2>1. /\ pull[r].stage = "drained" /\ cancelled' = cancelled
        /\ lateEmpty' = lateEmpty
        /\ pull'[r].last = (NoMoreRows(r) /\ pull[r].rows = <<>>)
        /\ registered'[r] = (registered[r] /\ ~pull'[r].last)
    BY <1>1, <1>9 DEF FinishChunk, PullFinish, DropAtLast
  <2>2. CASE pull'[r].last
    <3>1. cur'[r] = 0
      BY <1>1, <1>9, <2>2 DEF FinishChunk, Drop, Forget
    <3> QED BY <3>1 DEF Accounted
  <2>3. CASE ~pull'[r].last
    <3>1. cur'[r] = cur[r]
      BY <1>9, <2>3 DEF FinishChunk, sizerVars
    <3>2. ASSUME ~registered[r], ~cancelled[r], NearItsEnd(r)
          PROVE  lateEmpty[r] > 0
      <4>1. pull[r] # NoCall
        BY <2>1 DEF NoCall
      <4>2. NoMoreRows(r)
        BY <1>2, <3>2, <4>1
      <4>3. pull[r].rows # <<>>
        BY <2>1, <2>3, <4>2
      <4> QED BY <3>2, <4>3 DEF NearItsEnd
    <3> QED BY <2>1, <2>3, <3>1, <3>2 DEF Accounted, NearItsEnd
  <2> QED BY <2>2, <2>3
<1>10. CASE LateFinishChunk(r)
  <2>1. /\ lateEmpty[r] > 0 /\ cancelled' = cancelled
        /\ registered'[r] = (registered[r] /\ ~NoMoreRows(r))
    BY <1>1, <1>10 DEF LateFinishChunk, LateFinish, DropAtLast
  <2>2. CASE NoMoreRows(r)
    <3>1. cur'[r] = 0
      BY <1>1, <1>10, <2>2 DEF LateFinishChunk, Drop, Forget
    <3> QED BY <3>1 DEF Accounted
  <2>3. CASE ~NoMoreRows(r)
    <3>1. registered[r] \/ cancelled[r]
      BY <1>2, <2>1, <2>3
    <3> QED BY <2>1, <2>3, <3>1 DEF Accounted
  <2> QED BY <2>2, <2>3
<1> QED BY <1>3, <1>4, <1>5, <1>6, <1>7, <1>8, <1>9, <1>10
        DEF QueryStep, Handler, LateHandler

(* scheduler.cpp:30: an entry of a query that ran to its end is there only
   while a handler that will drop the query again is inside, for any number
   of queries and expired calls; and every chunk of every query is within the
   overlay's bounds. *)
THEOREM SizerIsTidy == TableSpec => [](EntryForKnownOnly /\ WithinBounds)
<1>1. TableInit => EntryForKnownOnly
  BY DEF TableInit, SizerInit, EntryForKnownOnly
<1>2. AllInv /\ TableInv /\ EntryForKnownOnly /\ [TableNext]_tableVars
         => EntryForKnownOnly'
  <2> SUFFICES ASSUME AllInv, TableInv, EntryForKnownOnly,
                      [TableNext]_tableVars, NEW s \in Rids
               PROVE  Accounted(s)'
    BY DEF EntryForKnownOnly, Accounted
  <2>1. Accounted(s)
    BY DEF EntryForKnownOnly, Accounted
  <2>2. CASE ProducerThread \/ UNCHANGED tableVars
    <3>1. UNCHANGED <<cur, registered, cancelled, pull, lateEmpty>>
      BY <2>2 DEF ProducerThread, PickQuery, SkipQuery, BeginTurn, GoOn, EndTurn,
         ProduceBegin, ProduceCheck, ProduceRow, ProduceStore, tableVars, vars,
         ownerVars, requestVars, callVars, sizerVars
    <3> QED BY <2>1, <3>1, UntroubledKeeps DEF Untroubled
  <2>3. ASSUME NEW r \in Rids, QueryStep(r) PROVE Accounted(s)'
    BY <2>1, <2>3, OwnAccounted, OthersUntroubled, UntroubledKeeps
  <2> QED BY <2>2, <2>3 DEF TableNext, QueryStep
<1>3. TableSpec => []AllInv
  BY StreamInvariant, TableIsOwners, PTL
<1>4. TableInv => WithinBounds
  BY DEF TableInv, SizerInv
<1> QED BY <1>1, <1>2, <1>3, <1>4, TableInvariant, PTL DEF TableSpec
=============================================================================
