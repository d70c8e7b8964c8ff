------------------------ MODULE OwnerServiceProofs ------------------------
(***************************************************************************)
(* What an owner's caller receives, proved for any number of owners, rows  *)
(* and expired calls, and for any sizes of deque, turn and chunk.          *)
(***************************************************************************)
EXTENDS OwnerService, DataOwnerProofs

CallerTypeOK ==
    /\ taken \in [Remote -> Seq(Nat)]
    /\ caller \in [Remote -> {"start", "asking", "finished", "refused"}]
    /\ timeouts \in Nat

LEMMA CallerKeeps ==
    ASSUME OwnerInv, CallerTypeOK, Next
    PROVE  CallerTypeOK'
<1>1. timeouts \in Nat /\ timeouts + 1 \in Nat
  BY DEF CallerTypeOK
<1>2. ASSUME NEW o \in Remote, Receive(o) PROVE CallerTypeOK'
  <2>1. taken[o] \o pull[o].rows \in Seq(Nat)
    BY ConcatProperties DEF CallerTypeOK, OwnerInv, OwnerTypeOK
  <2> QED BY <1>2, <2>1 DEF Receive, CallerTypeOK
<1>3. ASSUME NEW o \in Remote,
             Forward(o) \/ Produce(o) \/ Ask(o) \/ Serve(o)
               \/ ReceiveError(o) \/ Expire(o) \/ Late(o) \/ Cancel(o)
      PROVE  CallerTypeOK'
  BY <1>1, <1>3 DEF Forward, Produce, Ask, Serve, ReceiveError, Expire, Late,
                    Cancel, CallerTypeOK
<1>4. CASE Finish
  BY <1>4 DEF Finish, vars, CallerTypeOK
<1> QED BY <1>2, <1>3, <1>4 DEF Next

LEMMA OwnerKeeps ==
    ASSUME OwnerInv, Next
    PROVE  OwnerInv'
<1>1. ASSUME NEW o \in Remote PROVE o \in Nodes
  BY RemoteIsNode
<1>2. ASSUME NEW o \in Remote, Forward(o) PROVE OwnerInv'
  BY <1>1, <1>2, RegisterKeeps DEF Forward
<1>3. ASSUME NEW o \in Remote, Produce(o) PROVE OwnerInv'
  BY <1>1, <1>3, BeginKeeps, CheckKeeps, RowKeeps, StoreKeeps,
     EmptyPartKeeps DEF Produce
<1>4. ASSUME NEW o \in Remote, Ask(o) PROVE OwnerInv'
  BY <1>4, SendKeeps DEF Ask
<1>5. ASSUME NEW o \in Remote, Serve(o) PROVE OwnerInv'
  <2>1. ASSUME NEW max \in PullSizes, PullDrain(o, max) PROVE OwnerInv'
    BY <2>1, DrainKeeps, CallerAssumption DEF PullDrain
  <2> QED BY <1>5, <2>1, FindKeeps, FinishKeeps, FailKeeps DEF Serve
<1>6. ASSUME NEW o \in Remote, Receive(o) \/ ReceiveError(o) PROVE OwnerInv'
  BY <1>6, ReturnKeeps DEF Receive, ReceiveError
<1>7. ASSUME NEW o \in Remote, Expire(o) PROVE OwnerInv'
  BY <1>7, ExpireKeeps DEF Expire
<1>8. ASSUME NEW o \in Remote, Late(o) PROVE OwnerInv'
  <2>1. ASSUME NEW max \in PullSizes, LateDrain(o, max) PROVE OwnerInv'
    BY <2>1, LateDrainKeeps, CallerAssumption
  <2> QED BY <1>8, <2>1, LateFindKeeps, LateFinishKeeps DEF Late
<1>9. ASSUME NEW o \in Remote, Cancel(o) PROVE OwnerInv'
  BY <1>9, CancelKeeps DEF Cancel
<1>10. CASE Finish
  BY <1>10, StutterKeeps DEF Finish, vars
<1> QED BY <1>2, <1>3, <1>4, <1>5, <1>6, <1>7, <1>8, <1>9, <1>10 DEF Next

LEMMA BaseInvariant == Spec => [](OwnerInv /\ CallerTypeOK)
<1>1. Init => OwnerInv /\ CallerTypeOK
  BY InitKeeps, EmptySeq DEF Init, CallerTypeOK
<1>2. OwnerInv /\ CallerTypeOK /\ [Next]_vars => (OwnerInv /\ CallerTypeOK)'
  <2>1. CASE Next
    BY <2>1, OwnerKeeps, CallerKeeps
  <2>2. CASE UNCHANGED vars
    BY <2>2, StutterKeeps DEF vars, CallerTypeOK
  <2> QED BY <2>1, <2>2
<1> QED BY <1>1, <1>2, PTL DEF Spec

(* node.cpp:734-789: the state keeps its types and the producer's deque never
   holds more than kMaxBuffered rows, however PullChunk handlers, late ones
   included, interleave with the turn. *)
THEOREM OwnerBuffers == Spec => [](TypeOK /\ BufferCap)
<1>1. OwnerInv /\ CallerTypeOK => TypeOK /\ BufferCap
  BY DEF OwnerInv, CallerTypeOK, TypeOK, BufferRoom, BufferCap
<1> QED BY <1>1, BaseInvariant, PTL

-----------------------------------------------------------------------------
(* The stream of rows from one owner to its caller. *)

(* Until ForwardQuery nothing has happened at the owner. *)
Untouched(o) ==
    /\ ~registered[o] /\ ~done_producing[o] /\ producer[o] = "idle"
    /\ matched[o] = <<>> /\ matched_cursor[o] = 0
    /\ pull[o] = NoCall /\ taken[o] = <<>>
    /\ lateSent[o] = 0 /\ lateFound[o] = 0 /\ lateEmpty[o] = 0

(* What a call in each of its stages says about the owner. *)
CallConsistent(o) ==
    /\ pull[o].stage \in {"none", "sent", "found", "error"}
          => pull[o].rows = <<>>
    /\ pull[o].stage = "error" => PullNotFound(o)
    /\ pull[o].last => /\ pull[o].stage = "replied"
                       /\ pull[o].rows = <<>> /\ matched[o] = <<>>
                       /\ done_producing[o] /\ ~registered[o]

(* done_producing means what its name says. *)
DoneMeansAll(o) ==
    done_producing[o] => /\ matched_cursor[o] = NRows[o]
                         /\ producer[o] = "idle"

(* A query that was dropped and not cancelled has nothing left to give. *)
EndedEmpty(o) ==
    caller[o] # "start" /\ ~registered[o] /\ ~cancelled[o]
        => done_producing[o] /\ matched[o] = <<>>

NothingLate(o) ==
    timeouts = 0 => lateSent[o] = 0 /\ lateFound[o] = 0 /\ lateEmpty[o] = 0

Conserved(o) ==
    timeouts = 0 /\ ~cancelled[o] =>
        taken[o] \o pull[o].rows \o matched[o] = Rows(matched_cursor[o])

(* A caller that has stopped has no call under way and has what is said to
   it: everything, if it was told so. *)
CallerDone(o) ==
    /\ caller[o] \in {"finished", "refused"} => pull[o] = NoCall
    /\ timeouts = 0 /\ ~cancelled[o] /\ caller[o] = "finished"
          => taken[o] = Rows(NRows[o])
    /\ o \in HasPart /\ caller[o] \in {"finished", "refused"}
          => ~registered[o]

StreamOf(o) ==
    /\ caller[o] = "start" => Untouched(o)
    /\ CallConsistent(o)
    /\ DoneMeansAll(o)
    /\ EndedEmpty(o)
    /\ NothingLate(o)
    /\ Conserved(o)
    /\ CallerDone(o)

StreamInv == \A o \in Remote : StreamOf(o)

AllInv == OwnerInv /\ CallerTypeOK /\ StreamInv

(* Nothing StreamOf(p) is about changes, except that a call may expire. *)
Same(p) ==
    /\ registered'[p] = registered[p] /\ matched'[p] = matched[p]
    /\ matched_cursor'[p] = matched_cursor[p]
    /\ done_producing'[p] = done_producing[p] /\ producer'[p] = producer[p]
    /\ pull'[p] = pull[p] /\ cancelled'[p] = cancelled[p]
    /\ lateSent'[p] = lateSent[p] /\ lateFound'[p] = lateFound[p]
    /\ lateEmpty'[p] = lateEmpty[p]
    /\ taken'[p] = taken[p] /\ caller'[p] = caller[p]
    /\ timeouts' = 0 => timeouts = 0

LEMMA SameKeeps ==
    ASSUME NEW p \in Remote, StreamOf(p), Same(p)
    PROVE  StreamOf(p)'
BY DEF Same, StreamOf, Untouched, CallConsistent, DoneMeansAll, EndedEmpty,
       NothingLate, Conserved, CallerDone, PullNotFound

(* What a step at o leaves alone elsewhere. *)
LEMMA OthersSame ==
    ASSUME AllInv, NEW o \in Remote, NEW p \in Remote, p # o,
           \/ Forward(o) \/ Produce(o) \/ Ask(o) \/ Serve(o)
           \/ Receive(o) \/ ReceiveError(o) \/ Expire(o) \/ Late(o)
           \/ Cancel(o)
    PROVE  Same(p)
<1> USE RemoteIsNode DEF AllInv, OwnerInv, OwnerTypeOK, CallerTypeOK, Same,
        requestVars, producerVars, callVars
<1>1. CASE Forward(o)
  BY <1>1 DEF Forward, RegisterRequest
<1>2. CASE Produce(o)
  BY <1>2 DEF Produce, ProduceBegin, ProduceCheck, ProduceRow, ProduceStore,
              ProduceEmptyPart
<1>3. CASE Ask(o)
  BY <1>3 DEF Ask, PullSend
<1>4. CASE Serve(o)
  BY <1>4 DEF Serve, PullFind, PullDrain, Drained, PullFinish, PullFail,
              DropAtLast
<1>5. CASE Receive(o) \/ ReceiveError(o)
  BY <1>5 DEF Receive, ReceiveError, PullReturn
<1>6. CASE Expire(o)
  BY <1>6 DEF Expire, PullExpire
<1>7. CASE Late(o)
  BY <1>7 DEF Late, LateFind, LateDrain, LateFinish, DropAtLast
<1>8. CASE Cancel(o)
  BY <1>8 DEF Cancel, CancelRequest
<1> QED BY <1>1, <1>2, <1>3, <1>4, <1>5, <1>6, <1>7, <1>8

(* The types of o's part of the state. *)
LEMMA Types ==
    ASSUME AllInv, NEW o \in Remote
    PROVE  /\ o \in Nodes /\ o # Self
           /\ matched[o] \in Seq(Nat) /\ taken[o] \in Seq(Nat)
           /\ pull[o] \in [stage : {"none", "sent", "found", "drained",
                                     "replied", "error"},
                            rows : Seq(Nat), last : BOOLEAN]
           /\ pull[o].rows \in Seq(Nat)
           /\ matched_cursor[o] \in Nat /\ NRows[o] \in Nat
           /\ matched_cursor[o] <= NRows[o]
           /\ timeouts \in Nat
<1>1. o \in Nodes /\ o # Self
  BY DEF Remote, Nodes
<1> QED BY <1>1, OwnerAssumption
        DEF AllInv, OwnerInv, OwnerTypeOK, CallerTypeOK, CursorInRange

-----------------------------------------------------------------------------
(* One lemma for each kind of step: what o's own step does to StreamOf(o). *)

LEMMA ForwardStream ==
    ASSUME AllInv, NEW o \in Remote, Forward(o)
    PROVE  StreamOf(o)'
<1>1. /\ Untouched(o) /\ CallConsistent(o) /\ NothingLate(o)
      /\ o \in Nodes /\ caller[o] = "start"
  BY Types DEF AllInv, StreamInv, StreamOf, Forward
<1>2. /\ registered'[o] = TRUE /\ matched'[o] = <<>>
      /\ matched_cursor'[o] = 0 /\ producer'[o] = "idle"
      /\ done_producing'[o] = (o \in HasPart /\ NRows[o] = 0)
      /\ pull' = pull /\ lateSent' = lateSent /\ lateFound' = lateFound
      /\ lateEmpty' = lateEmpty
      /\ taken' = taken /\ timeouts' = timeouts /\ caller'[o] = "asking"
  BY <1>1 DEF Forward, RegisterRequest, Untouched, AllInv, OwnerInv,
              OwnerTypeOK, CallerTypeOK, callVars
<1>3. taken[o] = <<>> /\ pull[o] = NoCall
  BY <1>1 DEF Untouched
<1>4. <<>> \o <<>> \o <<>> = Rows(0)
  BY NoRows, ConcatEmptySeq, EmptySeq
<1>5. Conserved(o)'
  BY <1>2, <1>3, <1>4 DEF Conserved, NoCall
<1>6. CallConsistent(o)'
  BY <1>2, <1>3 DEF CallConsistent, NoCall
<1>7. NothingLate(o)' /\ DoneMeansAll(o)' /\ EndedEmpty(o)' /\ CallerDone(o)'
  BY <1>1, <1>2 DEF NothingLate, DoneMeansAll, EndedEmpty, CallerDone
<1> QED BY <1>2, <1>5, <1>6, <1>7 DEF StreamOf

LEMMA ProduceStream ==
    ASSUME AllInv, NEW o \in Remote, Produce(o)
    PROVE  StreamOf(o)'
<1>1. /\ StreamOf(o) /\ o \in Nodes /\ o # Self
      /\ matched_cursor[o] \in Nat /\ NRows[o] \in Nat
      /\ matched_cursor[o] <= NRows[o]
  BY Types DEF AllInv, StreamInv
<1>2. /\ registered' = registered /\ pull' = pull /\ lateSent' = lateSent
      /\ lateFound' = lateFound
      /\ lateEmpty' = lateEmpty /\ taken' = taken /\ caller' = caller
      /\ timeouts' = timeouts /\ cancelled' = cancelled
  BY DEF Produce, ProduceBegin, ProduceCheck, ProduceRow, ProduceStore,
         ProduceEmptyPart, requestVars, callVars
<1>3. caller[o] # "start"
  BY <1>1 DEF Produce, ProduceBegin, ProduceCheck, ProduceRow, ProduceStore,
              ProduceEmptyPart, StreamOf, Untouched
<1>4. NothingLate(o)' /\ CallerDone(o)'
  BY <1>1, <1>2 DEF StreamOf, NothingLate, CallerDone
(* A query that has ended is done, and the producer does nothing for it. *)
<1>4a. EndedEmpty(o)'
  <2>1. SUFFICES ASSUME ~registered[o], ~cancelled[o] PROVE FALSE
    BY <1>2 DEF EndedEmpty
  <2>2. done_producing[o] /\ producer[o] = "idle"
    BY <1>1, <1>3, <2>1 DEF StreamOf, EndedEmpty, DoneMeansAll
  <2> QED BY <2>1, <2>2 DEF Produce, ProduceBegin, ProduceCheck, ProduceRow,
                            ProduceStore, ProduceEmptyPart
<1>5. CASE ProduceRow(o)
  <2>1. /\ matched'[o] = Append(matched[o], matched_cursor[o] + 1)
        /\ matched_cursor'[o] = matched_cursor[o] + 1
        /\ done_producing' = done_producing /\ producer[o] = "push"
    BY <1>1, <1>5 DEF ProduceRow, Pushed, AllInv, OwnerInv, OwnerTypeOK
  <2>2. ~done_producing[o] /\ ~pull[o].last
    BY <1>1, <2>1 DEF StreamOf, DoneMeansAll, CallConsistent
  <2>3. CallConsistent(o)' /\ DoneMeansAll(o)'
    BY <1>1, <1>2, <2>1, <2>2
       DEF StreamOf, CallConsistent, DoneMeansAll, PullNotFound
  <2>4. Conserved(o)'
    <3>1. SUFFICES ASSUME timeouts = 0, ~cancelled[o]
                   PROVE  taken[o] \o pull[o].rows \o matched'[o]
                             = Rows(matched_cursor[o] + 1)
      BY <1>2, <2>1 DEF Conserved
    <3> DEFINE s == taken[o] \o pull[o].rows
               k == matched_cursor[o]
    <3>2. /\ s \in Seq(Nat) /\ matched[o] \in Seq(Nat) /\ k \in Nat
          /\ s \o matched[o] = Rows(k)
      BY <1>1, <3>1, Types, ConcatProperties DEF StreamOf, Conserved
    <3>3. k + 1 \in Nat
      BY <3>2
    <3> HIDE DEF s, k
    <3>4. s \o Append(matched[o], k + 1) = Append(s \o matched[o], k + 1)
      BY <3>2, <3>3, ConcatAppend
    <3>5. Append(s \o matched[o], k + 1) = Rows(k + 1)
      BY <3>2, NextRow
    <3> QED BY <2>1, <3>4, <3>5 DEF s, k
  <2> QED BY <1>2, <1>3, <1>4, <1>4a, <2>3, <2>4 DEF StreamOf
<1>6. CASE \/ ProduceBegin(o) \/ ProduceCheck(o)
          \/ ProduceStore(o) \/ ProduceEmptyPart(o)
  <2>1. matched' = matched /\ matched_cursor' = matched_cursor
    BY <1>6 DEF ProduceBegin, ProduceCheck, ProduceStore, ProduceEmptyPart,
                requestVars
  <2>2. DoneMeansAll(o)' /\ (done_producing[o] => done_producing'[o])
    <3>1. CASE ProduceBegin(o) \/ ProduceCheck(o)
      <4>1. ~done_producing[o] /\ done_producing' = done_producing
        BY <1>1, <3>1 DEF ProduceBegin, ProduceCheck, requestVars, StreamOf,
                          DoneMeansAll
      <4> QED BY <4>1 DEF DoneMeansAll
    <3>2. CASE ProduceStore(o)
      <4>1. /\ done_producing'[o] = StoredDone(o) /\ producer'[o] = "idle"
            /\ matched_cursor' = matched_cursor
        BY <1>1, <3>2
           DEF ProduceStore, AllInv, OwnerInv, OwnerTypeOK
      <4>2. StoredDone(o) => matched_cursor[o] = NRows[o]
        BY <1>1 DEF StoredDone, StreamOf, DoneMeansAll
      <4> QED BY <4>1, <4>2 DEF DoneMeansAll, StoredDone
    <3>3. CASE ProduceEmptyPart(o)
      <4>1. /\ producer'[o] = "idle" /\ matched_cursor' = matched_cursor
            /\ done_producing'[o] = TRUE /\ o \notin HasPart
        BY <1>1, <3>3
           DEF ProduceEmptyPart, AllInv, OwnerInv, OwnerTypeOK
      <4>2. NRows[o] = 0
        BY <1>1, <4>1, OwnerAssumption
      <4> QED BY <1>1, <4>1, <4>2 DEF DoneMeansAll
    <3> QED BY <1>6, <3>1, <3>2, <3>3
  <2>3. CallConsistent(o)' /\ Conserved(o)'
    BY <1>1, <1>2, <2>1, <2>2
       DEF StreamOf, CallConsistent, Conserved, PullNotFound
  <2> QED BY <1>2, <1>3, <1>4, <1>4a, <2>2, <2>3 DEF StreamOf
<1> QED BY <1>5, <1>6 DEF Produce

LEMMA AskStream ==
    ASSUME AllInv, NEW o \in Remote, Ask(o)
    PROVE  StreamOf(o)'
<1>1. /\ StreamOf(o) /\ pull[o].stage = "none" /\ caller[o] = "asking"
      /\ pull'[o] = Sent
      /\ UNCHANGED <<requestVars, producerVars, lateSent, lateFound, lateEmpty,
                     taken, caller, timeouts>>
  BY DEF Ask, PullSend, AllInv, StreamInv, OwnerInv, OwnerTypeOK
<1>2. pull[o].rows = <<>>
  BY <1>1 DEF StreamOf, CallConsistent
<1>3. pull'[o].rows = <<>> /\ pull'[o].stage = "sent" /\ ~pull'[o].last
  BY <1>1 DEF Sent
<1>4. CallConsistent(o)'
  BY <1>3 DEF CallConsistent
<1>5. Conserved(o)'
  BY <1>1, <1>2, <1>3 DEF StreamOf, Conserved, requestVars
<1>6. DoneMeansAll(o)' /\ EndedEmpty(o)' /\ NothingLate(o)' /\ CallerDone(o)'
  BY <1>1 DEF StreamOf, DoneMeansAll, EndedEmpty, NothingLate, CallerDone,
              requestVars, producerVars
<1> QED BY <1>1, <1>4, <1>5, <1>6 DEF StreamOf

LEMMA ServeStream ==
    ASSUME AllInv, NEW o \in Remote, Serve(o)
    PROVE  StreamOf(o)'
<1>1. /\ StreamOf(o) /\ o \in Nodes
      /\ UNCHANGED <<matched_cursor, done_producing, cancelled, producer,
                     lateSent, lateFound, lateEmpty, taken, caller,
                     timeouts>>
  BY Types DEF Serve, PullFind, PullDrain, Drained, PullFinish, PullFail,
               AllInv, StreamInv, requestVars, producerVars
<1>2. DoneMeansAll(o)' /\ NothingLate(o)'
  BY <1>1 DEF StreamOf, DoneMeansAll, NothingLate
<1>3. pull[o] # NoCall
  BY DEF Serve, PullFind, PullDrain, PullFinish, PullFail, NoCall
<1>4. caller[o] = "asking"
  BY <1>1, <1>3 DEF StreamOf, Untouched, CallerDone, AllInv, CallerTypeOK
<1>5. CallerDone(o)'
  BY <1>1, <1>4 DEF CallerDone
(* It goes on being empty, and a query that ends now is. *)
<1>5a. ASSUME \/ registered'[o] = registered[o]
              \/ done_producing[o] /\ matched[o] = <<>>,
              matched[o] = <<>> => matched'[o] = <<>>
       PROVE  EndedEmpty(o)'
  BY <1>1, <1>4, <1>5a DEF StreamOf, EndedEmpty
<1>5b. CASE PullFind(o)
  <2>1. /\ pull[o].stage = "sent" /\ pull'[o] = Found
        /\ UNCHANGED <<registered, matched>>
    BY <1>5b DEF PullFind, requestVars, AllInv, OwnerInv, OwnerTypeOK
  <2>2. pull[o].rows = <<>>
    BY <1>1, <2>1 DEF StreamOf, CallConsistent
  <2>3. pull'[o].stage = "found" /\ pull'[o].rows = <<>> /\ ~pull'[o].last
    BY <2>1 DEF Found
  <2>4. CallConsistent(o)'
    BY <2>3 DEF CallConsistent
  <2>5. Conserved(o)'
    BY <1>1, <2>1, <2>2, <2>3 DEF StreamOf, Conserved
  <2>6. EndedEmpty(o)'
    BY <1>5a, <2>1
  <2> QED BY <1>1, <1>2, <1>4, <1>5, <2>4, <2>5, <2>6 DEF StreamOf
<1>6. ASSUME NEW max \in PullSizes, PullDrain(o, max) PROVE StreamOf(o)'
  <2> DEFINE front == SubSeq(matched[o], 1, Take(o, max))
  <2>1. /\ pull[o].stage = "found" /\ pull'[o].rows = front
        /\ pull'[o].stage = "drained" /\ ~pull'[o].last
        /\ matched'[o] = Rest(o, max) /\ max \in Nat
    BY <1>1, <1>6, CallerAssumption
       DEF PullDrain, Drained, AllInv, OwnerInv, OwnerTypeOK
  <2>2. pull[o].rows = <<>>
    BY <1>1, <2>1 DEF StreamOf, CallConsistent
  <2>3. CallConsistent(o)'
    BY <2>1 DEF CallConsistent
  <2>3a. EndedEmpty(o)'
    <3>1. registered' = registered
      BY <1>6 DEF PullDrain, Drained
    <3>2. matched[o] = <<>> => Rest(o, max) = <<>>
      BY <2>1, EmptyRest DEF AllInv
    <3> QED BY <1>5a, <2>1, <3>1, <3>2
  <2>4. Conserved(o)'
    <3>1. SUFFICES taken[o] \o front \o Rest(o, max)
                      = taken[o] \o pull[o].rows \o matched[o]
      BY <1>1, <2>1 DEF StreamOf, Conserved
    <3>2. /\ front \in Seq(Nat) /\ Rest(o, max) \in Seq(Nat)
          /\ taken[o] \in Seq(Nat)
      BY <2>1, DrainedDeque, Types DEF AllInv
    <3>3. front \o Rest(o, max) = matched[o]
      BY <2>1, DequeSplit DEF AllInv
    <3> HIDE DEF front
    <3>4. (taken[o] \o front) \o Rest(o, max)
             = taken[o] \o (front \o Rest(o, max))
      BY <3>2, RowsAssociate, Zenon
    <3>5. taken[o] \o <<>> = taken[o]
      BY <3>2, ConcatEmptySeq
    <3> QED BY <2>2, <3>3, <3>4, <3>5
  <2> QED BY <1>1, <1>2, <1>4, <1>5, <2>3, <2>3a, <2>4 DEF StreamOf
<1>7. CASE PullFinish(o)
  <2>1. /\ pull[o].stage = "drained" /\ pull'[o].stage = "replied"
        /\ pull'[o].rows = pull[o].rows /\ matched' = matched
        /\ pull'[o].last = (NoMoreRows(o) /\ pull[o].rows = <<>>)
        /\ registered'[o] = (registered[o] /\ ~pull'[o].last)
    BY <1>1, <1>7 DEF PullFinish, DropAtLast, AllInv, OwnerInv, OwnerTypeOK
  <2>2. CallConsistent(o)'
    BY <1>1, <2>1 DEF CallConsistent, NoMoreRows
  <2>3. Conserved(o)'
    BY <1>1, <2>1 DEF StreamOf, Conserved
  <2>4. EndedEmpty(o)'
    BY <1>1, <1>5a, <2>1 DEF NoMoreRows, AllInv, OwnerInv, OwnerTypeOK
  <2> QED BY <1>1, <1>2, <1>4, <1>5, <2>2, <2>3, <2>4 DEF StreamOf
<1>8. CASE PullNotFound(o) /\ PullFail(o)
  <2>1. /\ pull[o].stage = "sent" /\ pull'[o] = Failed
        /\ UNCHANGED <<registered, matched>>
    BY <1>8 DEF PullFail, requestVars, AllInv, OwnerInv, OwnerTypeOK
  <2>2. pull[o].rows = <<>>
    BY <1>1, <2>1 DEF StreamOf, CallConsistent
  <2>3. CallConsistent(o)'
    BY <1>8, <2>1 DEF CallConsistent, PullNotFound, Failed
  <2>4. pull'[o].rows = <<>>
    BY <2>1 DEF Failed
  <2>5. Conserved(o)'
    BY <1>1, <2>1, <2>2, <2>4 DEF StreamOf, Conserved
  <2>6. EndedEmpty(o)'
    BY <1>5a, <2>1
  <2> QED BY <1>1, <1>2, <1>4, <1>5, <2>3, <2>5, <2>6 DEF StreamOf
<1> QED BY <1>5b, <1>6, <1>7, <1>8 DEF Serve

LEMMA ReceiveStream ==
    ASSUME AllInv, NEW o \in Remote, Receive(o)
    PROVE  StreamOf(o)'
<1>1. /\ StreamOf(o) /\ o \in Nodes /\ pull[o].stage = "replied"
      /\ pull'[o] = NoCall /\ taken'[o] = taken[o] \o pull[o].rows
      /\ caller'[o] = IF pull[o].last THEN "finished" ELSE caller[o]
      /\ UNCHANGED <<requestVars, producerVars, lateSent, lateFound, lateEmpty,
                     timeouts>>
  BY Types DEF Receive, PullReturn, AllInv, StreamInv, OwnerInv, OwnerTypeOK,
               CallerTypeOK
<1>2. /\ pull'[o].rows = <<>> /\ pull'[o].stage = "none" /\ ~pull'[o].last
      /\ pull[o] # NoCall
  BY <1>1 DEF NoCall
<1>3. caller[o] = "asking"
  BY <1>1, <1>2 DEF StreamOf, Untouched, CallerDone, AllInv, CallerTypeOK
<1>4. CallConsistent(o)'
  BY <1>2 DEF CallConsistent
<1>5. DoneMeansAll(o)' /\ EndedEmpty(o)' /\ NothingLate(o)'
  BY <1>1, <1>3 DEF StreamOf, DoneMeansAll, EndedEmpty, NothingLate,
                    requestVars, producerVars
<1>6. taken[o] \o pull[o].rows \in Seq(Nat) /\ matched[o] \in Seq(Nat)
  BY Types, ConcatProperties
<1>7. Conserved(o)'
  <2>1. (taken[o] \o pull[o].rows) \o <<>> = taken[o] \o pull[o].rows
    BY <1>6, ConcatEmptySeq
  <2> QED BY <1>1, <1>2, <2>1 DEF StreamOf, Conserved, requestVars
<1>8. CallerDone(o)'
  <2>1. CASE ~pull[o].last
    BY <1>1, <1>3, <2>1 DEF CallerDone
  <2>2. CASE pull[o].last
    <3>1. /\ matched[o] = <<>> /\ matched_cursor[o] = NRows[o]
          /\ ~registered[o]
      BY <1>1, <2>2 DEF StreamOf, CallConsistent, DoneMeansAll
    <3>2. (taken[o] \o pull[o].rows) \o <<>> = taken[o] \o pull[o].rows
      BY <1>6, ConcatEmptySeq
    <3>3. timeouts = 0 /\ ~cancelled[o] =>
             taken[o] \o pull[o].rows = Rows(NRows[o])
      BY <1>1, <3>1, <3>2 DEF StreamOf, Conserved
    <3> QED BY <1>1, <3>1, <3>3 DEF CallerDone, requestVars
  <2> QED BY <2>1, <2>2
<1> QED BY <1>1, <1>3, <1>4, <1>5, <1>7, <1>8 DEF StreamOf

LEMMA ReceiveErrorStream ==
    ASSUME AllInv, NEW o \in Remote, ReceiveError(o)
    PROVE  StreamOf(o)'
<1>1. /\ StreamOf(o) /\ o \in Nodes /\ pull[o].stage = "error"
      /\ pull'[o] = NoCall /\ caller'[o] = "refused"
      /\ UNCHANGED <<requestVars, producerVars, lateSent, lateFound, lateEmpty,
                     taken, timeouts>>
  BY Types DEF ReceiveError, PullReturn, AllInv, StreamInv, OwnerInv,
               OwnerTypeOK, CallerTypeOK
<1>2. /\ pull'[o].rows = <<>> /\ pull'[o].stage = "none" /\ ~pull'[o].last
  BY <1>1 DEF NoCall
<1>3. pull[o].rows = <<>> /\ PullNotFound(o)
  BY <1>1 DEF StreamOf, CallConsistent
<1>4. CallConsistent(o)'
  BY <1>2 DEF CallConsistent
<1>4a. caller[o] # "start"
  BY <1>1 DEF StreamOf, Untouched, NoCall
<1>5. DoneMeansAll(o)' /\ EndedEmpty(o)' /\ NothingLate(o)'
  BY <1>1, <1>4a DEF StreamOf, DoneMeansAll, EndedEmpty, NothingLate,
                     requestVars, producerVars
<1>6. Conserved(o)'
  BY <1>1, <1>2, <1>3 DEF StreamOf, Conserved, requestVars
<1>7. CallerDone(o)'
  BY <1>1, <1>3 DEF CallerDone, PullNotFound, requestVars
<1> QED BY <1>1, <1>4, <1>5, <1>6, <1>7 DEF StreamOf

(* After a deadline nothing is said of the rows; the rest goes on to hold. *)
LEMMA ExpireStream ==
    ASSUME AllInv, NEW o \in Remote, Expire(o)
    PROVE  StreamOf(o)'
<1>1. /\ StreamOf(o) /\ timeouts' = timeouts + 1 /\ timeouts \in Nat
      /\ pull[o].stage # "none" /\ pull'[o] = NoCall
      /\ UNCHANGED <<requestVars, producerVars, taken, caller>>
  BY Types DEF Expire, PullExpire, AllInv, StreamInv, OwnerInv, OwnerTypeOK
<1>2. timeouts' # 0
  BY <1>1
<1>3. /\ pull'[o].rows = <<>> /\ pull'[o].stage = "none" /\ ~pull'[o].last
      /\ pull[o] # NoCall
  BY <1>1 DEF NoCall
<1>4. caller[o] # "start"
  BY <1>1, <1>3 DEF StreamOf, Untouched
<1>5. CallConsistent(o)' /\ NothingLate(o)' /\ Conserved(o)'
  BY <1>2, <1>3 DEF CallConsistent, NothingLate, Conserved
<1>6. DoneMeansAll(o)' /\ EndedEmpty(o)' /\ CallerDone(o)'
  BY <1>1, <1>2 DEF StreamOf, DoneMeansAll, EndedEmpty, CallerDone,
                    requestVars, producerVars
<1> QED BY <1>1, <1>4, <1>5, <1>6 DEF StreamOf

LEMMA LateStream ==
    ASSUME AllInv, NEW o \in Remote, Late(o)
    PROVE  StreamOf(o)'
<1>1. /\ StreamOf(o) /\ o \in Nodes
      /\ UNCHANGED <<matched_cursor, done_producing, cancelled, producer, pull,
                     taken, caller, timeouts>>
  BY Types DEF Late, LateFind, LateDrain, LateFinish, AllInv, StreamInv,
               requestVars, producerVars
<1>2. timeouts # 0 /\ caller[o] # "start"
  BY <1>1 DEF Late, LateFind, LateDrain, LateFinish, StreamOf, NothingLate,
              Untouched
<1>3. matched[o] = <<>> => matched'[o] = <<>>
  <2>1. ASSUME NEW max \in PullSizes, LateDrain(o, max), matched[o] = <<>>
        PROVE  matched'[o] = <<>>
    <3>1. matched'[o] = Rest(o, max) /\ max \in Nat
      BY <1>1, <2>1, CallerAssumption
         DEF LateDrain, AllInv, OwnerInv, OwnerTypeOK
    <3> QED BY <2>1, <3>1, EmptyRest DEF AllInv
  <2>2. CASE LateFind(o) \/ LateFinish(o)
    BY <2>2 DEF LateFind, LateFinish, requestVars
  <2> QED BY <2>1, <2>2 DEF Late
<1>4. \/ registered'[o] = registered[o]
      \/ ~registered'[o] /\ done_producing[o] /\ matched[o] = <<>>
  <2>1. CASE LateFinish(o)
    BY <1>1, <2>1 DEF LateFinish, DropAtLast, NoMoreRows, AllInv, OwnerInv,
                      OwnerTypeOK
  <2>2. CASE ~LateFinish(o)
    BY <2>2 DEF Late, LateFind, LateDrain, requestVars
  <2> QED BY <2>1, <2>2
<1>5. NothingLate(o)' /\ Conserved(o)'
  BY <1>1, <1>2 DEF NothingLate, Conserved
<1>6. DoneMeansAll(o)' /\ EndedEmpty(o)' /\ CallerDone(o)'
  BY <1>1, <1>2, <1>3, <1>4
     DEF StreamOf, DoneMeansAll, EndedEmpty, CallerDone
<1>7. CallConsistent(o)'
  BY <1>1, <1>3, <1>4 DEF StreamOf, CallConsistent, PullNotFound
<1> QED BY <1>1, <1>2, <1>5, <1>6, <1>7 DEF StreamOf

(* After a cancel nothing is said of the rows either. *)
LEMMA CancelStream ==
    ASSUME AllInv, NEW o \in Remote, Cancel(o)
    PROVE  StreamOf(o)'
<1>1. /\ StreamOf(o) /\ o \in Nodes /\ registered[o]
      /\ UNCHANGED <<matched_cursor, done_producing, producer, pull, lateSent,
                     lateFound, lateEmpty, taken, caller, timeouts>>
  BY Types DEF Cancel, CancelRequest, AllInv, StreamInv, producerVars, callVars
<1>2. \/ /\ cancelled'[o] = TRUE /\ matched'[o] = <<>>
         /\ registered'[o] = FALSE
      \/ UNCHANGED <<cancelled, matched, registered>>
  BY <1>1 DEF Cancel, CancelRequest, AllInv, OwnerInv, OwnerTypeOK
<1>3. caller[o] # "start"
  BY <1>1 DEF StreamOf, Untouched
<1>4. DoneMeansAll(o)' /\ NothingLate(o)'
  BY <1>1 DEF StreamOf, DoneMeansAll, NothingLate
<1>5. CallConsistent(o)' /\ Conserved(o)' /\ EndedEmpty(o)' /\ CallerDone(o)'
  BY <1>1, <1>2 DEF StreamOf, CallConsistent, PullNotFound, Conserved,
                    EndedEmpty, CallerDone
<1> QED BY <1>1, <1>3, <1>4, <1>5 DEF StreamOf

-----------------------------------------------------------------------------
LEMMA StreamInvariant == Spec => []AllInv
<1>1. Init => AllInv
  <2> SUFFICES ASSUME Init PROVE AllInv
    OBVIOUS
  <2>1. OwnerInv /\ CallerTypeOK
    BY InitKeeps, EmptySeq DEF Init, CallerTypeOK
  <2>2. ASSUME NEW o \in Remote PROVE StreamOf(o)
    <3>1. /\ Untouched(o) /\ o \in Nodes /\ caller[o] = "start"
          /\ lateSent[o] = 0 /\ lateFound[o] = 0 /\ lateEmpty[o] = 0
      BY RemoteIsNode DEF Init, OwnerInit, Untouched
    <3>2. <<>> \o <<>> \o <<>> = Rows(0)
      BY NoRows, ConcatEmptySeq, EmptySeq
    <3>3. Conserved(o)
      BY <3>1, <3>2 DEF Untouched, Conserved, NoCall
    <3> QED BY <3>1, <3>3 DEF StreamOf, Untouched, CallConsistent,
               DoneMeansAll, EndedEmpty, NothingLate, CallerDone, NoCall
  <2> QED BY <2>1, <2>2 DEF AllInv, StreamInv
<1>2. AllInv /\ [Next]_vars => AllInv'
  <2> SUFFICES ASSUME AllInv, [Next]_vars PROVE AllInv'
    OBVIOUS
  <2>1. (OwnerInv /\ CallerTypeOK)'
    BY OwnerKeeps, CallerKeeps, StutterKeeps DEF AllInv, vars, CallerTypeOK
  <2>2. ASSUME NEW o \in Remote,
               \/ Forward(o) \/ Produce(o) \/ Ask(o) \/ Serve(o)
               \/ Receive(o) \/ ReceiveError(o) \/ Expire(o) \/ Late(o)
               \/ Cancel(o)
        PROVE  StreamInv'
    <3>1. StreamOf(o)'
      BY <2>2, ForwardStream, ProduceStream, AskStream, ServeStream,
         ReceiveStream, ReceiveErrorStream, ExpireStream, LateStream,
         CancelStream
    <3>2. ASSUME NEW p \in Remote, p # o PROVE StreamOf(p)'
      BY <2>2, <3>2, OthersSame, SameKeeps DEF AllInv, StreamInv
    <3> QED BY <3>1, <3>2 DEF StreamInv
  <2>3. CASE UNCHANGED vars
    <3>1. ASSUME NEW p \in Remote PROVE StreamOf(p)'
      <4>1. Same(p)
        BY <2>3 DEF Same, vars, ownerVars, requestVars, producerVars, callVars
      <4>2. StreamOf(p)
        BY DEF AllInv, StreamInv
      <4> QED BY <4>1, <4>2, SameKeeps
    <3> QED BY <2>1, <3>1 DEF AllInv, StreamInv
  <2>4. CASE Finish
    BY <2>3, <2>4 DEF Finish
  <2> QED BY <2>1, <2>2, <2>3, <2>4 DEF Next, AllInv
<1> QED BY <1>1, <1>2, PTL DEF Spec

(* node.cpp:565-582 and 767-776: without a deadline no row is lost, doubled
   or out of order between producer and caller, whatever the sizes of the
   deque, the turn and the chunks. *)
THEOREM RowsConserved == Spec => []Conservation
<1>1. AllInv => Conservation
  BY DEF AllInv, StreamInv, StreamOf, Conserved, Conservation
<1> QED BY <1>1, StreamInvariant, PTL

(* node.cpp:573-578: is_last is never said too early. *)
THEOREM LastIsHonest == Spec => []LastMeansAll
<1>1. AllInv => LastMeansAll
  BY DEF AllInv, StreamInv, StreamOf, CallerDone, LastMeansAll
<1> QED BY <1>1, StreamInvariant, PTL

(* node.cpp:589: an owner with rows whose caller is through keeps nothing of
   the query, deadlines and cancels or not. *)
THEOREM OwnersForget == Spec => []FinishedIsDropped
<1>1. AllInv => FinishedIsDropped
  BY DEF AllInv, StreamInv, StreamOf, CallerDone, FinishedIsDropped
<1> QED BY <1>1, StreamInvariant, PTL

-----------------------------------------------------------------------------
(* The order of the rows, deadlines and cancels included: those the caller
   has, those in the answer and those in the deque. *)

Stream(o) == taken[o] \o (pull[o].rows \o matched[o])

InOrder(o) == Ordered(Stream(o), matched_cursor[o])

(* All three hold rows. *)
LEMMA StreamTypes ==
    ASSUME AllInv, NEW o \in Remote
    PROVE  /\ taken[o] \in Seq(Nat) /\ pull[o].rows \in Seq(Nat)
           /\ matched[o] \in Seq(Nat) /\ matched_cursor[o] \in Nat
           /\ pull[o].rows \o matched[o] \in Seq(Nat)
           /\ taken[o] \o pull[o].rows \in Seq(Nat)
           /\ Stream(o) = (taken[o] \o pull[o].rows) \o matched[o]
<1>1. /\ taken[o] \in Seq(Nat) /\ pull[o].rows \in Seq(Nat)
      /\ matched[o] \in Seq(Nat) /\ matched_cursor[o] \in Nat
  BY Types
<1>2. (taken[o] \o pull[o].rows) \o matched[o]
         = taken[o] \o (pull[o].rows \o matched[o])
  BY <1>1, RowsAssociate, Zenon
<1> QED BY <1>1, <1>2, ConcatProperties DEF Stream

(* Whatever happens to o's query, deadlines and cancels included, its rows
   stay in order. *)
LEMMA OwnStepInOrder ==
    ASSUME AllInv, NEW o \in Remote, InOrder(o),
           \/ Forward(o) \/ Produce(o) \/ Ask(o) \/ Serve(o)
           \/ Receive(o) \/ ReceiveError(o) \/ Expire(o) \/ Late(o)
           \/ Cancel(o)
    PROVE  InOrder(o)'
<1>1. /\ o \in Nodes /\ StreamOf(o)
      /\ taken[o] \in Seq(Nat) /\ pull[o].rows \in Seq(Nat)
      /\ matched[o] \in Seq(Nat) /\ matched_cursor[o] \in Nat
      /\ pull[o].rows \o matched[o] \in Seq(Nat)
      /\ taken[o] \o pull[o].rows \in Seq(Nat)
      /\ Stream(o) = (taken[o] \o pull[o].rows) \o matched[o]
  BY Types, StreamTypes DEF AllInv, StreamInv
<1>2. /\ \A s \in Seq(Nat) : s \o <<>> = s /\ <<>> \o s = s
      /\ <<>> \in Seq(Nat)
  BY ConcatEmptySeq, EmptySeq
(* The stream stays as it is, only the parts it is cut into change. *)
<1>3. ASSUME matched_cursor'[o] = matched_cursor[o], Stream(o)' = Stream(o)
      PROVE  InOrder(o)'
  BY <1>3 DEF InOrder
<1>4. ASSUME taken'[o] = taken[o], pull'[o].rows = pull[o].rows,
             matched'[o] = matched[o], matched_cursor'[o] = matched_cursor[o]
      PROVE  InOrder(o)'
  BY <1>3, <1>4 DEF Stream
(* Rows are lost at the front of the deque, or all of them. *)
<1>5. ASSUME taken'[o] = taken[o], pull'[o].rows = pull[o].rows,
             matched_cursor'[o] = matched_cursor[o],
             NEW lost \in Seq(Nat), NEW left \in Seq(Nat),
             matched[o] = lost \o left, matched'[o] = left
      PROVE  InOrder(o)'
  <2>1. taken[o] \in Seq(Nat) /\ pull[o].rows \in Seq(Nat)
    BY <1>1
  <2>2. Ordered((taken[o] \o pull[o].rows) \o (lost \o left),
                matched_cursor[o])
    BY <1>1, <1>5 DEF InOrder
  <2>3. Ordered((taken[o] \o pull[o].rows) \o left, matched_cursor[o])
    BY <1>1, <1>5, <2>2, OrderedErase
  <2>4. (taken[o] \o pull[o].rows) \o left = taken[o] \o (pull[o].rows \o left)
    BY <1>5, <2>1, RowsAssociate, ZenonT(30)
  <2> QED BY <1>5, <2>3, <2>4 DEF InOrder, Stream
<1>6. CASE Forward(o)
  <2>1. /\ Untouched(o) /\ matched'[o] = <<>> /\ matched_cursor'[o] = 0
        /\ pull' = pull /\ taken' = taken
    BY <1>1, <1>6 DEF Forward, RegisterRequest, StreamOf, Untouched, AllInv,
                      OwnerInv, OwnerTypeOK, callVars
  <2>2. /\ taken'[o] = taken[o] /\ pull'[o].rows = pull[o].rows
        /\ matched'[o] = matched[o] /\ matched_cursor'[o] = matched_cursor[o]
    BY <2>1 DEF Untouched
  <2> QED BY <1>4, <2>2
<1>7. CASE Produce(o)
  <2>1. taken' = taken /\ pull' = pull
    BY <1>7 DEF Produce, ProduceBegin, ProduceCheck, ProduceRow, ProduceStore,
                ProduceEmptyPart, callVars
  <2>2. CASE ProduceRow(o)
    <3> DEFINE k == matched_cursor[o]
               s == taken[o] \o pull[o].rows
    <3>1. matched'[o] = Append(matched[o], k + 1) /\ matched_cursor'[o] = k + 1
      BY <1>1, <2>2 DEF ProduceRow, Pushed, AllInv, OwnerInv, OwnerTypeOK
    <3>2. k \in Nat /\ k + 1 \in Nat /\ s \in Seq(Nat)
      BY <1>1
    <3>3. /\ Append(matched[o], k + 1) \in Seq(Nat)
          /\ s \o matched[o] \in Seq(Nat)
      BY <1>1, <3>2, AppendProperties, ConcatProperties
    <3>4. Stream(o)' = s \o Append(matched[o], k + 1)
      <4>1. (taken[o] \o pull[o].rows) \o Append(matched[o], k + 1)
               = taken[o] \o (pull[o].rows \o Append(matched[o], k + 1))
        <5>1. /\ taken[o] \in Seq(Nat) /\ pull[o].rows \in Seq(Nat)
              /\ Append(matched[o], k + 1) \in Seq(Nat)
          BY <1>1, <3>3
        <5> HIDE DEF k
        <5> QED BY <5>1, RowsAssociate, Zenon
      <4> QED BY <2>1, <3>1, <4>1 DEF Stream
    <3>5. Ordered(s \o matched[o], k)
      BY <1>1 DEF InOrder
    <3> HIDE DEF s, k
    <3>6. Stream(o)' = Append(s \o matched[o], k + 1)
      BY <1>1, <3>2, <3>4, ConcatAppend, ZenonT(30)
    <3>7. Ordered(Append(s \o matched[o], k + 1), k + 1)
      BY <3>2, <3>3, <3>5, OrderedAppend
    <3> QED BY <3>1, <3>6, <3>7 DEF InOrder
  <2>3. CASE \/ ProduceBegin(o) \/ ProduceCheck(o)
             \/ ProduceStore(o) \/ ProduceEmptyPart(o)
    <3>1. matched' = matched /\ matched_cursor' = matched_cursor
      BY <2>3 DEF ProduceBegin, ProduceCheck, ProduceStore, ProduceEmptyPart,
                  requestVars
    <3> QED BY <1>4, <2>1, <3>1
  <2> QED BY <1>7, <2>2, <2>3 DEF Produce
<1>8. /\ pull[o].stage \in {"none", "sent", "found", "error"}
            => pull[o].rows = <<>>
      /\ pull \in [Remote -> [stage : {"none", "sent", "found", "drained",
                                       "replied", "error"},
                              rows : Seq(Nat), last : BOOLEAN]]
  BY <1>1 DEF StreamOf, CallConsistent, AllInv, OwnerInv, OwnerTypeOK
<1>9. CASE Ask(o) \/ ReceiveError(o)
  <2>1. pull'[o].rows = pull[o].rows
    BY <1>8, <1>9 DEF Ask, PullSend, ReceiveError, PullReturn, Sent, NoCall
  <2>2. /\ taken' = taken /\ matched' = matched
        /\ matched_cursor' = matched_cursor
    BY <1>9 DEF Ask, PullSend, ReceiveError, PullReturn, requestVars
  <2> QED BY <1>4, <2>1, <2>2
<1>10. CASE Serve(o)
  <2>1. taken' = taken
    BY <1>10 DEF Serve
  <2>2. CASE PullFind(o) \/ PullFail(o) \/ PullFinish(o)
    <3>1. pull'[o].rows = pull[o].rows
      BY <1>8, <2>2 DEF PullFind, PullFail, PullFinish, Found, Failed
    <3>2. matched' = matched /\ matched_cursor' = matched_cursor
      BY <2>2 DEF PullFind, PullFail, PullFinish, requestVars
    <3> QED BY <1>4, <2>1, <3>1, <3>2
  <2>3. ASSUME NEW max \in PullSizes, PullDrain(o, max) PROVE InOrder(o)'
    <3>1. /\ pull[o].rows = <<>>
          /\ pull'[o].rows = SubSeq(matched[o], 1, Take(o, max))
          /\ matched'[o] = Rest(o, max) /\ matched_cursor' = matched_cursor
      BY <1>1, <1>8, <2>3 DEF PullDrain, Drained, AllInv, OwnerInv, OwnerTypeOK
    <3>2. SubSeq(matched[o], 1, Take(o, max)) \o Rest(o, max) = matched[o]
      BY DequeSplit, CallerAssumption DEF AllInv
    <3>3. <<>> \o matched[o] = matched[o]
      BY <1>1, <1>2
    <3>4. Stream(o)' = Stream(o)
      BY <2>1, <3>1, <3>2, <3>3 DEF Stream
    <3> QED BY <1>3, <3>1, <3>4
  <2> QED BY <1>10, <2>2, <2>3 DEF Serve
<1>11. CASE Receive(o)
  <2>1. /\ taken'[o] = taken[o] \o pull[o].rows
        /\ pull'[o].rows = <<>> /\ matched' = matched
        /\ matched_cursor' = matched_cursor
    BY <1>1, <1>11 DEF Receive, PullReturn, NoCall, requestVars, AllInv,
                       OwnerInv, OwnerTypeOK, CallerTypeOK
  <2>2. <<>> \o matched[o] = matched[o]
    BY <1>1, <1>2
  <2>3. Stream(o)' = (taken[o] \o pull[o].rows) \o matched[o]
    BY <2>1, <2>2 DEF Stream
  <2> QED BY <1>1, <1>3, <2>1, <2>3
<1>12. CASE Expire(o)
  <2>1. /\ taken' = taken /\ pull'[o].rows = <<>> /\ matched' = matched
        /\ matched_cursor' = matched_cursor
    BY <1>8, <1>12 DEF Expire, PullExpire, NoCall, requestVars
  <2>2. <<>> \o matched[o] = matched[o]
    BY <1>1, <1>2
  <2>3. Ordered(taken[o] \o matched[o], matched_cursor[o])
    BY <1>1, OrderedErase DEF InOrder, Stream
  <2> QED BY <2>1, <2>2, <2>3 DEF InOrder, Stream
<1>13. CASE Late(o)
  <2>1. taken' = taken /\ pull' = pull /\ matched_cursor' = matched_cursor
    BY <1>13 DEF Late, LateFind, LateDrain, LateFinish, requestVars
  <2>2. CASE matched' = matched
    BY <1>4, <2>1, <2>2
  <2>3. ASSUME NEW max \in PullSizes,
               matched' = [matched EXCEPT ![o] = Rest(o, max)]
        PROVE  InOrder(o)'
    <3>1. matched'[o] = Rest(o, max)
      BY <1>1, <2>3 DEF AllInv, OwnerInv, OwnerTypeOK
    <3>2. /\ SubSeq(matched[o], 1, Take(o, max)) \o Rest(o, max) = matched[o]
          /\ SubSeq(matched[o], 1, Take(o, max)) \in Seq(Nat)
          /\ Rest(o, max) \in Seq(Nat)
      BY DequeSplit, DrainedDeque, CallerAssumption DEF AllInv
    <3> QED BY <1>5, <2>1, <3>1, <3>2
  <2> QED BY <1>13, <2>2, <2>3 DEF Late, LateFind, LateDrain, LateFinish,
                                   requestVars
<1>14. CASE Cancel(o)
  <2>1. /\ taken' = taken /\ pull' = pull /\ matched_cursor' = matched_cursor
        /\ matched'[o] = matched[o] \/ matched'[o] = <<>>
    BY <1>1, <1>14 DEF Cancel, CancelRequest, callVars, AllInv, OwnerInv,
                       OwnerTypeOK
  <2>2. matched[o] \o <<>> = matched[o]
    BY <1>1, <1>2
  <2> QED BY <1>1, <1>2, <1>4, <1>5, <2>1, <2>2
<1> QED BY <1>6, <1>7, <1>9, <1>10, <1>11, <1>12, <1>13, <1>14

(* They are in order in every reachable state. *)
LEMMA OrderInvariant == Spec => [](\A o \in Remote : InOrder(o))
<1> DEFINE AllInOrder == \A o \in Remote : InOrder(o)
<1>1. Init => AllInOrder
  <2> SUFFICES ASSUME Init, NEW o \in Remote PROVE InOrder(o)
    OBVIOUS
  <2>1. /\ taken[o] = <<>> /\ pull[o].rows = <<>> /\ matched[o] = <<>>
        /\ matched_cursor[o] = 0
    BY RemoteIsNode DEF Init, OwnerInit, NoCall
  <2>2. <<>> \o (<<>> \o <<>>) = <<>>
    BY ConcatEmptySeq, EmptySeq
  <2> QED BY <2>1, <2>2, OrderedNone DEF InOrder, Stream
<1>2. AllInv /\ AllInOrder /\ [Next]_vars => AllInOrder'
  <2> SUFFICES ASSUME AllInv, AllInOrder, [Next]_vars, NEW p \in Remote
               PROVE  InOrder(p)'
    OBVIOUS
  <2>1. Same(p) => InOrder(p)'
    BY DEF Same, InOrder, Stream
  <2>2. ASSUME NEW o \in Remote,
               \/ Forward(o) \/ Produce(o) \/ Ask(o) \/ Serve(o)
               \/ Receive(o) \/ ReceiveError(o) \/ Expire(o) \/ Late(o)
               \/ Cancel(o)
        PROVE  InOrder(p)'
    BY <2>1, <2>2, OwnStepInOrder, OthersSame
  <2>3. CASE Finish \/ UNCHANGED vars
    BY <2>1, <2>3 DEF Finish, Same, vars, ownerVars, requestVars, producerVars,
                      callVars
  <2> QED BY <2>2, <2>3 DEF Next
<1> QED BY <1>1, <1>2, StreamInvariant, PTL DEF Spec

(* node.cpp:570, 852: deadlines that expire, calls that are issued again and
   handlers whose caller is gone lose rows of an owner, but what the caller
   receives is in order and has no row twice. *)
THEOREM RowsInOrder == Spec => []TakenInOrder
<1>1. AllInv /\ (\A o \in Remote : InOrder(o)) => TakenInOrder
  <2> SUFFICES ASSUME AllInv, \A o \in Remote : InOrder(o), NEW o \in Remote
               PROVE  Ordered(taken[o], matched_cursor[o])
    BY DEF TakenInOrder, Ordered
  <2> QED BY StreamTypes, OrderedFront DEF InOrder, Stream
<1> QED BY <1>1, StreamInvariant, OrderInvariant, PTL

-----------------------------------------------------------------------------
(* A cancelled query. *)

LEMMA StopsKeeps ==
    ASSUME AllInv, CancelStopsProducer, [Next]_vars
    PROVE  CancelStopsProducer'
<1> SUFFICES ASSUME NEW o \in Remote, cancelled'[o]
             PROVE  /\ Len(matched'[o]) <= 1
                    /\ producer'[o] = "push" => matched'[o] = <<>>
  BY DEF CancelStopsProducer
<1> DEFINE Stops == /\ Len(matched'[o]) <= 1
                    /\ producer'[o] = "push" => matched'[o] = <<>>
<1>1. /\ cancelled[o] => /\ Len(matched[o]) <= 1
                         /\ producer[o] = "push" => matched[o] = <<>>
      /\ o \in Nodes /\ matched[o] \in Seq(Nat) /\ Len(matched[o]) \in Nat
  BY Types, LenProperties DEF CancelStopsProducer
<1>2. Len(<<>>) = 0
  OBVIOUS
(* Most steps change neither the mark, the deque nor the producer's place. *)
<1>3. ASSUME UNCHANGED <<cancelled, matched, producer>> PROVE Stops
  BY <1>1, <1>3
<1>4. ASSUME NEW p \in Remote, p # o,
             \/ Forward(p) \/ Produce(p) \/ Ask(p) \/ Serve(p)
             \/ Receive(p) \/ ReceiveError(p) \/ Expire(p) \/ Late(p)
             \/ Cancel(p)
      PROVE  Stops
  <2>1. Same(o)
    BY <1>4, OthersSame
  <2> QED BY <1>1, <2>1 DEF Same
<1>5. CASE Forward(o)
  <2>1. \/ registered[o] /\ UNCHANGED <<cancelled, matched, producer>>
        \/ ~cancelled'[o]
    BY <1>1, <1>5 DEF Forward, RegisterRequest, requestVars, producerVars,
                      AllInv, OwnerInv, OwnerTypeOK
  <2> QED BY <1>3, <2>1
<1>6. CASE Produce(o)
  <2>1. cancelled' = cancelled
    BY <1>6 DEF Produce, ProduceBegin, ProduceCheck, ProduceRow, ProduceStore,
                ProduceEmptyPart, requestVars
  <2>2. ~ProduceBegin(o) /\ ~ProduceEmptyPart(o)
    BY <2>1 DEF ProduceBegin, ProduceEmptyPart
  <2>3. CASE ProduceCheck(o)
    <3>1. matched' = matched /\ producer'[o] = "store"
      BY <1>1, <2>1, <2>3 DEF ProduceCheck, AfterCheck, requestVars, AllInv,
                              OwnerInv, OwnerTypeOK
    <3> QED BY <1>1, <2>1, <3>1
  <2>4. CASE ProduceRow(o)
    <3>1. /\ matched'[o] = Append(matched[o], matched_cursor[o] + 1)
          /\ producer[o] = "push" /\ producer'[o] \in {"store", "check"}
      BY <1>1, <2>4 DEF ProduceRow, Pushed, AllInv, OwnerInv, OwnerTypeOK
    <3>2. matched[o] = <<>> /\ matched_cursor[o] + 1 \in Nat
      BY <1>1, <2>1, <3>1, Types
    <3>3. Len(matched'[o]) = 1
      BY <1>2, <3>1, <3>2
    <3> QED BY <3>1, <3>3
  <2>5. CASE ProduceStore(o)
    <3>1. matched' = matched /\ producer'[o] \in {"idle", "notify"}
      BY <1>1, <2>5 DEF ProduceStore, AllInv, OwnerInv, OwnerTypeOK
    <3> QED BY <1>1, <2>1, <3>1
  <2> QED BY <1>6, <2>2, <2>3, <2>4, <2>5 DEF Produce
(* A drain leaves no more than there was. *)
<1>7. ASSUME NEW max \in PullSizes, cancelled' = cancelled,
             producer' = producer,
             \/ matched' = matched
             \/ matched' = [matched EXCEPT ![o] = Rest(o, max)]
      PROVE  Stops
  <2>1. CASE matched' = matched
    BY <1>3, <1>7, <2>1
  <2>2. CASE matched' = [matched EXCEPT ![o] = Rest(o, max)]
    <3>1. matched'[o] = Rest(o, max)
      BY <1>1, <2>2 DEF AllInv, OwnerInv, OwnerTypeOK
    <3>2. /\ Take(o, max) \in Nat /\ Rest(o, max) \in Seq(Nat)
          /\ Take(o, max) <= Len(matched[o])
          /\ Len(Rest(o, max)) = Len(matched[o]) - Take(o, max)
      BY CallerAssumption, DrainedDeque DEF AllInv
    <3>3. Len(Rest(o, max)) <= Len(matched[o])
      BY <1>1, <3>2
    <3>4. matched[o] = <<>> => Rest(o, max) = <<>>
      BY <1>1, <1>2, <3>2, EmptySeq
    <3> QED BY <1>1, <1>7, <3>1, <3>2, <3>3, <3>4
  <2> QED BY <1>7, <2>1, <2>2
<1>8. CASE Serve(o)
  <2>1. ASSUME NEW max \in PullSizes, PullDrain(o, max) PROVE Stops
    <3>1. /\ matched' = [matched EXCEPT ![o] = Rest(o, max)]
          /\ cancelled' = cancelled /\ producer' = producer
      BY <2>1 DEF PullDrain, Drained, producerVars
    <3> QED BY <1>7, <3>1
  <2>2. CASE PullFind(o) \/ PullFinish(o) \/ PullFail(o)
    BY <1>3, <2>2 DEF PullFind, PullFinish, PullFail, requestVars, producerVars
  <2> QED BY <1>8, <2>1, <2>2 DEF Serve
<1>9. CASE Late(o)
  <2>1. ASSUME NEW max \in PullSizes, LateDrain(o, max) PROVE Stops
    <3>1. /\ matched' = [matched EXCEPT ![o] = Rest(o, max)]
          /\ cancelled' = cancelled /\ producer' = producer
      BY <2>1 DEF LateDrain, producerVars
    <3> QED BY <1>7, <3>1
  <2>2. CASE LateFind(o) \/ LateFinish(o)
    BY <1>3, <2>2 DEF LateFind, LateFinish, requestVars, producerVars
  <2> QED BY <1>9, <2>1, <2>2 DEF Late
<1>10. CASE Cancel(o)
  <2>1. \/ matched'[o] = <<>>
        \/ UNCHANGED <<cancelled, matched, producer>>
    BY <1>1, <1>10 DEF Cancel, CancelRequest, producerVars, AllInv, OwnerInv,
                      OwnerTypeOK
  <2> QED BY <1>2, <1>3, <2>1
<1>11. CASE \/ Ask(o) \/ Receive(o) \/ ReceiveError(o) \/ Expire(o)
           \/ Finish \/ UNCHANGED vars
  BY <1>3, <1>11 DEF Ask, PullSend, Receive, ReceiveError, PullReturn, Expire,
     PullExpire, Finish, vars, ownerVars, requestVars, producerVars
<1> QED BY <1>4, <1>5, <1>6, <1>8, <1>9, <1>10, <1>11 DEF Next

(* node.cpp:446-452 and 768: after CancelQuery the owner's producer queues one
   row at the most, whatever the sizes of deque and turn. *)
THEOREM CancelStops == Spec => []CancelStopsProducer
<1>1. Init => CancelStopsProducer
  BY RemoteIsNode DEF Init, OwnerInit, CancelStopsProducer
<1>2. AllInv /\ CancelStopsProducer /\ [Next]_vars => CancelStopsProducer'
  BY StopsKeeps
<1> QED BY <1>1, <1>2, StreamInvariant, PTL DEF Spec
=============================================================================
