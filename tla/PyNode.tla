------------------------------- MODULE PyNode -------------------------------
(***************************************************************************)
(* One query among Python nodes (py/server/node.py), which speak the same  *)
(* protocol as the C++ ones with other means: the gateway has no           *)
(* prefetchers, but FetchChunk itself calls one owner after the other, its *)
(* own node included; nothing is retried; nobody waits on a condition.     *)
(* Every node is next to the gateway here: Overlay and QueryPlan have the  *)
(* relays, which both implementations share.                               *)
(***************************************************************************)
EXTENDS Naturals, Sequences

CONSTANTS
    Self,         \* the gateway
    DataOwners,   \* overlay.data_owners, in order
    Shards,       \* what the nodes may have on disk
    MaxBuffered,  \* MAX_BUFFERED
    Batch,        \* rows of a producer's turn
    FetchSizes,   \* what _decide_chunk_size may return in FetchChunk
    ClientActs,   \* what the client may do besides pulling to the end
    MaxFaults     \* bound: calls that fail or expire

Owners == {DataOwners[i] : i \in 1..Len(DataOwners)}
Nodes  == Owners \cup {Self}

(* A gateway that is a data owner sends its own CancelQuery to itself, again
   and again until the call that started it expires; that is left out. *)
ASSUME PyAssumption ==
    /\ DataOwners \in Seq(Owners)
    /\ \A i, j \in 1..Len(DataOwners) : DataOwners[i] = DataOwners[j] => i = j
    /\ Shards \subseteq [Nodes -> [file : BOOLEAN, size : Nat, found : Nat]]
    /\ \A s \in Shards, n \in Nodes :
          /\ s[n].found <= s[n].size
          /\ s[n].size > 0 => s[n].file
          /\ s[n].file => n \in Owners
    /\ MaxBuffered \in Nat \ {0} /\ Batch \in Nat \ {0}
    /\ FetchSizes \subseteq Nat \ {0}
    /\ ClientActs \subseteq {"cancel"}
    /\ Self \in Owners => ClientActs = {}
    /\ MaxFaults \in Nat

VARIABLES
    shard,              \* of each node: if there is a file, its rows, and how
                        \* many of them range_search finds; never changes
    client, delivered,
    (* RequestState, one for the query at each node *)
    registered, matched, matched_cursor, done_producing, cancelled,
    (* and its fields at the gateway *)
    client_buffer, client_producers_done,
    producer, quota,    \* each producer thread: where it is, rows left
    toForward,          \* SubmitQuery: owners still to call
    lateForward,        \* owners whose ForwardQuery outlived its caller
    fetch, todo, max_rows, pulled,  \* FetchChunk and its locals
    pull,               \* the PullChunk handler of each owner
    toCancel,           \* CancelQuery: owners still to call
    faults

requestVars  == <<registered, matched, matched_cursor, done_producing, cancelled>>
gatewayVars  == <<client_buffer, client_producers_done>>
producerVars == <<producer, quota>>
submitVars   == <<toForward, lateForward>>
fetchVars    == <<fetch, todo, max_rows, pulled>>
vars == <<shard, client, delivered, requestVars, gatewayVars, producerVars,
          submitVars, fetchVars, pull, toCancel, faults>>

NoCall == [stage |-> "none", max_rows |-> 0, rows |-> <<>>, done |-> FALSE,
           last |-> FALSE, orphan |-> FALSE]

Init ==
    /\ shard \in Shards
    /\ client = "start"
    /\ delivered = [n \in Nodes |-> <<>>]
    /\ registered = [n \in Nodes |-> FALSE]
    /\ matched = [n \in Nodes |-> <<>>]
    /\ matched_cursor = [n \in Nodes |-> 0]
    /\ done_producing = [n \in Nodes |-> FALSE]
    /\ cancelled = [n \in Nodes |-> FALSE]
    /\ client_buffer = <<>>
    /\ client_producers_done = [o \in Owners |-> FALSE]
    /\ producer = [n \in Nodes |-> "idle"]
    /\ quota = [n \in Nodes |-> 0]
    /\ toForward = <<>> /\ lateForward = {}
    /\ fetch = "idle" /\ todo = <<>> /\ max_rows = 0 /\ pulled = FALSE
    /\ pull = [n \in Nodes |-> NoCall]
    /\ toCancel = <<>>
    /\ faults = 0

Fault == faults < MaxFaults /\ faults' = faults + 1

Lower(a, b) == IF a <= b THEN a ELSE b

-----------------------------------------------------------------------------
(* SubmitQuery and ForwardQuery.  A node registers the query once: nobody
   sends it twice. *)

(* A shard with rows of which none is found is done at once; without any
   rows, nobody ever sets the flag. *)
NothingFound(n) == shard[n].size > 0 /\ shard[n].found = 0

Register(n) ==
    /\ registered' = [registered EXCEPT ![n] = TRUE]
    /\ done_producing' = [done_producing EXCEPT ![n] = NothingFound(n)]
    /\ UNCHANGED <<matched, matched_cursor, cancelled>>

SubmitQuery ==
    /\ client = "start"
    /\ client' = "submitting"
    /\ Register(Self)
    /\ toForward' = DataOwners
    /\ UNCHANGED <<shard, delivered, gatewayVars, producerVars, lateForward, fetchVars,
                   pull, toCancel, faults>>

(* Mutant: a failure is taken for transient, as the C++ gateway does. *)
GiveUpNever(o) == UNCHANGED client_producers_done

(* An owner whose call fails is marked done: it is not called again. *)
GiveUp(o) ==
    client_producers_done' = [client_producers_done EXCEPT ![o] = TRUE]

ForwardAccepted(o) ==
    /\ Register(o)
    /\ UNCHANGED <<client_producers_done, lateForward, faults>>

(* The owner is not there, or registers the query after the deadline. *)
ForwardFailed(o) ==
    /\ Fault
    /\ GiveUp(o)
    /\ UNCHANGED requestVars
    /\ lateForward' \in {lateForward, lateForward \cup {o}}

Forward(o) == ForwardAccepted(o) \/ ForwardFailed(o)

(* The gateway does not call itself. *)
NotForwarded == UNCHANGED <<requestVars, client_producers_done, lateForward, faults>>

ForwardNext ==
    /\ toForward # <<>>
    /\ toForward' = Tail(toForward)
    /\ IF Head(toForward) = Self THEN NotForwarded ELSE Forward(Head(toForward))
    /\ UNCHANGED <<shard, client, delivered, client_buffer, producerVars, fetchVars,
                   pull, toCancel>>

SubmitAck ==
    /\ client = "submitting" /\ toForward = <<>>
    /\ client' = "ready"
    /\ UNCHANGED <<shard, delivered, requestVars, gatewayVars, producerVars,
                   submitVars, fetchVars, pull, toCancel, faults>>

ForwardLate(o) ==
    /\ o \in lateForward
    /\ lateForward' = lateForward \ {o}
    /\ Register(o)
    /\ UNCHANGED <<shard, client, delivered, gatewayVars, producerVars, toForward,
                   fetchVars, pull, toCancel, faults>>

-----------------------------------------------------------------------------
(* _produce_loop *)

ProducerStep(n) ==
    UNCHANGED <<shard, client, delivered, registered, cancelled, gatewayVars,
                submitVars, fetchVars, pull, toCancel, faults>>

TurnRows(n) == Lower(Batch, shard[n].found - matched_cursor[n])

(* The query's turn, unless its deque is full. *)
ProduceBegin(n) ==
    /\ producer[n] = "idle"
    /\ registered[n] /\ ~cancelled[n] /\ ~done_producing[n]
    /\ shard[n].size > 0
    /\ Len(matched[n]) < MaxBuffered
    /\ producer' = [producer EXCEPT ![n] = "check"]
    /\ quota' = [quota EXCEPT ![n] = TurnRows(n)]
    /\ UNCHANGED <<matched, matched_cursor, done_producing>>
    /\ ProducerStep(n)

(* The loop condition and the look at cancelled, before the lock is taken. *)
ProduceCheck(n) ==
    /\ producer[n] = "check"
    /\ producer' = [producer EXCEPT ![n] =
                       IF quota[n] = 0 \/ cancelled[n] THEN "end" ELSE "row"]
    /\ UNCHANGED <<matched, matched_cursor, done_producing, quota>>
    /\ ProducerStep(n)

(* Mutant: the limit is only looked at between turns. *)
FullNever(n) == FALSE

(* One more row fills the deque. *)
Full(n) == Len(matched[n]) + 1 >= MaxBuffered

(* Mutant: the row that fills the deque does not count. *)
AdvancedUnlessFull(n) == IF Full(n) THEN matched_cursor[n] ELSE matched_cursor[n] + 1

Advanced(n) == matched_cursor[n] + 1

ProduceRow(n) ==
    /\ producer[n] = "row"
    /\ matched' = [matched EXCEPT ![n] = Append(@, matched_cursor[n] + 1)]
    /\ matched_cursor' = [matched_cursor EXCEPT ![n] = Advanced(n)]
    /\ quota' = [quota EXCEPT ![n] = @ - 1]
    /\ producer' = [producer EXCEPT ![n] = IF Full(n) THEN "end" ELSE "check"]
    /\ UNCHANGED done_producing
    /\ ProducerStep(n)

(* Mutant: off by one. *)
ExhaustedPast(n) == matched_cursor[n] > shard[n].found

Exhausted(n) == matched_cursor[n] >= shard[n].found

ProduceEnd(n) ==
    /\ producer[n] = "end"
    /\ producer' = [producer EXCEPT ![n] = "idle"]
    /\ quota' = [quota EXCEPT ![n] = 0]
    /\ done_producing' = [done_producing EXCEPT ![n] = @ \/ Exhausted(n)]
    /\ UNCHANGED <<matched, matched_cursor>>
    /\ ProducerStep(n)

Produce(n) == ProduceBegin(n) \/ ProduceCheck(n) \/ ProduceRow(n) \/ ProduceEnd(n)
-----------------------------------------------------------------------------
(* PullChunk at owner o *)

HandlerStep ==
    UNCHANGED <<shard, client, delivered, matched_cursor, done_producing, cancelled,
                gatewayVars, producerVars, submitVars, fetchVars, toCancel, faults>>

(* A handler whose caller is gone answers nobody. *)
Answered(o, call) == pull' = [pull EXCEPT ![o] = IF @.orphan THEN NoCall ELSE call]

PullNotFound(o) ==
    /\ pull[o].stage = "sent"
    /\ ~registered[o] \/ ~shard[o].file
    /\ Answered(o, [pull[o] EXCEPT !.stage = "error"])
    /\ UNCHANGED <<registered, matched>>
    /\ HandlerStep

PullDrain(o) ==
    /\ pull[o].stage = "sent"
    /\ registered[o] /\ shard[o].file
    /\ LET k == Lower(pull[o].max_rows, Len(matched[o]))
       IN  /\ pull' = [pull EXCEPT ![o].stage = "drained",
                                   ![o].rows = SubSeq(matched[o], 1, k)]
           /\ matched' = [matched EXCEPT ![o] = SubSeq(@, k + 1, Len(@))]
    /\ UNCHANGED registered
    /\ HandlerStep

(* done_producing is read first, the deque after it; both without the lock. *)
PullLook(o) ==
    /\ pull[o].stage = "drained"
    /\ pull' = [pull EXCEPT ![o].stage = "looked", ![o].done = done_producing[o]]
    /\ UNCHANGED <<registered, matched>>
    /\ HandlerStep

(* Mutants: the deque is not looked at again; the request is never dropped. *)
NoMoreRowsUnlooked(o) == pull[o].done /\ pull[o].rows = <<>>
DropNever(o) == UNCHANGED registered

NoMoreRows(o) == pull[o].done /\ matched[o] = <<>> /\ pull[o].rows = <<>>

DropAtLast(o) == registered' = [registered EXCEPT ![o] = @ /\ ~NoMoreRows(o)]

PullFinish(o) ==
    /\ pull[o].stage = "looked"
    /\ DropAtLast(o)
    /\ Answered(o, [pull[o] EXCEPT !.stage = "replied", !.last = NoMoreRows(o)])
    /\ UNCHANGED matched
    /\ HandlerStep

PullChunk(o) == PullNotFound(o) \/ PullDrain(o) \/ PullLook(o) \/ PullFinish(o)

-----------------------------------------------------------------------------
(* FetchChunk *)

(* Where the visit of the owners begins and ends comes from two looks at the
   clock: usually the same, but an owner may be visited twice, and several
   not at all. *)
Rotated(begin, end) ==
    SubSeq(DataOwners, begin, Len(DataOwners)) \o SubSeq(DataOwners, 1, end - 1)

FetchBegin(begin, end) ==
    /\ client = "ready"
    /\ IF registered[Self]
       THEN /\ client' = "fetching" /\ fetch' = "visit"
            /\ todo' = Rotated(begin, end)
            /\ max_rows' \in FetchSizes
            /\ pulled' = FALSE
       ELSE /\ client' = "failed"           \* NOT_FOUND
            /\ UNCHANGED fetchVars
    /\ UNCHANGED <<shard, delivered, requestVars, gatewayVars, producerVars,
                   submitVars, pull, toCancel, faults>>

VisitStep ==
    UNCHANGED <<shard, client, delivered, requestVars, producerVars, submitVars,
                max_rows, toCancel>>

Enough == Len(client_buffer) >= max_rows

(* The visit ends early when the buffer has a chunk, or when calls have used
   up the budget of 200 ms. *)
VisitEnd ==
    /\ fetch = "visit"
    /\ todo = <<>> \/ cancelled[Self] \/ Enough \/ pulled
    /\ fetch' = "emit" /\ todo' = <<>>
    /\ UNCHANGED <<gatewayVars, pulled, pull, faults>>
    /\ VisitStep

Visiting(o) ==
    fetch = "visit" /\ todo # <<>> /\ o = Head(todo) /\ ~cancelled[Self] /\ ~Enough

VisitSkip(o) ==
    /\ Visiting(o) /\ client_producers_done[o]
    /\ todo' = Tail(todo)
    /\ UNCHANGED <<gatewayVars, fetch, pulled, pull, faults>>
    /\ VisitStep

VisitCall(o) ==
    /\ Visiting(o) /\ ~client_producers_done[o]
    /\ fetch' = "call" /\ pulled' = TRUE
    /\ pull' = [pull EXCEPT ![o] = [NoCall EXCEPT !.stage = "sent", !.max_rows = max_rows]]
    /\ UNCHANGED <<gatewayVars, todo, faults>>
    /\ VisitStep

Back == fetch' = "visit" /\ todo' = Tail(todo) /\ UNCHANGED pulled

FetchReply(o) ==
    /\ fetch = "call" /\ o = Head(todo) /\ pull[o].stage = "replied"
    /\ pull' = [pull EXCEPT ![o] = NoCall]
    /\ client_buffer' = client_buffer \o
          [i \in DOMAIN pull[o].rows |-> [owner |-> o, row |-> pull[o].rows[i]]]
    /\ client_producers_done' = [client_producers_done EXCEPT ![o] = @ \/ pull[o].last]
    /\ Back
    /\ UNCHANGED faults
    /\ VisitStep

FetchError(o) ==
    /\ fetch = "call" /\ o = Head(todo) /\ pull[o].stage = "error"
    /\ pull' = [pull EXCEPT ![o] = NoCall]
    /\ GiveUp(o)
    /\ Back
    /\ UNCHANGED <<client_buffer, faults>>
    /\ VisitStep

(* The owner is unreachable, or its handler outlives the deadline of 2 s. *)
FetchExpire(o) ==
    /\ fetch = "call" /\ o = Head(todo) /\ pull[o].stage \in {"sent", "drained", "looked"}
    /\ Fault
    /\ \/ pull' = [pull EXCEPT ![o].orphan = TRUE]
       \/ pull[o].stage = "sent" /\ pull' = [pull EXCEPT ![o] = NoCall]
    /\ GiveUp(o)
    /\ Back
    /\ UNCHANGED client_buffer
    /\ VisitStep

(* The rows of owner n in the buffer or a chunk of it, in order. *)
OfOwner(buffer, n) ==
    LET rows[i \in 0..Len(buffer)] ==
            IF i = 0 THEN <<>>
            ELSE IF buffer[i].owner = n THEN Append(rows[i - 1], buffer[i].row)
            ELSE rows[i - 1]
    IN  rows[Len(buffer)]

(* The gateway's own rows are not asked for. *)
IsLast(rest, chunk) ==
    /\ \A o \in Owners \ {Self} : client_producers_done[o]
    /\ rest = <<>> /\ chunk = <<>>

FetchEmit ==
    /\ fetch = "emit"
    /\ fetch' = "idle"
    /\ LET k     == Lower(max_rows, Len(client_buffer))
           chunk == SubSeq(client_buffer, 1, k)
           rest  == SubSeq(client_buffer, k + 1, Len(client_buffer))
           last  == IsLast(rest, chunk)
       IN  /\ client_buffer' = rest
           /\ delivered' = [n \in Nodes |-> delivered[n] \o OfOwner(chunk, n)]
           /\ registered' = [registered EXCEPT ![Self] = @ /\ ~last]
           /\ client' = IF last THEN "done" ELSE "ready"
    /\ UNCHANGED <<shard, matched, matched_cursor, done_producing, cancelled,
                   client_producers_done, producerVars, submitVars, todo,
                   max_rows, pulled, pull, toCancel, faults>>

FetchStep ==
    \/ VisitEnd
    \/ \E o \in Owners : VisitSkip(o) \/ VisitCall(o) \/ FetchReply(o) \/ FetchError(o)
    \/ FetchEmit

-----------------------------------------------------------------------------
(* CancelQuery *)

CancelUnchanged ==
    UNCHANGED <<shard, delivered, matched_cursor, done_producing, client_producers_done,
                producerVars, submitVars, fetchVars, pull>>

CancelBegin ==
    /\ client = "ready" /\ "cancel" \in ClientActs
    /\ client' = "cancelling"
    /\ cancelled' = [cancelled EXCEPT ![Self] = TRUE]
    /\ client_buffer' = <<>>
    /\ matched' = [matched EXCEPT ![Self] = <<>>]
    /\ toCancel' = DataOwners
    /\ UNCHANGED <<registered, faults>>
    /\ CancelUnchanged

(* The handler of owner o cancels its own request, if it has one. *)
CancelOwner(o) ==
    /\ cancelled' = [cancelled EXCEPT ![o] = @ \/ registered[o]]
    /\ matched' = [matched EXCEPT ![o] = IF registered[o] THEN <<>> ELSE @]
    /\ registered' = [registered EXCEPT ![o] = FALSE]
    /\ UNCHANGED faults

CancelNext ==
    /\ toCancel # <<>>
    /\ toCancel' = Tail(toCancel)
    /\ \/ CancelOwner(Head(toCancel))
       \/ Fault /\ UNCHANGED <<cancelled, matched, registered>>
    /\ UNCHANGED <<client, client_buffer>>
    /\ CancelUnchanged

CancelReply ==
    /\ client = "cancelling" /\ toCancel = <<>>
    /\ client' = "cancelled"
    /\ registered' = [registered EXCEPT ![Self] = FALSE]
    /\ UNCHANGED <<matched, cancelled, client_buffer, toCancel, faults>>
    /\ CancelUnchanged

-----------------------------------------------------------------------------
Terminal == {"done", "failed", "cancelled"}

Finish == client \in Terminal /\ UNCHANGED vars

Next ==
    \/ SubmitQuery \/ ForwardNext \/ SubmitAck
    \/ \E b, e \in 1..Len(DataOwners) : FetchBegin(b, e)
    \/ FetchStep
    \/ CancelBegin \/ CancelNext \/ CancelReply
    \/ \E n \in Nodes : Produce(n)
    \/ \E o \in Owners : PullChunk(o) \/ FetchExpire(o) \/ ForwardLate(o)
    \/ Finish

Spec == Init /\ [][Next]_vars

(* Threads run and calls are answered; the clock is not in step with the
   client, so that every rotation comes up again and again. *)
FairSpec ==
    /\ Spec
    /\ WF_vars(SubmitQuery) /\ WF_vars(ForwardNext) /\ WF_vars(SubmitAck)
    /\ \A b \in 1..Len(DataOwners) : SF_vars(FetchBegin(b, b))
    /\ WF_vars(FetchStep)
    /\ WF_vars(CancelNext) /\ WF_vars(CancelReply)
    /\ \A n \in Nodes : WF_vars(Produce(n))
    /\ \A o \in Owners : WF_vars(PullChunk(o))

-----------------------------------------------------------------------------
Rows(k) == [i \in 1..k |-> i]

(* node.py:789: the deque is capped although its size is read in other
   critical sections than the one that pushes; and, because a visit stops
   once there is a chunk, the gateway's buffer stays below two chunks however
   many owners answer. *)
BoundedMemory ==
    /\ \A n \in Nodes : Len(matched[n]) <= MaxBuffered
    /\ \A m \in FetchSizes : (\A k \in FetchSizes : k <= m) => Len(client_buffer) < 2 * m

(* node.py:745: as long as no call fails or is cancelled, an owner's rows
   are in the client's hands, the buffer, a reply or the deque, in this order
   and each once, whichever owners a FetchChunk visits twice or leaves out. *)
RowsConserved ==
    \A o \in Owners : faults = 0 /\ ~cancelled[Self] =>
        delivered[o] \o OfOwner(client_buffer, o) \o pull[o].rows \o matched[o]
            = Rows(matched_cursor[o])

(* node.py:610: whatever fails, the client has a gap-free beginning of
   every owner's rows: an owner that failed once is not asked again. *)
OnlyPrefixes == \A o \in Owners : delivered[o] = Rows(Len(delivered[o]))

(* node.py:628: the client that is told is_last has all rows of every owner,
   unless a call has failed -- if the gateway has none of its own: it ends the
   stream without asking itself, or drops the request when it has. *)
LastMeansAll ==
    client = "done" /\ faults = 0 /\ shard[Self].found = 0 =>
        \A o \in Owners : delivered[o] = Rows(shard[o].found)

(* node.py:521: once the last chunk or the answer to a cancel is on its way,
   neither the gateway nor an owner with a shard still holds the query, unless
   a call has failed. *)
EndedIsReleased ==
    client \in {"done", "cancelled"} /\ faults = 0 =>
        \A n \in Nodes : shard[n].file \/ n = Self => ~registered[n]

(* node.py:590: a query that is pulled ends, although every FetchChunk may
   visit another part of the owners and get nothing from them -- if no file
   is without rows, for which nobody sets done_producing. *)
QueryEnds ==
    (\A n \in Nodes : shard[n].file => shard[n].size > 0) => <>(client \in Terminal)
=============================================================================
