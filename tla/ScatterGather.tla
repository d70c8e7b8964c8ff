--------------------------- MODULE ScatterGather ---------------------------
(***************************************************************************)
(* One query through the C++ gateway (cpp/server/node.cpp): SubmitQuery    *)
(* fans it out to the data owners, one prefetcher thread per remote owner  *)
(* pulls chunks into a slot at the gateway, FetchChunk drains the slots    *)
(* and the gateway's own deque to the client, and CancelQuery or the last  *)
(* chunk tears everything down.  The owners are module DataOwner, composed *)
(* here with the gateway's threads, the client and the faults.             *)
(***************************************************************************)
EXTENDS DataOwner, FiniteSets, Functions

CONSTANTS
    Pos,          \* Pos[o]: the index of o in overlay_.data_owners
    Hop,          \* Hop[o]: overlay_.next_hop(Self, o)
    PullMax,      \* PullMax[o]: the max_rows of a PullChunk served by o
    Eligible,     \* eligible_owners(...) for this query
    FetchSizes,   \* the values sizer_.decide may return in FetchChunk
    MaxAttempts,  \* the 20 attempts of a forward
    Loading,      \* owners whose server is not listening yet
    ClientActs,   \* what the client may do besides pulling to the end
    MaxTimeouts,  \* bound: PullChunk and CancelQuery deadlines that expire
    MaxCrashes,   \* bound: owner crashes
    MaxLate       \* bound: ForwardQuery calls that outlive their deadline

ASSUME GatewayAssumption ==
    /\ IsFiniteSet(Owners)
    /\ Pos \in [Owners -> Nat]
    /\ \A a, b \in Owners : Pos[a] = Pos[b] => a = b
    /\ Hop \in [Remote -> Remote]
    /\ \A o \in Remote : Hop[Hop[o]] = Hop[o]
    /\ PullMax \in [Remote -> Nat \ {0}]
    /\ Eligible \subseteq Owners
    /\ Self \notin Eligible => NRows[Self] = 0
    /\ FetchSizes \subseteq Nat \ {0}
    /\ MaxAttempts \in Nat \ {0}
    /\ Loading \subseteq Remote
    /\ ClientActs \subseteq
          {"cancel", "cancelDuringFetch", "abandon", "timeout"}
    /\ MaxTimeouts \in Nat /\ MaxCrashes \in Nat /\ MaxLate \in Nat

VARIABLES
    client,      \* where run_one is
    delivered,   \* per owner, the rows the client has received
    hit,         \* owners_hit of the last chunk
    (* the gateway's part of the RequestState *)
    client_producers_done, prefetch_buf, prefetch_done_map,
    owners_responded, prefetch_stop,
    (* handlers at the gateway: where they are, and their locals *)
    submit, toForward, attempt,
    fetch, chunk, isLast,
    cancel, toCancel,
    prefetcher,  \* where each prefetcher thread is
    (* faults so far, and ForwardQuery handlers whose caller is gone *)
    timeouts, crashes, lates, lateForward

clientVars == <<client, delivered, hit>>
stateVars  == <<client_producers_done, prefetch_buf, prefetch_done_map,
                owners_responded, prefetch_stop>>
submitVars == <<submit, toForward, attempt>>
fetchVars  == <<fetch, chunk, isLast>>
cancelVars == <<cancel, toCancel>>
faultVars  == <<timeouts, crashes, lates, lateForward>>

vars == <<ownerVars, clientVars, stateVars, submitVars, fetchVars,
          cancelVars, prefetcher, faultVars>>

Init ==
    /\ OwnerInit(Loading)
    /\ client = "start"
    /\ delivered = [n \in Nodes |-> <<>>]
    /\ hit = 0
    /\ client_producers_done = [o \in Owners |-> FALSE]
    /\ prefetch_buf = [o \in Remote |-> <<>>]
    /\ prefetch_done_map = [o \in Remote |-> FALSE]
    /\ owners_responded = {}
    /\ prefetch_stop = FALSE
    /\ submit = "idle" /\ toForward = {} /\ attempt = 0
    /\ fetch = "idle" /\ chunk = [n \in Nodes |-> <<>>] /\ isLast = FALSE
    /\ cancel = "idle" /\ toCancel = {}
    /\ prefetcher = [o \in Remote |-> "none"]
    /\ timeouts = 0 /\ crashes = 0 /\ lates = 0
    /\ lateForward = [o \in Remote |-> 0]

-----------------------------------------------------------------------------
(* st->mu and prefetch_cv *)

(* Only a FetchChunk that is about to block keeps st->mu across a step. *)
MuFree == fetch # "armed"

(* Mutants: the prefetchers, or the FetchChunk, are not notified. *)
WokenNoPrefetcher == prefetcher
WokenNoFetch == fetch

(* prefetch_cv.notify_all(): blocked threads evaluate their predicate again. *)
WokenPrefetchers ==
    [o \in Remote |-> IF prefetcher[o] = "blocked" THEN "check"
                                                   ELSE prefetcher[o]]
WokenFetch == IF fetch = "blocked" THEN "eval" ELSE fetch

NotifyAll == prefetcher' = WokenPrefetchers /\ fetch' = WokenFetch

-----------------------------------------------------------------------------
(* SubmitQuery *)

(* Mutant: every owner asked counts as responded. *)
UpFrontAll == Eligible

(* The gateway's own shard needs no RPC: it has responded up front. *)
UpFront == Eligible \cap {Self}

SubmitQuery ==
    /\ client = "start"
    /\ client' = "submitting"
    /\ RegisterRequest(Self)
    /\ client_producers_done' = [o \in Owners |-> o \notin Eligible]
    /\ owners_responded' = UpFront
    /\ submit' = "forward"
    /\ toForward' = Eligible \ {Self}
    /\ UNCHANGED <<delivered, hit, prefetch_buf, prefetch_done_map,
                   prefetch_stop, attempt, fetchVars, cancelVars, prefetcher,
                   faultVars>>

(* Fan-out loops visit the owners in data_owners order. *)
IsNext(o, todo) == o \in todo /\ \A p \in todo : Pos[o] <= Pos[p]

(* The loop is through with owner o. *)
ForwardedTo(o) == toForward' = toForward \ {o} /\ attempt' = 0

(* Mutants: one attempt too many; an owner given up is not marked done. *)
ForwardOnceMore(o) ==
    IF attempt < MaxAttempts
    THEN /\ attempt' = attempt + 1
         /\ UNCHANGED <<toForward, client_producers_done>>
    ELSE /\ ForwardedTo(o)
         /\ client_producers_done' =
               [client_producers_done EXCEPT ![o] = TRUE]
ForwardNotMarked(o) ==
    IF attempt + 1 < MaxAttempts
    THEN /\ attempt' = attempt + 1
         /\ UNCHANGED <<toForward, client_producers_done>>
    ELSE ForwardedTo(o) /\ UNCHANGED client_producers_done

(* UNAVAILABLE or DEADLINE_EXCEEDED: sleep and try again, or give the owner
   up after the last attempt. *)
ForwardAgain(o) ==
    IF attempt + 1 < MaxAttempts
    THEN /\ attempt' = attempt + 1
         /\ UNCHANGED <<toForward, client_producers_done>>
    ELSE /\ ForwardedTo(o)
         /\ client_producers_done' =
               [client_producers_done EXCEPT ![o] = TRUE]

(* The call reaches the owner, directly or through the relay. *)
ForwardAccepted(o) ==
    /\ up[Hop[o]] /\ up[o]
    /\ RegisterRequest(o)
    /\ ForwardedTo(o)
    /\ UNCHANGED <<client_producers_done, faultVars>>

(* The first hop is not listening. *)
ForwardUnavailable(o) ==
    /\ ~up[Hop[o]]
    /\ ForwardAgain(o)
    /\ UNCHANGED <<ownerVars, faultVars>>

(* A relay that cannot reach the owner answers OK with accepted = false; the
   gateway looks at the status only and takes the query as delivered. *)
ForwardRelayFailed(o) ==
    /\ up[Hop[o]] /\ ~up[o]
    /\ ForwardedTo(o)
    /\ UNCHANGED <<ownerVars, client_producers_done, faultVars>>

(* The deadline expires while the owner's handler still is to register the
   request.  A direct call is retried; a relay answers OK, as above. *)
ForwardDeadline(o) ==
    /\ up[Hop[o]] /\ up[o] /\ lates < MaxLate
    /\ lates' = lates + 1
    /\ lateForward' = [lateForward EXCEPT ![o] = @ + 1]
    /\ IF Hop[o] = o
       THEN ForwardAgain(o)
       ELSE ForwardedTo(o) /\ UNCHANGED client_producers_done
    /\ UNCHANGED <<ownerVars, timeouts, crashes>>

ForwardAttempt(o) ==
    /\ submit = "forward" /\ IsNext(o, toForward)
    /\ \/ ForwardAccepted(o)
       \/ ForwardUnavailable(o)
       \/ ForwardRelayFailed(o)
       \/ ForwardDeadline(o)
    /\ UNCHANGED <<clientVars, prefetch_buf, prefetch_done_map,
                   owners_responded, prefetch_stop, submit, fetchVars,
                   cancelVars, prefetcher>>

(* One prefetcher per eligible remote owner that was not given up. *)
SpawnPrefetchers ==
    /\ submit = "forward" /\ toForward = {}
    /\ submit' = "done"
    /\ prefetcher' =
          [o \in Remote |-> IF o \in Eligible /\ ~client_producers_done[o]
                            THEN "check" ELSE "none"]
    /\ client' = IF client = "submitting" THEN "ready" ELSE client
    /\ UNCHANGED <<ownerVars, delivered, hit, stateVars, toForward, attempt,
                   fetchVars, cancelVars, faultVars>>

-----------------------------------------------------------------------------
(* The producer threads.  The gateway's own shares st->mu with FetchChunk,
   but not for its store to done_producing. *)

Produce(n) ==
    /\ \/ (n = Self => MuFree) /\ (ProduceBegin(n) \/ ProduceRow(n))
       \/ ProduceCheck(n)
       \/ ProduceStore(n)
       \/ ProduceEmptyPart(n)
    /\ UNCHANGED <<clientVars, stateVars, submitVars, fetchVars, cancelVars,
                   prefetcher, faultVars>>

(* notify_all without st->mu: a FetchChunk that has evaluated its predicate
   and not yet blocked does not hear it. *)
ProduceNotify ==
    /\ producer[Self] = "notify"
    /\ producer' = [producer EXCEPT ![Self] = "idle"]
    /\ NotifyAll
    /\ UNCHANGED <<requestVars, quota, produced, callVars, up, registrations,
                   clientVars, stateVars, submitVars, chunk, isLast,
                   cancelVars, faultVars>>

-----------------------------------------------------------------------------
(* prefetcher_loop for remote owner o *)

(* The thread wakes up, or comes round, and evaluates its predicate. *)
Stopped == prefetch_stop \/ cancelled[Self]

(* Mutant: the prefetcher reads ahead of the consumer. *)
SlotAlwaysEmpty(o) == TRUE

SlotEmpty(o) == prefetch_buf[o] = <<>>

PrefetcherStop(o) ==
    /\ Stopped \/ (SlotEmpty(o) /\ prefetch_done_map[o])
    /\ prefetcher' = [prefetcher EXCEPT ![o] = "exit"]
    /\ UNCHANGED ownerVars

PrefetcherWait(o) ==
    /\ ~Stopped /\ ~SlotEmpty(o)
    /\ prefetcher' = [prefetcher EXCEPT ![o] = "blocked"]
    /\ UNCHANGED ownerVars

PrefetcherPull(o) ==
    /\ ~Stopped /\ SlotEmpty(o) /\ ~prefetch_done_map[o]
    /\ prefetcher' = [prefetcher EXCEPT ![o] = "pull"]
    /\ PullSend(o)

PrefetcherCheck(o) ==
    /\ prefetcher[o] = "check" /\ MuFree
    /\ \/ PrefetcherStop(o)
       \/ PrefetcherWait(o)
       \/ PrefetcherPull(o)
    /\ UNCHANGED <<clientVars, stateVars, submitVars, fetchVars, cancelVars,
                   faultVars>>

(* A reply: the owner counts as responded, its rows fill the slot. *)
PrefetcherReply(o) ==
    /\ prefetcher[o] = "pull" /\ MuFree /\ pull[o].stage = "replied"
    /\ PullReturn(o)
    /\ owners_responded' = owners_responded \cup {o}
    /\ prefetch_buf' = [prefetch_buf EXCEPT ![o] = @ \o pull[o].rows]
    /\ prefetch_done_map' =
          [prefetch_done_map EXCEPT ![o] = @ \/ pull[o].last]
    /\ prefetcher' = [WokenPrefetchers EXCEPT ![o] =
                         IF pull[o].last THEN "exit" ELSE "check"]
    /\ fetch' = WokenFetch
    /\ UNCHANGED <<clientVars, client_producers_done, prefetch_stop,
                   submitVars, chunk, isLast, cancelVars, faultVars>>

(* Any status but OK and DEADLINE_EXCEEDED: the owner is given up. *)
PrefetcherError(o) ==
    /\ prefetcher[o] = "pull" /\ MuFree /\ pull[o].stage = "error"
    /\ PullReturn(o)
    /\ prefetch_done_map' = [prefetch_done_map EXCEPT ![o] = TRUE]
    /\ client_producers_done' = [client_producers_done EXCEPT ![o] = TRUE]
    /\ prefetcher' = [WokenPrefetchers EXCEPT ![o] = "exit"]
    /\ fetch' = WokenFetch
    /\ UNCHANGED <<clientVars, prefetch_buf, owners_responded, prefetch_stop,
                   submitVars, chunk, isLast, cancelVars, faultVars>>

(* DEADLINE_EXCEEDED: the prefetcher loops and issues the call again. *)
PrefetcherDeadline(o) ==
    /\ prefetcher[o] = "pull" /\ timeouts < MaxTimeouts
    /\ PullExpire(o)
    /\ timeouts' = timeouts + 1
    /\ prefetcher' = [prefetcher EXCEPT ![o] = "check"]
    /\ UNCHANGED <<clientVars, stateVars, submitVars, fetchVars, cancelVars,
                   crashes, lates, lateForward>>

(* The PullChunk handler at the owner, reached through Hop[o]. *)
PullChunk(o) ==
    /\ \/ up[Hop[o]] /\ PullFindDrain(o, PullMax[o])
       \/ PullFinish(o)
       \/ (~up[Hop[o]] \/ ~up[o] \/ PullNotFound(o)) /\ PullFail(o)
    /\ UNCHANGED <<clientVars, stateVars, submitVars, fetchVars, cancelVars,
                   prefetcher, faultVars>>

-----------------------------------------------------------------------------
(* FetchChunk *)

FetchBegin ==
    /\ client = "ready" /\ fetch = "idle"
    /\ IF registered[Self]
       THEN client' = "fetching" /\ fetch' = "eval"
       ELSE client' = "failed" /\ UNCHANGED fetch       \* NOT_FOUND
    /\ UNCHANGED <<ownerVars, delivered, hit, stateVars, submitVars, chunk,
                   isLast, cancelVars, prefetcher, faultVars>>

(* Where the rows of n wait at the gateway: its own deque, or a slot. *)
Source(n) == IF n = Self THEN matched[Self] ELSE prefetch_buf[n]

(* Mutant: a remote owner ends with its first reply. *)
EndedByReply(o) == IF o = Self THEN done_producing[Self]
                               ELSE o \in owners_responded

Ended(o) == IF o = Self THEN done_producing[Self] ELSE prefetch_done_map[o]

HaveData == \E n \in Nodes : Source(n) # <<>>

(* Mutant: the gateway's own producer is not waited for. *)
AllRemoteDrained ==
    \A o \in Remote :
        client_producers_done[o] \/ (Ended(o) /\ Source(o) = <<>>)

AllDrained ==
    /\ done_producing[Self] /\ matched[Self] = <<>>
    /\ \A o \in Remote :
          client_producers_done[o] \/ (Ended(o) /\ Source(o) = <<>>)

FetchReady == cancelled[Self] \/ HaveData \/ AllDrained

(* The drain loop takes one row of each source per round, the gateway's own
   first and then data_owners in order, until m rows are taken or none are
   left: a source that still holds rows is at most one row behind those
   before it and never behind those after it. *)
Before(a, b) == b # Self /\ (a = Self \/ Pos[a] < Pos[b])
Sum(f) == FoldFunction(LAMBDA x, y : x + y, 0, f)

RoundRobin(m) ==
    { take \in [Nodes -> 0..m] :
        /\ \A n \in Nodes : take[n] <= Len(Source(n))
        /\ Sum(take) <= m
        /\ Sum(take) = m \/ \A n \in Nodes : take[n] = Len(Source(n))
        /\ \A a, b \in Nodes :
              take[a] < Len(Source(a)) =>
                  take[b] <= take[a] + (IF Before(b, a) THEN 1 ELSE 0) }

(* Mutants: the last row taken stays; rows that are left do not matter. *)
LeftOneMore(n, k) == SubSeq(Source(n), IF k = 0 THEN 1 ELSE k, Len(Source(n)))
PromotedEarly(o, k) == client_producers_done[o] \/ Ended(o)

(* k rows of n are taken: what is left, and whether n is done now. *)
Left(n, k) == SubSeq(Source(n), k + 1, Len(Source(n)))
Promoted(o, k) ==
    client_producers_done[o] \/ (Ended(o) /\ k = Len(Source(o)))

(* One critical section: drain, promote the owners that have ended, wake the
   prefetchers, decide is_last. *)
FetchServe(m) ==
    /\ fetch = "eval" /\ FetchReady
    /\ \E take \in RoundRobin(m) :
          /\ chunk' = [n \in Nodes |-> SubSeq(Source(n), 1, take[n])]
          /\ matched' = [matched EXCEPT ![Self] = Left(Self, take[Self])]
          /\ prefetch_buf' = [o \in Remote |-> Left(o, take[o])]
          /\ client_producers_done' = [o \in Owners |-> Promoted(o, take[o])]
    /\ prefetcher' = WokenPrefetchers
    /\ isLast' = \A o \in Owners : client_producers_done'[o]
    /\ fetch' = IF isLast' THEN "drop" ELSE "reply"
    /\ UNCHANGED <<registered, matched_cursor, done_producing, cancelled,
                   producerVars, callVars, up, registrations, clientVars,
                   prefetch_done_map, owners_responded, prefetch_stop,
                   submitVars, cancelVars, faultVars>>

(* The predicate is false: st->mu is held until the thread sleeps. *)
FetchArm ==
    /\ fetch = "eval" /\ ~FetchReady
    /\ fetch' = "armed"
    /\ UNCHANGED <<ownerVars, clientVars, stateVars, submitVars, chunk,
                   isLast, cancelVars, prefetcher, faultVars>>

FetchBlock ==
    /\ fetch = "armed"
    /\ fetch' = "blocked"
    /\ UNCHANGED <<ownerVars, clientVars, stateVars, submitVars, chunk,
                   isLast, cancelVars, prefetcher, faultVars>>

(* drop_request at the gateway, from FetchChunk or CancelQuery: only the
   handler that takes the request out of requests_ stops the prefetchers and
   goes on to join them. *)
DropRequest ==
    /\ registered' = [registered EXCEPT ![Self] = FALSE]
    /\ prefetch_stop' = (prefetch_stop \/ registered[Self])
    /\ UNCHANGED <<matched, matched_cursor, done_producing, cancelled,
                   producerVars, callVars, up, registrations,
                   client_producers_done, prefetch_buf, prefetch_done_map,
                   owners_responded>>

FetchDrop ==
    /\ fetch = "drop"
    /\ hit' = Cardinality(owners_responded)
    /\ DropRequest
    /\ IF registered[Self]
       THEN fetch' = "join" /\ prefetcher' = WokenPrefetchers
       ELSE fetch' = "reply" /\ UNCHANGED prefetcher
    /\ UNCHANGED <<client, delivered, submitVars, chunk, isLast, cancelVars,
                   faultVars>>

(* Mutant: nothing is joined. *)
NothingToJoin == TRUE

AllExited == \A o \in Remote : prefetcher[o] \in {"none", "exit"}

FetchJoin ==
    /\ fetch = "join" /\ AllExited
    /\ fetch' = "reply"
    /\ UNCHANGED <<ownerVars, clientVars, stateVars, submitVars, chunk,
                   isLast, cancelVars, prefetcher, faultVars>>

(* The chunk reaches the client, unless its deadline has expired. *)
FetchReply ==
    /\ fetch = "reply"
    /\ fetch' = "idle"
    /\ chunk' = [n \in Nodes |-> <<>>]
    /\ delivered' = IF client = "failed" THEN delivered
                    ELSE [n \in Nodes |-> delivered[n] \o chunk[n]]
    /\ client' = IF client # "fetching" THEN client
                 ELSE IF isLast THEN "done" ELSE "ready"
    /\ UNCHANGED <<ownerVars, hit, stateVars, submitVars, isLast, cancelVars,
                   prefetcher, faultVars>>

-----------------------------------------------------------------------------
(* CancelQuery *)

(* The client cancels between two chunks, or, from another thread, while a
   FetchChunk is running.  An unknown request is acknowledged with false. *)
CancelBegin ==
    /\ cancel = "idle"
    /\ \/ client = "ready" /\ "cancel" \in ClientActs
       \/ client = "fetching" /\ "cancelDuringFetch" \in ClientActs
    /\ IF registered[Self]
       THEN /\ client' = "cancelling" /\ cancel' = "clear"
            /\ cancelled' = [cancelled EXCEPT ![Self] = TRUE]
            /\ prefetch_stop' = TRUE
       ELSE /\ client' = "cancelled"
            /\ UNCHANGED <<cancel, cancelled, prefetch_stop>>
    /\ UNCHANGED <<registered, matched, matched_cursor, done_producing,
                   producerVars, callVars, up, registrations, delivered, hit,
                   client_producers_done, prefetch_buf, prefetch_done_map,
                   owners_responded, submitVars, fetchVars, toCancel,
                   prefetcher, faultVars>>

(* Mutant: only owners that have answered are told. *)
CancelResponders == owners_responded \ {Self}

(* Every other owner is told, eligible or not. *)
CancelTargets == Remote

CancelClear ==
    /\ cancel = "clear" /\ MuFree
    /\ matched' = [matched EXCEPT ![Self] = <<>>]
    /\ prefetch_buf' = [o \in Remote |-> <<>>]
    /\ NotifyAll
    /\ cancel' = "fan" /\ toCancel' = CancelTargets
    /\ UNCHANGED <<registered, matched_cursor, done_producing, cancelled,
                   producerVars, callVars, up, registrations, clientVars,
                   client_producers_done, prefetch_done_map, owners_responded,
                   prefetch_stop, submitVars, chunk, isLast, faultVars>>

(* For every remote owner, CancelQuery goes to the next hop on the way to it,
   and the hop cancels its own copy of the request.  The call's status is not
   looked at: a one-second deadline that expires is a call that never was. *)
CancelFan(o) ==
    /\ cancel = "fan" /\ IsNext(o, toCancel)
    /\ toCancel' = toCancel \ {o}
    /\ \/ CancelRequest(Hop[o]) /\ UNCHANGED timeouts
       \/ timeouts < MaxTimeouts /\ timeouts' = timeouts + 1
                                 /\ UNCHANGED ownerVars
    /\ UNCHANGED <<clientVars, stateVars, submitVars, fetchVars, cancel,
                   prefetcher, crashes, lates, lateForward>>

CancelDrop ==
    /\ cancel = "fan" /\ toCancel = {} /\ MuFree
    /\ DropRequest
    /\ IF registered[Self]
       THEN cancel' = "join" /\ NotifyAll
       ELSE cancel' = "ack" /\ UNCHANGED <<fetch, prefetcher>>
    /\ UNCHANGED <<clientVars, submitVars, chunk, isLast, toCancel, faultVars>>

CancelJoin ==
    /\ cancel = "join" /\ AllExited
    /\ cancel' = "ack"
    /\ UNCHANGED <<ownerVars, clientVars, stateVars, submitVars, fetchVars,
                   toCancel, prefetcher, faultVars>>

CancelReply ==
    /\ cancel = "ack"
    /\ cancel' = "idle" /\ client' = "cancelled"
    /\ UNCHANGED <<ownerVars, delivered, hit, stateVars, submitVars,
                   fetchVars, toCancel, prefetcher, faultVars>>

-----------------------------------------------------------------------------
(* The client that walks away *)

(* --limit-chunks returns without a CancelQuery; and the deadline of
   SubmitQuery (10 s) or FetchChunk (60 s) makes run_one give up. *)
ClientLeave ==
    /\ \/ /\ client = "ready" /\ "abandon" \in ClientActs
          /\ client' = "abandoned"
       \/ /\ client \in {"submitting", "fetching"} /\ "timeout" \in ClientActs
          /\ client' = "failed"
    /\ UNCHANGED <<ownerVars, delivered, hit, stateVars, submitVars,
                   fetchVars, cancelVars, prefetcher, faultVars>>

-----------------------------------------------------------------------------
(* Owners that come up late, are slow, or crash *)

Unaffected == UNCHANGED <<clientVars, stateVars, submitVars, fetchVars,
                          cancelVars, prefetcher>>

NodeUp(o) ==
    /\ ~up[o]
    /\ up' = [up EXCEPT ![o] = TRUE]
    /\ UNCHANGED <<requestVars, producerVars, callVars, registrations,
                   faultVars>>
    /\ Unaffected

(* A ForwardQuery handler whose caller is gone gets its turn. *)
ForwardLate(o) ==
    /\ lateForward[o] > 0 /\ up[o] /\ NoHandlerInside(o)
    /\ lateForward' = [lateForward EXCEPT ![o] = @ - 1]
    /\ RegisterRequest(o)
    /\ UNCHANGED <<timeouts, crashes, lates>>
    /\ Unaffected

PullLate(o) ==
    /\ LateFindDrain(o, PullMax[o]) \/ LateFinish(o)
    /\ UNCHANGED faultVars
    /\ Unaffected

(* The process dies: its requests are gone, the calls it serves and the calls
   it relays fail.  A relayed call may be running at its target already. *)
NodeCrash(o) ==
    /\ up[o] /\ crashes < MaxCrashes
    /\ crashes' = crashes + 1
    /\ up' = [up EXCEPT ![o] = FALSE]
    /\ registered' = [registered EXCEPT ![o] = FALSE]
    /\ producer' = [producer EXCEPT ![o] = "idle"]
    /\ LET relayed(p) == p # o /\ Hop[p] = o
           lost(p) == \/ p = o /\ pull[p].stage \in {"sent", "drained"}
                      \/ relayed(p) /\ pull[p].stage # "none"
       IN /\ pull' = [p \in Remote |-> IF lost(p) THEN Failed ELSE pull[p]]
          /\ lateSent' = [p \in Remote |->
                 IF p = o THEN 0
                 ELSE IF relayed(p) /\ pull[p].stage = "sent"
                      THEN lateSent[p] + 1 ELSE lateSent[p]]
          /\ lateEmpty' = [p \in Remote |->
                 IF p = o THEN 0
                 ELSE IF relayed(p) /\ pull[p].stage = "drained"
                                    /\ pull[p].rows = <<>>
                      THEN lateEmpty[p] + 1 ELSE lateEmpty[p]]
    /\ lateForward' = [lateForward EXCEPT ![o] = 0]
    /\ UNCHANGED <<matched, matched_cursor, done_producing, cancelled, quota,
                   produced, lateFound, registrations, timeouts, lates>>
    /\ Unaffected

-----------------------------------------------------------------------------
Terminal == {"done", "failed", "cancelled", "abandoned"}

(* The client is through; what is left at the servers may stop. *)
Finish == client \in Terminal /\ UNCHANGED vars

FetchStep ==
    \/ \E m \in FetchSizes : FetchServe(m)
    \/ FetchArm \/ FetchBlock
    \/ FetchDrop \/ FetchJoin \/ FetchReply

CancelStep ==
    \/ CancelClear
    \/ \E o \in Remote : CancelFan(o)
    \/ CancelDrop \/ CancelJoin \/ CancelReply

Prefetch(o) == PrefetcherCheck(o) \/ PrefetcherReply(o) \/ PrefetcherError(o)

FaultStep(o) ==
    PrefetcherDeadline(o) \/ ForwardLate(o) \/ PullLate(o) \/ NodeCrash(o)

Next ==
    \/ SubmitQuery \/ SpawnPrefetchers
    \/ FetchBegin \/ FetchStep
    \/ CancelBegin \/ CancelStep
    \/ ClientLeave
    \/ \E n \in Nodes : Produce(n)
    \/ ProduceNotify
    \/ \E o \in Remote :
          ForwardAttempt(o) \/ Prefetch(o) \/ PullChunk(o) \/ NodeUp(o)
              \/ FaultStep(o)
    \/ Finish

Spec == Init /\ [][Next]_vars

(* Every thread of a running node is scheduled, every call is answered, a
   loading node comes up, and a client that is not through pulls again.
   Nothing makes a client leave, a deadline expire or a node crash. *)
Fairness ==
    /\ WF_vars(SubmitQuery) /\ WF_vars(SpawnPrefetchers)
    /\ WF_vars(FetchBegin) /\ WF_vars(FetchStep)
    /\ WF_vars(CancelStep)
    /\ \A n \in Nodes : WF_vars(Produce(n))
    /\ WF_vars(ProduceNotify)
    /\ \A o \in Remote :
          /\ WF_vars(ForwardAttempt(o))
          /\ WF_vars(Prefetch(o))
          /\ WF_vars(PullChunk(o))
          /\ WF_vars(NodeUp(o))

FairSpec == Spec /\ Fairness
-----------------------------------------------------------------------------
(* Correctness *)

Faultless == timeouts = 0 /\ crashes = 0 /\ lates = 0

TypeOK ==
    /\ OwnerTypeOK
    /\ client \in {"start", "submitting", "ready", "fetching", "cancelling"}
                     \cup Terminal
    /\ delivered \in [Nodes -> Seq(Nat)]
    /\ hit \in Nat
    /\ client_producers_done \in [Owners -> BOOLEAN]
    /\ prefetch_buf \in [Remote -> Seq(Nat)]
    /\ prefetch_done_map \in [Remote -> BOOLEAN]
    /\ owners_responded \subseteq Owners
    /\ prefetch_stop \in BOOLEAN
    /\ submit \in {"idle", "forward", "done"}
    /\ toForward \subseteq Remote
    /\ attempt \in 0..(MaxAttempts - 1)
    /\ fetch \in {"idle", "eval", "armed", "blocked", "drop", "join", "reply"}
    /\ chunk \in [Nodes -> Seq(Nat)]
    /\ isLast \in BOOLEAN
    /\ cancel \in {"idle", "clear", "fan", "join", "ack"}
    /\ toCancel \subseteq Remote
    /\ prefetcher \in [Remote -> {"none", "check", "blocked", "pull", "exit"}]
    /\ timeouts \in Nat /\ crashes \in Nat /\ lates \in Nat
    /\ lateForward \in [Remote -> Nat]

(* node.cpp:61, 719: neither a deque nor a prefetch slot outgrows its bound,
   although each is filled and emptied by different threads: the deques stay
   within kMaxBuffered and a slot within one chunk of its owner. *)
BoundedMemory ==
    /\ \A n \in Nodes : Len(matched[n]) <= MaxBuffered
    /\ \A o \in Remote : Len(prefetch_buf[o]) <= PullMax[o]

(* node.cpp:395: once an owner is promoted to done, no row of it is left at
   the gateway or can still arrive: its slot is empty and its prefetcher has
   returned, so joining it at the last chunk never waits for an RPC. *)
DoneIsFinal ==
    \A o \in Remote : client_producers_done[o] =>
        prefetch_buf[o] = <<>> /\ prefetcher[o] \in {"none", "exit"}

(* node.cpp:355: a chunk that is not the last carries a row, unless the query
   was cancelled: the wait predicate and the is_last rule agree, so a client
   never spins on empty chunks. *)
ChunkHasRows ==
    fetch = "reply" /\ ~isLast /\ ~cancelled[Self] =>
        \E n \in Nodes : chunk[n] # <<>>

(* README.md:598: when the last chunk reports every eligible owner as hit,
   the client has all their rows, however late owners came up and whichever
   forwards were retried.  Expired PullChunks and crashes are excluded: see
   FullHitIsComplete. *)
HitsAreHonest ==
    client = "done" /\ hit = Cardinality(Eligible)
                    /\ timeouts = 0 /\ crashes = 0 =>
        \A o \in Eligible : delivered[o] = Rows(NRows[o])

(* node.cpp:570, 805: expired and re-issued PullChunks, cancels and crashes
   never give the client a row of an owner twice or out of order, as long as
   that owner registered the query once. *)
NoRowTwice ==
    \A o \in Owners : registrations[o] <= 1 =>
        \A i, j \in 1..Len(delivered[o]) :
            i < j => delivered[o][i] < delivered[o][j]

(* node.cpp:659: once the client has its last chunk, no node that has rows
   still holds the query. *)
DoneIsReleased ==
    client = "done" /\ Faultless =>
        \A n \in HasPart \cup {Self} : ~registered[n]

(* node.cpp:440, 673: an acknowledged CancelQuery leaves no thread of the
   query behind at the gateway: none blocked on prefetch_cv, none in an RPC,
   and the request is gone. *)
CancelQuiesces ==
    client = "cancelled" =>
        /\ ~registered[Self]
        /\ fetch \notin {"armed", "blocked"}
        /\ \A o \in Remote : prefetcher[o] \in {"none", "exit"}

(* node.cpp:461: and no neighbour of the gateway still holds it.  An owner
   behind a relay may: the relay cancels its own copy only (464), though
   mini2.proto:98 says "at every node that knows about it". *)
CancelReachesNeighbours ==
    client = "cancelled" /\ Faultless =>
        \A o \in Remote \cap HasPart : Hop[o] = o => ~registered[o]

(* node.cpp:271: an owner the fan-out does not give up has registered the
   query, if nothing relays on the way to it. *)
DirectForwardRegisters ==
    \A o \in Eligible \cap Remote :
        submit # "idle" /\ o \notin toForward /\ ~client_producers_done[o]
            /\ Hop[o] = o => registrations[o] > 0

(* How far the stream of chunks is, as the client sees it. *)
StreamStatus ==
    CASE client = "done" -> "complete"
      [] client \in {"cancelling"} \cup (Terminal \ {"done"}) -> "left"
      [] OTHER -> "open"

Promise == INSTANCE ResultStream WITH
    Sources <- Nodes, Total <- NRows,
    received <- delivered, status <- StreamStatus

(* node.cpp:315: while nothing fails, every step of the gateway is a step of
   the stream it promises. *)
ImplementsStream == Promise!Spec

(* A query that is pulled to the end ends. *)
QueryEnds == <>(client \in Terminal)

(* A CancelQuery is acknowledged: the fan-out and the join both end. *)
CancelReturns == (client = "cancelling") ~> (client = "cancelled")

-----------------------------------------------------------------------------
(* What a doc or a comment says of the program, and the code does not do. *)

(* node.cpp:783 "Wake any FetchChunk consumer waiting on this request's
   gateway-side condition variable": a FetchChunk returns. *)
FetchReturns == (fetch = "eval") ~> (fetch = "idle")

(* node.cpp:267: the retries are there so that an owner that is still loading
   is not lost. *)
ForwardRegisters ==
    \A o \in Eligible \cap Remote :
        submit # "idle" /\ o \notin toForward /\ ~client_producers_done[o]
            => registrations[o] > 0

(* mini2.proto:64 "The producer remembers how far each consumer has read per
   request": rows that were not read are still there for the next PullChunk. *)
FullHitIsComplete ==
    client = "done" /\ hit = Cardinality(Eligible) /\ crashes = 0 =>
        \A o \in Eligible : delivered[o] = Rows(NRows[o])
=============================================================================
