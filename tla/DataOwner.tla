----------------------------- MODULE DataOwner -----------------------------
(***************************************************************************)
(* What every C++ node does for one query (cpp/server/node.cpp): the       *)
(* request it keeps in requests_, the producer thread that fills the       *)
(* request's deque, and the PullChunk handler that empties it.             *)
(*                                                                         *)
(* An action is a piece of code no other thread can observe in the middle: *)
(* a critical section of st->mu or req_mu_, or one store or notify made    *)
(* outside of them.  A row is its position 1, 2, ... in matched_indices.   *)
(***************************************************************************)
EXTENDS Naturals, Sequences

CONSTANTS
    Owners,       \* overlay_.data_owners
    Self,         \* the gateway
    HasPart,      \* nodes whose part_ is not empty
    NRows,        \* NRows[n]: matched_indices.size() at node n
    MaxBuffered,  \* kMaxBuffered
    Batch         \* 256 * weight, the rows of one turn of the producer

Nodes  == Owners \cup {Self}
Remote == Owners \ {Self}

ASSUME OwnerAssumption ==
    /\ HasPart \subseteq Owners
    /\ NRows \in [Nodes -> Nat]
    /\ \A n \in Nodes \ HasPart : NRows[n] = 0
    /\ MaxBuffered \in Nat \ {0}
    /\ Batch \in Nat \ {0}

VARIABLES
    registered,      \* requests_ holds the request
    matched,         \* the producer's deque
    matched_cursor,  \* the next index of matched_indices
    done_producing,
    cancelled,
    producer,        \* where the producer thread is
    quota,           \* rows left of its turn
    produced,        \* has the turn counted a row
    pull,            \* the PullChunk call an owner is serving
    lateSent,        \* calls that expired at the caller before the handler ran
    lateFound,       \* and those whose handler holds the RequestState,
    lateEmpty,       \* and those whose handler found the deque empty
    up,              \* the owner's server is listening
    registrations    \* how often the request was entered in requests_

requestVars  == <<registered, matched, matched_cursor, done_producing,
                  cancelled>>
producerVars == <<producer, quota, produced>>
callVars     == <<pull, lateSent, lateFound, lateEmpty>>
ownerVars    == <<requestVars, producerVars, callVars, up, registrations>>

OwnerTypeOK ==
    /\ registered \in [Nodes -> BOOLEAN]
    /\ matched \in [Nodes -> Seq(Nat)]
    /\ matched_cursor \in [Nodes -> Nat]
    /\ done_producing \in [Nodes -> BOOLEAN]
    /\ cancelled \in [Nodes -> BOOLEAN]
    /\ producer \in [Nodes -> {"idle", "check", "push", "store", "notify"}]
    /\ quota \in [Nodes -> 0..Batch]
    /\ produced \in [Nodes -> BOOLEAN]
    /\ pull \in [Remote ->
          [stage : {"none", "sent", "found", "drained", "replied", "error"},
           rows : Seq(Nat), last : BOOLEAN]]
    /\ lateSent \in [Remote -> Nat]
    /\ lateFound \in [Remote -> Nat]
    /\ lateEmpty \in [Remote -> Nat]
    /\ up \in [Remote -> BOOLEAN]
    /\ registrations \in [Nodes -> Nat]

(* The first k rows of an owner, in order. *)
Rows(k) == [i \in 1..k |-> i]

NoCall == [stage |-> "none", rows |-> <<>>, last |-> FALSE]
Sent   == [stage |-> "sent", rows |-> <<>>, last |-> FALSE]
Found  == [stage |-> "found", rows |-> <<>>, last |-> FALSE]
Failed == [stage |-> "error", rows |-> <<>>, last |-> FALSE]

(* Nodes without requests; the ones in loading do not listen yet. *)
OwnerInit(loading) ==
    /\ registered = [n \in Nodes |-> FALSE]
    /\ matched = [n \in Nodes |-> <<>>]
    /\ matched_cursor = [n \in Nodes |-> 0]
    /\ done_producing = [n \in Nodes |-> FALSE]
    /\ cancelled = [n \in Nodes |-> FALSE]
    /\ producer = [n \in Nodes |-> "idle"]
    /\ quota = [n \in Nodes |-> 0]
    /\ produced = [n \in Nodes |-> FALSE]
    /\ pull = [o \in Remote |-> NoCall]
    /\ lateSent = [o \in Remote |-> 0]
    /\ lateFound = [o \in Remote |-> 0]
    /\ lateEmpty = [o \in Remote |-> 0]
    /\ up = [o \in Remote |-> o \notin loading]
    /\ registrations = [n \in Nodes |-> 0]

-----------------------------------------------------------------------------
(* requests_ *)

(* register_request: nothing if the request is known, else a new
   RequestState.  The range filter or range_search may find at once that no
   row matches. *)
RegisterRequest(n) ==
    /\ IF registered[n]
       THEN UNCHANGED <<requestVars, producerVars, registrations>>
       ELSE /\ registered' = [registered EXCEPT ![n] = TRUE]
            /\ matched' = [matched EXCEPT ![n] = <<>>]
            /\ matched_cursor' = [matched_cursor EXCEPT ![n] = 0]
            /\ done_producing' =
                  [done_producing EXCEPT ![n] = n \in HasPart /\ NRows[n] = 0]
            /\ cancelled' = [cancelled EXCEPT ![n] = FALSE]
            /\ producer' = [producer EXCEPT ![n] = "idle"]
            /\ quota' = [quota EXCEPT ![n] = 0]
            /\ produced' = [produced EXCEPT ![n] = FALSE]
            /\ registrations' = [registrations EXCEPT ![n] = @ + 1]
    /\ UNCHANGED <<callVars, up>>

(* A handler that holds the RequestState across a drop and a second
   registration would go on with the old one: registrations happen while no
   PullChunk handler holds one. *)
NoHandlerInside(o) ==
    /\ pull[o].stage \notin {"found", "drained"}
    /\ lateFound[o] = 0 /\ lateEmpty[o] = 0

(* CancelQuery at a peer: mark, clear the deque, drop the request. *)
CancelRequest(o) ==
    /\ IF up[o] /\ registered[o]
       THEN /\ cancelled' = [cancelled EXCEPT ![o] = TRUE]
            /\ matched' = [matched EXCEPT ![o] = <<>>]
            /\ registered' = [registered EXCEPT ![o] = FALSE]
       ELSE UNCHANGED <<cancelled, matched, registered>>
    /\ UNCHANGED <<matched_cursor, done_producing, producerVars, callVars, up,
                   registrations>>

-----------------------------------------------------------------------------
(* produce_loop at node n.  matched_cursor is its loop variable i, which no
   other thread reads. *)

(* The rows of one turn: limit - i in the code. *)
TurnRows(n) == IF NRows[n] - matched_cursor[n] <= Batch
               THEN NRows[n] - matched_cursor[n] ELSE Batch

(* sched_.next() picked the request and its deque is not full.  The loop's
   first look at cancelled follows at once. *)
ProduceBegin(n) ==
    /\ producer[n] = "idle" /\ registered[n]
    /\ ~cancelled[n] /\ ~done_producing[n] /\ n \in HasPart
    /\ Len(matched[n]) < MaxBuffered
    /\ producer' = [producer EXCEPT ![n] =
                       IF TurnRows(n) > 0 THEN "push" ELSE "store"]
    /\ quota' = [quota EXCEPT ![n] = TurnRows(n)]
    /\ produced' = [produced EXCEPT ![n] = FALSE]
    /\ UNCHANGED <<requestVars, callVars, up, registrations>>

(* Mutant: only the look before the turn is left. *)
BlindlyOn(n) == "push"

(* Every further row is preceded by a look at cancelled, so that one row may
   still come after CancelQuery has cleared the deque. *)
AfterCheck(n) == IF cancelled[n] THEN "store" ELSE "push"

ProduceCheck(n) ==
    /\ producer[n] = "check"
    /\ producer' = [producer EXCEPT ![n] = AfterCheck(n)]
    /\ UNCHANGED <<requestVars, quota, produced, callVars, up, registrations>>

(* Mutants: push_front; the deque's size is compared before the push. *)
PushedInFront(n) == <<matched_cursor[n] + 1>> \o matched[n]
FillsTooLate(n)  == Len(matched[n]) >= MaxBuffered

(* push_back of the row at index i, and whether it fills the deque. *)
Pushed(n) == Append(matched[n], matched_cursor[n] + 1)
Fills(n)  == Len(matched[n]) + 1 >= MaxBuffered

(* One row.  The row that fills the deque ends the turn and is not counted
   in produced; nor does the limit wait for another look at cancelled. *)
ProduceRow(n) ==
    /\ producer[n] = "push"
    /\ matched' = [matched EXCEPT ![n] = Pushed(n)]
    /\ matched_cursor' = [matched_cursor EXCEPT ![n] = @ + 1]
    /\ quota' = [quota EXCEPT ![n] = @ - 1]
    /\ produced' = [produced EXCEPT ![n] = @ \/ ~Fills(n)]
    /\ producer' = [producer EXCEPT ![n] =
                       IF Fills(n) \/ quota[n] = 1 THEN "store" ELSE "check"]
    /\ UNCHANGED <<registered, done_producing, cancelled, callVars, up,
                   registrations>>

(* Mutant: the store is moved under "if (produced > 0)". *)
StoredDoneIfProduced(n) ==
    done_producing[n] \/ (produced[n] /\ matched_cursor[n] >= NRows[n])

(* done_producing after a turn: the cursor has reached the end. *)
StoredDone(n) == done_producing[n] \/ matched_cursor[n] >= NRows[n]

(* The turn is over: done_producing is stored without st->mu.  Only the
   gateway's own threads ever wait for the notify_all that follows. *)
ProduceStore(n) ==
    /\ producer[n] = "store"
    /\ done_producing' = [done_producing EXCEPT ![n] = StoredDone(n)]
    /\ producer' = [producer EXCEPT ![n] =
                       IF produced[n] /\ n = Self THEN "notify" ELSE "idle"]
    /\ UNCHANGED <<registered, matched, matched_cursor, cancelled, quota,
                   produced, callVars, up, registrations>>

(* A node with no rows at all is done the first time it is scheduled. *)
ProduceEmptyPart(n) ==
    /\ producer[n] = "idle" /\ registered[n]
    /\ ~cancelled[n] /\ ~done_producing[n] /\ n \notin HasPart
    /\ done_producing' = [done_producing EXCEPT ![n] = TRUE]
    /\ producer' = [producer EXCEPT ![n] =
                       IF n = Self THEN "notify" ELSE "idle"]
    /\ UNCHANGED <<registered, matched, matched_cursor, cancelled, quota,
                   produced, callVars, up, registrations>>

-----------------------------------------------------------------------------
(* PullChunk at owner o *)

PullSend(o) ==
    /\ pull[o].stage = "none"
    /\ pull' = [pull EXCEPT ![o] = Sent]
    /\ UNCHANGED <<requestVars, producerVars, lateSent, lateFound, lateEmpty, up,
                   registrations>>

(* NOT_FOUND: the request is unknown, or the node has no rows at all. *)
PullNotFound(o) == ~registered[o] \/ o \notin HasPart

(* get_request: from here on the handler holds the RequestState, whoever
   drops it from requests_. *)
PullFind(o) ==
    /\ pull[o].stage = "sent" /\ up[o] /\ ~PullNotFound(o)
    /\ pull' = [pull EXCEPT ![o] = Found]
    /\ UNCHANGED <<requestVars, producerVars, lateSent, lateFound, lateEmpty, up,
                   registrations>>

(* The rows a call for at most max takes from the front of the deque. *)
Take(o, max) == IF Len(matched[o]) <= max THEN Len(matched[o]) ELSE max

(* Mutant: one pop_front for the whole chunk. *)
RestPoppedOnce(o, max) == IF matched[o] = <<>> THEN <<>> ELSE Tail(matched[o])

(* What it leaves there. *)
Rest(o, max) == SubSeq(matched[o], Take(o, max) + 1, Len(matched[o]))

(* First critical section: move up to max rows to the reply. *)
Drained(o, max) ==
    /\ pull' = [pull EXCEPT ![o] =
                   [stage |-> "drained", last |-> FALSE,
                    rows |-> SubSeq(matched[o], 1, Take(o, max))]]
    /\ matched' = [matched EXCEPT ![o] = Rest(o, max)]
    /\ UNCHANGED <<registered, matched_cursor, done_producing, cancelled,
                   producerVars, lateSent, lateFound, lateEmpty, up, registrations>>

PullDrain(o, max) == pull[o].stage = "found" /\ Drained(o, max)

(* The lookup and the drain as one step, for models in which a request that
   is dropped in between need not be told from one dropped before or after:
   the deque is empty then but for one row. *)
PullFindDrain(o, max) ==
    /\ pull[o].stage = "sent" /\ up[o] /\ ~PullNotFound(o)
    /\ Drained(o, max)

(* Mutant: no second look at the deque. *)
NoMoreRowsUnchecked(o) == done_producing[o]

(* is_last of a reply that took no rows: done_producing is read after the
   drain, and the deque is looked at once more. *)
NoMoreRows(o) == done_producing[o] /\ matched[o] = <<>>

(* Mutant: the request stays in requests_. *)
DropForgotten(o, last) == UNCHANGED registered

(* drop_request at the owner, if the reply is the last. *)
DropAtLast(o, last) ==
    registered' = [registered EXCEPT ![o] = @ /\ ~last]

(* Second critical section: decide is_last and, if so, drop the request. *)
PullFinish(o) ==
    /\ pull[o].stage = "drained"
    /\ LET last == NoMoreRows(o) /\ pull[o].rows = <<>>
       IN /\ pull' = [pull EXCEPT ![o] = [stage |-> "replied", last |-> last,
                                          rows |-> pull[o].rows]]
          /\ DropAtLast(o, last)
    /\ UNCHANGED <<matched, matched_cursor, done_producing, cancelled,
                   producerVars, lateSent, lateFound, lateEmpty, up, registrations>>

(* The call fails with something other than DEADLINE_EXCEEDED. *)
PullFail(o) ==
    /\ pull[o].stage = "sent"
    /\ pull' = [pull EXCEPT ![o] = Failed]
    /\ UNCHANGED <<requestVars, producerVars, lateSent, lateFound, lateEmpty, up,
                   registrations>>

(* The caller takes the answer. *)
PullReturn(o) ==
    /\ pull' = [pull EXCEPT ![o] = NoCall]
    /\ UNCHANGED <<requestVars, producerVars, lateSent, lateFound, lateEmpty, up,
                   registrations>>

(* The caller's deadline expires while the handler goes on at the owner.
   Rows the handler has taken from the deque go nowhere. *)
PullExpire(o) ==
    /\ pull[o].stage \in {"sent", "found", "drained", "replied"}
    /\ lateSent' = [lateSent EXCEPT ![o] =
                       IF pull[o].stage = "sent" THEN @ + 1 ELSE @]
    /\ lateFound' = [lateFound EXCEPT ![o] =
                        IF pull[o].stage = "found" THEN @ + 1 ELSE @]
    /\ lateEmpty' = [lateEmpty EXCEPT ![o] =
                        IF pull[o].stage = "drained" /\ pull[o].rows = <<>>
                        THEN @ + 1 ELSE @]
    /\ pull' = [pull EXCEPT ![o] = NoCall]
    /\ UNCHANGED <<requestVars, producerVars, up, registrations>>

(* The steps of a handler whose caller is gone.  The lookup: an unknown
   request ends it. *)
LateFind(o) ==
    /\ lateSent[o] > 0 /\ up[o]
    /\ lateSent' = [lateSent EXCEPT ![o] = @ - 1]
    /\ lateFound' = [lateFound EXCEPT ![o] = IF PullNotFound(o) THEN @ ELSE @ + 1]
    /\ UNCHANGED <<requestVars, producerVars, pull, lateEmpty, up, registrations>>

(* It has the RequestState and drains its deque, whether the request is still
   in requests_ or not.  A handler that took rows has nothing left to do. *)
LateDrain(o, max) ==
    /\ lateFound[o] > 0
    /\ lateFound' = [lateFound EXCEPT ![o] = @ - 1]
    /\ matched' = [matched EXCEPT ![o] = Rest(o, max)]
    /\ lateEmpty' = [lateEmpty EXCEPT ![o] = IF matched[o] = <<>> THEN @ + 1 ELSE @]
    /\ UNCHANGED <<registered, matched_cursor, done_producing, cancelled,
                   producerVars, pull, lateSent, up, registrations>>

(* Both as one step, as in PullFindDrain. *)
LateFindDrain(o, max) ==
    /\ lateSent[o] > 0 /\ up[o]
    /\ lateSent' = [lateSent EXCEPT ![o] = @ - 1]
    /\ IF PullNotFound(o)
       THEN UNCHANGED <<matched, lateEmpty>>
       ELSE /\ matched' = [matched EXCEPT ![o] = Rest(o, max)]
            /\ lateEmpty' = [lateEmpty EXCEPT ![o] =
                                IF matched[o] = <<>> THEN @ + 1 ELSE @]
    /\ UNCHANGED <<registered, matched_cursor, done_producing, cancelled,
                   producerVars, pull, lateFound, up, registrations>>

LateFinish(o) ==
    /\ lateEmpty[o] > 0
    /\ lateEmpty' = [lateEmpty EXCEPT ![o] = @ - 1]
    /\ DropAtLast(o, NoMoreRows(o))
    /\ UNCHANGED <<matched, matched_cursor, done_producing, cancelled,
                   producerVars, pull, lateSent, lateFound, up, registrations>>
=============================================================================
