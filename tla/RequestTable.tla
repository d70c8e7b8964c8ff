---------------------------- MODULE RequestTable ----------------------------
(***************************************************************************)
(* One C++ owner node with several queries at a time (cpp/server/node.cpp).*)
(* Its request table, its FairScheduler and its ChunkSizer are three       *)
(* structures with a lock each; one producer thread serves all queries,    *)
(* handlers of all of them run next to it, those of calls that have        *)
(* expired and were issued again included.  What a handler or the thread   *)
(* does to one RequestState is written in OwnerService: "owner" r of that  *)
(* module is here the query r at this node.                                *)
(***************************************************************************)
EXTENDS OwnerService, ChunkSizer

CONSTANTS
    Modes,      \* values of scheduler.mode in the overlay
    Unruly,     \* queries that may be cancelled, and whose caller may stop
                \* pulling
    Hasty       \* bound: queries with calls that may expire

ASSUME TableAssumption ==
    /\ Owners = Rids /\ Self \notin Rids
    /\ HasPart = Rids      \* a node with rows; OwnerService has one without
    /\ 1..Higher(MaxRows, InitialRows) \subseteq PullSizes
    /\ Unruly \subseteq Rids /\ Hasty \subseteq Rids

VARIABLES
    mode, q, cursor,    \* sched_
    served              \* the query the producer thread is at, if any

schedVars == <<mode, q, cursor, served>>
tableVars == <<vars, sizerVars, schedVars>>

Sched == INSTANCE FairScheduler WITH Weights <- {1}

TableInit ==
    /\ Init
    /\ SizerInit
    /\ Sched!Init

-----------------------------------------------------------------------------
(* ForwardQuery with this node as its target: register_request enters a new
   query in requests_ and in the scheduler, always with weight 1. *)
Register(r) ==
    /\ Forward(r)
    /\ IF registered[r] THEN UNCHANGED schedVars ELSE Sched!Add(r, 1)
    /\ UNCHANGED sizerVars

(* Mutants: drop_request leaves the sizer its entry; it leaves the scheduler
   its own. *)
DropUnforgotten(r) ==
    /\ IF r \in Sched!Queued THEN Sched!Remove(r) ELSE UNCHANGED schedVars
    /\ UNCHANGED sizerVars
DropQueued(r) == Forget(r) /\ UNCHANGED schedVars

(* drop_request, next to erasing r from requests_: it leaves the scheduler,
   if it is there, and the sizer forgets it.  All of it under req_mu_. *)
Drop(r) ==
    /\ IF r \in Sched!Queued THEN Sched!Remove(r) ELSE UNCHANGED schedVars
    /\ Forget(r)

(* CancelQuery.  An unknown query is none of this node's business. *)
CancelQuery(r) ==
    /\ r \in Unruly
    /\ Cancel(r)
    /\ Drop(r)

-----------------------------------------------------------------------------
(* produce_loop.  Its local rid is what sched_.next() returned; {} when an
   iteration is over. *)

Picked(r) == r \in served /\ producer[r] = "idle"

IterationOver == served' = {} /\ UNCHANGED <<mode, q, cursor>>

(* sched_.next(); the thread sleeps if nothing is queued. *)
PickQuery ==
    /\ served = {}
    /\ Sched!NextRid
    /\ UNCHANGED <<vars, sizerVars>>

(* get_request and what the loop looks at before it pushes rows. *)
HasWork(r) == registered[r] /\ ~cancelled[r] /\ ~done_producing[r]

(* Mutant: the thread waits for room in a full deque. *)
SkipNoFull(r) ==
    /\ Picked(r) /\ ~HasWork(r)
    /\ IterationOver
    /\ UNCHANGED <<vars, sizerVars>>

(* Nothing to do for the query that was picked: continue. *)
SkipQuery(r) ==
    /\ Picked(r)
    /\ HasWork(r) => Len(matched[r]) >= MaxBuffered
    /\ IterationOver
    /\ UNCHANGED <<vars, sizerVars>>

BeginTurn(r) ==
    /\ Picked(r)
    /\ ProduceBegin(r)
    /\ UNCHANGED <<taken, caller, timeouts, sizerVars, schedVars>>

GoOn(r) ==
    /\ (ProduceCheck(r) \/ ProduceRow(r)) /\ UNCHANGED schedVars
    /\ UNCHANGED <<taken, caller, timeouts, sizerVars>>

EndTurn(r) ==
    /\ ProduceStore(r) /\ IterationOver
    /\ UNCHANGED <<taken, caller, timeouts, sizerVars>>

ProducerThread ==
    \/ PickQuery
    \/ \E r \in Rids : SkipQuery(r) \/ BeginTurn(r) \/ GoOn(r) \/ EndTurn(r)

-----------------------------------------------------------------------------
(* PullChunk *)

(* The caller of r knows nothing of scheduler and sizer. *)
CallerAsks(r) == Ask(r) /\ UNCHANGED <<sizerVars, schedVars>>

CallerReceives(r) ==
    /\ Receive(r) \/ ReceiveError(r)
    /\ UNCHANGED <<sizerVars, schedVars>>

(* The call expires and its handler goes on; the caller will ask again. *)
CallerGivesUp(r) ==
    /\ r \in Hasty
    /\ Expire(r)
    /\ UNCHANGED <<sizerVars, schedVars>>

LookUp(r) ==
    /\ PullFind(r) \/ (PullNotFound(r) /\ PullFail(r))
    /\ UNCHANGED <<taken, caller, timeouts, sizerVars, schedVars>>

(* sizer_.decide and the drain.  The query may have been dropped since the
   handler has looked it up, and decide() makes a new entry for it. *)
DrainChunk(r) ==
    /\ \E hint \in Hints, p \in Paces : Decide(r, hint, p)
    /\ PullDrain(r, cur'[r])
    /\ UNCHANGED <<taken, caller, timeouts, schedVars>>

(* is_last, and drop_request after the last chunk. *)
FinishChunk(r) ==
    /\ PullFinish(r)
    /\ IF pull'[r].last THEN Drop(r) ELSE UNCHANGED <<sizerVars, schedVars>>
    /\ UNCHANGED <<taken, caller, timeouts>>

(* The same three steps of a handler whose caller is gone. *)
LateLookUp(r) ==
    /\ LateFind(r)
    /\ UNCHANGED <<taken, caller, timeouts, sizerVars, schedVars>>

LateDrainChunk(r) ==
    /\ \E hint \in Hints, p \in Paces : Decide(r, hint, p)
    /\ LateDrain(r, cur'[r])
    /\ UNCHANGED <<taken, caller, timeouts, schedVars>>

LateFinishChunk(r) ==
    /\ LateFinish(r)
    /\ IF NoMoreRows(r) THEN Drop(r) ELSE UNCHANGED <<sizerVars, schedVars>>
    /\ UNCHANGED <<taken, caller, timeouts>>

Handler(r) == LookUp(r) \/ DrainChunk(r) \/ FinishChunk(r)

LateHandler(r) == LateLookUp(r) \/ LateDrainChunk(r) \/ LateFinishChunk(r)

(* Once every query is through, the producer thread still asks for one. *)
TableNext ==
    \/ ProducerThread
    \/ \E r \in Rids :
          \/ Register(r)
          \/ CancelQuery(r)
          \/ CallerAsks(r) \/ CallerReceives(r) \/ CallerGivesUp(r)
          \/ Handler(r) \/ LateHandler(r)

TableSpec == TableInit /\ [][TableNext]_tableVars

(* The one producer thread runs, queries arrive, and the callers that are not
   unruly go on pulling and are answered.  The handlers of the others and the
   late ones may hang. *)
TableFairness ==
    /\ WF_tableVars(ProducerThread)
    /\ WF_tableVars(\E r \in Rids : Register(r))
    /\ \A r \in Rids \ Unruly :
          WF_tableVars(CallerAsks(r) \/ Handler(r) \/ CallerReceives(r))

FairTableSpec == TableSpec /\ TableFairness

-----------------------------------------------------------------------------
(* scheduler.hpp:2, README.md:385 "a slow consumer can't starve a fast one":
   one thread that takes turns is as fair as a thread for each query.  A query
   that goes on having rows to produce and room for them is served, whatever
   the callers of the others do and whatever is added, dropped or cancelled.
   Fifo promises no such thing (README.md:387).  This is the fairness of
   Produce that OwnerService assumes. *)
ProducerIsFair == mode # "fifo" => \A r \in Rids : WF_vars(Produce(r))

(* The query in front is unruly and still there: in fifo mode it has the
   thread to itself, maybe for ever. *)
HeldUp ==
    mode = "fifo" /\ q # <<>> /\ q[1].rid \in Unruly /\ registered[q[1].rid]

(* README.md:385 "a slow consumer can't starve a fast one", as its client sees
   it: a query whose caller keeps asking comes to its end, though one thread
   serves it together with others, whose callers may stop pulling with the
   deque full, cancel, or leave handlers behind.  In fifo mode that needs that
   no such query stays in front. *)
SteadyCallersFinish ==
    <>[]~HeldUp => \A r \in Rids \ Unruly : <>(caller[r] \in {"finished", "refused"})

(* A handler of r that has asked the sizer and found no rows. *)
NearItsEnd(r) ==
    \/ pull[r].stage = "drained" /\ pull[r].rows = <<>>
    \/ lateEmpty[r] > 0

(* scheduler.cpp:30: no entry of the sizer outlives a query that ran to its
   end.  A call that was issued again may be told is_last, and its handler
   drop the query, while the handler of the expired call is between
   get_request and decide (node.cpp:559-563), which then makes a new entry.
   That handler will find the deque empty and the producer done, and drop the
   query once more: as long as the entry is there it is inside.  A query that
   was cancelled may leave an entry for good, since nobody sets its
   done_producing. *)
EntryForKnownOnly ==
    \A r \in Rids :
        cur[r] # 0 => registered[r] \/ cancelled[r] \/ NearItsEnd(r)
=============================================================================
