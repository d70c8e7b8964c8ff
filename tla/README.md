# Verification of the mini_2 scatter-gather overlay

TLA+ models of this repository's query path, in C++ and in Python, the TLC
configurations that check them, and TLAPS proofs about them. Line numbers refer
to the repository's files; `node.cpp` is `cpp/server/node.cpp` and `node.py` is
`py/server/node.py`.

## 1. The system

A client sends a range query to a *gateway* (node A). The gateway forwards it
to the *data owners* whose shard may hold matching rows, over an overlay in
which some owners are reached through another node. Every owner matches rows
in a producer thread and serves them in chunks; the gateway prefetches one
chunk per owner and hands the client chunks in which the owners' rows alternate.

| component | state | operations | interacts with |
|---|---|---|---|
| Gateway query lifecycle (`node.cpp` 199-479, 659-683, 796-874) | `RequestState`: `client_producers_done`, `prefetch_buf`, `prefetch_done_map`, `owners_responded`, `prefetch_stop`, `cancelled`, one `std::thread` per remote owner; mutex `st->mu`, condition variable `prefetch_cv` | `SubmitQuery`, `FetchChunk`, `CancelQuery`, `prefetcher_loop`, `drop_request` | client (3 RPCs), owners (ForwardQuery, PullChunk, CancelQuery), its own producer (shared deque, notify) |
| Data owner (`node.cpp` 493-657, 734-789) | `requests_` under `req_mu_`; per request `matched`, `matched_indices`, `done_producing`, `cancelled` | `register_request`, `ForwardQuery`, `PullChunk`, `produce_loop` | gateway or a relaying node |
| Fair scheduler (`cpp/common/scheduler.cpp`) | queue of (rid, weight, credits), cursor | `add`, `remove`, `next` | handlers add and remove, the producer thread calls next |
| Chunk sizer (same file) | per rid: current size, time of the last pull | `decide`, `forget` | FetchChunk and PullChunk, drop_request |
| Client (`cpp/client/client.cpp`) | position in `run_one` | submit, fetch until `is_last`, `--cancel-after`, `--limit-chunks` | gateway |
| Overlay (`cpp/common/overlay.cpp`) | nodes, edges, next-hop tables, chunking, scheduler mode | `load_overlay`, `next_hop` | every fan-out and relay |
| Python overlay loader (`py/server/overlay.py`) | the same | `load_overlay` with a YAML library, `next_hop` | Python nodes |
| Smart routing (`cpp/common/routing.cpp`) | the manifest's owner metadata | `eligible_owners` | SubmitQuery |
| Partition store (`cpp/common/csv_store.cpp`) | columns, `column_ranges` | load, `range_search`, `predicate_can_match` | register_request, producer |
| Python partition (`node.py` 94-302) | columns sorted by the one the shards are cut along, `column_ranges` filled in by a thread of its own | `load`, `range_search`, `predicate_can_match` | `_register` |
| Python node (`node.py`) | `RequestState` with `client_buffer` in place of the slots; a lock per request that guards the deque and little else | the same handlers; FetchChunk itself calls one owner after the other, nothing is retried | same RPCs |
| Topology and dataset generators, benchmarks, telemetry | files | offline scripts, append-only logs | none at run time |

### What is hard

* **Interleaving.** Per query the gateway runs a FetchChunk handler, a
  CancelQuery handler, a producer and one prefetcher per remote owner. They
  share `st->mu`, but `cancelled`, `done_producing` and `prefetch_stop` are
  atomics that are read and written outside of it.
* **Ordering.** `PullChunk` decides `is_last` in a second critical section;
  `FetchChunk` promotes owners to done from flags that other threads set.
* **Timeouts and retries.** ForwardQuery is retried when it is unavailable or
  late, PullChunk is re-issued when it is late; in both cases the first handler
  may still run at the owner.
* **Partial failure.** A relay answers for a node it cannot reach; the cancel
  fan-out ignores its calls' status; owners crash.
* **Sharing.** One producer thread, one scheduler and one sizer serve all queries
  of a node while handlers register, cancel and drop them.
* **Two of everything.** C++ and Python nodes of one deployment read the same
  overlay with different readers, and search their shards by different means.
* **Bounds.** The deques stop at `kMaxBuffered`, slots hold one chunk, chunk
  sizes grow and shrink between two limits.

### What makes each component correct

* *Owner*: no row is lost, doubled or reordered between the matcher and the
  caller; `is_last` means all rows were sent; the deque is bounded; a finished
  caller leaves nothing behind.
* *Gateway*: the client receives each eligible owner's rows in order and the
  last chunk means all of them; memory is bounded; every query that is pulled
  ends; cancel ends, and leaves no thread and no request behind.
* *Scheduler*: the cursor always names an entry with credits; nobody starves.
* *Sizer*: sizes stay within bounds and never get stuck.
* *Several queries*: each whose client goes on pulling is served to its end, whatever the
  clients of the others do, and nothing of it stays behind.
* *Overlay*: both readers make the same of every file; every next-hop chain reaches its target within the TTL.
* *Routing and store*: nothing that matches is pruned; every line is loaded once.
* *Python node*: as the C++ owner and gateway, whichever owners a FetchChunk
  happens to visit, and with rows missing only at the end of an owner's.

## 2. Modules

| module | models | state and actions |
|---|---|---|
| `DataOwner` | one query at every node: request table, producer, PullChunk handler | the owner's half of `RequestState` by name; `producer`, `pull`: where the producer thread and the handler are. One action per critical section: `RegisterRequest`, `CancelRequest`, `ProduceBegin/Check/Row/Store/EmptyPart`, `PullSend/Find/Drain/Finish/Fail/Return/Expire`, `LateFind/Drain/FindDrain/Finish` |
| `OwnerService` | `DataOwner` with the caller that `prefetcher_loop` is to it | `caller`, `taken`; asks, receives, expires and asks again, and may cancel |
| `RequestTable` | several queries at one node: `OwnerService`, `FairScheduler` and `ChunkSizer` composed; query r is "owner" r of `OwnerService` | the variables of the three; `served` is the producer thread's local rid. `Register` and `Drop` also change scheduler and sizer, `PickQuery`, `SkipQuery`, `BeginTurn`, `GoOn`, `EndTurn` are the thread, `LookUp`, `DrainChunk`, `FinishChunk` the handler, `LateLookUp`, `LateDrainChunk`, `LateFinishChunk` one whose call has expired (`CallerGivesUp`) |
| `ScatterGather` | `DataOwner` composed with the gateway's handlers and threads, the client and the faults | the gateway's half of `RequestState` by name; `submit`, `fetch`, `cancel`, `prefetcher[o]`: where each handler and thread is |
| `ResultStream` | what the gateway promises a client | `received`, `status`; the abstract specification `ScatterGather` implements |
| `FairScheduler` | `FairScheduler` of scheduler.cpp | `q`, `cursor`, `mode` by name; `Add`, `Remove`, and `next()` in its four cases |
| `ChunkSizer` | `ChunkSizer` of scheduler.cpp | `cur`, `has_last` by name; `Decide`, `Forget` |
| `Overlay` | the generator's edge sets, its breadth-first tables, `next_hop` | operators |
| `OverlayFile` | the generator's `emit_yaml`; `load_overlay` of overlay.cpp as a fold over the file's lines, with defaults and environment | operators; the reader's state is the section it is in and the routing block that is open |
| `SmartRouting` | `eligible_owners` for the four manifests | operators |
| `PartitionStore` | the loader, `column_ranges`, the pre-filter, `range_search` | operators |
| `PyPartition` | the same of a Python owner: sorted load, bisection, column ranges that are not complete yet | operators |
| `Lists` | `Filter`: the elements of a sequence that are in a set, in order; what the loader, the searches and the fan-out are written with | operators |
| `ClientArgs` | the predicates client.cpp makes of its command line | operators |
| `QueryPlan` | the six above composed: a deployment, a command line, the way of every call | `plan` (overlay file, environment, manifest, shards, arguments), `overlay` (what a C++ node has read), `rows` (`part_`), `found` (`matched_indices`), `call` (the RPC on its way: where, for whom, with which ttl), `refused`, `hit`, `gathered`; `StartNodes`, `SubmitQuery`, `SendForward`, `ForwardRefused/Accepted/Relayed`, `StartPulls`, `SendPull`, `PullRelayed/Failed/Served`, `Finish` |
| `PyNode` | one query among Python nodes | `RequestState` by name, the locals `todo`, `max_rows`, `pulled` of FetchChunk, `producer`, `pull[o]`; `SubmitQuery`, `ForwardNext/Late`, `FetchBegin`, `VisitEnd/Skip/Call`, `FetchReply/Error/Expire/Emit`, `PullNotFound/Drain/Look/Finish`, `ProduceBegin/Check/Row/End`, `CancelBegin/Next/Reply` |
| `MC...` | the constants TLC needs | |
| `...Proofs` | theorems | |

**Atomicity.** An action is a piece of code no other thread can observe in the
middle. Where a flag is stored or a notify is made outside the lock, it is an
action of its own: `ProduceCheck` (the look at `cancelled` at 768),
`ProduceStore` (779), `ProduceNotify` (785), `CancelBegin` (448-449), and
`FetchArm`/`FetchBlock` (the predicate is false; the thread sleeps). `st->mu` is
held across a step only between those two (`MuFree`). The lookup
of a request and the drain in PullChunk are two steps (`PullFind`, `PullDrain`):
a cancel in between leaves the handler with a request nobody else knows, and so are
they in a handler whose call has expired (`LateFind`, `LateDrain`). In
`ScatterGather` they are one (`PullFindDrain`, `LateFindDrain`), and so are the
removal from the table and the final reply, because there nobody can tell.

In `PyNode` the same holds of node.py: FetchChunk is cut at every RPC it makes,
PullChunk between its drain, its look at `done_producing` and its look at the
deque (745-755), the producer between its look at `cancelled` and its push. Where a FetchChunk
begins and ends its round over the owners comes from two readings of the clock
(589-590): almost always the same, but a round may visit one owner twice and
another not at all, so both are free. The time budget may end a round after
any call. A cancel comes between chunks only, because `run_one` is sequential.

**Data.** In the modules about threads a row is its position in
`matched_indices`; predicates, columns, bytes and telemetry are left out.
`NRows[n]` stands for what `range_search` finds, `Eligible` for what
`eligible_owners` returns, `Hop` for the next-hop table (one relay at most),
`FetchSizes` and `PullMax` for chunk sizes.

In `QueryPlan` rows have values. Numbers are counted in halves, so that
`static_cast<int>` loses something; a timestamp in halves of a month, so that
two fall into each. A line of a file is the number of its bytes and the row its
fields parse to, or `Invalid`. `fnv1a32` is an arbitrary function from buckets
to vnodes. A line of an overlay file is its indentation, its key and its value
(nothing, a scalar, a flow sequence or a flow map); what the reader does with
sections, blocks and unknown keys is modelled, what it does with characters is
not. `says` is what a YAML library makes of the file. The default upper end of a
window, 1e9, lies above every value that is no time and below every time, and
so does `DefaultHigh`. The splitter, which is not in the models, puts a row where the manifest
says (`Belongs`). Nodes A to I are 1 to 9. `BfsNextHop` is a closed form of the
generator's queue: the least neighbour that is one hop nearer. That it is the
same is checked on `config/topo/mesh.yaml` (`GeneratorAgrees`); the older table
of `config/overlay.yaml`, written by hand, is taken as it stands (`HandRouting`).
The README of the repository speaks of a BFS at startup (326); the nodes read the table.

**Faults.** `NodeUp`: an owner starts to listen late. `PrefetcherDeadline` and the
second alternative of `CancelFan`: deadlines that expire while the handler runs
on, or never runs. `ForwardDeadline`/`ForwardLate`: a ForwardQuery that is
delivered after its caller gave up on it. `NodeCrash`: a process dies, with the
calls it serves and relays. The bounds on how many are `MaxTimeouts`, `MaxLate`,
`MaxCrashes`, and in `RequestTable` `Hasty`, the queries with calls that may expire. In `PyNode` any call fails, expires while its handler goes on, or
never arrives, `MaxFaults` times. `QueryPlan` has no faults: it follows data.

## 3. What is checked

| run | instance | question |
|---|---|---|
| `owner_service` | an owner with 3 rows and one without any, a deque of 2, turns of 3, two expired calls, a cancel at any time | Are rows conserved, is `is_last` honest, is the request dropped, does a cancel stop the producer, is the caller ever told? |
| `pair` | gateway with 2 rows, neighbour with 3, chunks of 1 or 3, all client behaviours | Is memory bounded, does every chunk carry rows, does the gateway implement `ResultStream`? |
| `relay` | gateway, neighbour with 2 rows, an owner with 1 row behind it, both loading, one late forward, cancel | Is a full `owners_hit` complete? Are requests released? |
| `faults` | gateway without rows, neighbour with 2 taken one at a time, loading late, two expired deadlines, a crash, cancel at any time | Is done final, does cancel leave nothing, is no row doubled, does every query and every cancel end? |
| `scheduler` | 3 queries, weights 1 and 3, all modes | Is the queue well formed, does nobody starve at even turns? |
| `table` | two queries with 2 rows and 1, a deque of 1, turns of 1, sizes 1 and 2, fifo and weighted mode; one of them may be cancelled or left at any time, of the other one call may expire | Does a caller that keeps asking come to the end, and is the thread as fair as one for each query? Do sizes stay within bounds and adapt, and are they forgotten? |
| `query_plan` | all files of up to four lines read by one to three threads; windows around every boundary of the four manifests, over C++ and Python shards, as command lines; the shipped overlays as the generator and as a person writes them, a chain of 10, a table that only knows the gateway, environments | Is the overlay read as a library would? Is every line loaded once? Is nothing pruned that matches? Does every call reach its owner, and the client get exactly the matching rows? |
| `python` | a Python gateway without rows and two Python owners, the first with 3 rows found of 4, the second with 1 of 4, none of 4, no file, or an empty one; one failed call; a cancel between chunks | Are rows conserved whichever owners are visited, is `is_last` honest, does the query end and leave nothing? |

### The bounds and why they are enough

* Two nodes suffice for what concerns one owner, since owners do not share
  state: the gateway's source and one remote source are the two kinds there
  are. Three are used where a relay, or the order of two forwards, matters.
* `MaxBuffered` = 2 with 3 rows and a batch of 2 or 3 makes the deque fill, a turn
  end in the middle, and another turn follow. `PullMax` = 2 makes a PullChunk take
  less than the deque, all of it, and nothing. Fetch sizes 1 and 3 cut through a
  slot and empty every source at once.
* In `table` two queries are enough for every way in which one can get into another's
  way: taking the turn, filling its deque, leaving while it is served. Rows and deque
  are small because `owner_service` varies them. One call of the query that is not cancelled
  may expire (`Hasty` = {r2}, `MaxTimeouts` = 1): its handler then races the call that is
  issued again, and the drop of the query, which is what the sizer could be left with. `Hints` has 0
  because mini2.proto:67 lets a caller leave the size to the node.
* `MaxAttempts` = 2 has a first, a repeated and a last attempt, which is all
  the loop distinguishes.
* The loader's lines are blank, malformed, short or long, with and without a
  newline at the end of the file: with three threads a boundary falls into, before
  and behind each kind of line. Windows have their ends below, on, between and above
  the values stored. All 27 functions from three buckets to three vnodes include those
  that leave an owner without any bucket. Nine nodes are what the repository
  ships; the chain of ten is the shortest that exceeds the TTL.
* In `python` the deque (2) is smaller than a turn (3), so turns are cut short and
  resumed; a chunk (2) is smaller than what two owners have, so the buffer carries
  rows over. Two owners give every kind of round: right, one twice, one left out.
* Two expired deadlines let a handler whose caller is gone race a re-issued
  call that expires as well.

### Properties

* `BufferCap`, `BoundedMemory`: the size is checked in other critical sections
  than the one that pushes, and slots are filled by threads of their own.
* `Conservation`, `LastMeansAll`, `TakenInOrder`, `FinishedIsDropped`,
  `CallerFinishes`: the owner's contract.
* `CancelStopsProducer`: after a cancel at most one more row is pushed, the one the
  producer had decided on before it took `st->mu` (768).
* `ProducerIsFair`, `SteadyCallersFinish`: one thread that takes turns is as fair as the thread
  per query that `OwnerService` assumes, and a query whose caller keeps asking comes to
  its end (README.md:385 "a slow consumer can't starve a fast one"), while the other
  caller stops with its deque full, cancels, or leaves a handler behind. Except in fifo
  mode, where the front query is handed out until it leaves (scheduler.cpp:62): a client
  that has left keeps all later ones waiting (`HeldUp`).
* `EntryForKnownOnly`: the sizer forgets a query that ran to its end. A handler past
  `get_request` (559) whose call has expired may ask the sizer (563) after the call that
  was issued again was told `is_last` and the query was dropped: a new entry for a query nobody
  knows. It then finds the deque empty and the producer done, and drops the query once more
  (587-589); until then it is `NearItsEnd`. For a query that was cancelled nobody sets
  `done_producing`, so that such an entry can stay for good.
* `ImplementsStream`: while nothing fails the client sees gap-free, ordered
  prefixes and `is_last` exactly at the end. After a cancel, a FetchChunk that
  was already running may skip rows: the producer looks at `cancelled` before it
  takes `st->mu` (768), and so can push one row after CancelQuery has cleared the
  deque (454). `ResultStream` allows that in `LateChunk` only.
* `ChunkHasRows`: the wait predicate (340-363) and the `is_last` rule (394-410)
  agree, so a client never spins on empty chunks.
* `DoneIsFinal`: an owner is promoted to done only when nothing of it can arrive
  any more.
* `HitsAreHonest`: README.md:598 on `owners_hit`, for every warm-up.
* `NoRowTwice`: a retry never doubles a row.
* `DoneIsReleased`, `CancelReachesNeighbours`, `CancelQuiesces`: tear-down.
* `DirectForwardRegisters`: an owner the gateway believes reached was reached.
* `QueryEnds`, `CancelReturns`, `CallerFinishes`, `SteadyCallersFinish`, `NoStarvation`: liveness.
* `LoadIsComplete`: the byte arithmetic of the two passes (335-) gives every
  line to one thread. An unterminated last line is not counted by pass 1, which
  counts newlines, and is lost unless its thread has a blank line to spare.
* `OverlayIsRead`: the reader in overlay.cpp, which has no YAML library, makes of every
  file what the library makes of it in the Python nodes. (The overrides of chunking by
  `MINI2_INITIAL_ROWS`, `MINI2_MAX_ROWS` and `MINI2_TARGET_CHUNK_MS` exist in C++ only.)
* `NothingPruned`, `FullHitIsExact`: the manifest, the column ranges and the
  search agree with `matches` on every row, through truncations to `int`, sorting and
  bisection, and whichever columns a Python owner has the ranges of by then.
* `ForwardsArrive`, `HopsApproach`: no call goes round in a circle, though pulls
  carry no TTL, and a TTL of 8 is enough wherever tables are complete.
* `BoundedMemory`, `RowsConserved`, `OnlyPrefixes`, `LastMeansAll`, `EndedIsReleased` of
  `PyNode`: as for C++, with reads outside of any lock and without retries.
* `CursorOnEntry`, `EntriesAreSound`, `WithinBounds`, `AlwaysAdapts`.
* `TypeOK` is checked for `ScatterGather`, where it also says that attempts and
  slots stay in range; it is proved there and for `DataOwner`, `FairScheduler` and
  `ChunkSizer`.

`WithinBounds` assumes an initial size within the bounds, as in the shipped
configuration. `MINI2_INITIAL_ROWS` above `MINI2_MAX_ROWS` (overlay.cpp 275-283)
breaks the "server clamp" of README.md:247 for the first chunk of a query: the
initial size is never clamped (scheduler.cpp:8).

`DoneIsReleased` and `FinishedIsDropped` are stated for nodes with rows. A node
whose shard is empty answers NOT_FOUND to PullChunk before it looks at the
request (560) and so keeps the request it registered.

### Fairness

`FairSpec` gives weak fairness to each handler and thread of a running node: the
operating system schedules them and they hold no lock across a call. It gives
it to `NodeUp`, since a loading node comes up, and to `SubmitQuery` and
`FetchBegin`, since `run_one` loops until `is_last`. No fault and no decision of
the client to leave is fair. The fairness that `OwnerService`
and `ScatterGather` assume of a query's producer is the property `ProducerIsFair` of
`RequestTable`, checked from the fairness of the one thread; it rests on
`NoStarvation` of the scheduler. `RequestTable` is fair to that thread, to the arrival of
queries, and to the callers that are not `Unruly` together with the handlers of
their calls (the retry loop, 849-855). Callers that are, and every handler whose call has
expired, may stop anywhere.

`faults` and `relay` give the gateway no rows of its own: with rows, the lost wake-up
below makes `QueryEnds` false and stops the system, and these runs show what
remains true without it. In `pair`, where the gateway has rows, the client's
timeout ends a query that is stuck.

In `PyNode` the rounds of FetchChunk get strong fairness: the clock that chooses
where they begin is not in step with the client, so that every owner's turn comes
up again and again. Without it, a client that always came at the same moment
could have the same owner visited for ever.

### Where the code and its documentation disagree

| run | shows |
|---|---|
| `lost_wakeup` | The gateway's producer stores `done_producing` and notifies without `st->mu` (747, 779-785). A FetchChunk that has just found its predicate false sleeps after the notify and waits for ever. BENCHMARKS.md:180 calls this hang fixed. |
| `pull_reissued` | A PullChunk that expires after its drain loses the drained rows; the prefetcher asks again (852) and the last chunk reports the owner as hit. |
| `forward_behind_relay` | A relay that cannot reach the target answers OK (533-538), so the 20 attempts never happen for an owner behind a relay. |
| `months` | A window on the pickup time that crosses the turn of a year: from December to January the months 12 and 1 are swapped into 1..12, but from November to January of the year after into 1..11, and from June to the next May into 5..6: owners of the months between are not asked (routing.cpp:345) and their rows are missing. |

Seven more disagreements are seen in the models without a run of their own:

* CancelQuery goes to the next hop, which cancels its own copy (464) and does
  not relay it: an owner behind a relay is never told, though mini2.proto:98
  promises "cleanup for a request at every node that knows about it".
  `CancelReachesNeighbours` is stated for the neighbours it holds for.
* A client that stops pulling is never cleaned up after. There is no idle timer,
  although client.cpp:257, README.md:652 and BENCHMARKS.md:131 name one.
* A Python gateway with rows of its own never delivers all of them: FetchChunk does not
  wait for its own node (`IsLast`), or asks it by RPC and drops the shared request with
  its last chunk, after which the client gets NOT_FOUND. README.md:56-59 have one contract for
  both implementations. TLC finds both in `PyNode` with `DataOwners` = <<a, b>>
  when the antecedent `shard[Self].found = 0` of `LastMeansAll` is taken away.
* A Python owner whose file has a header only never sets `done_producing` (801) and
  answers empty chunks for ever. BENCHMARKS.md:180 describes this
  as fixed; it is in node.cpp. `QueryEnds` is stated for files with rows.
* `inter_host_max_rows: 32768` (config/overlay.yaml:116, node.cpp 697-703) is meant to
  fill the link between hosts with large chunks. The receiving node clamps every hint
  to `chunking.max_rows`, 4096 (`Clamp`, scheduler.cpp 10-15), so that it has no effect.
* `--low-dt` alone leaves the upper end of the window at 1e9 (client.cpp:72), a moment in
  2001 that lies before every trip: such a query matches nothing. The help text (131)
  makes each bound optional.
* BENCHMARKS.md:73-74 explains with concurrent clients that "some clients return early with partial
  rows because the weighted-round-robin scheduler interleaves work". Taking turns cannot do that:
  FetchChunk waits, without a timeout, until there are rows or every owner is done
  (340-363), and an owner answers `is_last` when its producer is done only (`LastMeansAll`;
  `QueriesAreServed` for a node with several queries; `SteadyCallersFinish`: each comes to
  its end). Rows are missing at `is_last` when a call was lost or refused: a PullChunk that expired
  after its drain (`pull_reissued`), or that failed otherwise, or a ForwardQuery that was never
  accepted -- then the owner is given up (`DoneIsFinal`). Load makes these likelier, and
  what was measured may be one of them. `max_concurrent_requests=32`, which line 74 says is enforced, is read
  (overlay.cpp:245) and used nowhere; what rejects calls is the limit on threads (node.cpp:974-976).

## 4. What is proved

TLAPS checks, for all values of the constants that satisfy the named assumptions
(`OwnerAssumption`, `GatewayAssumption`, `CallerAssumption`, `TableAssumption`,
`SchedulerAssumption`, `ChunkingAssumption`, `PyAssumption`, `PlansAssumption`, `PlansAreTyped`,
`InvalidIsNoRow`, which TLC evaluates on every run of their modules):

* `OwnerServiceProofs`. The inductive invariant `AllInv` has three parts. `OwnerInv`
  (module `DataOwnerProofs`, with one lemma per action of `DataOwner`): types; the
  producer's cursor plus the rest of its turn never passes `NRows`; while a row
  is about to be pushed the deque has room. It is needed for `BufferCap` because
  the producer compares the size before the row, in another step. `StreamInv`:
  until a call expires, `taken \o pull.rows \o matched` are the rows up to the
  cursor, a reply marked last means that the deque is empty and the cursor at
  the end, and a finished caller means the same. `OwnerBuffers`, `RowsConserved`,
  `LastIsHonest` and `OwnersForget` follow. `CancelStops` adds to it that a deque of
  a cancelled request is empty, or has one row and the producer is past its push.
  `RowsInOrder` is about runs with expired calls and cancels, in which rows do get lost:
  `InOrder` says that `taken \o pull.rows \o matched` is increasing and ends at the
  cursor at most, which survives the loss of any stretch of it (`OrderedErase`).
* `ScatterGatherProofs`: every safety property of `ScatterGather` that holds, for any
  overlay with one relay, any data, any number of attempts and faults. Its sections:
  * `GatewayInv`, inductive, in three parts. `Typed`: types, and `OwnerInv` of every node,
    whose lemmas in `DataOwnerProofs` are reused action by action. `Control`: where
    client, `SubmitQuery`, `FetchChunk` and `CancelQuery` may be together, and what the flags
    say then: a request is dropped once, who drops it waits for the prefetchers, and a
    chunk is the last one only when every owner is done. `Slots`: what one prefetcher,
    its slot and its call hold together; `HitsAreHonest` and the bound on slots need that
    a call is only made with an empty slot. `GatewayMemoryBounded`, `OwnersStayDone` and
    `CancelLeavesNoThread` follow, and `ChunksCarryRows`, where `FetchReady` is compared
    with `Promoted`.
  * `ForwardReachesNeighbours`: a node that has not registered the query has done
    nothing for it (`FreshNodes`), and the fan-out takes an owner off its list only when
    it has, is given up, or is behind a relay.
  * `ClientRowsInOrder`: the rows of a node on their way to the client are five stretches of
    one stream (`Stream`: delivered, chunk, slot, answer, deque). Every step moves rows
    from one stretch to the next, adds one behind them all, or loses some; so the
    stream stays in order (`InOrder`). After a crash and a second registration an owner
    starts over, which is why `NoRowTwice` speaks of owners that registered once.
  * `DoneReleases`, `CancelReleases`: `Undisturbed`, of an owner in a run without faults.
  * `FullHitsAreHonest`: `Honest` says what a query that nothing has cost a row
    has of an owner. While the owner holds the query, its stream has every row up to its
    cursor; before, nothing has left it and it has not answered; once the gateway asks for no
    more and has counted it, all its rows are there. An owner that is given up or answers
    with an error is never counted, and one without rows never answers. That an owner
    is up as long as it holds the query, or a `ForwardQuery` for it is under way, has to
    be part of it, since late forwards are allowed here.
  * `GatewayImplementsStream`: under `NothingFails` (no owner still loading, no expired
    call, no crash, and the owners with rows are asked, which `NothingPruned` of `QueryPlan`
    is about) every step of the gateway is a step of `ResultStream` or none, for
    every client; `pair` checks it without a relay, the theorem has one. `Clean` again
    divides the runs. While the query is clean, what the client has after the next
    chunk (`Ahead`) is a beginning of the owner's rows, for they lie in front of a stream
    without gaps (`AheadWhole`); and when `is_last` is set it is all of them
    (`LastWhole`), because without failures every owner with rows is done only after
    it has answered (`Served`, which needs that it entered the query `Once`). After a
    cancel, or when the client has left, `AheadInOrder` is what remains, and
    `ResultStream` promises no more. An owner closed before it has answered has
    sent nothing (`Silent`).

  TLC checked the parts of these invariants on the instances of `pair`, `relay` and `faults`
  and on smaller ones with late forwards before they were proved.
* `PyNodeProofs`: every safety property of `PyNode`, for any list of owners, shards, chunk
  sizes and number of faults. The parts of its inductive invariant `IInv`:
  * `Types`; `Production` of each producer, as for C++: the size of the deque is read in one
    step and changed in another. `BufferBounded`: what the visits have collected is less than
    one chunk whenever a call begins, and an answer is at most one. `PyMemoryBounded` follows.
  * `OneCall`: FetchChunk calls one owner at a time, and a handler that outlives its caller
    belongs to an owner given up. Without the latter, rows drained by such a handler would
    not be known to be nobody's, and `OnlyPrefixes` would not be inductive.
  * `Streams`, for each owner. What the client and the gateway's buffer have of it is always a
    beginning of its rows, also after it failed; while it is asked, these, the reply and
    the deque are all rows up to the cursor. `PyRowsConserved` and `PyOnlyPrefixes` follow.
  * `Phases` and `Releases`: what has begun and ended, and that without faults an owner
    counted as done has sent all its rows (`Settled`), and a query that is not registered was
    settled, or not forwarded yet. `PyLastMeansAll` and `PyEndedIsReleased` follow.

  An owner's rows in the gateway's buffer are a function of a sequence (`OfOwner`): that
  it distributes over `\o` needs an induction on the length, which is made for the set of lengths
  for which it holds (`SetInduction`, from `LeastElement`). TLC checked `IInv` on three
  instances, one of them with a gateway that has rows, before it was proved.
* `RequestTableProofs`. The lemma `TableIsOwners` -- what a node with several queries does to one
  of them is a step of `OwnerService` -- only says how the module is written, given that every
  size `decide` returns may be asked for; it makes the invariants above available for every
  query. `QueriesAreServed` is the theorems on rows, on `is_last`, on dropping and on order
  at such a node. `SizerIsTidy` is `EntryForKnownOnly` and `WithinBounds` there, expired
  calls included, from `Accounted`: a handler inside, or an entry, means that the query
  is registered or cancelled, or that it has run to its end. What makes the last case
  harmless is `EndedEmpty` (`OwnerServiceProofs`): a query that was dropped and not cancelled
  has its producer done and its deque empty, so that whoever asks the sizer for it finds no
  rows, and drops it once more.
* `FairSchedulerProofs`: `SchedulerSafe`, `EntriesStaySound`. The invariant is the conjunction of the
  four safety properties, which is inductive as it stands: `CreditsLeft` needs
  that weights are positive, `OneEntryEach` that erasing keeps entries distinct.
* `PartitionProofs`: what an owner loads and what it finds, for every file, number of
  threads, column and query. Each theorem says that an elaborate way of the code comes to
  the same as a plain `Filter`.
  * `LoadIs`. The shares of the bytes cut the lines into consecutive pieces (`ChunksAre`: offsets
    grow from line to line and shares from thread to thread, so every share ends between two
    lines, `CutExists`). Pass 1 leaves room for every line of a piece (`ParsedIs`), except for
    a last one without newline, whose row is lost unless the piece has a blank line.
    Blank lines, malformed ones and room that is left over are what `Filter` drops; the pieces
    are put together by an induction on the threads.
  * `PyLoadIs`: the rank of a row among all (`RankIsBijection`) is a permutation, and rows
    in the order of their ranks are sorted.
  * `MatchedIs`: the static shares of the loop, concatenated, are the whole scan
    (`RangeSearchIs`), and where the pre-filter says no there is nothing to find, because
    column ranges enclose the rows (`RangeExists`, `PrefilterSound`).
  * `PyMatchedIs`: the same, whichever column ranges are known; and on a sorted shard
    the rows that a predicate on the sort column hits are one window, whose ends are what bisection
    counts (`WindowIs`, from `PrefixIs`: a set of positions that has all before each of its own is
    an interval).
* `QueryPlanProofs`: every safety property of `QueryPlan` but `OverlayIsRead`.
  * `NothingPrunedHolds`. `OwnerIsAsked`: casts are monotone, whole numbers survive them,
    and within a year months are monotone too. `BucketSound`: the bucket of a row that is
    hit is enumerated. `EligibleAsks` puts the manifests together; `LoadedHolds`, an
    invariant, says that every row in a store is of the owner's file, hence where the manifest says.
  * `LoadIsCompleteHolds`, from `LoadIs` and `LoadedHolds`.
  * `HopsApproachHolds`, `ForwardsArriveHolds`. The invariant `CallsApproach`: a call is
    for an owner, is at a node, and has lost one of its ttl with every hop but the first, each of
    which took it one nearer (`OnItsWay`). With entries for all pairs a forward is therefore
    only refused when its ttl is used up, and then the owner is more than 8 hops away.
    The facts about distances are proved of the breadth-first layers: they are symmetric
    (`SeenSymmetric`), reach every node (`AllSeen`), and some neighbour is always
    nearer (`NearerNeighbour`). `GeneratedIsRouted`: every connected overlay with the generator's
    table meets the hypotheses, also those the repository does not ship.
  * `FullHitIsExactHolds`. The invariant `Answered`: what a node has found, and what the
    client has of it, is an answer (`IsAnswer`) of this owner to this query from its own rows,
    whether it was registered once or again. For an owner that was hit, the theorems
    of `PartitionProofs` make the answer the matching rows of its store; one that was not asked has none
    by `NothingPruned`; and the store has the rows of the file by `LoadIs` or `PyLoadIs`.
    That a permuted shard has each matching row as often as the file is `PermutedSame`, by counting.

  Their hypotheses: `ArgsAreRead`, that the command line was read as it is meant -- TLC
  evaluates it for every plan of `query_plan` (`MCQueryPlan` assumes it), and `--low-dt` alone
  is the exception (section 3); `[]OverlayIsRead`, which is a property of the
  same run: a theorem about the reader would need to say what a file means
  without reading it; and for calls, `WellRouted`: a connected overlay, a table whose entries all
  lead nearer, an entry of the gateway for every owner. `TablesLeadOn` evaluates it for every plan
  but those with the table of `config/overlay.yaml`, which takes a detour between two
  nodes that no query uses; for these `HopsApproach` is checked, not proved.

  `Filter`, the offsets, the ranks and the layers are recursive functions or `CHOOSE`, not
  RECURSIVE operators or `SelectSeq`: their lemmas are inductions over a set of numbers or sequences
  (`NatInduct`, `SeqInduct`), because the library's induction takes an operator, which no
  prover here can instantiate. `SumOfNothing`, on the fold behind `HaveData`, takes a
  minimal counterexample by `WFMin`.
* Chunk sizes (in `RequestTableProofs`): `SizerSafe` and `SizerAdapts`, from an invariant that
  also bounds `cur`, from which every later size is computed. `SizerSafe` has the
  type invariant of `ChunkSizer` too, which no run repeats.

Only model-checked: every liveness property (fairness is out of the prover's reach), and
`OverlayIsRead`: reading is a fold over the lines of a file, and what it should come to is
known of the files of the plans only. The properties of the four runs that expect a violation
are refuted, not proved.

## 5. Not modelled, and why

* Several queries at the gateway: what they share there is what they share at
  an owner (`RequestTable`), and each has its own prefetchers and slots.
* A CancelQuery that overtakes its SubmitQuery. It would drop the request before
  the prefetchers are spawned (299-307) and destroy joinable threads. The
  client cancels only after SubmitQuery has been acknowledged.
* A ForwardQuery status other than OK, UNAVAILABLE and DEADLINE_EXCEEDED; the
  client's 2 s deadline on CancelQuery; a handler that keeps a dropped
  `RequestState` across a second registration (`NoHandlerInside`).
* An exception of `next_hop` at the gateway (a table without the row of A), files a
  reader rejects, the characters within a line of YAML or JSON, the number of bytes in a
  message, and whether a peer is on another host, which only chooses a hint and compression.
* `max_concurrent_requests`, which is read and enforced nowhere, and `network.simulate`,
  which C++ nodes read and do not use.
* Owners without rows count as eligible but never as hit (560), so that
  `owners_hit` stays below `owners_eligible` for them; `FullHitIsExact` and
  `HitsAreHonest` are conditional on a full hit.
* In the store, a line with nothing but a carriage return is not blank and parses
  to a row of zeros; the models have `Invalid` for every line that does not parse.
* Python: relays (the same forwarding as in `QueryPlan`), several queries, the chunk
  sizes and their entries, which are never removed (766-781), and the CancelQuery that a gateway in its own
  `data_owners` sends to itself and that waits for itself (663, `PyAssumption`).
* In pass 2 of the loader every thread reads the chunk of its number; if OpenMP gave
  fewer threads than `nt`, the last chunks would be lost (csv_store.cpp:371). Nothing in
  the repository makes it do so.
* Telemetry, Ping, the dataset generator and the benchmarks keep no state that a
  property is about.

## 6. Plan

1. `DataOwner`, `OwnerService`, `ScatterGather`, `ResultStream`, `FairScheduler`,
   `ChunkSizer` and their proofs: done.
2. `Overlay`, `SmartRouting`, `PartitionStore`, `Lists`, `QueryPlan`: done.
3. `PyNode`, `PyPartition`: done. A Python gateway with rows of its own is left to the text above.
4. `RequestTable`, `OverlayFile`, `ClientArgs`, `RequestTableProofs`: done.
5. `ScatterGatherProofs`: done for every safety property, and for the refinement of
   `ResultStream`.
6. `PyNodeProofs`: done.
7. `PartitionProofs`, `QueryPlanProofs`: done for every safety property of `QueryPlan` but
   `OverlayIsRead`.
