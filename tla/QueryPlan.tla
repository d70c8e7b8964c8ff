----------------------------- MODULE QueryPlan -----------------------------
(***************************************************************************)
(* From the files of a deployment and a command line to the rows the       *)
(* client gets: every node reads the overlay file and loads its shard, in  *)
(* C++ or in Python, the client makes a query of its arguments, the        *)
(* gateway chooses the eligible owners by the manifest, forwards the query *)
(* to each along the next-hop table, and pulls what they found along the   *)
(* same table.  Calls are followed hop by hop.                             *)
(* Nothing fails or overlaps here: ScatterGather has threads and faults.   *)
(***************************************************************************)
EXTENDS OverlayFile, SmartRouting, PyPartition, ClientArgs

CONSTANTS
    NotAsked,   \* an owner that has not registered the query
    Plans
(* Plans are records with the fields
     file, env        the overlay file, line by line, and the environment
     says             what the file says to somebody who knows YAML
     manifest         next to the shards
     shards, threads  a file for every node, and how many threads read it
     args             the command line
     asked            what it asks for: predicates, in order *)

(* External: the splitter puts a row where the manifest says.  Offsets of
   buckets below zero are not used for shards cut by a hash. *)
Belongs(row, o, meta) ==
    CASE meta.scheme = "trip_distance" /\ o \in DOMAIN meta.covers ->
            meta.covers[o].lo <= row[Column(meta)] /\ row[Column(meta)] <= meta.covers[o].hi
      [] meta.scheme = "pu_location_id" /\ o \in DOMAIN meta.covers ->
            \E z \in meta.covers[o] : row[Column(meta)] = 2 * z
      [] meta.scheme = "pickup_datetime" /\ o \in DOMAIN meta.covers ->
            Month(row[Column(meta)]) \in meta.covers[o]
      [] meta.scheme = "consistent_hash" /\ HashIsReady(meta) ->
            row[Column(meta)] >= 0 /\ OwnerOf(Bucket(row[Column(meta)], meta), meta) = o
      [] OTHER -> TRUE

(* A Python owner's file has rows only, and has some: a line that is not one
   ends the process, and for a file without rows nobody sets done_producing. *)
ASSUME PlansAssumption ==
    \A p \in Plans : \A o \in DOMAIN p.says.nodes :
        LET lines == p.shards[o].lines
        IN  /\ ToSet(p.says.data_owners) \subseteq DOMAIN p.says.nodes
            /\ o \notin ToSet(p.says.data_owners) => lines = <<>>
            /\ \A k \in DOMAIN lines : lines[k].row # Invalid =>
                  Belongs(lines[k].row, o, Metadata(p.manifest))
            /\ p.says.nodes[o].impl = "python" => o # Gateway
            /\ p.says.nodes[o].impl = "python" /\ o \in ToSet(p.says.data_owners) =>
                  lines # <<>> /\ \A k \in DOMAIN lines : lines[k].row # Invalid

(* What a manifest says of owner o, by scheme. *)
IsCover(meta, o) ==
    IF meta.scheme = "trip_distance"
    THEN meta.covers[o].lo \in Int /\ meta.covers[o].hi \in Int
    ELSE meta.covers[o] \in SUBSET Int

ASSUME PlansAreTyped ==
    \A p \in Plans :
        /\ DOMAIN p.says = DOMAIN DefaultOverlay
        /\ p.says.data_owners \in Seq(DOMAIN p.says.nodes)
        /\ \A n \in DOMAIN p.says.nodes : p.shards[n].lines \in Seq(LineType)
        /\ p.threads \in Nat \ {0}
        /\ p.asked \in QueryType
        /\ LET meta == Metadata(p.manifest)
           IN  /\ \A o \in DOMAIN meta.covers : IsCover(meta, o)
               /\ meta.multiplier \in Nat

(* The command line asks for what it is meant to ask for. *)
ArgsAreRead == \A p \in Plans : Predicates(p.args) = p.asked

(* The file describes a connected overlay, the table leads nearer to every
   node it has an entry for, and the gateway has one for every owner. *)
WellRouted(p) ==
    LET edges == ToSet(p.says.edges)
    IN  /\ Gateway \in NodesOf(edges) /\ DOMAIN p.says.nodes = NodesOf(edges)
        /\ Connected(edges) /\ Approaches(p.says.routing, edges)
        /\ Gateway \in DOMAIN p.says.routing
        /\ ToSet(p.says.data_owners) \ {Gateway} \subseteq DOMAIN p.says.routing[Gateway]

VARIABLES
    plan,       \* never changes
    phase,      \* "load", "submit", "forward", "pull", "done"
    overlay,    \* what a C++ node has read
    rows,       \* part_ of every node
    found,      \* matched_indices of the request, or NotAsked
    pending,    \* owners the gateway has still to call, in order
    call,       \* the call on its way: where, for whom, with which ttl
    refused,    \* owners whose acknowledgement said accepted = false
    hit,        \* owners_responded
    gathered    \* the rows of each owner that reach the client

vars == <<plan, phase, overlay, rows, found, pending, call, refused, hit, gathered>>

NoCall == [at |-> 0, target |-> 0, ttl |-> 0]

Nodes     == DOMAIN plan.says.nodes
Python    == {n \in Nodes : plan.says.nodes[n].impl = "python"}
Query     == Predicates(plan.args)
Eligibles == Eligible(overlay.data_owners, Query, Metadata(plan.manifest))
Remotes   == Filter(Eligibles, ToSet(Eligibles) \ {Gateway})

(* Python nodes read the same file with a YAML library; their routing, of
   which alone they make use here, has no overrides. *)
OverlayAt(n) == IF n \in Python THEN plan.says ELSE overlay
HopAt(n, target) == NextHop(OverlayAt(n).routing, n, target)

ClusterColumn ==
    SortColumn(Metadata(plan.manifest).scheme, Metadata(plan.manifest).hash_column)

Init ==
    /\ plan \in Plans
    /\ phase = "load"
    /\ overlay = DefaultOverlay
    /\ rows = [n \in Nodes |-> <<>>]
    /\ found = [n \in Nodes |-> NotAsked]
    /\ pending = <<>>
    /\ call = NoCall
    /\ refused = {}
    /\ hit = {}
    /\ gathered = [n \in Nodes |-> <<>>]

(* Every node reads the overlay, then, if it is an owner, its shard. *)
StartNodes ==
    /\ phase = "load"
    /\ overlay' = LoadOverlay(plan.file, plan.env)
    /\ rows' = [n \in Nodes |->
                  CASE n \in Python /\ n \in ToSet(plan.says.data_owners) ->
                          PyLoad(plan.shards[n], ClusterColumn)
                    [] n \notin Python /\ n \in ToSet(overlay'.data_owners) ->
                          Load(plan.shards[n], plan.threads)
                    [] OTHER -> <<>>]
    /\ phase' = "submit"
    /\ UNCHANGED <<plan, found, pending, call, refused, hit, gathered>>

(* register_request: a request that is there stays as it is. *)
Register(n) ==
    IF found[n] # NotAsked THEN UNCHANGED found
    ELSE \E known \in (IF n \in Python THEN SUBSET Columns ELSE {Columns}) :
            found' = [found EXCEPT ![n] =
                IF n \in Python THEN PyMatched(rows[n], Query, ClusterColumn, known)
                                ELSE Matched(rows[n], Query, plan.threads)]

(* The gateway registers every query, and counts itself as hit if it is
   eligible. *)
SubmitQuery ==
    /\ phase = "submit"
    /\ Register(Gateway)
    /\ hit' = ToSet(Eligibles) \cap {Gateway}
    /\ pending' = Remotes
    /\ phase' = "forward"
    /\ UNCHANGED <<plan, overlay, rows, call, refused, gathered>>

-----------------------------------------------------------------------------
(* ForwardQuery *)

(* Mutant: the ttl the longest shipped overlay does not need. *)
InitialTtlShort == 7

InitialTtl == 8

Calling(ph) == phase = ph /\ call # NoCall

Send(ttl) ==
    /\ call = NoCall /\ pending # <<>>
    /\ call' = [at |-> HopAt(Gateway, Head(pending)),
                target |-> Head(pending), ttl |-> ttl]
    /\ pending' = Tail(pending)
    /\ UNCHANGED <<plan, phase, overlay, rows, found, refused, hit, gathered>>

SendForward == phase = "forward" /\ Send(InitialTtl)

(* A node that has no way to go on, or would send to itself. *)
Onward == HopAt(call.at, call.target)
Stuck  == Onward \in {NoRoute, call.at}

(* A refusal is acknowledged like success: the gateway goes on. *)
ForwardRefused ==
    /\ Calling("forward")
    /\ call.ttl <= 0 \/ (call.at # call.target /\ Stuck)
    /\ refused' = refused \cup {call.target}
    /\ call' = NoCall
    /\ UNCHANGED <<plan, phase, overlay, rows, found, pending, hit, gathered>>

ForwardAccepted ==
    /\ Calling("forward")
    /\ call.ttl > 0 /\ call.at = call.target
    /\ Register(call.at)
    /\ call' = NoCall
    /\ UNCHANGED <<plan, phase, overlay, rows, pending, refused, hit, gathered>>

ForwardRelayed ==
    /\ Calling("forward")
    /\ call.ttl > 0 /\ call.at # call.target /\ ~Stuck
    /\ call' = [call EXCEPT !.at = Onward, !.ttl = @ - 1]
    /\ UNCHANGED <<plan, phase, overlay, rows, found, pending, refused, hit, gathered>>

-----------------------------------------------------------------------------
(* PullChunk; the chunks of one owner are one answer here. *)

(* The gateway drains its own rows if it is eligible. *)
StartPulls ==
    /\ phase = "forward" /\ call = NoCall /\ pending = <<>>
    /\ phase' = "pull"
    /\ pending' = Remotes
    /\ gathered' = [n \in Nodes |-> IF n \in hit THEN found[n] ELSE <<>>]
    /\ UNCHANGED <<plan, overlay, rows, found, call, refused, hit>>

SendPull == phase = "pull" /\ Send(0)

(* Pulls are relayed without looking at any ttl. *)
PullRelayed ==
    /\ Calling("pull")
    /\ call.at # call.target /\ ~Stuck
    /\ call' = [call EXCEPT !.at = Onward]
    /\ UNCHANGED <<plan, phase, overlay, rows, found, pending, refused, hit, gathered>>

Knows(n) == found[n] # NotAsked /\ rows[n] # <<>>

(* NOT_FOUND: no route, no request, or an owner without rows. *)
PullFailed ==
    /\ Calling("pull")
    /\ IF call.at = call.target THEN ~Knows(call.at) ELSE Stuck
    /\ call' = NoCall
    /\ UNCHANGED <<plan, phase, overlay, rows, found, pending, refused, hit, gathered>>

PullServed ==
    /\ Calling("pull")
    /\ call.at = call.target /\ Knows(call.at)
    /\ hit' = hit \cup {call.target}
    /\ gathered' = [gathered EXCEPT ![call.at] = found[call.at]]
    /\ call' = NoCall
    /\ UNCHANGED <<plan, phase, overlay, rows, found, pending, refused>>

Finish ==
    /\ phase = "pull" /\ call = NoCall /\ pending = <<>>
    /\ phase' = "done"
    /\ UNCHANGED <<plan, overlay, rows, found, pending, call, refused, hit, gathered>>

Next ==
    \/ StartNodes \/ SubmitQuery
    \/ SendForward \/ ForwardRefused \/ ForwardAccepted \/ ForwardRelayed
    \/ StartPulls \/ SendPull \/ PullRelayed \/ PullFailed \/ PullServed
    \/ Finish

(* The query is answered; only then does the system rest. *)
Rest == phase = "done" /\ UNCHANGED vars

Spec == Init /\ [][Next \/ Rest]_vars

-----------------------------------------------------------------------------
(* The rows of a file that parse, in order, with or without a last line that
   has no newline. *)
RowsOf(file, withLast) ==
    LET n    == Len(file.lines)
        upto == IF file.terminated \/ withLast THEN n ELSE n - 1
        full == Filter(SubSeq(file.lines, 1, upto),
                       {l \in ToSet(file.lines) : l.width > 0 /\ l.row # Invalid})
    IN  [k \in DOMAIN full |-> full[k].row]

Readings(n) ==
    {RowsOf(plan.shards[n], TRUE)} \cup
    (IF n \in Python THEN {} ELSE {RowsOf(plan.shards[n], FALSE)})

(* csv_store.hpp:73: however the bytes are divided among threads, every line
   that ends in a newline is loaded once and in order, blank and malformed
   ones apart.  A last line without newline may be lost: pass 1 counts
   newlines, so there is room for it only if its chunk has a blank line. *)
LoadIsComplete ==
    phase # "load" =>
        \A n \in Nodes \ Python :
            Filter(rows[n], ToSet(rows[n]) \ {Invalid}) \in Readings(n)

(* The window on the pickup time, if there is one, lies within a year. *)
WithinOneYear ==
    \A i \in DOMAIN plan.asked : plan.asked[i].column = "pickup_datetime" =>
        plan.asked[i].low \div 24 = plan.asked[i].high \div 24

(* routing.hpp:48: an owner that is not asked has no row that matches. *)
EligibleIsSound ==
    \A o \in ToSet(overlay.data_owners) \ ToSet(Eligibles) :
        \A k \in DOMAIN rows[o] : ~Matches(rows[o][k], plan.asked)

NothingPruned == WithinOneYear => EligibleIsSound

(* overlay.cpp:125 "Hand-rolled parser for the specific shape of our
   overlay.yaml": it makes of every file, generated or written by hand in block
   and flow style, what a YAML library makes of it in the Python nodes, apart
   from the environment: the nodes of a mixed deployment route alike. *)
OverlayIsRead == phase # "load" => overlay = Overridden(plan.says, plan.env)

(* node.cpp:264 and 496: a query is refused on its way only where a relay's
   table has no entry for the owner, or the owner is more than 8 hops away;
   on every shipped overlay all of them are reached. *)
TableIsFull == \A n, m \in Nodes : HopAt(n, m) # NoRoute

Edges == ToSet(plan.says.edges)

ForwardsArrive ==
    phase # "load" /\ TableIsFull =>
        \A o \in refused : Distances(Edges, Gateway)[o] > 8

(* README.md:326: every hop of a forward or a pull is an edge of the overlay
   and one hop nearer to the owner: relays, none of which knows the whole path,
   never send a call around in a circle, although pulls carry no ttl that would
   end it. *)
Nearer(from, to, target) ==
    /\ to \in Neighbours(Edges, from)
    /\ Distances(Edges, target)[to] = Distances(Edges, target)[from] - 1

HopsApproach ==
    [][ /\ call = NoCall /\ call' # NoCall => Nearer(Gateway, call'.at, call'.target)
        /\ call # NoCall /\ call' # NoCall => Nearer(call.at, call'.at, call'.target) ]_vars

SameRows(s, t) ==
    /\ Len(s) = Len(t)
    /\ \A row \in ToSet(t) :
          Cardinality({i \in DOMAIN s : s[i] = row}) = Cardinality({i \in DOMAIN t : t[i] = row})

(* README.md:598 (owners_hit and owners_eligible): when every eligible owner
   counts as hit, the client has exactly the rows it asked for, those of a C++
   owner in the order of its file, those of a Python owner each as often as in
   the file -- through arguments, loading, sorting, pruning, forwarding,
   pre-filter and search, and whatever column ranges a Python owner has yet. *)
FullHitIsExact ==
    (phase = "done" /\ hit = ToSet(Eligibles) /\ WithinOneYear) =>
        \A o \in ToSet(plan.says.data_owners) :
            \E all \in Readings(o) :
                LET asked == Filter(all, Matching(all, plan.asked))
                IN  IF o \in Python THEN SameRows(gathered[o], asked) ELSE gathered[o] = asked
=============================================================================
