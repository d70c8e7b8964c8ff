---------------------------- MODULE MCQueryPlan ----------------------------
(* QueryPlan for TLC: families of plans, each about one component. *)
EXTENDS QueryPlan

CONSTANT NoRow

MCColumns == {"trip_distance", "pu_location_id", "pickup_datetime"}

Row(c, v) == [d \in MCColumns |-> IF d = c THEN v ELSE 0]

Ascending(S) == SortSeq(FoldSet(LAMBDA v, vs : Append(vs, v), <<>>, S), LAMBDA a, b : a < b)

(* A file with one line for each value of column c, and two that match nothing. *)
File(c, values) ==
    LET vs == Ascending(values)
    IN  [lines |-> [k \in 1..(Len(vs) + 2) |->
                      CASE k <= Len(vs) -> [width |-> 2, row |-> Row(c, vs[k])]
                        [] k = Len(vs) + 1 -> [width |-> 0, row |-> Invalid]
                        [] OTHER -> [width |-> 1, row |-> Invalid]],
         terminated |-> TRUE]

(* A Python owner's file: rows only, in no order. *)
PyFile(c, values) ==
    LET vs == Ascending(values)
    IN  [lines |-> [k \in DOMAIN vs |-> [width |-> 2, row |-> Row(c, vs[((2 * k) % Len(vs)) + 1])]],
         terminated |-> FALSE]

NoFile == [lines |-> <<>>, terminated |-> TRUE]

Pred(c, low, high, incl) == [column |-> c, low |-> low, high |-> high, inclusive |-> incl]

-----------------------------------------------------------------------------
(* Command lines.  A bound is left out where it is the default, and the first
   --column where the flag of the bound implies it. *)
Arg(flag, value) == [flag |-> flag, value |-> value]

Bounds(p) ==
    LET dt == p.column = "pickup_datetime"
    IN  (IF p.low = 0 THEN <<>> ELSE <<Arg(IF dt THEN "--low-dt" ELSE "--low", p.low)>>)
        \o (IF p.high = DefaultHigh THEN <<>>
            ELSE <<Arg(IF dt THEN "--high-dt" ELSE "--high", p.high)>>)
        \o (IF p.inclusive THEN <<>> ELSE <<Arg("--exclusive", 0)>>)

Implied(p) ==
    /\ p.low # 0 \/ p.high # DefaultHigh
    /\ p.column \in {"trip_distance", "pickup_datetime"}

CommandLine(query) ==
    FlattenSeq([k \in DOMAIN query |->
        (IF k = 1 /\ Implied(query[k]) THEN <<>> ELSE <<Arg("--column", query[k].column)>>)
        \o Bounds(query[k])])

-----------------------------------------------------------------------------
(* Deployments. *)
NoEnv == [host |-> <<>>, port |-> <<>>, chunking |-> <<>>]

NodeSpecOf(impl, h) == [host |-> h, port |-> 50050, team |-> "blue",
                   role |-> "peer", impl |-> impl, virtual_host |-> h]
NodeSpecs(edges, python) ==
    [n \in 1..Cardinality(NodesOf(edges)) |->
        NodeSpecOf(IF n \in python THEN "python" ELSE "cpp", IF n > 5 THEN "h2" ELSE "h1")]

Latencies == [simulate |-> TRUE, inter_host_latency_ms |-> 5, intra_host_latency_ms |-> 1]

(* What the generator puts into a file, and the file. *)
Generated(edges, owners, python) ==
    LET says == [DefaultOverlay EXCEPT
                    !.nodes = NodeSpecs(edges, python), !.edges = CanonicalEdges(edges),
                    !.routing = Routing(edges), !.data_owners = owners,
                    !.network = Latencies @@ @]
    IN  [says |-> says, file |-> EmitYaml(says.nodes, edges, owners, Latencies), env |-> NoEnv]

Plan(deployment, manifest, shards, threads, asked) ==
    deployment @@
    [manifest |-> manifest, threads |-> threads, asked |-> asked,
     args |-> CommandLine(asked),
     shards |-> [n \in DOMAIN deployment.says.nodes |->
                    IF n \in DOMAIN shards THEN shards[n] ELSE NoFile]]

(* Two owners next to the gateway, one of them behind the other, in Python. *)
Small == Generated(Chain(3), <<1, 2, 3>>, {3})
SmallCpp == Generated(Chain(3), <<1, 2, 3>>, {})
SmallPlan(manifest, shards, query) == Plan(Small, manifest, shards, 2, query)

-----------------------------------------------------------------------------
(* The loader: files of up to four lines, one to three threads. *)
Kinds == {[width |-> 0, row |-> Invalid], [width |-> 1, row |-> Invalid],
          [width |-> 1, row |-> NoRow], [width |-> 4, row |-> NoRow]}

(* The rows of a file are told apart by their line. *)
Numbered(ls) ==
    [k \in DOMAIN ls |->
        IF ls[k].row = Invalid THEN ls[k] ELSE [ls[k] EXCEPT !.row = Row("trip_distance", k)]]

Files == {[lines |-> Numbered(ls), terminated |-> t] :
              ls \in UNION {[1..n -> Kinds] : n \in 1..4}, t \in BOOLEAN}

Pair == Generated(Chain(2), <<2>>, {})

LoaderPlans ==
    {Plan(Pair, <<>>, 2 :> f, nt,
          <<Pred("trip_distance", 2, 4, TRUE)>>) :
        f \in {g \in Files : g.terminated \/ g.lines[Len(g.lines)].width > 0},
        nt \in 1..3}

-----------------------------------------------------------------------------
(* Smart routing: windows around every boundary, and a second predicate. *)
Windows(c, ends) == {Pred(c, l, h, i) : l \in ends, h \in ends, i \in BOOLEAN}

Queries(c, ends) ==
    {<<p>> : p \in Windows(c, ends)} \cup
    {<<Pred("pu_location_id", -1, 1, TRUE), p>> : p \in {w \in Windows(c, ends) : w.inclusive}}

DistanceManifest ==
    [scheme |-> "trip_distance", covers |-> (2 :> [lo |-> 0, hi |-> 4]) @@ (3 :> [lo |-> 4, hi |-> 9])]
DistancePlans ==
    {SmallPlan(DistanceManifest,
               (1 :> File("trip_distance", {1, 5})) @@ (2 :> File("trip_distance", {0, 3, 4}))
                   @@ (3 :> PyFile("trip_distance", {4, 5, 9})), q) :
        q \in Queries("trip_distance", {-1, 0, 3, 4, 5, 9, DefaultHigh})}

ZoneManifest ==
    [scheme |-> "pu_location_id", covers |-> (1 :> {}) @@ (2 :> {1, 3}) @@ (3 :> {0, 2})]
ZonePlans ==
    {SmallPlan(ZoneManifest,
               (2 :> File("pu_location_id", {2, 6})) @@ (3 :> PyFile("pu_location_id", {0, 4})), <<p>>) :
        p \in Windows("pu_location_id", -3..7)}

MonthManifest ==
    [scheme |-> "pickup_datetime", covers |-> (1 :> {12}) @@ (2 :> {1, 2, 11}) @@ (3 :> 3..10)]
(* Timestamps lie above 1e9, in halves of a month from the start of a year. *)
Epoch == 48
Instants == {Epoch + t : t \in {0, 3, 4, 19, 21, 22, 24, 28, 45, 46, 47}}
MonthPlans ==
    {SmallPlan(MonthManifest,
               [o \in 1..3 |->
                   LET ts == {t \in Instants : Month(t) \in MonthManifest.covers[o]}
                   IN  IF o = 3 THEN PyFile("pickup_datetime", ts) ELSE File("pickup_datetime", ts)],
               <<p>>) :
        p \in {w \in Windows("pickup_datetime", Instants) : w.inclusive}}

(* Every hash of the buckets modulo 3 to three vnodes, the third left to the
   last owner. *)
HashManifest(vnode) ==
    [scheme |-> "consistent_hash", hash_column |-> "trip_distance", multiplier |-> 1,
     vnodes_per_owner |-> 1, total_vnodes |-> 3, owners |-> <<1, 2>>,
     vnode |-> [b \in 0..20 |-> vnode[b % 3]]]
HashPlans ==
    UNION {LET m == HashManifest(v) IN
        {Plan(SmallCpp, m, [o \in {1, 2} |-> File("trip_distance",
                      {x \in 0..7 : OwnerOf(Bucket(x, Metadata(m)), Metadata(m)) = o})], 2, <<p>>) :
            p \in {w \in Windows("trip_distance", {-3, 1, 6, 40}) : w.inclusive}} :
        v \in [0..2 -> 0..2]}

-----------------------------------------------------------------------------
(* Forwarding: the shipped overlays, a chain too long for the ttl, and a
   table in which relays know the way to the gateway only. *)
MeshEdges    == {<<1,2>>, <<1,3>>, <<1,9>>, <<2,3>>, <<2,7>>, <<3,4>>, <<3,7>>, <<4,5>>,
                 <<5,6>>, <<5,7>>, <<6,7>>, <<7,8>>, <<8,9>>}
RandomKEdges == {<<1,4>>, <<1,5>>, <<1,8>>, <<1,9>>, <<2,4>>, <<2,6>>, <<2,7>>, <<2,9>>, <<3,4>>,
                 <<3,5>>, <<3,6>>, <<3,7>>, <<4,8>>, <<5,6>>, <<5,9>>, <<6,8>>, <<7,8>>, <<7,9>>}

(* config/topo/mesh.yaml:37-46, written by the generator. *)
MeshRouting ==
    <<<<1,2,3,3,2,2,2,9,9>>, <<1,2,3,3,7,7,7,7,1>>, <<1,2,3,4,4,7,7,7,1>>,
      <<3,3,3,4,5,5,3,3,3>>, <<4,7,4,4,5,6,7,7,7>>, <<7,7,7,5,5,6,7,7,7>>,
      <<2,2,3,3,5,6,7,8,8>>, <<9,7,7,7,7,7,7,8,9>>, <<1,1,1,1,8,8,8,8,9>>>>
ASSUME GeneratorAgrees == Routing(MeshEdges) = MeshRouting

(* config/overlay.yaml: written by hand, some rows of the table in block style;
   and the same with what its comment calls enough, relays that know the way to
   the gateway only. *)
HandEdges == <<<<1,2>>, <<2,3>>, <<2,4>>, <<2,5>>, <<5,6>>, <<5,4>>, <<5,7>>, <<1,8>>, <<1,7>>, <<1,9>>>>
HandRouting ==
    <<<<1,2,2,2,2,2,7,8,9>>, <<1,2,3,4,5,5,5,1,1>>, <<2,2,3,2,2,2,2,2,2>>,
      <<2,2,2,4,5,5,5,2,2>>, <<2,2,2,4,5,6,7,2,2>>, <<5,5,5,5,5,6,5,5,5>>,
      <<1,5,5,5,5,5,7,1,1>>, <<1,1,1,1,1,1,1,8,1>>, <<1,1,1,1,1,1,1,1,9>>>>
GatewayOnly ==
    [src \in 1..9 |-> IF src = Gateway THEN HandRouting[src] ELSE (Gateway :> HandRouting[src][1])]

Without(f, key) == [k \in DOMAIN f \ {key} |-> f[k]]

(* A row of the table, below its node or behind it. *)
BlockRow(src, row) ==
    LET dsts == Ascending(DOMAIN row)
    IN  <<Line(2, src, <<>>)>> \o [k \in DOMAIN dsts |-> Line(4, dsts[k], <<row[dsts[k]]>>)]
FlowRow(src, row) == <<Line(2, src, row)>>

HandFile(says) ==
    Section("nodes", [n \in 1..9 |-> Line(2, n, Without(says.nodes[n], "virtual_host"))])
    \o Section("edges", [k \in DOMAIN says.edges |-> Line(2, "-", says.edges[k])])
    \o Section("routing", FlattenSeq([n \in 1..9 |->
          IF n \in {1, 2, 5, 7} THEN BlockRow(n, says.routing[n]) ELSE FlowRow(n, says.routing[n])]))
    \o <<Line(0, "data_owners", says.data_owners)>>
    \o Section("chunking", Fields(says.chunking,
          <<"initial_rows", "max_rows", "min_rows", "target_chunk_ms">>))
    \o Section("scheduler", Fields(says.scheduler, <<"mode", "max_concurrent_requests">>))
    \o Section("network", Fields(says.network,
          <<"simulate", "inter_host_latency_ms", "intra_host_latency_ms",
            "intra_host_max_rows", "inter_host_max_rows", "compress_inter_host">>))

PythonNodes == {4, 6, 8}

ByHand(routing, owners, env) ==
    LET says == [DefaultOverlay EXCEPT
                    !.nodes = [n \in 1..9 |->
                        [NodeSpecOf(IF n \in PythonNodes THEN "python" ELSE "cpp", "10.0.0.1")
                            EXCEPT !.virtual_host = "h1"]],
                    !.edges = HandEdges, !.routing = routing, !.data_owners = owners,
                    !.network.intra_host_max_rows = 4096,
                    !.network.inter_host_max_rows = 32768,
                    !.network.compress_inter_host = TRUE]
    IN  [says |-> says, file |-> HandFile(says), env |-> env]

BenchEnv == [host |-> (1 :> "h3") @@ (4 :> "h4"), port |-> 1 :> 6000,
             chunking |-> [initial_rows |-> 256, max_rows |-> 0]]

Deployments(owners) ==
    {Generated(e, owners, PythonNodes) :
        e \in {Star, Tree, BinaryTree, Chain(9), Ring, Grid, MeshEdges, RandomKEdges, Chain(10)}}
    \cup {ByHand(HandRouting, owners, BenchEnv), ByHand(GatewayOnly, owners, NoEnv)}

FileAt(o) == IF o \in PythonNodes THEN PyFile("trip_distance", {o}) ELSE File("trip_distance", {o})

ForwardPlans ==
    UNION {{Plan(d, [scheme |-> "round_robin"], [o \in ToSet(owners) |-> FileAt(o)], 1,
                 <<Pred("trip_distance", 0, DefaultHigh, TRUE)>>) :
            d \in Deployments(owners)} : owners \in {<<3, 4, 6, 7, 8, 9>>, [n \in 1..9 |-> n]}}
    \cup {Plan(Generated(Chain(10), <<2, 10>>, {}), <<>>,
               (2 :> File("trip_distance", {1})) @@ (10 :> File("trip_distance", {2})), 1,
               <<Pred("trip_distance", 0, DefaultHigh, TRUE)>>)}

MCPlans ==
    LoaderPlans \cup DistancePlans \cup ZonePlans \cup MonthPlans \cup HashPlans \cup ForwardPlans
MCMonthPlans == MonthPlans

(* What the theorems about all plans suppose of a plan holds of these: of the
   table of config/overlay.yaml, which takes a detour from D to G, only as far
   as the queries go. *)
ASSUME ArgsAreRead
ASSUME TablesLeadOn ==
    \A p \in MCPlans : p.says.routing # HandRouting => WellRouted(p)
=============================================================================
