-------------------------- MODULE QueryPlanProofs ---------------------------
(*****************************************************************************)
(* For every deployment and every command line that is read as it is        *)
(* meant: pruning drops no owner with a row that matches, a call takes an   *)
(* edge of the overlay nearer to its owner with every hop, and a client     *)
(* that hears from every eligible owner has exactly the rows it asked for.  *)
(*****************************************************************************)
EXTENDS QueryPlan, PartitionProofs

-----------------------------------------------------------------------------
(* Pruning by the manifest *)

LEMMA MinOfTwo ==
    ASSUME NEW a \in Int, NEW b \in Int
    PROVE  Min({a, b}) = IF a <= b THEN a ELSE b
<1> DEFINE least == IF a <= b THEN a ELSE b
           Least(x) == x \in {a, b} /\ \A y \in {a, b} : x =< y
<1>1. Least(least)
  OBVIOUS
<1>2. \A x : Least(x) => x = least
  OBVIOUS
<1>3. Min({a, b}) = CHOOSE x : Least(x)
  BY DEF Min
<1> QED
  BY <1>1, <1>2, <1>3

LEMMA MaxOfTwo ==
    ASSUME NEW a \in Int, NEW b \in Int
    PROVE  Max({a, b}) = IF a >= b THEN a ELSE b
<1> DEFINE greatest == IF a >= b THEN a ELSE b
           Greatest(x) == x \in {a, b} /\ \A y \in {a, b} : x >= y
<1>1. Greatest(greatest)
  OBVIOUS
<1>2. \A x : Greatest(x) => x = greatest
  OBVIOUS
<1>3. Max({a, b}) = CHOOSE x : Greatest(x)
  BY DEF Max
<1> QED
  BY <1>1, <1>2, <1>3

(* Casts keep the order, and leave whole numbers alone. *)
LEMMA TruncatedMonotone ==
    ASSUME NEW a \in Int, NEW b \in Int, a <= b
    PROVE  Truncated(a) \in Int /\ Truncated(b) \in Int /\ Truncated(a) <= Truncated(b)
BY DEF Truncated

LEMMA TruncatedWhole ==
    ASSUME NEW z \in Int
    PROVE  Truncated(2 * z) = z
BY DEF Truncated

(* routing.cpp:283: an owner whose distance range holds a row the predicate
   hits is asked. *)
LEMMA DistanceSound ==
    ASSUME NEW p, IsPredicate(p), NEW range, range.lo \in Int, range.hi \in Int,
           NEW v \in Int, range.lo <= v, v <= range.hi, Hit(p, v)
    PROVE  RangeOverlaps(p, range)
BY HitBetween DEF RangeOverlaps, IsPredicate

(* routing.cpp:291-301: cutting the window to whole zones loses none of them. *)
LEMMA ZoneSound ==
    ASSUME NEW p, IsPredicate(p), NEW zones \in SUBSET Int,
           NEW z \in zones, Hit(p, 2 * z)
    PROVE  ZoneOverlaps(p, zones)
<1>1. p.low <= 2 * z /\ 2 * z <= p.high
  BY HitBetween
<1>2. p.low \in Int /\ p.high \in Int /\ z \in Int
  BY DEF IsPredicate
<1>3. Truncated(p.low) <= Truncated(2 * z) /\ Truncated(2 * z) <= Truncated(p.high)
  BY <1>1, <1>2, TruncatedMonotone
<1> QED
  BY <1>2, <1>3, TruncatedWhole DEF ZoneOverlaps

(* routing.cpp:343-351: within a year, comparing months loses no owner. *)
LEMMA MonthSound ==
    ASSUME NEW p, IsPredicate(p), p.low \div 24 = p.high \div 24,
           NEW months \in SUBSET Int, NEW t \in Int, Month(t) \in months, Hit(p, t)
    PROVE  MonthOverlaps(p, months)
<1>1. p.low <= t /\ t <= p.high
  BY HitBetween
<1>2. p.low \in Int /\ p.high \in Int
  BY DEF IsPredicate
<1>3. ASSUME NEW x \in Int, NEW y \in Int, NEW z \in Int,
             x <= y, y <= z, x \div 24 = z \div 24
      PROVE  Month(x) <= Month(y) /\ Month(y) <= Month(z)
  BY <1>3 DEF Month
<1>4. Month(p.low) <= Month(t) /\ Month(t) <= Month(p.high)
  BY <1>1, <1>2, <1>3
<1>5. Month(p.low) \in Int /\ Month(t) \in Int /\ Month(p.high) \in Int
  BY <1>2 DEF Month
<1>6. Min({Month(p.low), Month(p.high)}) = Month(p.low)
  BY <1>4, <1>5, MinOfTwo
<1>7. Max({Month(p.low), Month(p.high)}) = Month(p.high)
  BY <1>4, <1>5, MaxOfTwo
<1> QED
  BY <1>4, <1>5, <1>6, <1>7 DEF MonthOverlaps

(* routing.cpp:274-357: under the three manifests that list values, an owner
   to whose shard a row belongs is asked whenever the predicate on the
   clustering column hits the row -- for pickup_datetime only if the window
   lies within a year. *)
THEOREM OwnerIsAsked ==
    ASSUME NEW meta, meta.scheme \in {"trip_distance", "pu_location_id", "pickup_datetime"},
           NEW o, o \in DOMAIN meta.covers => IsCover(meta, o),
           NEW p, IsPredicate(p),
           meta.scheme = "pickup_datetime" => p.low \div 24 = p.high \div 24,
           NEW row, row[Column(meta)] \in Int,
           Belongs(row, o, meta), Hit(p, row[Column(meta)])
    PROVE  Covered(o, p, meta)
<1> SUFFICES ASSUME o \in DOMAIN meta.covers
             PROVE  Covered(o, p, meta)
  BY DEF Covered
<1>1. CASE meta.scheme = "trip_distance"
  <2>1. /\ meta.covers[o].lo \in Int /\ meta.covers[o].hi \in Int
        /\ meta.covers[o].lo <= row[Column(meta)] /\ row[Column(meta)] <= meta.covers[o].hi
    BY <1>1 DEF IsCover, Belongs
  <2>2. RangeOverlaps(p, meta.covers[o])
    BY <2>1, DistanceSound
  <2> QED
    BY <1>1, <2>2 DEF Covered
<1>2. CASE meta.scheme = "pu_location_id"
  <2>1. meta.covers[o] \in SUBSET Int
    BY <1>2 DEF IsCover
  <2>2. PICK z \in meta.covers[o] : row[Column(meta)] = 2 * z
    BY <1>2 DEF Belongs
  <2>3. ZoneOverlaps(p, meta.covers[o])
    BY <2>1, <2>2, ZoneSound
  <2> QED
    BY <1>2, <2>3 DEF Covered
<1>3. CASE meta.scheme = "pickup_datetime"
  <2>1. meta.covers[o] \in SUBSET Int
    BY <1>3 DEF IsCover
  <2>2. Month(row[Column(meta)]) \in meta.covers[o]
    BY <1>3 DEF Belongs
  <2>3. MonthOverlaps(p, meta.covers[o])
    BY <1>3, <2>1, <2>2, MonthSound
  <2> QED
    BY <1>3, <2>3 DEF Covered
<1> QED
  BY <1>1, <1>2, <1>3

(* routing.cpp:317-322: the bucket of a row the predicate hits is among the
   buckets that are enumerated, so its owner is hit. *)
THEOREM BucketSound ==
    ASSUME NEW p, IsPredicate(p), NEW meta, meta.multiplier \in Nat,
           NEW v \in Nat, Hit(p, v)
    PROVE  Bucket(v, meta) \in Buckets(p, meta)
<1> DEFINE low == Bucket(p.low, meta)
           high == Bucket(p.high, meta)
<1>1. p.low <= v /\ v <= p.high
  BY HitBetween
<1>2. p.low \in Int /\ p.high \in Int
  BY DEF IsPredicate
<1>3. ASSUME NEW x \in Int, NEW y \in Int, x <= y, NEW k \in Nat
      PROVE  x * k \in Int /\ y * k \in Int /\ x * k <= y * k
  BY <1>3, SMTT(30)
<1>4. /\ low \in Int /\ high \in Int /\ Bucket(v, meta) \in Int
      /\ low <= Bucket(v, meta) /\ Bucket(v, meta) <= high
  <2>1. p.low * meta.multiplier <= v * meta.multiplier
    BY <1>1, <1>2, <1>3
  <2>2. v * meta.multiplier <= p.high * meta.multiplier
    BY <1>1, <1>2, <1>3
  <2>3. /\ p.low * meta.multiplier \in Int /\ v * meta.multiplier \in Int
        /\ p.high * meta.multiplier \in Int
    BY <1>2
  <2> QED
    BY <2>1, <2>2, <2>3, TruncatedMonotone DEF Bucket
<1>5. Bucket(v, meta) >= 0
  <2>1. 0 * meta.multiplier <= v * meta.multiplier /\ v * meta.multiplier \in Int
    BY <1>3
  <2> QED
    BY <2>1 DEF Bucket, Truncated
<1>6. Min({low, high}) = low /\ Max({low, high}) = high
  BY <1>4, MinOfTwo, MaxOfTwo
<1>7. Max({low, 0}) <= Bucket(v, meta) /\ Max({low, 0}) \in Int
  BY <1>4, <1>5, MaxOfTwo
<1> QED
  BY <1>4, <1>6, <1>7 DEF Buckets

-----------------------------------------------------------------------------
InOneYear(query) ==
    \A i \in DOMAIN query : query[i].column = "pickup_datetime" =>
        query[i].low \div 24 = query[i].high \div 24

(* The predicate the owners are judged by is one of the query. *)
LEMMA ClusteringIs ==
    ASSUME NEW query \in QueryType, NEW meta, Clustering(query, meta) # <<>>
    PROVE  \E i \in DOMAIN query : /\ Head(Clustering(query, meta)) = query[i]
                                  /\ query[i].column = Column(meta)
<1> DEFINE P == [column : STRING, low : Int, high : Int, inclusive : BOOLEAN]
           S == {p \in ToSet(query) : p.column = Column(meta)}
           preds == Filter(query, S)
<1>1. preds = Clustering(query, meta) /\ query \in Seq(P)
  BY DEF Clustering, QueryType
<1> HIDE DEF preds, P
<1>2. preds \in Seq(P) /\ ToSet(preds) = ToSet(query) \cap S
  BY <1>1, FilterSeq, ToSetFilter DEF preds
<1>3. Head(preds) = preds[1] /\ 1 \in DOMAIN preds
  BY <1>1, <1>2, LenProperties, EmptySeq, HeadTailProperties
<1>4. Head(preds) \in ToSet(preds)
  BY <1>3 DEF ToSet
<1> QED BY <1>1, <1>2, <1>4 DEF ToSet

(* routing.cpp:258: an owner in whose shard a row belongs that matches is
   eligible, under every manifest. *)
LEMMA EligibleAsks ==
    ASSUME NEW O, NEW all \in Seq(O), NEW query \in QueryType, NEW meta,
           \A o \in DOMAIN meta.covers : IsCover(meta, o), meta.multiplier \in Nat,
           NEW o \in ToSet(all), NEW row \in [Columns -> Int],
           Belongs(row, o, meta), Matches(row, query), InOneYear(query)
    PROVE  o \in ToSet(Eligible(all, query, meta))
<1> DEFINE preds == Clustering(query, meta)
           p == Head(preds)
<1>1. CASE NoMetadata(meta) \/ preds = <<>>
  BY <1>1 DEF Eligible
<1>2. CASE ~NoMetadata(meta) /\ preds # <<>>
  <2>1. PICK i \in DOMAIN query : p = query[i] /\ p.column = Column(meta)
    BY <1>2, ClusteringIs
  <2>2. query[i] \in [column : STRING, low : Int, high : Int, inclusive : BOOLEAN]
    BY <2>1, ElementOfSeq, LenProperties DEF QueryType
  <2> HIDE DEF p
  <2>3. IsPredicate(p)
    BY <2>1, <2>2 DEF IsPredicate
  <2>4. Column(meta) \in Columns /\ Hit(p, row[Column(meta)])
    BY <2>1 DEF Matches
  <2>5. row[Column(meta)] \in Int
    BY <2>4
  <2>6. CASE meta.scheme \in {"trip_distance", "pu_location_id", "pickup_datetime"}
    <3>1. Column(meta) = meta.scheme
      BY <2>6 DEF Column
    <3>2. meta.scheme = "pickup_datetime" => p.low \div 24 = p.high \div 24
      BY <2>1, <3>1 DEF InOneYear
    <3>3. Covered(o, p, meta)
      <4>1. o \in DOMAIN meta.covers => IsCover(meta, o)
        OBVIOUS
      <4> QED BY <2>3, <2>4, <2>5, <2>6, <3>2, <4>1, OwnerIsAsked, SMTT(60)
    <3> DEFINE S == {x \in ToSet(all) : Covered(x, p, meta)}
    <3>4. Eligible(all, query, meta) = Filter(all, S)
      BY <1>2, <2>6 DEF Eligible, p
    <3>5. o \in S
      BY <3>3
    <3> HIDE DEF S
    <3>6. ToSet(Filter(all, S)) = ToSet(all) \cap S
      BY ToSetFilter
    <3> QED BY <3>4, <3>5, <3>6
  <2>7. CASE meta.scheme = "consistent_hash" /\ HashIsReady(meta)
    <3> DEFINE v == row[Column(meta)]
               hits == {OwnerOf(b, meta) : b \in Buckets(p, meta)}
    <3>1. v \in Nat /\ OwnerOf(Bucket(v, meta), meta) = o
      BY <2>5, <2>7 DEF Belongs
    <3>2. Bucket(v, meta) \in Buckets(p, meta)
      BY <2>3, <2>4, <3>1, BucketSound
    <3>3. o \in hits
      BY <3>1, <3>2
    <3>4. Eligible(all, query, meta) = HashedOwners(all, p, meta)
      BY <1>2, <2>7 DEF Eligible, p
    <3>5. HashedOwners(all, p, meta) \in {all, Filter(all, hits)}
      BY DEF HashedOwners
    <3> HIDE DEF hits
    <3>6. ToSet(Filter(all, hits)) = ToSet(all) \cap hits
      BY ToSetFilter
    <3> QED BY <3>3, <3>4, <3>5, <3>6
  <2>8. CASE /\ meta.scheme \notin {"trip_distance", "pu_location_id", "pickup_datetime"}
             /\ ~(meta.scheme = "consistent_hash" /\ HashIsReady(meta))
    BY <1>2, <2>8 DEF Eligible
  <2> QED BY <2>6, <2>7, <2>8
<1> QED BY <1>1, <1>2

-----------------------------------------------------------------------------
(* What every node has after the start. *)
Shard(n) ==
    CASE n \in Python /\ n \in ToSet(plan.says.data_owners) ->
            PyLoad(plan.shards[n], ClusterColumn)
      [] n \notin Python /\ n \in ToSet(overlay.data_owners) ->
            Load(plan.shards[n], plan.threads)
      [] OTHER -> <<>>

Loaded ==
    /\ plan \in Plans
    /\ phase = "load" => overlay = DefaultOverlay
    /\ phase # "load" =>
          /\ overlay = LoadOverlay(plan.file, plan.env)
          /\ rows = [n \in Nodes |-> Shard(n)]

(* After the start every owner keeps the rows of its shard, and every C++ node
   the overlay it has read, to the end. *)
THEOREM LoadedHolds == Spec => []Loaded
<1>1. Init => Loaded
  BY DEF Init, Loaded
<1>2. Loaded /\ [Next \/ Rest]_vars => Loaded'
  <2> SUFFICES ASSUME Loaded, [Next \/ Rest]_vars PROVE Loaded'
    OBVIOUS
  <2>1. CASE StartNodes
    <3>1. plan' = plan /\ phase' = "submit" /\ overlay' = LoadOverlay(plan'.file, plan'.env)
      BY <2>1 DEF StartNodes
    <3>2. Nodes' = Nodes /\ Python' = Python /\ ClusterColumn' = ClusterColumn
      BY <3>1 DEF Nodes, Python, ClusterColumn
    <3>3. rows' = [n \in Nodes' |-> Shard(n)']
      BY <2>1, <3>1, <3>2 DEF StartNodes, Shard
    <3> QED BY <3>1, <3>3 DEF Loaded
  <2>2. CASE \/ SubmitQuery \/ SendForward \/ ForwardRefused \/ ForwardAccepted
             \/ ForwardRelayed \/ StartPulls \/ SendPull \/ PullRelayed \/ PullFailed
             \/ PullServed \/ Finish \/ Rest \/ UNCHANGED vars
    <3>1. /\ UNCHANGED <<plan, overlay, rows>>
          /\ phase = "load" <=> phase' = "load"
      BY <2>2 DEF SubmitQuery, SendForward, Send, ForwardRefused, ForwardAccepted, Calling,
                 ForwardRelayed, StartPulls, SendPull, PullRelayed, PullFailed, PullServed,
                 Finish, Rest, vars
    <3>2. Nodes' = Nodes /\ \A n : Shard(n)' = Shard(n)
      BY <3>1 DEF Nodes, Python, ClusterColumn, Shard
    <3> QED BY <3>1, <3>2 DEF Loaded
  <2> QED BY <2>1, <2>2 DEF Next
<1> QED BY <1>1, <1>2, PTL DEF Spec

LEMMA OverlaySays ==
    ASSUME plan \in Plans, overlay = Overridden(plan.says, plan.env)
    PROVE  /\ overlay.data_owners = plan.says.data_owners
           /\ overlay.routing = plan.says.routing
           /\ overlay.edges = plan.says.edges
<1> DEFINE says == plan.says
<1>1. DOMAIN says = DOMAIN DefaultOverlay
  BY PlansAreTyped
<1>2. {"nodes", "chunking", "data_owners", "routing", "edges"} \subseteq DOMAIN says
  BY <1>1 DEF DefaultOverlay
<1> HIDE DEF says
<1>3. overlay = Overridden(says, plan.env)
  BY DEF says
<1>4. /\ overlay.data_owners = says.data_owners
      /\ overlay.routing = says.routing
      /\ overlay.edges = says.edges
  BY <1>2, <1>3 DEF Overridden
<1> QED BY <1>4 DEF says

(* A slot that holds a row holds one of the node's file. *)
LEMMA ShardRows ==
    ASSUME Loaded, phase # "load", NEW o \in Nodes
    PROVE  rows[o] \in Seq(RowsIn(plan.shards[o]) \cup {Invalid})
<1> DEFINE V == RowsIn(plan.shards[o]) \cup {Invalid}
           file == plan.shards[o]
<1>1. IsFile(file) /\ plan.threads \in Nat /\ plan \in Plans
  BY PlansAreTyped DEF Loaded, Nodes, IsFile
<1>2. rows[o] = Shard(o)
  BY DEF Loaded
<1>3. CASE o \in Python /\ o \in ToSet(plan.says.data_owners)
  <2> DEFINE n == Len(file.lines)
  <2>1. n \in Nat /\ DOMAIN file.lines = 1..n /\ \A k \in 1..n : file.lines[k] \in LineType
    BY <1>1, LenProperties, ElementOfSeq DEF IsFile
  <2>2. \A k \in DOMAIN file.lines : file.lines[k].row # Invalid
    BY <1>1, <1>3, PlansAssumption DEF Nodes, Python
  <2>3. \A k \in DOMAIN file.lines : file.lines[k].row \in [Columns -> Int]
    BY <2>1, <2>2 DEF LineType, SlotType
  <2>4. PICK order \in Bijection(1..n, 1..n) :
           PyLoad(file, ClusterColumn) = [i \in 1..n |-> file.lines[order[i]].row]
    <3> HIDE DEF file
    <3> QED BY <1>1, <2>3, PyLoadIs
  <2>5. ASSUME NEW i \in 1..n PROVE file.lines[order[i]].row \in V
    BY <2>1, <2>4 DEF RowsIn, Bijection, Injection
  <2> HIDE DEF V
  <2>6. [i \in 1..n |-> file.lines[order[i]].row] \in Seq(V)
    BY <2>1, <2>5, IsASeq
  <2>7. Shard(o) = PyLoad(file, ClusterColumn)
    BY <1>3 DEF Shard
  <2> QED BY <1>2, <2>4, <2>6, <2>7 DEF V
<1>4. CASE o \notin Python /\ o \in ToSet(overlay.data_owners)
  <2>1. Shard(o) = Load(file, plan.threads)
    BY <1>4 DEF Shard
  <2> QED BY <1>1, <1>2, <2>1, LoadType
<1>5. CASE /\ ~(o \in Python /\ o \in ToSet(plan.says.data_owners))
           /\ ~(o \notin Python /\ o \in ToSet(overlay.data_owners))
  BY <1>2, <1>5, EmptySeq DEF Shard
<1> QED BY <1>3, <1>4, <1>5

LEMMA NothingPrunedStep ==
    ASSUME ArgsAreRead, Loaded, OverlayIsRead
    PROVE  NothingPruned
<1> DEFINE meta == Metadata(plan.manifest)
<1>1. CASE phase = "load"
  <2>1. overlay.data_owners = <<>>
    BY <1>1 DEF Loaded, DefaultOverlay
  <2>2. ToSet(overlay.data_owners) = {}
    BY <2>1 DEF ToSet
  <2> QED BY <2>2 DEF NothingPruned, EligibleIsSound
<1>2. CASE phase # "load"
  <2> SUFFICES ASSUME WithinOneYear, NEW o \in ToSet(overlay.data_owners),
                      NEW k \in DOMAIN rows[o], Matches(rows[o][k], plan.asked)
               PROVE  o \in ToSet(Eligibles)
    BY DEF NothingPruned, EligibleIsSound
  <2>1. plan \in Plans /\ overlay = Overridden(plan.says, plan.env)
    BY <1>2 DEF Loaded, OverlayIsRead
  <2>2. overlay.data_owners = plan.says.data_owners
    BY <2>1, OverlaySays
  <2>3. overlay.data_owners \in Seq(Nodes) /\ o \in Nodes
    <3>1. plan.says.data_owners \in Seq(Nodes)
      BY <2>1, PlansAreTyped DEF Nodes
    <3>2. ToSet(plan.says.data_owners) \subseteq Nodes
      BY <3>1, ElementOfSeq, LenProperties DEF ToSet
    <3> QED BY <2>2, <3>1, <3>2
  <2> DEFINE row == rows[o][k]
             lines == plan.shards[o].lines
  <2>4. rows[o] \in Seq(RowsIn(plan.shards[o]) \cup {Invalid})
    BY <1>2, <2>3, ShardRows
  <2>5. row \in RowsIn(plan.shards[o]) \cup {Invalid}
    BY <2>4, ElementOfSeq, LenProperties
  <2>6. row # Invalid
    BY DEF Matches
  <2>7. PICK j \in DOMAIN lines : row = lines[j].row
    BY <2>5, <2>6 DEF RowsIn
  <2> HIDE DEF row
  <2>8. row \in [Columns -> Int]
    <3>1. lines \in Seq(LineType)
      BY <2>1, <2>3, PlansAreTyped DEF Nodes
    <3>2. lines[j] \in LineType
      BY <2>7, <3>1, ElementOfSeq, LenProperties
    <3> QED BY <2>6, <2>7, <3>2 DEF LineType, SlotType, row
  <2>9. Belongs(row, o, meta)
    BY <2>1, <2>3, <2>6, <2>7, PlansAssumption DEF Nodes, row
  <2>10. Query = plan.asked /\ Query \in QueryType
    BY <2>1, PlansAreTyped DEF ArgsAreRead, Query
  <2>11. (\A x \in DOMAIN meta.covers : IsCover(meta, x)) /\ meta.multiplier \in Nat
    BY <2>1, PlansAreTyped
  <2>12. InOneYear(Query) /\ Matches(row, Query)
    BY <2>10 DEF WithinOneYear, InOneYear, row
  <2> HIDE DEF meta
  <2>13. o \in ToSet(Eligible(overlay.data_owners, Query, meta))
    BY <2>3, <2>8, <2>9, <2>10, <2>11, <2>12, EligibleAsks
  <2> QED BY <2>13 DEF Eligibles, meta
<1> QED BY <1>1, <1>2

(* routing.hpp:48: an owner that is not asked has no row that matches. *)
THEOREM NothingPrunedHolds ==
    ASSUME ArgsAreRead
    PROVE  Spec /\ []OverlayIsRead => []NothingPruned
BY LoadedHolds, NothingPrunedStep, PTL

-----------------------------------------------------------------------------
(* What the stores hold *)

(* What a file holds is what its lines parse to. *)
LEMMA RowsOfIs ==
    ASSUME NEW file, IsFile(file), NEW withLast, NEW upto \in Nat, upto <= Len(file.lines),
           upto = IF file.terminated \/ withLast THEN Len(file.lines) ELSE Len(file.lines) - 1
    PROVE  RowsOf(file, withLast) = Good(SubSeq(file.lines, 0 + 1, upto))
<1> DEFINE n == Len(file.lines)
           lines == file.lines
           part == SubSeq(lines, 0 + 1, upto)
           S == {l \in ToSet(file.lines) : l.width > 0 /\ l.row # Invalid}
           U == {l \in LineType : l.row \in Row}
           full == Filter(part, S)
<1>1. n \in Nat /\ lines \in Seq(LineType) /\ DOMAIN lines = 1..n
  BY LenProperties DEF IsFile
<1>2. /\ part \in Seq(LineType) /\ Len(part) = upto - 0
      /\ \A i \in 1..(upto - 0) : part[i] = lines[0 + i]
  <2>1. 0 \in Nat /\ 0 <= upto /\ upto <= Len(lines)
    OBVIOUS
  <2> HIDE DEF lines
  <2> QED BY <1>1, <2>1, PartIs
<1> HIDE DEF part
<1>3. ASSUME NEW i \in 1..Len(part) PROVE part[i] \in S <=> part[i] \in U
  <2>1. i \in 1..n /\ part[i] = lines[i] /\ part[i] \in LineType
    BY <1>1, <1>2, ElementOfSeq
  <2>2. part[i] \in ToSet(file.lines)
    BY <1>1, <2>1 DEF ToSet
  <2>3. part[i].row # Invalid <=> part[i].row \in Row
    BY <2>1, InvalidIsNoRow DEF LineType, SlotType, Row
  <2>4. part[i].row # Invalid => part[i].width > 0
    BY <2>1 DEF LineType
  <2> QED BY <2>1, <2>2, <2>3, <2>4
<1> HIDE DEF S
<1>4. full = Filter(part, U)
  <2> HIDE DEF U
  <2> QED BY <1>2, <1>3, FilterSame
<1>5. Rowing(Filter(part, U)) = Good(part)
  <2>1. \A l \in LineType : l \in U <=> l.row \in Row
    OBVIOUS
  <2> HIDE DEF U
  <2> QED BY <1>2, <2>1, GoodIs
<1>6. DOMAIN full = 1..Len(full)
  BY <1>2, FilterSeq, LenProperties
<1>7. RowsOf(file, withLast) = [k \in DOMAIN full |-> full[k].row]
  <2>1. 0 + 1 = 1
    OBVIOUS
  <2> QED BY <2>1 DEF RowsOf, S, part
<1> HIDE DEF full
<1>8. RowsOf(file, withLast) = Rowing(full)
  BY <1>6, <1>7 DEF Rowing
<1> QED BY <1>4, <1>5, <1>8 DEF part

LEMMA LoadIsCompleteStep ==
    ASSUME Loaded, OverlayIsRead
    PROVE  LoadIsComplete
<1> SUFFICES ASSUME phase # "load", NEW o \in Nodes \ Python
             PROVE  Filter(rows[o], ToSet(rows[o]) \ {Invalid}) \in Readings(o)
  BY DEF LoadIsComplete
<1> DEFINE file == plan.shards[o]
           n == Len(file.lines)
           s == rows[o]
           upto(hi) == SubSeq(file.lines, 0 + 1, hi)
<1>1. IsFile(file) /\ plan.threads \in Nat \ {0} /\ plan \in Plans
  BY PlansAreTyped DEF Loaded, Nodes, IsFile
<1>2. n \in Nat /\ file.lines \in Seq(LineType)
  BY <1>1, LenProperties DEF IsFile
<1>3. Filter(s, ToSet(s) \ {Invalid}) = Filter(s, Row)
  <2> DEFINE V == RowsIn(file) \cup {Invalid}
             S == ToSet(s) \ {Invalid}
  <2>1. s \in Seq(V)
    BY ShardRows
  <2>2. ASSUME NEW i \in 1..Len(s) PROVE s[i] \in S <=> s[i] \in Row
    <3>1. s[i] \in V /\ s[i] \in ToSet(s)
      <4>1. Len(s) \in Nat /\ DOMAIN s = 1..Len(s) /\ s[i] \in V
        BY <2>1, LenProperties, ElementOfSeq
      <4> QED BY <4>1 DEF ToSet
    <3>2. \A k \in DOMAIN file.lines : file.lines[k].row \in SlotType
      <4>1. \A k \in 1..n : file.lines[k] \in LineType
        BY <1>2, ElementOfSeq
      <4>2. DOMAIN file.lines = 1..n
        BY <1>2, LenProperties
      <4> QED BY <4>1, <4>2 DEF LineType
    <3>3. s[i] \in SlotType
      <4>1. \A v \in RowsIn(file) : v \in SlotType
        BY <3>2 DEF RowsIn
      <4> QED BY <3>1, <4>1 DEF SlotType
    <3>4. s[i] # Invalid <=> s[i] \in Row
      BY <3>3, InvalidIsNoRow DEF SlotType, Row
    <3> QED BY <3>1, <3>4
  <2> HIDE DEF S, V, s
  <2>3. Filter(s, S) = Filter(s, Row)
    BY <2>1, <2>2, FilterSame
  <2> QED BY <2>3 DEF S
<1>4. Readings(o) = {RowsOf(file, TRUE), RowsOf(file, FALSE)}
  BY DEF Readings
<1>5. RowsOf(file, TRUE) = Good(upto(n))
  <2>1. n \in Nat /\ n <= Len(file.lines)
        /\ n = IF file.terminated \/ TRUE THEN Len(file.lines) ELSE Len(file.lines) - 1
    BY <1>2
  <2> HIDE DEF file, n
  <2> QED BY <1>1, <2>1, RowsOfIs
<1>6. ~file.terminated /\ n > 0 => RowsOf(file, FALSE) = Good(upto(n - 1))
  <2> SUFFICES ASSUME ~file.terminated, n > 0 PROVE RowsOf(file, FALSE) = Good(upto(n - 1))
    OBVIOUS
  <2> DEFINE top == n - 1
  <2>1. top \in Nat /\ top <= Len(file.lines)
        /\ top = IF file.terminated \/ FALSE THEN Len(file.lines) ELSE Len(file.lines) - 1
    <3>1. ~(file.terminated \/ FALSE)
      OBVIOUS
    <3> HIDE DEF file
    <3> QED BY <1>2, <3>1
  <2> HIDE DEF top
  <2>2. RowsOf(file, FALSE) = Good(upto(top))
    BY <1>1, <2>1, RowsOfIs
  <2> QED BY <2>2 DEF top
<1>7. s = Shard(o)
  BY DEF Loaded
<1>8. CASE o \in ToSet(overlay.data_owners)
  <2>1. s = Load(file, plan.threads)
    BY <1>7, <1>8 DEF Shard
  <2>2. \/ Filter(s, Row) = Good(upto(n))
        \/ ~file.terminated /\ n > 0 /\ Filter(s, Row) = Good(upto(n - 1))
    <3> HIDE DEF file
    <3>1. \/ Filter(Load(file, plan.threads), Row) = Good(upto(n))
          \/ /\ ~file.terminated /\ n > 0
             /\ Filter(Load(file, plan.threads), Row) = Good(upto(n - 1))
      BY <1>1, LoadIs
    <3> HIDE DEF n, upto, s
    <3> QED BY <2>1, <3>1
  <2> HIDE DEF upto, s, n, file
  <2> QED BY <1>3, <1>4, <1>5, <1>6, <2>2 DEF s
<1>9. CASE o \notin ToSet(overlay.data_owners)
  <2>1. overlay.data_owners = plan.says.data_owners
    BY <1>1, OverlaySays DEF OverlayIsRead
  <2>2. file.lines = <<>> /\ n = 0
    <3>1. o \notin ToSet(plan.says.data_owners) /\ o \in DOMAIN plan.says.nodes
      BY <1>9, <2>1 DEF Nodes
    <3>2. file.lines = <<>>
      BY <1>1, <3>1, PlansAssumption
    <3> QED BY <3>2
  <2>3. s = <<>>
    BY <1>7, <1>9 DEF Shard
  <2>4. Filter(s, Row) = <<>>
    BY <2>3, FilterEmpty
  <2>5. Good(upto(n)) = <<>>
    <3>1. upto(n) = <<>>
      BY <2>2, SubSeqEmpty
    <3>2. Rowing(<<>>) = <<>>
      BY DEF Rowing
    <3> QED BY <3>1, <3>2, FilterEmpty DEF Good
  <2> HIDE DEF upto, s, n, file
  <2> QED BY <1>3, <1>4, <1>5, <2>4, <2>5 DEF s
<1> QED BY <1>8, <1>9

(* csv_store.hpp:73: whatever the number of threads and wherever the shares of
   the bytes end, a C++ owner that has read its overlay has every row of its
   file once and in order, or all but a last line that has no newline. *)
THEOREM LoadIsCompleteHolds == Spec /\ []OverlayIsRead => []LoadIsComplete
<1>1. Loaded /\ OverlayIsRead => LoadIsComplete
  BY LoadIsCompleteStep
<1> QED BY <1>1, LoadedHolds, PTL

-----------------------------------------------------------------------------
(* The breadth-first search *)

(* What is seen k hops from src. *)
Seen(edges, src, k) == Layers(edges, src)[k + 1]

Grown(edges, S) == S \cup UNION {Neighbours(edges, n) : n \in S}

Size1(edges) == Cardinality(NodesOf(edges))

LEMMA LayersAre ==
    ASSUME NEW edges, IsFiniteSet(NodesOf(edges)), NEW src
    PROVE  /\ DOMAIN Layers(edges, src) = 1..(Size1(edges) + 1)
           /\ Seen(edges, src, 0) = {src}
           /\ \A k \in Nat : k + 1 <= Size1(edges) =>
                 Seen(edges, src, k + 1) = Grown(edges, Seen(edges, src, k))
<1> DEFINE M == Size1(edges)
           X == NodesOf(edges) \cup {src}
           V == SUBSET X
           step == [k \in 1..M |-> [S \in V |-> Grown(edges, S)]]
           K(f) == f = [k \in 0..M |->
                          IF k = 0 THEN <<{src}>>
                          ELSE LET seen == f[k - 1]
                                   far  == seen[k]
                               IN  Append(seen, far \cup UNION {Neighbours(edges, n) : n \in far})]
           layers == CHOOSE f : K(f)
<1>1. M \in Nat
  BY FS_CardinalityType DEF Size1
<1>2. step \in [1..M -> [V -> V]]
  <2>1. ASSUME NEW S \in V PROVE Grown(edges, S) \in V
    BY DEF Grown, Neighbours
  <2> QED BY <2>1
<1>3. {src} \in V
  OBVIOUS
<1> HIDE DEF step, M, V
<1>4. PICK g \in [0..M -> V] : Recurs(g, M, {src}, step)
  BY <1>1, <1>2, <1>3, Recursion
<1>5. ASSUME NEW k \in 1..M PROVE g[k] = Grown(edges, g[k - 1])
  <2>1. g[k - 1] \in V
    BY <1>1, <1>4
  <2>2. g[k] = step[k][g[k - 1]]
    BY <1>4 DEF Recurs
  <2> QED BY <2>1, <2>2 DEF step
<1>6. g[0] = {src}
  BY <1>4 DEF Recurs
<1> DEFINE upto(k) == [i \in 1..(k + 1) |-> g[i - 1]]
           next(seen, k) == Append(seen, seen[k] \cup UNION {Neighbours(edges, n) : n \in seen[k]})
<1>7. ASSUME NEW k \in 1..M PROVE upto(k) = next(upto(k - 1), k)
  <2> DEFINE s == upto(k - 1)
             e == Grown(edges, g[k - 1])
  <2>1. s = [i \in 1..k |-> g[i - 1]]
    BY <1>1
  <2>2. s[k] = g[k - 1]
    BY <1>1, <2>1
  <2>3. \A i \in 1..k : g[i - 1] \in V
    BY <1>1, <1>4
  <2>4. s \in Seq(V)
    BY <1>1, <2>1, <2>3, IsASeq
  <2>5. e = g[k] /\ g[k] \in V
    BY <1>1, <1>4, <1>5
  <2>6. next(s, k) = Append(s, e)
    BY <2>2 DEF Grown
  <2>7. Len(s) = k
    BY <1>1, <2>1, <2>4, LenProperties
  <2> HIDE DEF s, e, next
  <2>8. /\ Append(s, e) \in Seq(V) /\ Len(Append(s, e)) = k + 1
        /\ Append(s, e)[k + 1] = e /\ \A i \in 1..k : Append(s, e)[i] = s[i]
    BY <2>4, <2>5, <2>7, AppendProperties
  <2>9. DOMAIN Append(s, e) = 1..(k + 1)
    BY <2>8, LenProperties
  <2>10. ASSUME NEW i \in 1..(k + 1) PROVE Append(s, e)[i] = g[i - 1]
    <3>1. CASE i = k + 1
      BY <2>5, <2>8, <3>1
    <3>2. CASE i # k + 1
      <4>1. i \in 1..k
        BY <3>2
      <4> QED BY <2>1, <2>8, <4>1
    <3> QED BY <3>1, <3>2
  <2>11. Append(s, e) = [i \in 1..(k + 1) |-> Append(s, e)[i]]
    BY <2>8, <2>9, LenProperties
  <2>12. Append(s, e) = [i \in 1..(k + 1) |-> g[i - 1]]
    BY <2>10, <2>11
  <2>13. next(s, k) = upto(k)
    BY <2>6, <2>12
  <2> QED BY <2>13 DEF s
<1>8. upto(0) = <<{src}>>
  <2>1. \A i \in 1..(0 + 1) : g[i - 1] = {src}
    BY <1>6
  <2>2. upto(0) = [i \in 1..1 |-> {src}]
    BY <2>1
  <2>3. <<{src}>> = [i \in 1..1 |-> {src}]
    OBVIOUS
  <2> QED BY <2>2, <2>3
<1> DEFINE f == [k \in 0..M |-> upto(k)]
<1>9. ASSUME NEW k \in 0..M
      PROVE  f[k] = IF k = 0 THEN <<{src}>> ELSE next(f[k - 1], k)
  <2>1. CASE k = 0
    BY <1>8, <2>1
  <2>2. CASE k # 0
    <3>1. k \in 1..M /\ k - 1 \in 0..M
      BY <1>1, <2>2
    <3>2. f[k] = upto(k) /\ f[k - 1] = upto(k - 1)
      BY <3>1
    <3> HIDE DEF f, upto, next
    <3> QED BY <1>7, <2>2, <3>1, <3>2
  <2> QED BY <2>1, <2>2
<1>10. f = [k \in 0..M |-> IF k = 0 THEN <<{src}>> ELSE next(f[k - 1], k)]
  <2> DEFINE h == [k \in 0..M |-> IF k = 0 THEN <<{src}>> ELSE next(f[k - 1], k)]
  <2>1. f = [k \in 0..M |-> f[k]] /\ h = [k \in 0..M |-> h[k]]
    OBVIOUS
  <2>2. \A k \in 0..M : h[k] = f[k]
    <3> HIDE DEF f, next
    <3> QED BY <1>9
  <2> HIDE DEF f, h
  <2>3. f = h
    BY <2>1, <2>2
  <2> QED BY <2>3 DEF h
<1>11. K(f)
  <2> HIDE DEF f
  <2> QED BY <1>10
<1>12. K(layers)
  <2> HIDE DEF f
  <2> QED BY <1>11
<1> HIDE DEF layers
<1>13. \A k \in Nat : k \in 0..M => layers[k] = f[k]
  <2> DEFINE A == {k \in Nat : k \in 0..M => layers[k] = f[k]}
  <2>1. ASSUME NEW k \in 0..M PROVE layers[k] = IF k = 0 THEN <<{src}>> ELSE next(layers[k - 1], k)
    BY <1>12, Zenon
  <2> HIDE DEF f, next
  <2>2. 0 \in A
    BY <1>1, <1>9, <2>1
  <2>3. ASSUME NEW k \in Nat, k \in A PROVE k + 1 \in A
    <3> SUFFICES ASSUME k + 1 \in 0..M PROVE layers[k + 1] = f[k + 1]
      OBVIOUS
    <3>1. k \in 0..M /\ (k + 1) - 1 = k /\ k + 1 # 0
      BY <1>1
    <3>2. layers[k] = f[k]
      BY <2>3, <3>1
    <3>3. layers[k + 1] = next(layers[k], k + 1) /\ f[k + 1] = next(f[k], k + 1)
      BY <1>9, <2>1, <3>1
    <3> QED BY <3>2, <3>3
  <2> HIDE DEF A
  <2>4. \A k \in Nat : k \in A
    BY <2>2, <2>3, NatInduct
  <2> QED BY <2>4 DEF A
<1>14. Layers(edges, src) = [i \in 1..(M + 1) |-> g[i - 1]]
  <2>1. Layers(edges, src) = layers[M]
    BY DEF Layers, layers, M, Size1
  <2>2. layers[M] = upto(M)
    BY <1>1, <1>13
  <2> QED BY <2>1, <2>2
<1>15. ASSUME NEW k \in 0..M PROVE Seen(edges, src, k) = g[k]
  BY <1>1, <1>14 DEF Seen
<1>16. Seen(edges, src, 0) = {src}
  BY <1>1, <1>6, <1>15
<1>17. ASSUME NEW k \in Nat, k + 1 <= M
       PROVE  Seen(edges, src, k + 1) = Grown(edges, Seen(edges, src, k))
  <2>1. k \in 0..M /\ k + 1 \in 1..M /\ k + 1 \in 0..M /\ (k + 1) - 1 = k
    BY <1>1, <1>17
  <2> QED BY <1>5, <1>15, <2>1
<1> QED BY <1>14, <1>16, <1>17 DEF M

(* What is seen at the start, and a hop further, over a connected overlay. *)
LEMMA SeenStart ==
    ASSUME NEW edges, Connected(edges)
    PROVE  \A src : Seen(edges, src, 0) = {src}
<1> SUFFICES ASSUME NEW src PROVE Seen(edges, src, 0) = {src}
  OBVIOUS
<1>1. IsFiniteSet(NodesOf(edges))
  BY DEF Connected
<1> QED BY <1>1, LayersAre

LEMMA SeenGrows ==
    ASSUME NEW edges, Connected(edges)
    PROVE  \A src : \A k \in Nat : k + 1 <= Size1(edges) =>
              Seen(edges, src, k + 1) = Grown(edges, Seen(edges, src, k))
<1> SUFFICES ASSUME NEW src
             PROVE  \A k \in Nat : k + 1 <= Size1(edges) =>
                       Seen(edges, src, k + 1) = Grown(edges, Seen(edges, src, k))
  OBVIOUS
<1>1. IsFiniteSet(NodesOf(edges))
  BY DEF Connected
<1> QED BY <1>1, LayersAre

LEMMA SizeType ==
    ASSUME NEW edges, Connected(edges)
    PROVE  Size1(edges) \in Nat
BY FS_CardinalityType DEF Connected, Size1

LEMMA NeighboursAre ==
    ASSUME NEW edges, NEW a \in NodesOf(edges), NEW b \in NodesOf(edges)
    PROVE  b \in Neighbours(edges, a) <=> a \in Neighbours(edges, b)
BY DEF Neighbours

LEMMA SeenNodes ==
    ASSUME NEW edges, Connected(edges), NEW a \in NodesOf(edges)
    PROVE  \A k \in Nat : k <= Size1(edges) => Seen(edges, a, k) \subseteq NodesOf(edges)
<1> DEFINE A == {k \in Nat : k <= Size1(edges) => Seen(edges, a, k) \subseteq NodesOf(edges)}
<1>1. 0 \in A
  BY SeenStart
<1>2. ASSUME NEW k \in Nat, k \in A PROVE k + 1 \in A
  <2> SUFFICES ASSUME k + 1 <= Size1(edges) PROVE Seen(edges, a, k + 1) \subseteq NodesOf(edges)
    OBVIOUS
  <2>1. Seen(edges, a, k + 1) = Grown(edges, Seen(edges, a, k))
    BY SeenGrows
  <2>2. Seen(edges, a, k) \subseteq NodesOf(edges)
    BY <1>2, SizeType
  <2> QED BY <2>1, <2>2 DEF Grown, Neighbours
<1> HIDE DEF A
<1>3. \A k \in Nat : k \in A
  BY <1>1, <1>2, NatInduct
<1> QED BY <1>3 DEF A

(* What is seen from a is what is seen, a hop earlier, from a or a neighbour. *)
LEMMA SeenByNeighbours ==
    ASSUME NEW edges, Connected(edges), NEW a \in NodesOf(edges)
    PROVE  \A k \in Nat : k + 1 <= Size1(edges) =>
              Seen(edges, a, k + 1) = UNION {Seen(edges, c, k) : c \in Grown(edges, {a})}
<1> DEFINE N == Grown(edges, {a})
           Both(k) == UNION {Seen(edges, c, k) : c \in N}
           P(k) == k + 1 <= Size1(edges) => Seen(edges, a, k + 1) = Both(k)
           A == {k \in Nat : P(k)}
<1>1. Size1(edges) \in Nat
  BY SizeType
<1>2. \A c : Seen(edges, c, 0) = {c}
  BY SeenStart
<1>3. \A c, k : k \in Nat /\ k + 1 <= Size1(edges) =>
         Seen(edges, c, k + 1) = Grown(edges, Seen(edges, c, k))
  BY SeenGrows
<1>4. P(0)
  <2> SUFFICES ASSUME 1 <= Size1(edges) PROVE Seen(edges, a, 0 + 1) = Both(0)
    OBVIOUS
  <2>1. Seen(edges, a, 0 + 1) = N
    <3>1. 0 \in Nat /\ 0 + 1 <= Size1(edges)
      OBVIOUS
    <3>2. Seen(edges, a, 0 + 1) = Grown(edges, Seen(edges, a, 0))
      BY <1>3, <3>1, Zenon
    <3> QED BY <1>2, <3>2
  <2>2. Both(0) = N
    <3> HIDE DEF N
    <3> QED BY <1>2
  <2> QED BY <2>1, <2>2
<1>5. ASSUME NEW k \in Nat, P(k) PROVE P(k + 1)
  <2> SUFFICES ASSUME (k + 1) + 1 <= Size1(edges)
               PROVE  Seen(edges, a, (k + 1) + 1) = Both(k + 1)
    OBVIOUS
  <2>1. k + 1 \in Nat /\ k + 1 <= Size1(edges)
    BY <1>1
  <2>2. Seen(edges, a, k + 1) = Both(k)
    BY <1>5, <2>1
  <2>3. Seen(edges, a, (k + 1) + 1) = Grown(edges, Both(k))
    BY <1>3, <2>1, <2>2
  <2>4. \A c : Seen(edges, c, k + 1) = Grown(edges, Seen(edges, c, k))
    BY <1>3, <2>1
  <2> HIDE DEF N
  <2>5. Grown(edges, Both(k)) = Both(k + 1)
    BY <2>4 DEF Grown
  <2> QED BY <2>3, <2>5
<1> HIDE DEF P
<1>6. 0 \in A /\ \A k \in Nat : k \in A => k + 1 \in A
  BY <1>4, <1>5
<1> HIDE DEF A
<1>7. \A k \in Nat : k \in A
  BY <1>6, NatInduct
<1> QED BY <1>7 DEF A, P

LEMMA SeenSymmetric ==
    ASSUME NEW edges, Connected(edges)
    PROVE  \A k \in Nat : k <= Size1(edges) =>
              \A a, b \in NodesOf(edges) : b \in Seen(edges, a, k) <=> a \in Seen(edges, b, k)
<1> DEFINE A == {k \in Nat : k <= Size1(edges) =>
              \A a, b \in NodesOf(edges) : b \in Seen(edges, a, k) <=> a \in Seen(edges, b, k)}
<1>1. Size1(edges) \in Nat
  BY SizeType
<1>2. 0 \in A
  BY SeenStart
<1>3. ASSUME NEW k \in Nat, k \in A PROVE k + 1 \in A
  <2> SUFFICES ASSUME k + 1 <= Size1(edges),
                      NEW a \in NodesOf(edges), NEW b \in NodesOf(edges)
               PROVE  b \in Seen(edges, a, k + 1) <=> a \in Seen(edges, b, k + 1)
    OBVIOUS
  <2>1. Seen(edges, a, k + 1) = Grown(edges, Seen(edges, a, k))
    BY SeenGrows
  <2>2. Seen(edges, b, k + 1) = UNION {Seen(edges, c, k) : c \in Grown(edges, {b})}
    BY SeenByNeighbours
  <2>3. Seen(edges, a, k) \subseteq NodesOf(edges)
    BY <1>1, SeenNodes
  <2>4. Grown(edges, {b}) \subseteq NodesOf(edges)
    BY DEF Grown, Neighbours
  <2>5. \A c \in NodesOf(edges) : c \in Seen(edges, a, k) <=> a \in Seen(edges, c, k)
    BY <1>1, <1>3
  <2>6. \A c \in NodesOf(edges) : c \in Grown(edges, {b}) <=> (c = b \/ b \in Neighbours(edges, c))
    BY NeighboursAre DEF Grown
  <2>7. b \in Seen(edges, a, k + 1) <=>
           \E c \in NodesOf(edges) : c \in Seen(edges, a, k) /\ (c = b \/ b \in Neighbours(edges, c))
    BY <2>1, <2>3 DEF Grown
  <2>8. a \in Seen(edges, b, k + 1) <=>
           \E c \in NodesOf(edges) : c \in Grown(edges, {b}) /\ a \in Seen(edges, c, k)
    BY <2>2, <2>4
  <2> QED BY <2>5, <2>6, <2>7, <2>8
<1> HIDE DEF A
<1>4. \A k \in Nat : k \in A
  BY <1>2, <1>3, NatInduct
<1> QED BY <1>4 DEF A

LEMMA AllSeen ==
    ASSUME NEW edges, Connected(edges), NEW a \in NodesOf(edges)
    PROVE  Seen(edges, a, Size1(edges)) = NodesOf(edges)
<1> DEFINE M == Size1(edges)
           S(k) == Seen(edges, a, k)
           Wide(k) == S(k) = NodesOf(edges) \/ Cardinality(S(k)) > k
           A == {k \in Nat : k <= M => a \in S(k) /\ Wide(k)}
<1>1. M \in Nat /\ IsFiniteSet(NodesOf(edges)) /\ Cardinality(NodesOf(edges)) = M
  BY SizeType DEF Connected, Size1
<1>2. ASSUME NEW k \in Nat, k <= M
      PROVE  /\ S(k) \subseteq NodesOf(edges) /\ IsFiniteSet(S(k))
             /\ Cardinality(S(k)) \in Nat /\ Cardinality(S(k)) <= M
  <2>1. S(k) \subseteq NodesOf(edges)
    BY <1>2, SeenNodes
  <2>2. IsFiniteSet(S(k)) /\ Cardinality(S(k)) <= M
    BY <1>1, <2>1, FS_Subset
  <2> QED BY <2>1, <2>2, FS_CardinalityType
<1>3. 0 \in A
  <2>1. S(0) = {a}
    BY SeenStart
  <2>2. Cardinality(S(0)) = 1
    BY <2>1, FS_Singleton
  <2> QED BY <2>1, <2>2
<1>4. ASSUME NEW k \in Nat, k \in A PROVE k + 1 \in A
  <2> SUFFICES ASSUME k + 1 <= M PROVE a \in S(k + 1) /\ Wide(k + 1)
    OBVIOUS
  <2>1. k <= M /\ a \in S(k) /\ Wide(k)
    BY <1>1, <1>4
  <2>2. S(k + 1) = Grown(edges, S(k))
    BY SeenGrows
  <2>3. S(k) \subseteq S(k + 1) /\ S(k + 1) \subseteq NodesOf(edges)
    BY <1>2, <2>2 DEF Grown
  <2>4. CASE S(k) = NodesOf(edges)
    BY <2>1, <2>3, <2>4
  <2>5. CASE S(k) # NodesOf(edges)
    <3>1. PICK n \in S(k) : ~ (Neighbours(edges, n) \subseteq S(k))
      BY <1>2, <2>1, <2>5 DEF Connected
    <3>2. S(k) # S(k + 1)
      BY <2>2, <3>1 DEF Grown
    <3>3. IsFiniteSet(S(k + 1)) /\ Cardinality(S(k + 1)) \in Nat /\ Cardinality(S(k)) \in Nat
      BY <1>2, <2>1
    <3>4. Cardinality(S(k)) < Cardinality(S(k + 1))
      BY <2>3, <3>2, <3>3, Smaller
    <3>5. Cardinality(S(k)) > k
      BY <2>1, <2>5
    <3>6. Cardinality(S(k + 1)) > k + 1
      BY <3>3, <3>4, <3>5
    <3> QED BY <2>1, <2>3, <3>6
  <2> QED BY <2>4, <2>5
<1> HIDE DEF A
<1>5. \A k \in Nat : k \in A
  BY <1>3, <1>4, NatInduct
<1>6. Wide(M)
  BY <1>1, <1>5 DEF A
<1> QED BY <1>1, <1>2, <1>6

(* The distance of b from a is the first layer that has b. *)
LEMMA DistanceIs ==
    ASSUME NEW edges, Connected(edges),
           NEW a \in NodesOf(edges), NEW b \in NodesOf(edges)
    PROVE  LET d == Distances(edges, a)[b]
           IN  /\ d \in Nat /\ d <= Size1(edges)
               /\ b \in Seen(edges, a, d)
               /\ \A j \in Nat : j <= Size1(edges) /\ b \in Seen(edges, a, j) => d <= j
<1> DEFINE M == Size1(edges)
           L == Layers(edges, a)
           K == {k \in DOMAIN L : b \in L[k]}
           d == Distances(edges, a)[b]
<1>1. M \in Nat /\ DOMAIN L = 1..(M + 1)
  BY SizeType, LayersAre DEF Connected
<1>2. d = Min(K) - 1
  BY DEF Distances
<1>3. b \in L[M + 1]
  BY AllSeen DEF Seen
<1> HIDE DEF M, L, d
<1>4. M + 1 \in K /\ K \subseteq Nat
  BY <1>1, <1>3
<1>5. Min(K) \in K /\ \A k \in K : Min(K) <= k
  BY <1>4, MinOfNat
<1>6. Min(K) \in 1..(M + 1) /\ b \in L[Min(K)]
  BY <1>1, <1>5
<1>7. d \in Nat /\ d <= M /\ d + 1 = Min(K)
  BY <1>1, <1>2, <1>6
<1>8. b \in Seen(edges, a, d)
  BY <1>6, <1>7 DEF Seen, L
<1>9. ASSUME NEW j \in Nat, j <= M, b \in Seen(edges, a, j) PROVE d <= j
  <2>1. j + 1 \in K
    BY <1>1, <1>9 DEF Seen, L
  <2>2. Min(K) <= j + 1
    BY <1>5, <2>1
  <2> HIDE DEF K
  <2> QED BY <1>7, <2>2
<1> QED BY <1>7, <1>8, <1>9 DEF M, d

LEMMA DistanceSymmetric ==
    ASSUME NEW edges, Connected(edges),
           NEW a \in NodesOf(edges), NEW b \in NodesOf(edges)
    PROVE  Distances(edges, a)[b] = Distances(edges, b)[a]
<1> DEFINE d == Distances(edges, a)[b]
           e == Distances(edges, b)[a]
<1>1. /\ d \in Nat /\ d <= Size1(edges) /\ b \in Seen(edges, a, d)
      /\ \A j \in Nat : j <= Size1(edges) /\ b \in Seen(edges, a, j) => d <= j
  BY DistanceIs
<1>2. /\ e \in Nat /\ e <= Size1(edges) /\ a \in Seen(edges, b, e)
      /\ \A j \in Nat : j <= Size1(edges) /\ a \in Seen(edges, b, j) => e <= j
  BY DistanceIs
<1> HIDE DEF d, e
<1>3. a \in Seen(edges, b, d) /\ b \in Seen(edges, a, e)
  BY <1>1, <1>2, SeenSymmetric
<1>4. d <= e /\ e <= d
  BY <1>1, <1>2, <1>3
<1>5. d = e
  BY <1>1, <1>2, <1>4
<1> QED BY <1>5 DEF d, e

(* A node that is not the target has a neighbour one hop nearer. *)
LEMMA NearerNeighbour ==
    ASSUME NEW edges, Connected(edges),
           NEW src \in NodesOf(edges), NEW dst \in NodesOf(edges), src # dst
    PROVE  \E nb \in Neighbours(edges, src) :
              Distances(edges, dst)[nb] = Distances(edges, dst)[src] - 1
<1> DEFINE M == Size1(edges)
           d == Distances(edges, dst)[src]
<1>1. M \in Nat
  BY SizeType
<1>2. /\ d \in Nat /\ d <= M /\ src \in Seen(edges, dst, d)
      /\ \A j \in Nat : j <= M /\ src \in Seen(edges, dst, j) => d <= j
  BY DistanceIs
<1> HIDE DEF d, M
<1>3. d # 0
  BY <1>2, SeenStart
<1>4. d - 1 \in Nat /\ (d - 1) + 1 = d /\ d - 1 <= M
  BY <1>1, <1>2, <1>3
<1>5. \A k \in Nat : k + 1 <= M => Seen(edges, dst, k + 1) = Grown(edges, Seen(edges, dst, k))
  BY SeenGrows DEF M
<1>6. src \notin Seen(edges, dst, d - 1)
  BY <1>2, <1>4
<1>7. Seen(edges, dst, d) = Grown(edges, Seen(edges, dst, d - 1))
  BY <1>2, <1>4, <1>5
<1>8. PICK n \in Seen(edges, dst, d - 1) : src \in Neighbours(edges, n)
  BY <1>2, <1>6, <1>7 DEF Grown
<1>9. n \in NodesOf(edges)
  BY <1>4, <1>8, SeenNodes DEF M
<1>10. n \in Neighbours(edges, src)
  BY <1>8, <1>9, NeighboursAre
<1> DEFINE e == Distances(edges, dst)[n]
<1>11. /\ e \in Nat /\ e <= M /\ n \in Seen(edges, dst, e)
       /\ \A j \in Nat : j <= M /\ n \in Seen(edges, dst, j) => e <= j
  BY <1>9, DistanceIs DEF M
<1> HIDE DEF e
<1>12. e <= d - 1
  BY <1>4, <1>8, <1>11
<1>13. e + 1 \in Nat /\ e + 1 <= M
  BY <1>1, <1>2, <1>4, <1>11, <1>12
<1>14. src \in Seen(edges, dst, e + 1)
  BY <1>5, <1>8, <1>11, <1>13 DEF Grown
<1>15. d <= e + 1
  BY <1>2, <1>13, <1>14
<1>16. e = d - 1
  BY <1>2, <1>11, <1>12, <1>15
<1> QED BY <1>10, <1>16 DEF e, d

(* topology/generator.py:195: on every connected overlay, every entry of the
   table that is written leads to a neighbour one hop nearer. *)
THEOREM GeneratorApproaches ==
    ASSUME NEW edges, Connected(edges)
    PROVE  Approaches(Routing(edges), edges)
<1> SUFFICES ASSUME NEW src \in NodesOf(edges), NEW dst \in NodesOf(edges), src # dst
             PROVE  LET hop == Routing(edges)[src][dst]
                    IN  /\ hop \in Neighbours(edges, src)
                        /\ Distances(edges, dst)[hop] = Distances(edges, dst)[src] - 1
  BY DEF Approaches
<1> DEFINE far == Distances(edges, dst)
           S == {nb \in Neighbours(edges, src) : far[nb] = far[src] - 1}
<1>1. Routing(edges)[src][dst] = Min(S)
  BY DEF Routing, BfsNextHop
<1>2. S # {}
  BY NearerNeighbour
<1>3. S \subseteq Nat
  BY DEF Neighbours, Connected
<1> HIDE DEF S
<1>4. Min(S) \in S
  BY <1>2, <1>3, MinOfNat
<1> QED BY <1>1, <1>4 DEF S

(* topology/generator.py:195: every connected overlay that the generator writes
   meets what the two theorems on calls below suppose of a plan. *)
THEOREM GeneratedIsRouted ==
    ASSUME NEW p, NEW edges, edges = ToSet(p.says.edges), p.says.routing = Routing(edges),
           Connected(edges), Gateway \in NodesOf(edges), DOMAIN p.says.nodes = NodesOf(edges),
           ToSet(p.says.data_owners) \subseteq NodesOf(edges)
    PROVE  WellRouted(p)
<1>1. Approaches(p.says.routing, edges)
  BY GeneratorApproaches
<1>2. /\ DOMAIN Routing(edges) = NodesOf(edges)
      /\ DOMAIN Routing(edges)[Gateway] = NodesOf(edges)
  BY DEF Routing, BfsNextHop
<1> QED BY <1>1, <1>2 DEF WellRouted

-----------------------------------------------------------------------------
(* Calls *)

(* The owners that are called. *)
Called == ToSet(plan.says.data_owners) \ {Gateway}

Hops(n, target) == Distances(Edges, target)[n]

(* A forward that set out with ttl 8 has lost one of it with every hop but the
   first. *)
OnItsWay ==
    /\ call \in [at : Nodes, target : Called, ttl : Int]
    /\ phase = "forward" => call.ttl - Hops(call.at, call.target) = 9 - Hops(Gateway, call.target)

CallsApproach ==
    /\ pending \in Seq(Called)
    /\ phase \in {"load", "submit"} => call = NoCall /\ refused = {}
    /\ call # NoCall => OnItsWay
    /\ refused \subseteq Called
    /\ TableIsFull => \A o \in refused : Hops(Gateway, o) > 8

Setting == Loaded /\ OverlayIsRead /\ WellRouted(plan)

-----------------------------------------------------------------------------
LEMMA RoutedPlan ==
    ASSUME Setting
    PROVE  /\ plan \in Plans /\ Connected(Edges) /\ Nodes = NodesOf(Edges)
           /\ Gateway \in Nodes /\ Called \subseteq Nodes
<1>1. plan \in Plans
  BY DEF Setting, Loaded
<1>2. plan.says.data_owners \in Seq(Nodes)
  BY <1>1, PlansAreTyped DEF Nodes
<1>3. ToSet(plan.says.data_owners) \subseteq Nodes
  BY <1>2, ElementOfSeq, LenProperties DEF ToSet
<1> QED BY <1>1, <1>3 DEF Setting, WellRouted, Nodes, Edges, Called

LEMMA HopsType ==
    ASSUME Setting, NEW a \in Nodes, NEW b \in Nodes
    PROVE  Hops(a, b) \in Nat
BY RoutedPlan, DistanceIs DEF Hops

LEMMA HopIs ==
    ASSUME Setting, phase # "load", NEW n, NEW target
    PROVE  HopAt(n, target) = NextHop(plan.says.routing, n, target)
<1>1. plan \in Plans /\ overlay = Overridden(plan.says, plan.env)
  BY DEF Setting, Loaded, OverlayIsRead
<1>2. overlay.routing = plan.says.routing
  BY <1>1, OverlaySays
<1> QED BY <1>2 DEF HopAt, OverlayAt

(* An entry that a relay uses leads nearer. *)
LEMMA HopNearer ==
    ASSUME Setting, phase # "load", NEW n \in Nodes, NEW target \in Nodes, n # target,
           HopAt(n, target) # NoRoute
    PROVE  /\ HopAt(n, target) \in Nodes
           /\ Nearer(n, HopAt(n, target), target)
           /\ Hops(HopAt(n, target), target) = Hops(n, target) - 1
<1> DEFINE hop == NextHop(plan.says.routing, n, target)
<1>1. HopAt(n, target) = hop
  BY HopIs
<1>2. Approaches(plan.says.routing, Edges) /\ Nodes = NodesOf(Edges)
  BY RoutedPlan DEF Setting, WellRouted, Edges
<1>3. hop # NoRoute
  BY <1>1
<1>4. /\ hop \in Neighbours(Edges, n)
      /\ Distances(Edges, target)[hop] = Distances(Edges, target)[n] - 1
  BY <1>2, <1>3 DEF Approaches, NextHop
<1> HIDE DEF hop
<1>5. hop \in Nodes
  BY <1>2, <1>4 DEF Neighbours
<1> QED BY <1>1, <1>4, <1>5 DEF Nearer, Hops

LEMMA GatewayHop ==
    ASSUME Setting, phase # "load", NEW o \in Called
    PROVE  HopAt(Gateway, o) # NoRoute /\ o # Gateway
<1> DEFINE routing == plan.says.routing
<1>1. /\ o \in Nodes /\ o # Gateway /\ Gateway \in Nodes
      /\ Nodes = NodesOf(Edges) /\ Connected(Edges)
  BY RoutedPlan DEF Called
<1>2. /\ Approaches(routing, Edges) /\ Gateway \in DOMAIN routing
      /\ o \in DOMAIN routing[Gateway]
  BY DEF Setting, WellRouted, Called, Edges
<1> HIDE DEF routing
<1>3. routing[Gateway][o] \in Neighbours(Edges, Gateway)
  BY <1>1, <1>2 DEF Approaches
<1>4. routing[Gateway][o] \in Nat
  BY <1>1, <1>3 DEF Neighbours, Connected
<1>5. HopAt(Gateway, o) = NextHop(routing, Gateway, o)
  BY HopIs DEF routing
<1> QED BY <1>1, <1>2, <1>4, <1>5 DEF NextHop, NoRoute

LEMMA EligibleSubset ==
    ASSUME NEW O, NEW all \in Seq(O), NEW query, NEW meta
    PROVE  Eligible(all, query, meta) \in Seq(O)
<1>1. ASSUME NEW S PROVE Filter(all, S) \in Seq(O)
  BY FilterSeq
<1>2. ASSUME NEW p PROVE HashedOwners(all, p, meta) \in Seq(O)
  BY <1>1 DEF HashedOwners
<1>3. \A S : Filter(all, S) \in Seq(O)
  BY <1>1
<1>4. HashedOwners(all, Head(Clustering(query, meta)), meta) \in Seq(O)
  BY <1>2
<1> QED BY <1>3, <1>4 DEF Eligible

LEMMA RemotesType ==
    ASSUME Setting, phase # "load"
    PROVE  Remotes \in Seq(Called)
<1> DEFINE O == ToSet(plan.says.data_owners)
           S == ToSet(Eligibles) \ {Gateway}
<1>1. plan \in Plans /\ overlay = Overridden(plan.says, plan.env)
  BY DEF Setting, Loaded, OverlayIsRead
<1>2. overlay.data_owners = plan.says.data_owners
  BY <1>1, OverlaySays
<1>3. plan.says.data_owners \in Seq(O)
  <2>1. plan.says.data_owners \in Seq(DOMAIN plan.says.nodes)
    BY <1>1, PlansAreTyped
  <2> DEFINE s == plan.says.data_owners
  <2>2. /\ Len(s) \in Nat /\ s = [i \in 1..Len(s) |-> s[i]] /\ DOMAIN s = 1..Len(s)
    BY <2>1, LenProperties
  <2>3. \A i \in 1..Len(s) : s[i] \in ToSet(s)
    BY <2>2 DEF ToSet
  <2> HIDE DEF s
  <2>4. [i \in 1..Len(s) |-> s[i]] \in Seq(ToSet(s))
    BY <2>2, <2>3, IsASeq
  <2>5. s \in Seq(ToSet(s))
    BY <2>2, <2>4
  <2> QED BY <2>5 DEF s
<1> HIDE DEF O
<1>4. Eligibles \in Seq(O)
  BY <1>2, <1>3, EligibleSubset DEF Eligibles
<1> HIDE DEF S
<1>5. Remotes \in Seq(O \cap S)
  BY <1>4, FilterSubset DEF Remotes, S
<1>6. O \cap S \subseteq Called
  BY DEF O, S, Called
<1> QED BY <1>5, <1>6, SeqMonotonic

-----------------------------------------------------------------------------
(* The parts of a state that the invariant looks at besides the calls stay. *)
LEMMA SamePlan ==
    ASSUME UNCHANGED <<plan, overlay>>
    PROVE  /\ Nodes' = Nodes /\ Called' = Called /\ Edges' = Edges /\ TableIsFull' = TableIsFull
           /\ \A n, o : Hops(n, o)' = Hops(n, o) /\ HopAt(n, o)' = HopAt(n, o)
BY DEF Nodes, Called, Edges, TableIsFull, Hops, HopAt, OverlayAt, Python

LEMMA SendKeeps ==
    ASSUME Setting, phase \in {"forward", "pull"}, CallsApproach, NEW ttl \in Int, Send(ttl),
           phase = "forward" => ttl = 8
    PROVE  CallsApproach' /\ Nearer(Gateway, call'.at, call'.target)
<1> DEFINE o == Head(pending)
<1>1. /\ pending \in Seq(Called) /\ pending # <<>>
      /\ call' = [at |-> HopAt(Gateway, o), target |-> o, ttl |-> ttl]
      /\ pending' = Tail(pending)
      /\ UNCHANGED <<plan, phase, overlay, refused>>
  BY DEF Send, CallsApproach
<1>2. o \in Called /\ pending' \in Seq(Called)
  BY <1>1, HeadTailProperties
<1> HIDE DEF o
<1>3. o \in Nodes /\ Gateway \in Nodes
  BY <1>2, RoutedPlan
<1>4. HopAt(Gateway, o) # NoRoute /\ o # Gateway
  BY <1>2, GatewayHop
<1>5. /\ HopAt(Gateway, o) \in Nodes
      /\ Nearer(Gateway, HopAt(Gateway, o), o)
      /\ Hops(HopAt(Gateway, o), o) = Hops(Gateway, o) - 1
  BY <1>3, <1>4, HopNearer
<1>6. Hops(Gateway, o) \in Nat
  BY <1>3, HopsType
<1>7. call'.at = HopAt(Gateway, o) /\ call'.target = o /\ call'.ttl = ttl
  BY <1>1
<1>8. OnItsWay'
  <2>1. phase = "forward" => ttl - Hops(HopAt(Gateway, o), o) = 9 - Hops(Gateway, o)
    BY <1>5, <1>6
  <2> QED BY <1>1, <1>2, <1>5, <1>7, <2>1, SamePlan DEF OnItsWay
<1> QED BY <1>1, <1>2, <1>5, <1>7, <1>8, SamePlan DEF CallsApproach

LEMMA RelayKeeps ==
    ASSUME Setting, phase # "load", CallsApproach, call # NoCall, call.at # call.target, ~Stuck,
           NEW ttl \in Int, phase = "forward" => ttl = call.ttl - 1,
           call'.at = Onward, call'.target = call.target, call'.ttl = ttl,
           call' \in [at : {Onward}, target : {call.target}, ttl : Int],
           UNCHANGED <<plan, phase, overlay, pending, refused>>
    PROVE  CallsApproach' /\ Nearer(call.at, call'.at, call'.target)
<1> DEFINE n == call.at
           o == call.target
<1>1. n \in Nodes /\ o \in Called /\ call.ttl \in Int
      /\ (phase = "forward" => call.ttl - Hops(n, o) = 9 - Hops(Gateway, o))
  BY DEF CallsApproach, OnItsWay
<1>2. o \in Nodes /\ Gateway \in Nodes /\ n # o
  BY <1>1, RoutedPlan
<1>3. HopAt(n, o) # NoRoute /\ call'.at = HopAt(n, o) /\ call'.target = o
  BY DEF Stuck, Onward
<1> HIDE DEF n, o
<1>4. /\ HopAt(n, o) \in Nodes
      /\ Nearer(n, HopAt(n, o), o)
      /\ Hops(HopAt(n, o), o) = Hops(n, o) - 1
  BY <1>1, <1>2, <1>3, HopNearer
<1>5. Hops(n, o) \in Nat /\ Hops(Gateway, o) \in Nat
  BY <1>1, <1>2, HopsType
<1>6. phase = "forward" => ttl - Hops(HopAt(n, o), o) = 9 - Hops(Gateway, o)
  <2>1. phase = "forward" => ttl = call.ttl - 1
    OBVIOUS
  <2> QED BY <1>1, <1>4, <1>5, <2>1
<1>7. OnItsWay'
  BY <1>1, <1>3, <1>4, <1>6, SamePlan DEF OnItsWay
<1>8. phase \notin {"load", "submit"}
  BY DEF CallsApproach
<1> QED BY <1>3, <1>4, <1>7, <1>8, SamePlan DEF CallsApproach, n

(* node.cpp:496-521: with a full table, a forward is refused only because its
   ttl is used up, and then the owner is far away. *)
LEMMA RefusalKeeps ==
    ASSUME Setting, phase # "load", CallsApproach, ForwardRefused
    PROVE  CallsApproach'
<1> DEFINE n == call.at
           o == call.target
<1>1. /\ phase = "forward" /\ call # NoCall /\ call' = NoCall /\ refused' = refused \cup {o}
      /\ call.ttl <= 0 \/ (n # o /\ Stuck)
      /\ UNCHANGED <<plan, phase, overlay, pending>>
  BY DEF ForwardRefused, Calling
<1>2. n \in Nodes /\ o \in Called /\ call.ttl \in Int
      /\ call.ttl - Hops(n, o) = 9 - Hops(Gateway, o)
  BY <1>1 DEF CallsApproach, OnItsWay
<1>3. o \in Nodes /\ Gateway \in Nodes
  BY <1>2, RoutedPlan
<1>4. Hops(n, o) \in Nat /\ Hops(Gateway, o) \in Nat
  BY <1>2, <1>3, HopsType
<1>5. ASSUME TableIsFull PROVE Hops(Gateway, o) > 8
  <2>1. CASE call.ttl <= 0
    BY <1>2, <1>4, <2>1
  <2>2. ASSUME n # o, Stuck PROVE FALSE
    <3>1. HopAt(n, o) # NoRoute
      BY <1>2, <1>3, <1>5 DEF TableIsFull
    <3>2. HopAt(n, o) = n
      BY <2>2, <3>1 DEF Stuck, Onward
    <3>3. Hops(HopAt(n, o), o) = Hops(n, o) - 1
      BY <1>2, <1>3, <2>2, <3>1, HopNearer
    <3> QED BY <1>4, <3>2, <3>3
  <2> QED BY <1>1, <2>1, <2>2
<1> HIDE DEF n, o
<1>6. refused' \subseteq Called /\ (TableIsFull => \A x \in refused' : Hops(Gateway, x) > 8)
  BY <1>1, <1>2, <1>5 DEF CallsApproach
<1> QED BY <1>1, <1>6, SamePlan DEF CallsApproach

LEMMA CallsInit ==
    ASSUME Init
    PROVE  CallsApproach
<1>1. pending = <<>> /\ call = NoCall /\ refused = {}
  BY DEF Init
<1> QED BY <1>1, EmptySeq DEF CallsApproach

(* What a step does to the calls. *)
LEMMA CallsStep ==
    ASSUME Setting, Setting', CallsApproach, [Next \/ Rest]_vars
    PROVE  /\ CallsApproach'
           /\ \/ UNCHANGED vars
              \/ /\ call = NoCall /\ call' # NoCall => Nearer(Gateway, call'.at, call'.target)
                 /\ call # NoCall /\ call' # NoCall => Nearer(call.at, call'.at, call'.target)
<1>1. CASE StartNodes
  <2>1. phase = "load" /\ call = NoCall /\ refused = {}
    BY <1>1 DEF StartNodes, CallsApproach
  <2>2. plan' = plan /\ phase' = "submit" /\ UNCHANGED <<pending, call, refused>>
    BY <1>1 DEF StartNodes
  <2>3. Called' = Called
    BY <2>2 DEF Called
  <2> QED BY <2>1, <2>2, <2>3 DEF CallsApproach
<1>2. CASE SubmitQuery
  <2>1. /\ phase = "submit" /\ phase' = "forward" /\ pending' = Remotes
        /\ UNCHANGED <<plan, overlay, call, refused>>
    BY <1>2 DEF SubmitQuery
  <2>2. call = NoCall /\ refused = {}
    BY <2>1 DEF CallsApproach
  <2>3. Remotes \in Seq(Called)
    BY <2>1, RemotesType
  <2> QED BY <2>1, <2>2, <2>3, SamePlan DEF CallsApproach
<1>3. CASE SendForward
  <2>1. phase = "forward" /\ Send(8)
    BY <1>3 DEF SendForward, InitialTtl
  <2>2. call = NoCall
    BY <2>1 DEF Send
  <2> QED BY <2>1, <2>2, SendKeeps
<1>4. CASE SendPull
  <2>1. phase = "pull" /\ Send(0)
    BY <1>4 DEF SendPull
  <2>2. call = NoCall
    BY <2>1 DEF Send
  <2> QED BY <2>1, <2>2, SendKeeps
<1>5. CASE ForwardRelayed
  <2>1. /\ phase = "forward" /\ call # NoCall /\ call.at # call.target /\ ~Stuck
        /\ call' = [call EXCEPT !.at = Onward, !.ttl = @ - 1]
        /\ UNCHANGED <<plan, phase, overlay, pending, refused>>
    BY <1>5 DEF ForwardRelayed, Calling
  <2>2. call \in [at : Nodes, target : Called, ttl : Int]
    BY <2>1 DEF CallsApproach, OnItsWay
  <2>3. call' = [at |-> Onward, target |-> call.target, ttl |-> call.ttl - 1]
    BY <2>1, <2>2
  <2>4. call.ttl - 1 \in Int
    BY <2>2
  <2>5. /\ call'.at = Onward /\ call'.target = call.target /\ call'.ttl = call.ttl - 1
        /\ call' \in [at : {Onward}, target : {call.target}, ttl : Int]
    BY <2>3, <2>4
  <2> QED BY <2>1, <2>4, <2>5, RelayKeeps
<1>6. CASE PullRelayed
  <2>1. /\ phase = "pull" /\ call # NoCall /\ call.at # call.target /\ ~Stuck
        /\ call' = [call EXCEPT !.at = Onward]
        /\ UNCHANGED <<plan, phase, overlay, pending, refused>>
    BY <1>6 DEF PullRelayed, Calling
  <2>2. call \in [at : Nodes, target : Called, ttl : Int]
    BY <2>1 DEF CallsApproach, OnItsWay
  <2>3. /\ call'.at = Onward /\ call'.target = call.target /\ call'.ttl = call.ttl
        /\ call.ttl \in Int /\ call' \in [at : {Onward}, target : {call.target}, ttl : Int]
    BY <2>1, <2>2
  <2> QED BY <2>1, <2>3, RelayKeeps
<1>7. CASE ForwardRefused
  <2>1. phase # "load" /\ call' = NoCall
    BY <1>7 DEF ForwardRefused, Calling
  <2> QED BY <1>7, <2>1, RefusalKeeps
<1>8. CASE ForwardAccepted \/ PullFailed \/ PullServed
  <2>1. /\ call' = NoCall /\ phase \in {"forward", "pull"}
        /\ UNCHANGED <<plan, phase, overlay, pending, refused>>
    BY <1>8 DEF ForwardAccepted, PullFailed, PullServed, Calling
  <2> QED BY <2>1, SamePlan DEF CallsApproach
<1>9. CASE StartPulls
  <2>1. /\ phase = "forward" /\ phase' = "pull" /\ pending' = Remotes /\ call = NoCall
        /\ UNCHANGED <<plan, overlay, call, refused>>
    BY <1>9 DEF StartPulls
  <2>2. Remotes \in Seq(Called)
    BY <2>1, RemotesType
  <2> QED BY <2>1, <2>2, SamePlan DEF CallsApproach
<1>10. CASE Finish
  <2>1. /\ phase = "pull" /\ phase' = "done" /\ call = NoCall
        /\ UNCHANGED <<plan, overlay, pending, call, refused>>
    BY <1>10 DEF Finish
  <2> QED BY <2>1, SamePlan DEF CallsApproach
<1>11. CASE Rest \/ UNCHANGED vars
  <2>0. UNCHANGED vars
    BY <1>11 DEF Rest
  <2>1. UNCHANGED <<plan, phase, overlay, pending, call, refused>>
    BY <2>0 DEF vars
  <2>2. OnItsWay' = OnItsWay
    BY <2>1, SamePlan DEF OnItsWay
  <2> QED BY <2>0, <2>1, <2>2, SamePlan DEF CallsApproach
<1> QED BY <1>1, <1>2, <1>3, <1>4, <1>5, <1>6, <1>7, <1>8, <1>9, <1>10, <1>11 DEF Next

LEMMA CallsHold == Spec /\ []Setting => []CallsApproach
<1>1. Setting /\ Setting' /\ CallsApproach /\ [Next \/ Rest]_vars => CallsApproach'
  BY CallsStep
<1> QED BY <1>1, CallsInit, PTL DEF Spec

LEMMA RoutedSetting == Spec /\ []OverlayIsRead /\ []WellRouted(plan) => []Setting
<1>1. Loaded /\ OverlayIsRead /\ WellRouted(plan) => Setting
  BY DEF Setting
<1> QED BY <1>1, LoadedHolds, PTL

(* README.md:326: whatever connected overlay the file describes, and whichever
   way its table goes nearer, a call makes every hop along an edge and nearer
   to the owner. *)
THEOREM HopsApproachHolds ==
    Spec /\ []OverlayIsRead /\ []WellRouted(plan) => HopsApproach
<1>1. Setting /\ Setting' /\ CallsApproach /\ [Next \/ Rest]_vars =>
        [ /\ call = NoCall /\ call' # NoCall => Nearer(Gateway, call'.at, call'.target)
          /\ call # NoCall /\ call' # NoCall => Nearer(call.at, call'.at, call'.target) ]_vars
  BY CallsStep
<1> QED BY <1>1, CallsHold, RoutedSetting, PTL DEF Spec, HopsApproach

(* node.cpp:264 and 496: ttl 8 is enough for every owner that is at most 8 hops
   away. *)
THEOREM ForwardsArriveHolds ==
    Spec /\ []OverlayIsRead /\ []WellRouted(plan) => []ForwardsArrive
<1>1. ASSUME Setting, CallsApproach PROVE ForwardsArrive
  <2> SUFFICES ASSUME phase # "load", TableIsFull, NEW o \in refused
               PROVE  Distances(Edges, Gateway)[o] > 8
    BY DEF ForwardsArrive
  <2>1. Hops(Gateway, o) > 8 /\ o \in Nodes /\ Gateway \in Nodes
    BY <1>1, RoutedPlan DEF CallsApproach
  <2>2. Distances(Edges, Gateway)[o] = Hops(Gateway, o)
    BY <1>1, <2>1, RoutedPlan, DistanceSymmetric DEF Hops
  <2> QED BY <2>1, <2>2
<1> QED BY <1>1, CallsHold, RoutedSetting, PTL

-----------------------------------------------------------------------------
(* Answers *)

(* What owner n may find. *)
IsAnswer(n, f) ==
    IF n \in Python
    THEN \E known \in SUBSET Columns : f = PyMatched(rows[n], Query, ClusterColumn, known)
    ELSE f = Matched(rows[n], Query, plan.threads)

Phases == {"load", "submit", "forward", "pull", "done"}

(* Every request and every collected result is the answer of its owner. *)
Answered ==
    /\ phase \in Phases
    /\ found = [n \in Nodes |-> found[n]] /\ gathered = [n \in Nodes |-> gathered[n]]
    /\ phase \in {"load", "submit"} => \A n \in Nodes : found[n] = NotAsked
    /\ \A n \in Nodes : found[n] = NotAsked \/ IsAnswer(n, found[n])
    /\ phase \notin {"load", "submit"} /\ Gateway \in Nodes => IsAnswer(Gateway, found[Gateway])
    /\ phase = "forward" => hit \subseteq {Gateway}
    /\ phase \in {"pull", "done"} =>
          \A n \in Nodes : IF n \in hit THEN IsAnswer(n, gathered[n]) ELSE gathered[n] = <<>>

LEMMA SameAnswer ==
    ASSUME UNCHANGED <<plan, rows>>
    PROVE  /\ Nodes' = Nodes
           /\ \A n, f : IsAnswer(n, f)' <=> IsAnswer(n, f)
<1>1. Nodes' = Nodes /\ Python' = Python /\ Query' = Query /\ ClusterColumn' = ClusterColumn
  BY DEF Nodes, Python, Query, ClusterColumn
<1> QED BY <1>1 DEF IsAnswer

(* node.cpp:611 and py/server/node.py:483: a node that registers a request
   keeps what it finds. *)
LEMMA Registered ==
    ASSUME Answered, NEW m, Register(m), UNCHANGED <<plan, rows>>
    PROVE  /\ found' = [n \in Nodes |-> found'[n]]
           /\ \A n \in Nodes : found'[n] = found[n] \/ (n = m /\ IsAnswer(n, found'[n]))
           /\ m \in Nodes => IsAnswer(m, found'[m])
<1>1. found = [n \in Nodes |-> found[n]]
  BY DEF Answered
<1>2. CASE found[m] # NotAsked
  <2>1. found' = found
    BY <1>2 DEF Register
  <2>2. m \in Nodes => IsAnswer(m, found[m])
    BY <1>2 DEF Answered
  <2> QED BY <1>1, <2>1, <2>2
<1>3. CASE found[m] = NotAsked
  <2>1. PICK known \in (IF m \in Python THEN SUBSET Columns ELSE {Columns}) :
            found' = [found EXCEPT ![m] =
                IF m \in Python THEN PyMatched(rows[m], Query, ClusterColumn, known)
                                ELSE Matched(rows[m], Query, plan.threads)]
    BY <1>3 DEF Register
  <2> DEFINE f == IF m \in Python THEN PyMatched(rows[m], Query, ClusterColumn, known)
                                  ELSE Matched(rows[m], Query, plan.threads)
  <2>2. IsAnswer(m, f)
    BY <2>1 DEF IsAnswer
  <2>3. found' = [found EXCEPT ![m] = f]
    BY <2>1
  <2> HIDE DEF f
  <2>4. found' = [n \in Nodes |-> IF n = m THEN f ELSE found[n]]
    BY <1>1, <2>3
  <2> QED BY <2>2, <2>4
<1> QED BY <1>2, <1>3

(* node.cpp:563-591 and 818-831: what a client has of an owner is what that owner found. *)
THEOREM AnsweredHolds == Spec => []Answered
<1>1. Init => Answered
  BY DEF Init, Answered, Phases
<1>2. Answered /\ [Next \/ Rest]_vars => Answered'
  <2> SUFFICES ASSUME Answered, [Next \/ Rest]_vars PROVE Answered'
    OBVIOUS
  <2>1. CASE StartNodes
    <3>1. /\ UNCHANGED <<plan, found, gathered>> /\ phase = "load" /\ phase' = "submit"
          /\ Nodes' = Nodes
      BY <2>1 DEF StartNodes, Nodes
    <3> QED BY <3>1 DEF Answered, Phases
  <2>2. ASSUME ~StartNodes PROVE UNCHANGED <<plan, rows>>
    BY <2>2 DEF Next, SubmitQuery, SendForward, Send, ForwardRefused, ForwardAccepted,
                ForwardRelayed, StartPulls, SendPull, PullRelayed, PullFailed, PullServed,
                Finish, Rest, vars
  <2>3. CASE ~StartNodes
    <3>1. UNCHANGED <<plan, rows>>
      BY <2>2, <2>3
    <3>2. Nodes' = Nodes /\ \A n, f : IsAnswer(n, f)' <=> IsAnswer(n, f)
      BY <3>1, SameAnswer
    <3>3. \A n : /\ IsAnswer(n, found[n])' <=> IsAnswer(n, found'[n])
                 /\ IsAnswer(n, gathered[n])' <=> IsAnswer(n, gathered'[n])
      BY <3>1, SameAnswer DEF IsAnswer, Python, Nodes, Query, ClusterColumn
    <3>4. CASE SubmitQuery
      <4>1. /\ phase' = "forward" /\ hit' \subseteq {Gateway} /\ gathered' = gathered
            /\ Register(Gateway)
        BY <3>4 DEF SubmitQuery
      <4>2. /\ found' = [n \in Nodes |-> found'[n]]
            /\ \A n \in Nodes : found'[n] = found[n] \/ (n = Gateway /\ IsAnswer(n, found'[n]))
            /\ Gateway \in Nodes => IsAnswer(Gateway, found'[Gateway])
        BY <3>1, <4>1, Registered
      <4> QED BY <3>2, <3>3, <4>1, <4>2 DEF Answered, Phases
    <3>5. CASE ForwardAccepted
      <4>1. phase = "forward" /\ Register(call.at) /\ UNCHANGED <<phase, hit, gathered>>
        BY <3>5 DEF ForwardAccepted, Calling
      <4>2. /\ found' = [n \in Nodes |-> found'[n]]
            /\ \A n \in Nodes : found'[n] = found[n] \/ (n = call.at /\ IsAnswer(n, found'[n]))
            /\ call.at \in Nodes => IsAnswer(call.at, found'[call.at])
        BY <3>1, <4>1, Registered
      <4> QED BY <3>2, <3>3, <4>1, <4>2 DEF Answered, Phases
    <3>6. CASE StartPulls
      <4>1. /\ phase = "forward" /\ phase' = "pull" /\ UNCHANGED <<found, hit>>
            /\ gathered' = [n \in Nodes |-> IF n \in hit THEN found[n] ELSE <<>>]
        BY <3>6 DEF StartPulls
      <4>2. \A n \in Nodes : n \in hit => IsAnswer(n, found[n])
        BY <4>1 DEF Answered
      <4> QED BY <3>2, <3>3, <4>1, <4>2 DEF Answered, Phases
    <3>7. CASE PullServed
      <4>1. /\ phase = "pull" /\ phase' = phase /\ found' = found
            /\ call.at = call.target /\ found[call.at] # NotAsked
            /\ hit' = hit \cup {call.target}
            /\ gathered' = [gathered EXCEPT ![call.at] = found[call.at]]
        BY <3>7 DEF PullServed, Calling, Knows
      <4>2. gathered' = [n \in Nodes |-> IF n = call.at THEN found[n] ELSE gathered[n]]
        BY <4>1 DEF Answered
      <4>3. call.at \in Nodes => IsAnswer(call.at, found[call.at])
        BY <4>1 DEF Answered
      <4> QED BY <3>2, <3>3, <4>1, <4>2, <4>3 DEF Answered, Phases
    <3>8. CASE \/ SendForward \/ ForwardRefused \/ ForwardRelayed
               \/ SendPull \/ PullRelayed \/ PullFailed \/ Rest \/ UNCHANGED vars
      <4>1. UNCHANGED <<phase, found, hit, gathered>>
        BY <3>8 DEF SendForward, Send, ForwardRefused, ForwardRelayed, SendPull, PullRelayed,
                    PullFailed, Rest, vars
      <4> QED BY <3>2, <3>3, <4>1 DEF Answered, Phases
    <3>9. CASE Finish
      <4>1. UNCHANGED <<found, hit, gathered>> /\ phase = "pull" /\ phase' = "done"
        BY <3>9 DEF Finish
      <4> QED BY <3>2, <3>3, <4>1 DEF Answered, Phases
    <3> QED BY <2>3, <3>4, <3>5, <3>6, <3>7, <3>8, <3>9 DEF Next
  <2> QED BY <2>1, <2>3
<1> QED BY <1>1, <1>2, PTL DEF Spec

-----------------------------------------------------------------------------
(* The rows of a permuted shard that are in M are the same rows. *)
LEMMA PermutedSame ==
    ASSUME NEW T, NEW t \in Seq(T), NEW s \in Seq(T), Len(s) = Len(t),
           NEW order \in Bijection(1..Len(t), 1..Len(t)),
           \A i \in 1..Len(t) : s[i] = t[order[i]], NEW M
    PROVE  SameRows(Filter(s, M), Filter(t, M))
<1> DEFINE a == Filter(s, M)
           b == Filter(t, M)
<1>1. a \in Seq(T) /\ b \in Seq(T)
  BY FilterSeq
<1>2. Len(a) = Len(b)
  BY PermutedCounts
<1>3. ASSUME NEW row
      PROVE  Cardinality({i \in DOMAIN a : a[i] = row}) = Cardinality({i \in DOMAIN b : b[i] = row})
  <2>1. Len(Filter(s, M \cap {row})) = Len(Filter(t, M \cap {row}))
    BY PermutedCounts
  <2>2. /\ Filter(a, {row}) = Filter(s, M \cap {row})
        /\ Filter(b, {row}) = Filter(t, M \cap {row})
    BY FilterFilter
  <2> HIDE DEF a, b
  <2>3. /\ Len(Filter(a, {row})) = Cardinality(Places(a, {row}))
        /\ Len(Filter(b, {row})) = Cardinality(Places(b, {row}))
    BY <1>1, FilterCounts
  <2>4. DOMAIN a = 1..Len(a) /\ DOMAIN b = 1..Len(b)
    BY <1>1, LenProperties
  <2>5. /\ Places(a, {row}) = {i \in DOMAIN a : a[i] = row}
        /\ Places(b, {row}) = {i \in DOMAIN b : b[i] = row}
    BY <2>4 DEF Places
  <2> QED BY <2>1, <2>2, <2>3, <2>5
<1> HIDE DEF a, b
<1>4. SameRows(a, b)
  BY <1>2, <1>3 DEF SameRows
<1> QED BY <1>4 DEF a, b

(* The rows of a Python owner: those of its file, permuted and sorted. *)
LEMMA PyRowsAre ==
    ASSUME Loaded, phase # "load", NEW o \in Python, o \in ToSet(plan.says.data_owners)
    PROVE  LET all == RowsOf(plan.shards[o], TRUE)
           IN  /\ all \in Seq(Row) /\ rows[o] \in Seq(Row) /\ Len(rows[o]) = Len(all)
               /\ ClusterColumn \in Columns => SortedBy(rows[o], ClusterColumn)
               /\ \E order \in Bijection(1..Len(all), 1..Len(all)) :
                     \A i \in 1..Len(all) : rows[o][i] = all[order[i]]
<1> DEFINE file == plan.shards[o]
           n == Len(file.lines)
           all == RowsOf(file, TRUE)
<1>1. IsFile(file) /\ plan \in Plans /\ o \in Nodes
  BY PlansAreTyped DEF Loaded, Nodes, Python, IsFile
<1>2. n \in Nat /\ DOMAIN file.lines = 1..n /\ \A k \in 1..n : file.lines[k] \in LineType
  BY <1>1, LenProperties, ElementOfSeq DEF IsFile
<1>3. \A k \in DOMAIN file.lines : file.lines[k].row # Invalid
  BY <1>1, PlansAssumption DEF Nodes, Python
<1>4. \A k \in DOMAIN file.lines : file.lines[k].row \in [Columns -> Int]
  BY <1>2, <1>3 DEF LineType, SlotType
<1>5. PICK order \in Bijection(1..n, 1..n) :
         /\ PyLoad(file, ClusterColumn) = [i \in 1..n |-> file.lines[order[i]].row]
         /\ ClusterColumn \in Columns =>
               \A i, j \in 1..n : i <= j =>
                  file.lines[order[i]].row[ClusterColumn] <= file.lines[order[j]].row[ClusterColumn]
  <2> HIDE DEF file
  <2> QED BY <1>1, <1>4, PyLoadIs
<1>6. rows[o] = PyLoad(file, ClusterColumn)
  BY <1>1 DEF Loaded, Shard
<1>7. \A i \in 1..n : order[i] \in 1..n
  BY <1>5 DEF Bijection, Injection
<1> HIDE DEF file, n
<1>8. all = Rowing(file.lines)
  <2> DEFINE lines == file.lines
  <2>1. lines \in Seq(LineType)
    BY <1>1 DEF IsFile
  <2>2. SubSeq(lines, 1, Len(lines)) = lines
    BY <2>1, SubSeqFull
  <2>3. all = Good(SubSeq(lines, 0 + 1, n))
    <3>1. /\ n <= Len(file.lines)
          /\ n = IF file.terminated \/ TRUE THEN Len(file.lines) ELSE Len(file.lines) - 1
      BY <1>2 DEF n
    <3> QED BY <1>1, <1>2, <3>1, RowsOfIs
  <2>4. SubSeq(lines, 0 + 1, n) = lines
    BY <2>2 DEF n
  <2>5. all = Filter(Rowing(lines), Row)
    BY <2>3, <2>4 DEF Good
  <2>6. /\ Rowing(lines) \in Seq(SlotType) /\ Len(Rowing(lines)) = n
        /\ \A k \in 1..n : Rowing(lines)[k] = lines[k].row
    BY <2>1, RowingIs DEF n
  <2> HIDE DEF lines, all
  <2>7. \A k \in 1..Len(Rowing(lines)) : Rowing(lines)[k] \in Row
    BY <1>2, <1>4, <2>6 DEF Row, lines
  <2>8. Filter(Rowing(lines), Row) = Rowing(lines)
    BY <2>6, <2>7, FilterAll
  <2> QED BY <2>5, <2>8 DEF lines
<1>9. all = [k \in 1..n |-> file.lines[k].row]
  BY <1>8 DEF Rowing, n
<1> HIDE DEF all
<1>10. all \in Seq(Row) /\ Len(all) = n
  <2>1. \A k \in 1..n : file.lines[k].row \in Row
    BY <1>2, <1>4 DEF Row
  <2>2. all \in Seq(Row)
    BY <1>2, <1>9, <2>1, IsASeq
  <2> QED BY <1>2, <1>9, <2>2, LenProperties
<1>11. rows[o] = [i \in 1..n |-> file.lines[order[i]].row]
  BY <1>5, <1>6
<1>12. rows[o] \in Seq(Row) /\ Len(rows[o]) = n
  <2>1. \A k \in 1..n : file.lines[order[k]].row \in Row
    BY <1>2, <1>4, <1>7 DEF Row
  <2>2. rows[o] \in Seq(Row)
    BY <1>2, <1>11, <2>1, IsASeq
  <2> QED BY <1>2, <1>11, <2>2, LenProperties
<1>13. ClusterColumn \in Columns => SortedBy(rows[o], ClusterColumn)
  BY <1>5, <1>11, <1>12 DEF SortedBy
<1>14. \A i \in 1..n : rows[o][i] = all[order[i]]
  BY <1>7, <1>9, <1>11
<1> QED BY <1>5, <1>10, <1>12, <1>13, <1>14 DEF all, file

LEMMA FullHitStep ==
    ASSUME ArgsAreRead, Loaded, OverlayIsRead, Answered, LoadIsComplete, NothingPruned
    PROVE  FullHitIsExact
<1> SUFFICES ASSUME phase = "done", hit = ToSet(Eligibles), WithinOneYear,
                    NEW o \in ToSet(plan.says.data_owners)
             PROVE  \E all \in Readings(o) :
                       LET asked == Filter(all, Matching(all, plan.asked))
                       IN  IF o \in Python THEN SameRows(gathered[o], asked)
                                           ELSE gathered[o] = asked
  BY DEF FullHitIsExact
<1> DEFINE s == rows[o]
           query == plan.asked
           M == Matching(s, query)
<1>1. plan \in Plans /\ overlay.data_owners = plan.says.data_owners
  BY OverlaySays DEF Loaded, OverlayIsRead
<1>2. o \in Nodes
  <2>1. plan.says.data_owners \in Seq(Nodes)
    BY <1>1, PlansAreTyped DEF Nodes
  <2> QED BY <2>1, ElementOfSeq, LenProperties DEF ToSet
<1>3. Query = query /\ query \in QueryType /\ plan.threads \in Nat \ {0}
  BY <1>1, PlansAreTyped DEF ArgsAreRead, Query
<1>4. s \in Seq(SlotType)
  <2> DEFINE file == plan.shards[o]
             V == RowsIn(file) \cup {Invalid}
  <2>1. file.lines \in Seq(LineType)
    BY <1>1, <1>2, PlansAreTyped DEF Nodes
  <2>2. V \subseteq SlotType
    BY <2>1, LenProperties, ElementOfSeq DEF RowsIn, LineType, SlotType
  <2>3. s \in Seq(V)
    BY <1>2, ShardRows
  <2> HIDE DEF V, s
  <2>4. Len(s) \in Nat /\ s = [i \in 1..Len(s) |-> s[i]] /\ \A i \in 1..Len(s) : s[i] \in SlotType
    BY <2>2, <2>3, LenProperties, ElementOfSeq
  <2> QED BY <2>4, IsASeq
<1>5. gathered[o] = Filter(s, M)
  <2>1. CASE o \in hit /\ o \notin Python
    <3>1. gathered[o] = Matched(s, query, plan.threads)
      BY <1>2, <1>3, <2>1 DEF Answered, IsAnswer
    <3> HIDE DEF s, query
    <3> QED BY <1>3, <1>4, <3>1, MatchedIs
  <2>2. CASE o \in hit /\ o \in Python
    <3>1. PICK known : gathered[o] = PyMatched(s, query, ClusterColumn, known)
      BY <1>2, <1>3, <2>2 DEF Answered, IsAnswer
    <3>2. s \in Seq(Row) /\ (ClusterColumn \in Columns => SortedBy(s, ClusterColumn))
      BY <2>2, PyRowsAre
    <3> HIDE DEF s, query
    <3> QED BY <1>3, <3>1, <3>2, PyMatchedIs
  <2>3. CASE o \notin hit
    <3>1. gathered[o] = <<>>
      BY <1>2, <2>3 DEF Answered
    <3>2. \A k \in DOMAIN s : ~Matches(s[k], query)
      BY <1>1, <2>3 DEF NothingPruned, EligibleIsSound
    <3>3. DOMAIN s = 1..Len(s)
      BY <1>4, LenProperties
    <3>4. \A k \in 1..Len(s) : s[k] \notin M
      BY <3>2, <3>3 DEF Matching
    <3> HIDE DEF s, M
    <3>5. Filter(s, M) = <<>>
      BY <1>4, <3>4, FilterNone
    <3> QED BY <3>1, <3>5
  <2> QED BY <2>1, <2>2, <2>3
<1>6. CASE o \notin Python
  <2> DEFINE B == ToSet(s) \ {Invalid}
             all == Filter(s, B)
             C == Matching(all, query)
  <2>1. all \in Readings(o)
    BY <1>2, <1>6 DEF LoadIsComplete
  <2>2. ToSet(all) = ToSet(s) \cap B
    BY <1>4, ToSetFilter
  <2>3. \A i \in 1..Len(s) : s[i] \in ToSet(s)
    BY <1>4, LenProperties DEF ToSet
  <2>4. \A i \in 1..Len(s) : s[i] \in B \cap C <=> s[i] \in M
    BY <2>2, <2>3 DEF Matching, Matches
  <2> HIDE DEF B, C, M, s
  <2>5. Filter(all, C) = Filter(s, B \cap C)
    BY <1>4, FilterFilter
  <2>6. Filter(s, B \cap C) = Filter(s, M)
    BY <1>4, <2>4, FilterSame
  <2>7. gathered[o] = Filter(all, Matching(all, plan.asked))
    BY <1>5, <2>5, <2>6 DEF C
  <2> HIDE DEF all
  <2> QED BY <1>6, <2>1, <2>7
<1>7. CASE o \in Python
  <2> DEFINE all == RowsOf(plan.shards[o], TRUE)
             n == Len(all)
             C == Matching(all, query)
  <2>1. all \in Readings(o)
    BY DEF Readings
  <2>2. /\ all \in Seq(Row) /\ s \in Seq(Row) /\ Len(s) = n
        /\ \E order \in Bijection(1..n, 1..n) : \A i \in 1..n : s[i] = all[order[i]]
    BY <1>7, PyRowsAre
  <2> HIDE DEF all, s
  <2>3. PICK order \in Bijection(1..n, 1..n) : \A i \in 1..n : s[i] = all[order[i]]
    BY <2>2
  <2>4. \A i \in 1..n : all[i] \in C <=> all[i] \in M
    <3> SUFFICES ASSUME NEW i \in 1..n PROVE all[i] \in C <=> all[i] \in M
      OBVIOUS
    <3>1. PICK j \in 1..n : order[j] = i
      BY <2>3 DEF Bijection, Surjection
    <3>2. all[i] = s[j] /\ DOMAIN all = 1..n /\ DOMAIN s = 1..n
      BY <2>2, <2>3, <3>1, LenProperties
    <3>3. all[i] \in ToSet(all) /\ all[i] \in ToSet(s)
      BY <3>1, <3>2 DEF ToSet
    <3> QED BY <3>3 DEF Matching
  <2> HIDE DEF C, M
  <2>5. Filter(all, C) = Filter(all, M)
    BY <2>2, <2>4, FilterSame
  <2>6. SameRows(Filter(s, M), Filter(all, M))
    BY <2>2, <2>3, PermutedSame
  <2>7. SameRows(gathered[o], Filter(all, Matching(all, plan.asked)))
    BY <1>5, <2>5, <2>6 DEF C
  <2> QED BY <1>7, <2>1, <2>7
<1> QED BY <1>6, <1>7

(* README.md:598: with every eligible owner hit, the client has exactly the
   rows it asked for. *)
THEOREM FullHitIsExactHolds ==
    ASSUME ArgsAreRead
    PROVE  Spec /\ []OverlayIsRead => []FullHitIsExact
BY LoadedHolds, AnsweredHolds, LoadIsCompleteHolds, NothingPrunedHolds, FullHitStep, PTL
=============================================================================
