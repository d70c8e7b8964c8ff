----------------------------- MODULE PyPartition -----------------------------
(***************************************************************************)
(* Partition (py/server/node.py): a Python owner sorts its shard by the    *)
(* column the shards are cut along, and finds the rows of a window on that *)
(* column by bisection.                                                    *)
(***************************************************************************)
EXTENDS PartitionStore

(* _scheme_sort_column; "" if there is nothing to sort by. *)
SortColumn(scheme, hash_column) ==
    CASE scheme \in {"trip_distance", "pu_location_id", "pickup_datetime"} -> scheme
      [] scheme = "consistent_hash" ->
            IF hash_column = "" THEN "trip_distance" ELSE hash_column
      [] OTHER -> ""

(* Partition.load: every line is a row, or the process ends with an error.
   sorted() keeps rows with equal keys in order. *)
PyLoad(file, column) ==
    LET Key(k)    == file.lines[k].row[column]
        before(k) == {j \in DOMAIN file.lines :
                        Key(j) < Key(k) \/ (Key(j) = Key(k) /\ j < k)}
        nth(i)    == CHOOSE k \in DOMAIN file.lines : Cardinality(before(k)) = i - 1
    IN  [i \in DOMAIN file.lines |->
            file.lines[IF column \in Columns THEN nth(i) ELSE i].row]

(* bisect_left and bisect_right: how many entries of a sorted column are
   below v, or not above it. *)
Below(rows, column, v)    == Cardinality({i \in DOMAIN rows : rows[i][column] < v})
NotAbove(rows, column, v) == Cardinality({i \in DOMAIN rows : rows[i][column] <= v})

(* _bisect_window *)
Window(rows, p) ==
    IF p.inclusive
    THEN SubSeq(rows, Below(rows, p.column, p.low) + 1, NotAbove(rows, p.column, p.high))
    ELSE SubSeq(rows, NotAbove(rows, p.column, p.low) + 1, Below(rows, p.column, p.high))

(* range_search: the window of the first predicate on the sort column, if
   there is one, then the other predicates row by row. *)
PyRangeSearch(rows, query, column) ==
    LET sorting == {i \in DOMAIN query : query[i].column = column}
        first   == Min(sorting)
        Rest(I) == {row \in ToSet(rows) : \A i \in I : Hit(query[i], row[query[i].column])}
    IN  IF \E i \in DOMAIN query : query[i].column \notin Columns THEN <<>>
        ELSE IF sorting = {} THEN Filter(rows, Rest(DOMAIN query))
        ELSE Filter(Window(rows, query[first]), Rest(DOMAIN query \ {first}))

(* _register.  A thread of its own fills the table of column ranges after the
   node has begun to serve; known are the columns it has come to. *)
PyMatched(rows, query, column, known) ==
    LET ranges == ColumnRanges(rows)
    IN  IF CanMatch([c \in DOMAIN ranges \cap known |-> ranges[c]], query)
        THEN PyRangeSearch(rows, query, column) ELSE <<>>
=============================================================================
