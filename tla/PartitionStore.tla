--------------------------- MODULE PartitionStore ---------------------------
(***************************************************************************)
(* PartitionStore (cpp/common/csv_store.cpp): how a data owner reads its   *)
(* shard with several threads, and how it finds the rows of a query.       *)
(*                                                                         *)
(* A file is a sequence of lines with the number of bytes each takes, and  *)
(* says whether the last one ends in a newline.  The row of a line is what *)
(* its fields parse to: a function from columns to numbers, or Invalid.    *)
(***************************************************************************)
EXTENDS Integers, Sequences, SequencesExt, Lists

CONSTANTS
    Columns,    \* the columns of a row
    Invalid     \* a slot of the store whose valid flag is 0

ASSUME InvalidIsNoRow == Invalid \notin [Columns -> Int]

(* A slot of the store, and a line of a file; a blank line is no row. *)
SlotType == [Columns -> Int] \cup {Invalid}
LineType == {line \in [width : Nat, row : SlotType] : line.row # Invalid => line.width > 0}

QueryType == Seq([column : STRING, low : Int, high : Int, inclusive : BOOLEAN])

-----------------------------------------------------------------------------
(* load_partition_csv *)

(* Offset of line k behind the header; every line before it has a newline. *)
Start(file, k) ==
    LET start[j \in 1..(Len(file.lines) + 1)] ==
          IF j = 1 THEN 0 ELSE start[j - 1] + file.lines[j - 1].width + 1
    IN  start[k]

Size(file) ==
    Start(file, Len(file.lines) + 1) - (IF file.terminated THEN 0 ELSE 1)

(* Mutant: a boundary in the middle of a line gives the line to both sides. *)
ChunkBoth(file, nt, t) ==
    {k \in 1..Len(file.lines) :
        /\ t > 1 => (Size(file) * (t - 1)) \div nt < Start(file, k + 1)
        /\ t < nt => ~((Size(file) * t) \div nt < Start(file, k))}

(* Lines of thread t: a chunk begins behind the first newline at or after its
   share of the bytes. *)
Chunk(file, nt, t) ==
    {k \in 1..Len(file.lines) :
        /\ t > 1 => (Size(file) * (t - 1)) \div nt < Start(file, k)
        /\ t < nt => ~((Size(file) * t) \div nt < Start(file, k))}

(* Pass 1: the newlines in thread t's chunk. *)
Newlines(file, nt, t) ==
    Cardinality({k \in Chunk(file, nt, t) : k < Len(file.lines) \/ file.terminated})

(* Pass 2: the rows of t's lines that are not blank, as far as there is room;
   room that is left keeps valid = 0. *)
Parsed(file, nt, t) ==
    LET mine == [k \in DOMAIN file.lines |-> [file.lines[k] EXCEPT
                    !.width = IF k \in Chunk(file, nt, t) THEN @ ELSE 0]]
        full == Filter(mine, {line \in ToSet(mine) : line.width > 0})
    IN  [s \in 1..Newlines(file, nt, t) |-> IF s <= Len(full) THEN full[s].row ELSE Invalid]

Load(file, nt) == FlattenSeq([t \in 1..nt |-> Parsed(file, nt, t)])

-----------------------------------------------------------------------------
(* range_search and its pre-filter *)

Hit(p, v) ==
    IF p.inclusive THEN p.low <= v /\ v <= p.high ELSE p.low < v /\ v < p.high

(* A column nobody knows matches no row. *)
Matches(row, query) ==
    /\ row # Invalid
    /\ \A i \in DOMAIN query :
          query[i].column \in Columns /\ Hit(query[i], row[query[i].column])

Matching(rows, query) == {row \in ToSet(rows) : Matches(row, query)}

(* Rows in thread t's static share of the loop, in order. *)
Scanned(rows, query, nt, t) ==
    LET first == (Len(rows) * (t - 1)) \div nt + 1
        last  == (Len(rows) * t) \div nt
    IN  Filter(SubSeq(rows, first, last), Matching(rows, query))

RangeSearch(rows, query, nt) ==
    FlattenSeq([t \in 1..nt |-> Scanned(rows, query, nt, t)])

(* compute_column_ranges: the least and the greatest value of every column. *)
ColumnRanges(rows) ==
    LET valid == ToSet(rows) \ {Invalid}
    IN  [c \in {c \in Columns : valid # {}} |->
            [lo |-> Min({row[c] : row \in valid}), hi |-> Max({row[c] : row \in valid})]]

(* Mutant: a window that only touches the range is taken to miss it. *)
CanMatchStrict(ranges, query) ==
    \A i \in DOMAIN query : query[i].column \in DOMAIN ranges =>
        /\ query[i].high > ranges[query[i].column].lo
        /\ query[i].low < ranges[query[i].column].hi

(* predicate_can_match *)
CanMatch(ranges, query) ==
    \A i \in DOMAIN query : query[i].column \in DOMAIN ranges =>
        /\ query[i].high >= ranges[query[i].column].lo
        /\ query[i].low <= ranges[query[i].column].hi

(* What register_request keeps in matched_indices. *)
Matched(rows, query, nt) ==
    IF CanMatch(ColumnRanges(rows), query) THEN RangeSearch(rows, query, nt) ELSE <<>>
=============================================================================
