---------------------------- MODULE PyNodeProofs ----------------------------
(***************************************************************************)
(* The safety of a query among Python nodes, from an inductive invariant:  *)
(* what the deques and the gateway's buffer may hold, which call is under  *)
(* way, which requests are released, and where each owner's rows are.      *)
(***************************************************************************)
EXTENDS PyNode, SequenceTheorems, WellFoundedInduction, TLAPS

Entries == [owner : Owners, row : Nat]

Calls == [stage : {"none", "sent", "drained", "looked", "replied", "error"},
          max_rows : Nat, rows : Seq(Nat), done : BOOLEAN, last : BOOLEAN,
          orphan : BOOLEAN]

Types ==
    /\ shard \in Shards
    /\ client \in {"start", "submitting", "ready", "fetching", "cancelling",
                   "done", "failed", "cancelled"}
    /\ delivered \in [Nodes -> Seq(Nat)]
    /\ registered \in [Nodes -> BOOLEAN]
    /\ matched \in [Nodes -> Seq(Nat)]
    /\ matched_cursor \in [Nodes -> Nat]
    /\ done_producing \in [Nodes -> BOOLEAN]
    /\ cancelled \in [Nodes -> BOOLEAN]
    /\ client_buffer \in Seq(Entries)
    /\ client_producers_done \in [Owners -> BOOLEAN]
    /\ producer \in [Nodes -> {"idle", "check", "row", "end"}]
    /\ quota \in [Nodes -> Nat]
    /\ toForward \in Seq(Owners) /\ lateForward \subseteq Owners \ {Self}
    /\ fetch \in {"idle", "visit", "call", "emit"}
    /\ todo \in Seq(Owners) /\ max_rows \in Nat /\ pulled \in BOOLEAN
    /\ pull \in [Nodes -> Calls]
    /\ toCancel \in Seq(Owners)
    /\ faults \in Nat

(* A producer in its turn has room for a row, and stays inside what
   range_search found. *)
Producing(n) ==
    /\ Len(matched[n]) <= MaxBuffered
    /\ producer[n] \in {"check", "row"} => Len(matched[n]) < MaxBuffered
    /\ producer[n] = "row" => quota[n] > 0
    /\ matched_cursor[n] + quota[n] <= shard[n].found
    /\ Len(matched[n]) <= matched_cursor[n]
    /\ done_producing[n] => matched_cursor[n] = shard[n].found

Production == \A n \in Nodes : Producing(n)

(* The visit ends once there is a chunk, and one reply is at most a chunk. *)
BufferBounded ==
    \A m \in FetchSizes :
        (\A k \in FetchSizes : k <= m) =>
            /\ Len(client_buffer) < 2 * m
            /\ fetch # "idle" => max_rows <= m
            /\ fetch = "call" => Len(client_buffer) < max_rows

(* Only FetchChunk calls an owner, one at a time; a handler that outlives
   its caller belongs to an owner that is given up. *)
Calling(o) ==
    /\ pull[o].stage = "none" => pull[o] = NoCall
    /\ pull[o].stage \in {"sent", "error"} => pull[o].rows = <<>>
    /\ Len(pull[o].rows) <= pull[o].max_rows
    /\ pull[o].orphan =>
          /\ faults > 0 /\ o \in Owners /\ client_producers_done[o]
          /\ pull[o].stage \in {"sent", "drained", "looked"}
    /\ pull[o].stage # "none" /\ ~pull[o].orphan =>
          /\ fetch = "call" /\ o = Head(todo)
          /\ pull[o].max_rows = max_rows
    /\ pull[o].done => matched_cursor[o] = shard[o].found

OneCall ==
    /\ fetch = "idle" <=> client # "fetching"
    /\ fetch = "call" => /\ todo # <<>>
                         /\ ~client_producers_done[Head(todo)]
    /\ \A o \in Nodes : Calling(o)

Waiting(s, o) == \E i \in 1..Len(s) : s[i] = o

(* What has begun and what has not. *)
Phases ==
    /\ toForward # <<>> => client = "submitting"
    /\ toCancel # <<>> => client = "cancelling"
    /\ client = "cancelled" => ~registered[Self]
    /\ client = "done" => ~registered[Self] /\ client_buffer = <<>>
    /\ client \in {"cancelling", "cancelled"} <=> cancelled[Self]
    /\ cancelled[Self] => Self \notin Owners
    /\ \A n \in Nodes : cancelled[n] => cancelled[Self]
    /\ faults = 0 => lateForward = {}
    /\ \A o \in Owners :
          faults = 0 /\ client_producers_done[o] => client \notin {"start", "submitting"}
    /\ client = "done" => \A o \in Owners \ {Self} : client_producers_done[o]

(* All rows the owner has found have left it, and it does not hold the query
   -- unless it has no file. *)
Settled(o) ==
    /\ matched_cursor[o] = shard[o].found /\ matched[o] = <<>>
    /\ ~registered[o] \/ ~shard[o].file

(* Without faults, an owner that counts as done is; nobody else loses its
   request before a cancel. *)
Releasing(o) ==
    /\ ~cancelled[Self] =>
          /\ client_producers_done[o] => Settled(o)
          /\ pull[o].stage = "error" => Settled(o)
          /\ pull[o].stage = "replied" /\ pull[o].last => Settled(o)
          /\ client # "start" /\ ~registered[o] => Settled(o) \/ Waiting(toForward, o)
    /\ cancelled[Self] /\ registered[o] => Waiting(toCancel, o)

Releases == faults = 0 => \A o \in Owners \ {Self} : Releasing(o)

Held(o) == delivered[o] \o OfOwner(client_buffer, o)

Whole(o) == (Held(o) \o pull[o].rows) \o matched[o]

(* The client still gets what the owner has. *)
Going(o) == (faults = 0 \/ ~client_producers_done[o]) /\ ~cancelled[Self]

Stream(o) ==
    /\ Held(o) = Rows(Len(Held(o)))
    /\ Going(o) => Whole(o) = Rows(matched_cursor[o])

Streams == \A o \in Owners : Stream(o)

IInv == Types /\ Production /\ BufferBounded /\ OneCall /\ Phases /\ Releases /\ Streams
LEMMA LeastElement ==
    ASSUME NEW T, T \subseteq Nat, T # {}
    PROVE  \E x \in T : \A y \in T : ~(y < x)
<1>1. PICK x \in T : \A y \in T : <<y, x>> \notin OpToRel(<, Nat)
  BY WFMin, NatLessThanWellFounded, Zenon
<1> QED BY <1>1 DEF OpToRel

(* Induction, for a set instead of a formula: the provers need no operator
   parameter for it. *)
LEMMA SetInduction ==
    ASSUME NEW S, 0 \in S, \A k \in Nat : k \in S => k + 1 \in S
    PROVE  \A k \in Nat : k \in S
<1> SUFFICES ASSUME Nat \ S # {} PROVE FALSE
  OBVIOUS
<1>1. PICK x \in Nat \ S : \A y \in Nat \ S : ~(y < x)
  BY LeastElement
<1>2. x # 0 /\ x - 1 \in Nat /\ x - 1 < x /\ (x - 1) + 1 = x
  BY <1>1
<1>3. x - 1 \in S
  BY <1>1, <1>2
<1> QED BY <1>1, <1>2, <1>3

-----------------------------------------------------------------------------
(* Sequences. *)

LEMMA Associate ==
    \A S : \A s, t, u \in Seq(S) : (s \o t) \o u = s \o (t \o u)
BY ConcatAssociative, SMTT(20)

LEMMA RowsAssociate ==
    \A s, t, u \in Seq(Nat) : (s \o t) \o u = s \o (t \o u)
BY ConcatAssociative, SMTT(20)

LEMMA ConcatAppend ==
    ASSUME NEW S, NEW s \in Seq(S), NEW t \in Seq(S), NEW e \in S
    PROVE  s \o Append(t, e) = Append(s \o t, e)
<1> DEFINE u == <<e>>
<1>1. u \in Seq(S)
  OBVIOUS
<1>2. s \o t \in Seq(S)
  BY ConcatProperties
<1>3. Append(t, e) = t \o u
  BY AppendIsConcat, Zenon
<1>4. Append(s \o t, e) = (s \o t) \o u
  BY <1>2, AppendIsConcat, Zenon
<1> HIDE DEF u
<1>5. (s \o t) \o u = s \o (t \o u)
  BY <1>1, Associate
<1> QED BY <1>3, <1>4, <1>5, Zenon

LEMMA RowsAppend ==
    \A s \in Seq(Nat), e \in Nat : Append(s, e) \in Seq(Nat)
BY AppendProperties

LEMMA RowsConcatAppend ==
    \A s, t \in Seq(Nat), e \in Nat : s \o Append(t, e) = Append(s \o t, e)
BY ConcatAppend

LEMMA EntriesConcatAppend ==
    \A s, t \in Seq(Entries), e \in Entries : s \o Append(t, e) = Append(s \o t, e)
BY ConcatAppend

LEMMA RowsOK == \A k \in Nat : Rows(k) \in Seq(Nat) /\ Len(Rows(k)) = k
BY DEF Rows

LEMMA NoRows == Rows(0) = <<>>
<1>1. Rows(0) \in Seq(Nat) /\ Len(Rows(0)) = 0
  BY RowsOK
<1> QED BY <1>1, EmptySeq

(* The first k rows and one more. *)
LEMMA NextRow ==
    ASSUME NEW k \in Nat
    PROVE  Append(Rows(k), k + 1) = Rows(k + 1)
<1>1. Rows(k) \in Seq(Nat) /\ Len(Rows(k)) = k
  BY RowsOK
<1>2. Rows(k + 1) \in Seq(Nat) /\ Len(Rows(k + 1)) = k + 1
  BY RowsOK
<1>3. /\ Append(Rows(k), k + 1) \in Seq(Nat)
      /\ Len(Append(Rows(k), k + 1)) = k + 1
      /\ \A i \in 1..k : Append(Rows(k), k + 1)[i] = Rows(k)[i]
      /\ Append(Rows(k), k + 1)[k + 1] = k + 1
  BY <1>1, AppendProperties
<1>4. \A i \in 1..(k + 1) : Append(Rows(k), k + 1)[i] = Rows(k + 1)[i]
  BY <1>3 DEF Rows
<1> QED BY <1>2, <1>3, <1>4, SeqEqual

(* The front of the first k rows. *)
LEMMA RowsFront ==
    ASSUME NEW s \in Seq(Nat), NEW t \in Seq(Nat), NEW k \in Nat,
           s \o t = Rows(k)
    PROVE  s = Rows(Len(s))
<1>1. Len(s) \in Nat /\ Len(t) \in Nat
  BY LenProperties
<1>2. Len(s \o t) = k
  BY RowsOK
<1>3. Len(s) + Len(t) = k /\ \A i \in 1..Len(s) : (s \o t)[i] = s[i]
  BY <1>1, <1>2, ConcatProperties
<1>4. \A i \in 1..k : Rows(k)[i] = i
  BY DEF Rows
<1>5. Rows(Len(s)) \in Seq(Nat) /\ Len(Rows(Len(s))) = Len(s)
  BY <1>1, RowsOK
<1>6. ASSUME NEW i \in 1..Len(s) PROVE s[i] = Rows(Len(s))[i]
  <2>1. i \in 1..k
    BY <1>1, <1>3
  <2>2. s[i] = i
    BY <1>3, <1>4, <2>1
  <2>3. Rows(Len(s))[i] = i
    BY DEF Rows
  <2> QED BY <2>2, <2>3
<1> QED BY <1>5, <1>6, SeqEqual

(* A sequence cut in two. *)
LEMMA Split ==
    ASSUME NEW S, NEW s \in Seq(S), NEW k \in 0..Len(s)
    PROVE  /\ SubSeq(s, 1, k) \in Seq(S) /\ Len(SubSeq(s, 1, k)) = k
           /\ SubSeq(s, k + 1, Len(s)) \in Seq(S)
           /\ Len(SubSeq(s, k + 1, Len(s))) = Len(s) - k
           /\ SubSeq(s, 1, k) \o SubSeq(s, k + 1, Len(s)) = s
<1>1. Len(s) \in Nat /\ k \in Nat /\ k <= Len(s) /\ 1 \in Int /\ k \in Int
      /\ k + 1 \in Int /\ Len(s) \in Int
  BY LenProperties
<1>2. /\ \A i \in 1..k : s[i] \in S
      /\ \A i \in (k + 1)..Len(s) : s[i] \in S
  BY <1>1, ElementOfSeq
<1>3. /\ SubSeq(s, 1, k) \in Seq(S)
      /\ Len(SubSeq(s, 1, k)) = IF 1 <= k THEN k - 1 + 1 ELSE 0
  BY <1>1, <1>2, SubSeqProperties
<1>4. /\ SubSeq(s, k + 1, Len(s)) \in Seq(S)
      /\ Len(SubSeq(s, k + 1, Len(s))) =
            IF k + 1 <= Len(s) THEN Len(s) - (k + 1) + 1 ELSE 0
  BY <1>1, <1>2, SubSeqProperties
<1>5. /\ 1 \in 1..(Len(s) + 1) /\ k \in (1 - 1)..Len(s)
      /\ Len(s) \in k..Len(s)
  BY <1>1
<1>6. SubSeq(s, 1, k) \o SubSeq(s, k + 1, Len(s)) = SubSeq(s, 1, Len(s))
  BY <1>5, ConcatAdjacentSubSeq, Zenon
<1>7. SubSeq(s, 1, Len(s)) = s
  BY SubSeqFull
<1>8. Len(SubSeq(s, 1, k)) = k /\ Len(SubSeq(s, k + 1, Len(s))) = Len(s) - k
  BY <1>1, <1>3, <1>4
<1>9. SubSeq(s, 1, k) \o SubSeq(s, k + 1, Len(s)) = s
  BY <1>6, <1>7, Zenon
<1> QED BY <1>3, <1>4, <1>8, <1>9

(* Who waits in the tail waits in the sequence; all but the head do so. *)
LEMMA WaitingTail ==
    ASSUME NEW s \in Seq(Owners), s # <<>>, NEW o \in Owners
    PROVE  /\ Tail(s) \in Seq(Owners) /\ Head(s) \in Owners
           /\ Waiting(s, o) /\ o # Head(s) => Waiting(Tail(s), o)
<1>1. /\ Head(s) \in Owners /\ Tail(s) \in Seq(Owners)
      /\ Len(Tail(s)) = Len(s) - 1
      /\ \A i \in 1..Len(Tail(s)) : Tail(s)[i] = s[i + 1]
  BY HeadTailProperties
<1>2. Len(s) \in Nat /\ Head(s) = s[1]
  BY LenProperties
<1>3. ASSUME Waiting(s, o), o # Head(s)
      PROVE  Waiting(Tail(s), o)
  <2>1. PICK i \in 1..Len(s) : s[i] = o
    BY <1>3 DEF Waiting
  <2>2. i # 1
    BY <1>2, <1>3, <2>1
  <2>3. i - 1 \in 1..Len(Tail(s)) /\ (i - 1) + 1 = i
    BY <1>1, <1>2, <2>2
  <2>4. Tail(s)[i - 1] = o
    BY <1>1, <2>1, <2>3
  <2> QED BY <2>3, <2>4 DEF Waiting
<1> QED BY <1>1, <1>3

-----------------------------------------------------------------------------
(* OfOwner. *)

(* f is the function that OfOwner recurs by. *)
Scans(f, s, n) ==
    f = [i \in 0..Len(s) |->
            IF i = 0 THEN <<>>
            ELSE IF s[i].owner = n THEN Append(f[i - 1], s[i].row)
            ELSE f[i - 1]]

(* What the next entry adds. *)
Added(rows, e, n) == IF e.owner = n THEN Append(rows, e.row) ELSE rows

Upto(f, k, s, n) ==
    f = [i \in 0..k |-> IF i = 0 THEN <<>> ELSE Added(f[i - 1], s[i], n)]

LEMMA ScanExists ==
    ASSUME NEW s \in Seq(Entries), NEW n
    PROVE  \E f : Scans(f, s, n)
<1> DEFINE S == {k \in Nat : \E f : Upto(f, k, s, n)}
<1>1. 0 \in S
  <2>1. Upto([i \in 0..0 |-> <<>>], 0, s, n)
    BY DEF Upto
  <2> QED BY <2>1
<1>2. ASSUME NEW k \in Nat, k \in S
      PROVE  k + 1 \in S
  <2>1. PICK f : Upto(f, k, s, n)
    BY <1>2
  <2> DEFINE g == [i \in 0..(k + 1) |->
                      IF i <= k THEN f[i] ELSE Added(f[k], s[k + 1], n)]
  <2>2. ASSUME NEW i \in 0..(k + 1)
        PROVE  g[i] = IF i = 0 THEN <<>> ELSE Added(g[i - 1], s[i], n)
    <3>1. CASE i = k + 1
      <4>1. g[i] = Added(f[k], s[i], n) /\ i # 0 /\ i - 1 = k /\ g[i - 1] = f[k]
        BY <3>1
      <4> QED BY <4>1, Zenon
    <3>2. CASE i # k + 1
      <4>1. i \in 0..k /\ g[i] = f[i] /\ (i # 0 => g[i - 1] = f[i - 1])
        BY <3>2
      <4>2. f[i] = IF i = 0 THEN <<>> ELSE Added(f[i - 1], s[i], n)
        BY <2>1, <4>1 DEF Upto
      <4> HIDE DEF g
      <4> QED BY <4>1, <4>2
    <3> QED BY <3>1, <3>2
  <2>3. g = [i \in 0..(k + 1) |-> g[i]]
    OBVIOUS
  <2> HIDE DEF g
  <2>4. Upto(g, k + 1, s, n)
    BY <2>2, <2>3 DEF Upto
  <2> QED BY <2>4
<1> HIDE DEF S
<1>3. \A k \in Nat : k \in S
  BY <1>1, <1>2, SetInduction
<1>4. Len(s) \in Nat
  BY LenProperties
<1>5. PICK f : Upto(f, Len(s), s, n)
  BY <1>3, <1>4 DEF S
<1>6. Scans(f, s, n)
  BY <1>5 DEF Upto, Scans, Added
<1> QED BY <1>6

LEMMA OfOwnerScans ==
    ASSUME NEW s \in Seq(Entries), NEW n
    PROVE  \E f : Scans(f, s, n) /\ OfOwner(s, n) = f[Len(s)]
<1>1. \E f : Scans(f, s, n)
  BY ScanExists
<1>2. Scans(CHOOSE f : Scans(f, s, n), s, n)
  BY <1>1, Zenon
<1>3. OfOwner(s, n) = (CHOOSE f : Scans(f, s, n))[Len(s)]
  BY Zenon DEF OfOwner, Scans
<1> QED BY <1>2, <1>3, Zenon

(* Sequences that begin alike are scanned alike. *)
LEMMA ScanAgrees ==
    ASSUME NEW s \in Seq(Entries), NEW t \in Seq(Entries), NEW n,
           Len(s) <= Len(t), \A i \in 1..Len(s) : s[i] = t[i],
           NEW f, NEW g
    PROVE  Scans(f, s, n) /\ Scans(g, t, n) => f[Len(s)] = g[Len(s)]
<1> SUFFICES ASSUME Scans(f, s, n), Scans(g, t, n)
             PROVE  f[Len(s)] = g[Len(s)]
  OBVIOUS
<1> DEFINE K == Len(s)
<1> DEFINE S == {k \in Nat : k <= K => f[k] = g[k]}
<1>1. Len(s) \in Nat /\ Len(t) \in Nat
  BY LenProperties
<1>2. ASSUME NEW i \in 0..K
      PROVE  /\ f[i] = IF i = 0 THEN <<>>
                       ELSE IF s[i].owner = n THEN Append(f[i - 1], s[i].row)
                       ELSE f[i - 1]
             /\ g[i] = IF i = 0 THEN <<>>
                       ELSE IF t[i].owner = n THEN Append(g[i - 1], t[i].row)
                       ELSE g[i - 1]
  <2>1. i \in 0..Len(s) /\ i \in 0..Len(t)
    BY <1>1
  <2> QED BY <2>1 DEF Scans
<1>3. 0 \in S
  <2>1. 0 \in 0..K
    OBVIOUS
  <2>2. f[0] = <<>> /\ g[0] = <<>>
    BY <1>2, <2>1
  <2> QED BY <2>2
<1>4. ASSUME NEW k \in Nat, k \in S
      PROVE  k + 1 \in S
  <2> SUFFICES ASSUME k + 1 <= K PROVE f[k + 1] = g[k + 1]
    OBVIOUS
  <2>1. k + 1 \in 0..K /\ k + 1 \in 1..K /\ k + 1 # 0 /\ (k + 1) - 1 = k /\ f[k] = g[k]
    BY <1>4
  <2> QED BY <1>2, <2>1
<1> HIDE DEF S
<1>5. \A k \in Nat : k \in S
  BY <1>3, <1>4, SetInduction
<1> QED BY <1>1, <1>5 DEF S

LEMMA OfNobody == \A n : OfOwner(<<>>, n) = <<>>
<1> SUFFICES ASSUME NEW n PROVE OfOwner(<<>>, n) = <<>>
  OBVIOUS
<1>1. <<>> \in Seq(Entries) /\ Len(<<>>) = 0
  BY EmptySeq
<1>2. PICK f : Scans(f, <<>>, n) /\ OfOwner(<<>>, n) = f[Len(<<>>)]
  BY <1>1, OfOwnerScans
<1>3. f[0] = <<>>
  BY <1>1, <1>2 DEF Scans
<1> QED BY <1>1, <1>2, <1>3

LEMMA OfAppend ==
    ASSUME NEW s \in Seq(Entries), NEW e \in Entries, NEW n
    PROVE  OfOwner(Append(s, e), n) = Added(OfOwner(s, n), e, n)
<1> DEFINE t == Append(s, e)
<1>1. /\ t \in Seq(Entries) /\ Len(t) = Len(s) + 1 /\ Len(s) \in Nat
      /\ \A i \in 1..Len(s) : t[i] = s[i]
      /\ t[Len(s) + 1] = e
  BY AppendProperties, LenProperties
<1> HIDE DEF t
<1>2. PICK f : Scans(f, s, n) /\ OfOwner(s, n) = f[Len(s)]
  BY OfOwnerScans
<1>3. PICK g : Scans(g, t, n) /\ OfOwner(t, n) = g[Len(t)]
  BY <1>1, OfOwnerScans
<1>4. f[Len(s)] = g[Len(s)]
  <2>1. Len(s) <= Len(t) /\ \A i \in 1..Len(s) : s[i] = t[i]
    BY <1>1
  <2>2. Scans(f, s, n) /\ Scans(g, t, n) /\ t \in Seq(Entries)
    BY <1>1, <1>2, <1>3
  <2>3. Scans(f, s, n) /\ Scans(g, t, n) => f[Len(s)] = g[Len(s)]
    BY <2>1, <2>2, ScanAgrees
  <2> QED BY <2>2, <2>3, Zenon
<1>5. g[Len(t)] = Added(g[Len(s)], e, n)
  <2>1. Len(t) \in 0..Len(t) /\ Len(t) # 0 /\ Len(t) - 1 = Len(s) /\ t[Len(t)] = e
    BY <1>1
  <2> QED BY <1>3, <2>1 DEF Scans, Added
<1> QED BY <1>2, <1>3, <1>4, <1>5 DEF t

LEMMA OfOwnerRows ==
    ASSUME NEW s \in Seq(Entries), NEW n
    PROVE  OfOwner(s, n) \in Seq(Nat)
<1> DEFINE S == {k \in Nat : \A t \in Seq(Entries) : Len(t) = k => OfOwner(t, n) \in Seq(Nat)}
<1>1. 0 \in S
  <2>1. ASSUME NEW t \in Seq(Entries), Len(t) = 0 PROVE OfOwner(t, n) \in Seq(Nat)
    <3>1. t = <<>>
      BY <2>1, EmptySeq
    <3> QED BY <3>1, OfNobody, EmptySeq
  <2> QED BY <2>1
<1>2. ASSUME NEW k \in Nat, k \in S
      PROVE  k + 1 \in S
  <2> SUFFICES ASSUME NEW t \in Seq(Entries), Len(t) = k + 1
               PROVE  OfOwner(t, n) \in Seq(Nat)
    OBVIOUS
  <2>1. t # <<>>
    BY EmptySeq
  <2>2. PICK u \in Seq(Entries), e \in Entries : t = Append(u, e)
    BY <2>1, SequenceEmptyOrAppend
  <2>3. Len(u) = k
    BY <2>2, AppendProperties, LenProperties
  <2>4. OfOwner(u, n) \in Seq(Nat)
    BY <1>2, <2>3
  <2>5. e.row \in Nat
    BY DEF Entries
  <2>6. OfOwner(t, n) = Added(OfOwner(u, n), e, n)
    BY <2>2, OfAppend
  <2>7. Append(OfOwner(u, n), e.row) \in Seq(Nat)
    BY <2>4, <2>5, AppendProperties
  <2> QED BY <2>4, <2>6, <2>7 DEF Added
<1> HIDE DEF S
<1>3. \A k \in Nat : k \in S
  BY <1>1, <1>2, SetInduction
<1>4. Len(s) \in Nat
  BY LenProperties
<1> QED BY <1>3, <1>4 DEF S

LEMMA OfConcat ==
    ASSUME NEW s \in Seq(Entries), NEW t \in Seq(Entries), NEW n
    PROVE  OfOwner(s \o t, n) = OfOwner(s, n) \o OfOwner(t, n)
<1> DEFINE Parts(u) == OfOwner(s \o u, n) = OfOwner(s, n) \o OfOwner(u, n)
           S == {k \in Nat : \A u \in Seq(Entries) : Len(u) = k => Parts(u)}
<1>1. OfOwner(s, n) \in Seq(Nat)
  BY OfOwnerRows
<1>2. 0 \in S
  <2>1. ASSUME NEW u \in Seq(Entries), Len(u) = 0 PROVE Parts(u)
    <3>1. u = <<>>
      BY <2>1, EmptySeq
    <3>2. s \o <<>> = s /\ OfOwner(s, n) \o <<>> = OfOwner(s, n)
      BY <1>1, ConcatEmptySeq
    <3> QED BY <3>1, <3>2, OfNobody
  <2> HIDE DEF Parts
  <2> QED BY <2>1
<1>3. ASSUME NEW k \in Nat, k \in S
      PROVE  k + 1 \in S
  <2>1. ASSUME NEW u \in Seq(Entries), Len(u) = k + 1
        PROVE  Parts(u)
    <3>1. u # <<>>
      BY <2>1, EmptySeq
    <3>2. PICK v \in Seq(Entries), e \in Entries : u = Append(v, e)
      BY <3>1, SequenceEmptyOrAppend
    <3>3. Len(v) = k
      BY <2>1, <3>2, AppendProperties, LenProperties
    <3>4. Parts(v)
      <4> HIDE DEF Parts
      <4> QED BY <1>3, <3>3
    <3>5. s \o u = Append(s \o v, e) /\ s \o v \in Seq(Entries)
      <4>1. s \o v \in Seq(Entries)
        BY ConcatProperties
      <4>2. s \o Append(v, e) = Append(s \o v, e)
        BY EntriesConcatAppend, Zenon
      <4> QED BY <3>2, <4>1, <4>2
    <3>6. OfOwner(s \o u, n) = Added(OfOwner(s, n) \o OfOwner(v, n), e, n)
      <4>1. OfOwner(Append(s \o v, e), n) = Added(OfOwner(s \o v, n), e, n)
        BY <3>5, OfAppend
      <4> QED BY <3>4, <3>5, <4>1
    <3>7. OfOwner(u, n) = Added(OfOwner(v, n), e, n)
      BY <3>2, OfAppend
    <3>8. OfOwner(v, n) \in Seq(Nat) /\ e.row \in Nat
      BY OfOwnerRows DEF Entries
    <3>9. OfOwner(s, n) \o Append(OfOwner(v, n), e.row)
             = Append(OfOwner(s, n) \o OfOwner(v, n), e.row)
      BY <1>1, <3>8, RowsConcatAppend, Zenon
    <3> QED BY <3>6, <3>7, <3>9, Zenon DEF Added
  <2> HIDE DEF Parts
  <2> QED BY <2>1
<1>4. \A k \in Nat : k \in S
  <2> HIDE DEF S
  <2> QED BY <1>2, <1>3, SetInduction
<1>5. Len(t) \in Nat
  BY LenProperties
<1>6. Parts(t)
  <2> HIDE DEF Parts
  <2> QED BY <1>4, <1>5
<1> QED BY <1>6

(* A reply of owner o, as FetchChunk puts it in the buffer. *)
Tagged(rows, o) == [i \in DOMAIN rows |-> [owner |-> o, row |-> rows[i]]]

LEMMA TaggedOK ==
    ASSUME NEW r \in Seq(Nat), NEW o \in Owners
    PROVE  Tagged(r, o) \in Seq(Entries) /\ Len(Tagged(r, o)) = Len(r)
<1>1. Len(r) \in Nat /\ DOMAIN r = 1..Len(r) /\ \A i \in 1..Len(r) : r[i] \in Nat
  BY LenProperties, ElementOfSeq
<1>2. \A i \in 1..Len(r) : [owner |-> o, row |-> r[i]] \in Entries
  BY <1>1 DEF Entries
<1>3. Tagged(r, o) = [i \in 1..Len(r) |-> [owner |-> o, row |-> r[i]]]
  BY <1>1, Zenon DEF Tagged
<1> QED BY <1>1, <1>2, <1>3

LEMMA OfTagged ==
    ASSUME NEW r \in Seq(Nat), NEW o \in Owners, NEW n
    PROVE  OfOwner(Tagged(r, o), n) = IF n = o THEN r ELSE <<>>
<1> DEFINE Mine(u) == OfOwner(Tagged(u, o), n) = IF n = o THEN u ELSE <<>>
           S == {k \in Nat : \A u \in Seq(Nat) : Len(u) = k => Mine(u)}
<1>1. 0 \in S
  <2>1. ASSUME NEW u \in Seq(Nat), Len(u) = 0 PROVE Mine(u)
    <3>1. u = <<>>
      BY <2>1, EmptySeq
    <3>2. Tagged(u, o) = <<>>
      BY <2>1, TaggedOK, EmptySeq
    <3> QED BY <3>1, <3>2, OfNobody
  <2> HIDE DEF Mine
  <2> QED BY <2>1
<1>2. ASSUME NEW k \in Nat, k \in S
      PROVE  k + 1 \in S
  <2>1. ASSUME NEW u \in Seq(Nat), Len(u) = k + 1
        PROVE  Mine(u)
    <3>1. u # <<>>
      BY <2>1, EmptySeq
    <3>2. PICK v \in Seq(Nat), x \in Nat : u = Append(v, x)
      BY <3>1, SequenceEmptyOrAppend
    <3>3. /\ Len(v) = k /\ u[k + 1] = x
          /\ \A i \in 1..k : u[i] = v[i]
      BY <2>1, <3>2, AppendProperties, LenProperties
    <3>4. Mine(v)
      <4> HIDE DEF Mine
      <4> QED BY <1>2, <3>3
    <3> DEFINE e == [owner |-> o, row |-> x]
    <3>5. e \in Entries /\ e.owner = o /\ e.row = x
      BY DEF Entries
    <3>6. Tagged(u, o) = Append(Tagged(v, o), e)
      <4>1. /\ Tagged(u, o) \in Seq(Entries) /\ Len(Tagged(u, o)) = k + 1
            /\ Tagged(v, o) \in Seq(Entries) /\ Len(Tagged(v, o)) = k
        BY <2>1, <3>3, TaggedOK
      <4>2. /\ Append(Tagged(v, o), e) \in Seq(Entries)
            /\ Len(Append(Tagged(v, o), e)) = k + 1
            /\ \A i \in 1..k : Append(Tagged(v, o), e)[i] = Tagged(v, o)[i]
            /\ Append(Tagged(v, o), e)[k + 1] = e
        <5> HIDE DEF e
        <5> QED BY <3>5, <4>1, AppendProperties
      <4>3. DOMAIN u = 1..(k + 1) /\ DOMAIN v = 1..k
        BY <2>1, <3>3, LenProperties
      <4>4. ASSUME NEW i \in 1..(k + 1)
            PROVE  Tagged(u, o)[i] = Append(Tagged(v, o), e)[i]
        <5>1. CASE i = k + 1
          BY <3>3, <4>2, <4>3, <5>1 DEF Tagged
        <5>2. CASE i # k + 1
          <6>1. i \in 1..k
            BY <5>2
          <6>2. Tagged(u, o)[i] = Tagged(v, o)[i]
            BY <3>3, <4>3, <6>1 DEF Tagged
          <6> QED BY <4>2, <6>1, <6>2
        <5> QED BY <5>1, <5>2
      <4> HIDE DEF e
      <4> QED BY <4>1, <4>2, <4>4, SeqEqual
    <3>7. OfOwner(Tagged(u, o), n) = Added(OfOwner(Tagged(v, o), n), e, n)
      <4> HIDE DEF e
      <4> QED BY <3>5, <3>6, TaggedOK, OfAppend
    <3> HIDE DEF e
    <3> QED BY <3>2, <3>4, <3>5, <3>7 DEF Added
  <2> HIDE DEF Mine
  <2> QED BY <2>1
<1>3. \A k \in Nat : k \in S
  <2> HIDE DEF S
  <2> QED BY <1>1, <1>2, SetInduction
<1>4. Len(r) \in Nat
  BY LenProperties
<1>5. Mine(r)
  <2> HIDE DEF Mine
  <2> QED BY <1>3, <1>4
<1> QED BY <1>5

-----------------------------------------------------------------------------
(* The types. *)

LEMMA ShardFacts ==
    ASSUME Types, NEW n \in Nodes
    PROVE  /\ shard[n] \in [file : BOOLEAN, size : Nat, found : Nat]
           /\ shard[n].found \in Nat /\ shard[n].size \in Nat
           /\ shard[n].found <= shard[n].size
           /\ shard[n].size > 0 => shard[n].file
<1>1. shard \in Shards /\ shard \in [Nodes -> [file : BOOLEAN, size : Nat, found : Nat]]
  BY PyAssumption DEF Types
<1>2. shard[n] \in [file : BOOLEAN, size : Nat, found : Nat]
  BY <1>1
<1> QED BY <1>1, <1>2, PyAssumption

LEMMA NodeFacts == Self \in Nodes /\ Owners \subseteq Nodes
BY DEF Nodes

LEMMA CallFacts ==
    ASSUME Types, NEW o \in Nodes
    PROVE  /\ pull[o] \in Calls
           /\ pull[o].stage \in {"none", "sent", "drained", "looked", "replied", "error"}
           /\ pull[o].max_rows \in Nat /\ pull[o].rows \in Seq(Nat)
           /\ pull[o].done \in BOOLEAN /\ pull[o].last \in BOOLEAN
           /\ pull[o].orphan \in BOOLEAN
<1>1. pull[o] \in Calls
  BY DEF Types
<1> QED BY <1>1 DEF Calls

LEMMA NoCallOK == NoCall \in Calls
BY EmptySeq DEF NoCall, Calls

(* What a step writes of one entry of pull. *)
LEMMA PullTyped ==
    ASSUME Types, NEW o \in Nodes, NEW call \in Calls,
           pull' = [pull EXCEPT ![o] = call]
    PROVE  pull' \in [Nodes -> Calls]
BY DEF Types

LEMMA AnsweredTyped ==
    ASSUME Types, NEW o \in Nodes, NEW call \in Calls, Answered(o, call)
    PROVE  pull' \in [Nodes -> Calls]
BY NoCallOK DEF Types, Answered

LEMMA DrainFacts ==
    ASSUME NEW S, NEW s \in Seq(S), NEW m \in Nat
    PROVE  /\ Lower(m, Len(s)) \in 0..Len(s) /\ Lower(m, Len(s)) <= m
           /\ SubSeq(s, 1, Lower(m, Len(s))) \in Seq(S)
           /\ Len(SubSeq(s, 1, Lower(m, Len(s)))) = Lower(m, Len(s))
           /\ SubSeq(s, Lower(m, Len(s)) + 1, Len(s)) \in Seq(S)
           /\ Len(SubSeq(s, Lower(m, Len(s)) + 1, Len(s))) = Len(s) - Lower(m, Len(s))
           /\ SubSeq(s, 1, Lower(m, Len(s))) \o SubSeq(s, Lower(m, Len(s)) + 1, Len(s)) = s
<1> DEFINE k == Lower(m, Len(s))
<1>1. k \in 0..Len(s) /\ k <= m
  BY LenProperties DEF Lower
<1> HIDE DEF k
<1>2. /\ SubSeq(s, 1, k) \in Seq(S) /\ Len(SubSeq(s, 1, k)) = k
      /\ SubSeq(s, k + 1, Len(s)) \in Seq(S)
      /\ Len(SubSeq(s, k + 1, Len(s))) = Len(s) - k
      /\ SubSeq(s, 1, k) \o SubSeq(s, k + 1, Len(s)) = s
  BY <1>1, Split
<1> QED BY <1>1, <1>2 DEF k

LEMMA FaultTyped ==
    ASSUME Types, Fault
    PROVE  faults' \in Nat
<1>1. faults \in Nat
  BY DEF Types
<1>2. faults' = faults + 1
  BY DEF Fault
<1> QED BY <1>1, <1>2

LEMMA TypesStep ==
    ASSUME IInv, [Next]_vars
    PROVE  Types'
<1>a. Types /\ Production /\ OneCall
  BY DEF IInv
<1>b. fetch = "call" => todo # <<>>
  BY <1>a DEF OneCall
<1> USE <1>a, NodeFacts DEF requestVars, gatewayVars, producerVars, submitVars, fetchVars
<1>1. CASE SubmitQuery
  BY <1>1, PyAssumption DEF SubmitQuery, Register, NothingFound, Types
<1>2. CASE ForwardNext
  <2>1. Tail(toForward) \in Seq(Owners) /\ Head(toForward) \in Owners
    BY <1>2, HeadTailProperties DEF ForwardNext, Types
  <2>2. CASE Head(toForward) = Self
    BY <1>2, <2>1, <2>2 DEF ForwardNext, NotForwarded, Types
  <2>3. CASE Head(toForward) # Self /\ ForwardAccepted(Head(toForward))
    BY <1>2, <2>1, <2>3 DEF ForwardNext, ForwardAccepted, Register, NothingFound, Types
  <2>4. CASE Head(toForward) # Self /\ ForwardFailed(Head(toForward))
    <3>1. faults' \in Nat
      BY <2>4, FaultTyped DEF ForwardFailed
    <3>2. lateForward' \subseteq Owners \ {Self}
      BY <2>1, <2>4 DEF ForwardFailed, Types
    <3>3. client_producers_done' \in [Owners -> BOOLEAN]
      BY <2>1, <2>4 DEF ForwardFailed, GiveUp, Types
    <3>4. UNCHANGED requestVars
      BY <2>4 DEF ForwardFailed
    <3> QED BY <1>2, <2>1, <3>1, <3>2, <3>3, <3>4 DEF ForwardNext, Types
  <2> QED BY <1>2, <2>2, <2>3, <2>4 DEF ForwardNext, Forward
<1>3. CASE SubmitAck
  BY <1>3 DEF SubmitAck, Types
<1>4. ASSUME NEW b \in 1..Len(DataOwners), NEW e \in 1..Len(DataOwners), FetchBegin(b, e)
      PROVE  Types'
  <2>1. Rotated(b, e) \in Seq(Owners)
    <3>1. /\ b \in Int /\ e - 1 \in Int /\ Len(DataOwners) \in Int
          /\ \A i \in b..Len(DataOwners) : DataOwners[i] \in Owners
          /\ \A i \in 1..(e - 1) : DataOwners[i] \in Owners
      BY PyAssumption, LenProperties, ElementOfSeq
    <3>2. SubSeq(DataOwners, b, Len(DataOwners)) \in Seq(Owners)
      BY <3>1, SubSeqProperties
    <3>3. SubSeq(DataOwners, 1, e - 1) \in Seq(Owners)
      BY <3>1, SubSeqProperties
    <3> QED BY <3>2, <3>3, ConcatProperties DEF Rotated
  <2>2. FetchSizes \subseteq Nat
    BY PyAssumption
  <2> QED BY <1>4, <2>1, <2>2 DEF FetchBegin, Types
<1>5. CASE VisitEnd
  BY <1>5, EmptySeq DEF VisitEnd, VisitStep, Types
<1>6. ASSUME NEW o \in Owners, VisitSkip(o)
      PROVE  Types'
  <2>1. Tail(todo) \in Seq(Owners)
    BY <1>6, HeadTailProperties DEF VisitSkip, Visiting, Types
  <2> QED BY <1>6, <2>1 DEF VisitSkip, VisitStep, Types
<1>7. ASSUME NEW o \in Owners, VisitCall(o)
      PROVE  Types'
  <2>1. [NoCall EXCEPT !.stage = "sent", !.max_rows = max_rows] \in Calls
    BY EmptySeq DEF NoCall, Calls, Types
  <2>2. pull' \in [Nodes -> Calls]
    BY <1>7, <2>1, PullTyped DEF VisitCall
  <2> QED BY <1>7, <2>2 DEF VisitCall, VisitStep, Types
<1>8. ASSUME NEW o \in Owners, FetchReply(o)
      PROVE  Types'
  <2>1. pull' \in [Nodes -> Calls]
    BY <1>8, NoCallOK, PullTyped DEF FetchReply
  <2>2. Tail(todo) \in Seq(Owners)
    BY <1>8, <1>b, HeadTailProperties DEF FetchReply, Types
  <2>3. /\ client_buffer' = client_buffer \o Tagged(pull[o].rows, o)
        /\ Tagged(pull[o].rows, o) \in Seq(Entries)
    BY <1>8, CallFacts, TaggedOK DEF FetchReply, Tagged
  <2>4. client_buffer' \in Seq(Entries)
    BY <2>3, ConcatProperties DEF Types
  <2>5. client_producers_done' \in [Owners -> BOOLEAN]
    BY <1>8, CallFacts DEF FetchReply, Types
  <2> QED BY <1>8, <2>1, <2>2, <2>4, <2>5 DEF FetchReply, Back, VisitStep, Types
<1>9. ASSUME NEW o \in Owners, FetchError(o)
      PROVE  Types'
  <2>1. pull' \in [Nodes -> Calls]
    BY <1>9, NoCallOK, PullTyped DEF FetchError
  <2>2. Tail(todo) \in Seq(Owners)
    BY <1>9, <1>b, HeadTailProperties DEF FetchError, Types
  <2> QED BY <1>9, <2>1, <2>2 DEF FetchError, GiveUp, Back, VisitStep, Types
<1>10. ASSUME NEW o \in Owners, FetchExpire(o)
       PROVE  Types'
  <2>1. pull' \in [Nodes -> Calls]
    <3>1. CASE pull' = [pull EXCEPT ![o] = NoCall]
      BY <3>1, NoCallOK, PullTyped
    <3>2. CASE pull' = [pull EXCEPT ![o].orphan = TRUE]
      <4>1. [pull[o] EXCEPT !.orphan = TRUE] \in Calls
        BY CallFacts DEF Calls
      <4>2. pull' = [pull EXCEPT ![o] = [pull[o] EXCEPT !.orphan = TRUE]]
        BY <3>2, Zenon
      <4> QED BY <4>1, <4>2, PullTyped
    <3> QED BY <1>10, <3>1, <3>2 DEF FetchExpire
  <2>2. Tail(todo) \in Seq(Owners)
    BY <1>10, <1>b, HeadTailProperties DEF FetchExpire, Types
  <2>3. faults' \in Nat
    BY <1>10, FaultTyped DEF FetchExpire
  <2>4. client_producers_done' \in [Owners -> BOOLEAN]
    BY <1>10 DEF FetchExpire, GiveUp, Types
  <2>5. Back /\ VisitStep /\ UNCHANGED client_buffer
    BY <1>10 DEF FetchExpire
  <2> QED BY <2>1, <2>2, <2>3, <2>4, <2>5 DEF Back, VisitStep, Types
<1>11. CASE FetchEmit
  <2> DEFINE k     == Lower(max_rows, Len(client_buffer))
             chunk == SubSeq(client_buffer, 1, k)
             rest  == SubSeq(client_buffer, k + 1, Len(client_buffer))
             last  == IsLast(rest, chunk)
  <2>1. chunk \in Seq(Entries) /\ rest \in Seq(Entries)
    BY DrainFacts DEF Types
  <2>2. /\ client_buffer' = rest
        /\ delivered' = [n \in Nodes |-> delivered[n] \o OfOwner(chunk, n)]
        /\ registered' = [registered EXCEPT ![Self] = @ /\ ~last]
        /\ client' \in {"done", "ready"} /\ fetch' = "idle"
        /\ UNCHANGED <<shard, matched, matched_cursor, done_producing, cancelled,
                   client_producers_done, producerVars, submitVars, todo,
                   max_rows, pulled, pull, toCancel, faults>>
    BY <1>11 DEF FetchEmit
  <2>3. last \in BOOLEAN
    BY DEF IsLast
  <2> HIDE DEF chunk, rest, last
  <2>4. delivered' \in [Nodes -> Seq(Nat)]
    <3>1. ASSUME NEW n \in Nodes PROVE delivered[n] \o OfOwner(chunk, n) \in Seq(Nat)
      BY <2>1, OfOwnerRows, ConcatProperties DEF Types
    <3> QED BY <2>2, <3>1
  <2>5. registered' \in [Nodes -> BOOLEAN]
    BY <2>2, <2>3 DEF Types
  <2> QED BY <2>1, <2>2, <2>4, <2>5 DEF Types
<1>12. CASE CancelBegin
  BY <1>12, EmptySeq, PyAssumption DEF CancelBegin, CancelUnchanged, Types
<1>13. CASE CancelNext
  <2>1. Tail(toCancel) \in Seq(Owners) /\ Head(toCancel) \in Owners
    BY <1>13, HeadTailProperties DEF CancelNext, Types
  <2>2. CASE CancelOwner(Head(toCancel))
    BY <1>13, <2>1, <2>2, EmptySeq DEF CancelNext, CancelOwner, CancelUnchanged, Types
  <2>3. CASE Fault /\ UNCHANGED <<cancelled, matched, registered>>
    <3>1. faults' \in Nat
      BY <2>3, FaultTyped
    <3> QED BY <1>13, <2>1, <2>3, <3>1 DEF CancelNext, CancelUnchanged, Types
  <2> QED BY <1>13, <2>2, <2>3 DEF CancelNext
<1>14. CASE CancelReply
  BY <1>14 DEF CancelReply, CancelUnchanged, Types
<1>15. ASSUME NEW n \in Nodes, Produce(n)
       PROVE  Types'
  <2>1. CASE ProduceBegin(n)
    <3>1. TurnRows(n) \in Nat
      <4>1. matched_cursor[n] + quota[n] <= shard[n].found
        BY DEF Production, Producing
      <4>2. matched_cursor[n] \in Nat /\ quota[n] \in Nat
        BY DEF Types
      <4>3. shard[n].found - matched_cursor[n] \in Nat
        BY <4>1, <4>2, ShardFacts
      <4>4. Batch \in Nat
        BY PyAssumption
      <4> QED BY <4>3, <4>4 DEF TurnRows, Lower
    <3>2. /\ producer' = [producer EXCEPT ![n] = "check"]
          /\ quota' = [quota EXCEPT ![n] = TurnRows(n)]
          /\ UNCHANGED <<matched, matched_cursor, done_producing>>
          /\ ProducerStep(n)
      BY <2>1 DEF ProduceBegin
    <3> QED BY <3>1, <3>2 DEF ProducerStep, Types
  <2>2. CASE ProduceCheck(n)
    BY <2>2 DEF ProduceCheck, ProducerStep, Types
  <2>3. CASE ProduceRow(n)
    <3>a. matched[n] \in Seq(Nat) /\ matched_cursor[n] \in Nat /\ matched_cursor[n] + 1 \in Nat
      BY DEF Types
    <3>1. Append(matched[n], matched_cursor[n] + 1) \in Seq(Nat)
      BY <3>a, RowsAppend, Zenon
    <3>2. quota[n] - 1 \in Nat
      <4>1. producer[n] = "row"
        BY <2>3 DEF ProduceRow
      <4>2. quota[n] > 0
        BY <4>1 DEF Production, Producing
      <4>3. quota[n] \in Nat
        BY DEF Types
      <4> QED BY <4>2, <4>3
    <3>3. /\ matched' = [matched EXCEPT ![n] = Append(matched[n], matched_cursor[n] + 1)]
          /\ matched_cursor' = [matched_cursor EXCEPT ![n] = matched_cursor[n] + 1]
          /\ quota' = [quota EXCEPT ![n] = quota[n] - 1]
          /\ producer' = [producer EXCEPT ![n] = IF Full(n) THEN "end" ELSE "check"]
          /\ UNCHANGED done_producing
          /\ ProducerStep(n)
      BY <2>3 DEF ProduceRow, Advanced
    <3>4. matched' \in [Nodes -> Seq(Nat)]
      BY <3>1, <3>3 DEF Types
    <3>5. matched_cursor' \in [Nodes -> Nat] /\ quota' \in [Nodes -> Nat]
      <4>1. matched_cursor' \in [Nodes -> Nat]
        BY <3>a, <3>3 DEF Types
      <4>2. quota' \in [Nodes -> Nat]
        BY <3>2, <3>3 DEF Types
      <4> QED BY <4>1, <4>2
    <3>6. producer' \in [Nodes -> {"idle", "check", "row", "end"}]
      <4>1. (IF Full(n) THEN "end" ELSE "check") \in {"idle", "check", "row", "end"}
        OBVIOUS
      <4>2. producer' = [producer EXCEPT ![n] = IF Full(n) THEN "end" ELSE "check"]
        BY <3>3
      <4> QED BY <4>1, <4>2 DEF Types
    <3>7. UNCHANGED done_producing /\ ProducerStep(n)
      BY <3>3
    <3> QED BY <3>4, <3>5, <3>6, <3>7 DEF ProducerStep, Types
  <2>4. CASE ProduceEnd(n)
    BY <2>4 DEF ProduceEnd, Exhausted, ProducerStep, Types
  <2> QED BY <1>15, <2>1, <2>2, <2>3, <2>4 DEF Produce
<1>16. ASSUME NEW o \in Owners, PullChunk(o)
       PROVE  Types'
  <2>1. ASSUME NEW call \in Calls, Answered(o, call), HandlerStep,
               registered' \in [Nodes -> BOOLEAN], matched' \in [Nodes -> Seq(Nat)]
        PROVE  Types'
    BY <2>1, AnsweredTyped DEF HandlerStep, Types
  <2>2. CASE PullNotFound(o)
    <3>1. [pull[o] EXCEPT !.stage = "error"] \in Calls
      BY CallFacts DEF Calls
    <3> QED BY <2>1, <2>2, <3>1 DEF PullNotFound, Types
  <2>3. CASE PullDrain(o)
    <3> DEFINE k == Lower(pull[o].max_rows, Len(matched[o]))
               front == SubSeq(matched[o], 1, k)
               call == [pull[o] EXCEPT !.stage = "drained", !.rows = front]
    <3>1. /\ front \in Seq(Nat) /\ SubSeq(matched[o], k + 1, Len(matched[o])) \in Seq(Nat)
      BY DrainFacts, CallFacts DEF Types
    <3>2. /\ pull' = [pull EXCEPT ![o].stage = "drained", ![o].rows = front]
          /\ matched' = [matched EXCEPT ![o] = SubSeq(@, k + 1, Len(@))]
          /\ UNCHANGED registered /\ HandlerStep
      BY <2>3 DEF PullDrain
    <3> HIDE DEF front
    <3>3. call \in Calls
      BY <3>1, CallFacts DEF Calls
    <3>4. pull' = [pull EXCEPT ![o] = call]
      BY <3>2 DEF Types
    <3> HIDE DEF call
    <3>5. pull' \in [Nodes -> Calls]
      BY <3>3, <3>4, PullTyped
    <3>6. matched' \in [Nodes -> Seq(Nat)]
      BY <3>1, <3>2 DEF Types
    <3> QED BY <3>2, <3>5, <3>6 DEF HandlerStep, Types
  <2>4. CASE PullLook(o)
    <3> DEFINE call == [pull[o] EXCEPT !.stage = "looked", !.done = done_producing[o]]
    <3>1. call \in Calls
      <4>1. done_producing[o] \in BOOLEAN
        BY DEF Types
      <4> QED BY <4>1, CallFacts DEF Calls
    <3>2. pull' = [pull EXCEPT ![o] = call]
      BY <2>4 DEF PullLook, Types
    <3> HIDE DEF call
    <3>3. pull' \in [Nodes -> Calls]
      BY <3>1, <3>2, PullTyped
    <3> QED BY <2>4, <3>3 DEF PullLook, HandlerStep, Types
  <2>5. CASE PullFinish(o)
    <3>1. NoMoreRows(o) \in BOOLEAN
      BY CallFacts DEF NoMoreRows
    <3>2. [pull[o] EXCEPT !.stage = "replied", !.last = NoMoreRows(o)] \in Calls
      BY <3>1, CallFacts DEF Calls
    <3>3. registered' \in [Nodes -> BOOLEAN]
      BY <2>5, <3>1 DEF PullFinish, DropAtLast, Types
    <3> QED BY <2>1, <2>5, <3>2, <3>3 DEF PullFinish, Types
  <2> QED BY <1>16, <2>2, <2>3, <2>4, <2>5 DEF PullChunk
<1>17. ASSUME NEW o \in Owners, ForwardLate(o)
       PROVE  Types'
  BY <1>17 DEF ForwardLate, Register, NothingFound, Types
<1>18. CASE UNCHANGED vars
  BY <1>18 DEF vars, Types
<1> QED BY <1>1, <1>2, <1>3, <1>4, <1>5, <1>6, <1>7, <1>8, <1>9, <1>10, <1>11,
           <1>12, <1>13, <1>14, <1>15, <1>16, <1>17, <1>18
        DEF Next, FetchStep, Finish

-----------------------------------------------------------------------------
(* The producers. *)

LEMMA ProductionFacts ==
    ASSUME Types, Production, NEW n \in Nodes
    PROVE  /\ shard[n].found \in Nat /\ matched_cursor[n] \in Nat /\ quota[n] \in Nat
           /\ matched[n] \in Seq(Nat) /\ Len(matched[n]) \in Nat
           /\ MaxBuffered \in Nat \ {0}
           /\ Producing(n)
<1>1. matched[n] \in Seq(Nat) /\ matched_cursor[n] \in Nat /\ quota[n] \in Nat
  BY DEF Types
<1>2. Len(matched[n]) \in Nat
  BY <1>1, LenProperties
<1> QED BY <1>1, <1>2, ShardFacts, PyAssumption DEF Production

LEMMA ProductionFrame ==
    ASSUME Types, Production,
           UNCHANGED <<shard, matched_cursor, done_producing, producerVars>>,
           \A n \in Nodes : matched'[n] = matched[n] \/ matched'[n] = <<>>
    PROVE  Production'
<1> SUFFICES ASSUME NEW n \in Nodes PROVE Producing(n)'
  BY DEF Production
<1>1. Len(<<>>) = 0
  OBVIOUS
<1>2. Len(matched'[n]) \in Nat /\ Len(matched'[n]) <= Len(matched[n])
  BY <1>1, ProductionFacts
<1> QED BY <1>2, ProductionFacts DEF Producing, producerVars

LEMMA ProductionRegister ==
    ASSUME Types, Production, NEW n \in Nodes, Register(n),
           UNCHANGED <<shard, producerVars>>
    PROVE  Production'
<1> SUFFICES ASSUME NEW p \in Nodes PROVE Producing(p)'
  BY DEF Production
<1>1. /\ UNCHANGED <<shard, producer, quota, matched, matched_cursor>>
      /\ done_producing' = [done_producing EXCEPT ![n] = NothingFound(n)]
  BY DEF Register, producerVars
<1>2. Producing(p) /\ matched_cursor[p] \in Nat /\ quota[p] \in Nat /\ shard[p].found \in Nat
  BY ProductionFacts
<1>3. NothingFound(n) => shard[n].found = 0
  BY DEF NothingFound
<1>4. done_producing'[p] => matched_cursor[p] = shard[p].found
  BY <1>1, <1>2, <1>3 DEF Types, Producing
<1> QED BY <1>1, <1>2, <1>4 DEF Producing

LEMMA ProductionProduce ==
    ASSUME Types, Production, NEW n \in Nodes, Produce(n)
    PROVE  Production'
<1> SUFFICES ASSUME NEW p \in Nodes PROVE Producing(p)'
  BY DEF Production
<1>1. Producing(p) /\ Producing(n) /\ UNCHANGED shard
  BY ProductionFacts DEF Produce, ProduceBegin, ProduceCheck, ProduceRow, ProduceEnd,
        ProducerStep
<1>2. CASE p # n
  <2>1. /\ matched'[p] = matched[p] /\ matched_cursor'[p] = matched_cursor[p]
        /\ producer'[p] = producer[p] /\ quota'[p] = quota[p]
        /\ done_producing'[p] = done_producing[p]
    BY <1>2 DEF Produce, ProduceBegin, ProduceCheck, ProduceRow, ProduceEnd, Types
  <2> QED BY <1>1, <2>1 DEF Producing
<1>3. CASE p = n
  <2> USE ProductionFacts
  <2>1. CASE ProduceBegin(n)
    <3>1. /\ producer'[n] = "check" /\ quota'[n] = TurnRows(n)
          /\ matched'[n] = matched[n] /\ matched_cursor'[n] = matched_cursor[n]
          /\ done_producing'[n] = done_producing[n] /\ Len(matched[n]) < MaxBuffered
      BY <2>1 DEF ProduceBegin, Types
    <3>2. TurnRows(n) \in Nat /\ matched_cursor[n] + TurnRows(n) <= shard[n].found
      <4>1. Batch \in Nat
        BY PyAssumption
      <4>2. matched_cursor[n] <= shard[n].found
        BY <1>1 DEF Producing
      <4> QED BY <4>1, <4>2 DEF TurnRows, Lower
    <3> QED BY <1>1, <1>3, <3>1, <3>2 DEF Producing
  <2>2. CASE ProduceCheck(n)
    <3>1. /\ quota'[n] = quota[n]
          /\ matched'[n] = matched[n] /\ matched_cursor'[n] = matched_cursor[n]
          /\ done_producing'[n] = done_producing[n] /\ producer[n] = "check"
      BY <2>2 DEF ProduceCheck
    <3>2. /\ producer'[n] \in {"row", "end"}
          /\ producer'[n] = "row" => quota[n] # 0
      BY <2>2 DEF ProduceCheck, Types
    <3> QED BY <1>1, <1>3, <3>1, <3>2 DEF Producing
  <2>3. CASE ProduceRow(n)
    <3>1. /\ quota'[n] = quota[n] - 1 /\ producer[n] = "row"
          /\ matched'[n] = Append(matched[n], matched_cursor[n] + 1)
          /\ matched_cursor'[n] = matched_cursor[n] + 1
          /\ done_producing'[n] = done_producing[n]
          /\ producer'[n] = IF Full(n) THEN "end" ELSE "check"
      BY <2>3 DEF ProduceRow, Advanced, Types
    <3>2. Len(matched'[n]) = Len(matched[n]) + 1
      BY <3>1, AppendProperties
    <3>3. ~Full(n) => Len(matched[n]) + 1 < MaxBuffered
      BY DEF Full
    <3>4. quota[n] > 0 /\ Len(matched[n]) < MaxBuffered
          /\ matched_cursor[n] + quota[n] <= shard[n].found
          /\ Len(matched[n]) <= matched_cursor[n]
          /\ ~done_producing[n]
      BY <1>1, <3>1 DEF Producing
    <3>5. producer'[n] \in {"check", "row"} => Len(matched'[n]) < MaxBuffered
      BY <3>1, <3>2, <3>3
    <3>6. /\ Len(matched'[n]) <= MaxBuffered
          /\ Len(matched'[n]) <= matched_cursor'[n]
          /\ matched_cursor'[n] + quota'[n] <= shard[n].found
      BY <3>1, <3>2, <3>4
    <3>7. producer'[n] # "row" /\ ~done_producing'[n]
      BY <3>1, <3>4
    <3> QED BY <1>1, <1>3, <3>5, <3>6, <3>7 DEF Producing
  <2>4. CASE ProduceEnd(n)
    <3>1. /\ quota'[n] = 0 /\ producer'[n] = "idle"
          /\ matched'[n] = matched[n] /\ matched_cursor'[n] = matched_cursor[n]
          /\ done_producing'[n] = (done_producing[n] \/ Exhausted(n))
      BY <2>4 DEF ProduceEnd, Types
    <3>2. Exhausted(n) => matched_cursor[n] = shard[n].found
      BY <1>1 DEF Producing, Exhausted
    <3>3. done_producing'[n] => matched_cursor[n] = shard[n].found
      BY <1>1, <3>1, <3>2 DEF Producing
    <3>4. /\ Len(matched[n]) <= MaxBuffered /\ Len(matched[n]) <= matched_cursor[n]
          /\ matched_cursor[n] <= shard[n].found
      BY <1>1 DEF Producing
    <3> QED BY <1>1, <1>3, <3>1, <3>3, <3>4 DEF Producing
  <2> QED BY <2>1, <2>2, <2>3, <2>4 DEF Produce
<1> QED BY <1>2, <1>3

LEMMA ProductionDrain ==
    ASSUME Types, Production, NEW o \in Owners, PullDrain(o)
    PROVE  Production'
<1> SUFFICES ASSUME NEW p \in Nodes PROVE Producing(p)'
  BY DEF Production
<1> DEFINE k == Lower(pull[o].max_rows, Len(matched[o]))
<1>1. /\ matched' = [matched EXCEPT ![o] = SubSeq(matched[o], k + 1, Len(matched[o]))]
      /\ UNCHANGED <<shard, matched_cursor, done_producing, producer, quota>>
  BY DEF PullDrain, HandlerStep, producerVars
<1>2. o \in Nodes /\ matched[o] \in Seq(Nat) /\ pull[o].max_rows \in Nat /\ Len(matched[o]) \in Nat
  BY NodeFacts, ProductionFacts, CallFacts
<1>3. /\ k \in 0..Len(matched[o])
      /\ Len(SubSeq(matched[o], k + 1, Len(matched[o]))) = Len(matched[o]) - k
  <2>1. k \in 0..Len(matched[o])
    BY <1>2, DrainFacts
  <2>2. Len(SubSeq(matched[o], k + 1, Len(matched[o]))) = Len(matched[o]) - k
    BY <1>2, DrainFacts
  <2> QED BY <1>2, <2>1, <2>2
<1> HIDE DEF k
<1>4. Len(matched'[p]) \in Nat /\ Len(matched'[p]) <= Len(matched[p])
  <2>1. CASE p # o
    <3>1. matched'[p] = matched[p]
      BY <1>1, <2>1 DEF Types
    <3> QED BY <3>1, ProductionFacts
  <2>2. CASE p = o
    <3>1. Len(matched'[o]) = Len(matched[o]) - k /\ Len(matched[o]) - k \in Nat
      <4>1. matched'[o] = SubSeq(matched[o], k + 1, Len(matched[o]))
        BY <1>1, <1>2 DEF Types
      <4>2. Len(matched[o]) - k \in Nat
        BY <1>2, <1>3
      <4> QED BY <1>3, <4>1, <4>2
    <3> QED BY <1>2, <1>3, <2>2, <3>1
  <2> QED BY <2>1, <2>2
<1>5. UNCHANGED <<shard, matched_cursor, done_producing, producer, quota>>
  BY <1>1
<1> QED BY <1>4, <1>5, ProductionFacts DEF Producing

LEMMA ProductionStep ==
    ASSUME IInv, [Next]_vars
    PROVE  Production'
<1>a. Types /\ Production
  BY DEF IInv
<1> USE <1>a, NodeFacts DEF requestVars
<1>1. CASE SubmitQuery
  BY <1>1, ProductionRegister DEF SubmitQuery
<1>2. CASE ForwardNext
  <2>1. Head(toForward) \in Owners
    BY <1>2, HeadTailProperties DEF ForwardNext, Types
  <2>2. CASE Head(toForward) # Self /\ ForwardAccepted(Head(toForward))
    BY <1>2, <2>1, <2>2, ProductionRegister DEF ForwardNext, ForwardAccepted
  <2>3. CASE UNCHANGED requestVars
    BY <1>2, <2>3, ProductionFrame DEF ForwardNext
  <2> QED BY <1>2, <2>2, <2>3 DEF ForwardNext, Forward, NotForwarded, ForwardFailed
<1>3. CASE SubmitAck
  BY <1>3, ProductionFrame DEF SubmitAck
<1>4. ASSUME NEW b \in 1..Len(DataOwners), NEW e \in 1..Len(DataOwners), FetchBegin(b, e)
      PROVE  Production'
  BY <1>4, ProductionFrame DEF FetchBegin
<1>5. CASE VisitEnd
  BY <1>5, ProductionFrame DEF VisitEnd, VisitStep
<1>6. ASSUME NEW o \in Owners,
             VisitSkip(o) \/ VisitCall(o) \/ FetchReply(o) \/ FetchError(o) \/ FetchExpire(o)
      PROVE  Production'
  <2>1. VisitStep
    BY <1>6 DEF VisitSkip, VisitCall, FetchReply, FetchError, FetchExpire
  <2> QED BY <2>1, ProductionFrame DEF VisitStep
<1>7. CASE FetchEmit
  BY <1>7, ProductionFrame DEF FetchEmit
<1>8. CASE CancelBegin
  BY <1>8, ProductionFrame DEF CancelBegin, CancelUnchanged, Types
<1>9. CASE CancelNext
  <2>1. Head(toCancel) \in Owners
    BY <1>9, HeadTailProperties DEF CancelNext, Types
  <2>2. \A n \in Nodes : matched'[n] = matched[n] \/ matched'[n] = <<>>
    BY <1>9, <2>1 DEF CancelNext, CancelOwner, Types
  <2> QED BY <1>9, <2>2, ProductionFrame DEF CancelNext, CancelUnchanged
<1>10. CASE CancelReply
  BY <1>10, ProductionFrame DEF CancelReply, CancelUnchanged
<1>11. ASSUME NEW n \in Nodes, Produce(n)
       PROVE  Production'
  BY <1>11, ProductionProduce
<1>12. ASSUME NEW o \in Owners, PullChunk(o)
       PROVE  Production'
  <2>1. CASE PullDrain(o)
    BY <2>1, ProductionDrain
  <2>2. CASE PullNotFound(o) \/ PullLook(o) \/ PullFinish(o)
    <3>1. HandlerStep /\ UNCHANGED matched
      BY <2>2 DEF PullNotFound, PullLook, PullFinish
    <3> QED BY <3>1, ProductionFrame DEF HandlerStep
  <2> QED BY <1>12, <2>1, <2>2 DEF PullChunk
<1>13. ASSUME NEW o \in Owners, ForwardLate(o)
       PROVE  Production'
  BY <1>13, ProductionRegister DEF ForwardLate
<1>14. CASE UNCHANGED vars
  BY <1>14, ProductionFrame DEF vars
<1> QED BY <1>1, <1>2, <1>3, <1>4, <1>5, <1>6, <1>7, <1>8, <1>9, <1>10, <1>11,
           <1>12, <1>13, <1>14
        DEF Next, FetchStep, Finish

-----------------------------------------------------------------------------
(* The gateway's buffer. *)

LEMMA BufferFrame ==
    ASSUME BufferBounded, UNCHANGED <<client_buffer, max_rows>>,
           fetch' = fetch \/ (fetch # "idle" /\ fetch' # "call")
    PROVE  BufferBounded'
BY DEF BufferBounded

LEMMA BufferStep ==
    ASSUME IInv, [Next]_vars
    PROVE  BufferBounded'
<1>a. Types /\ BufferBounded /\ OneCall
  BY DEF IInv
<1>b. Len(client_buffer) \in Nat /\ max_rows \in Nat /\ FetchSizes \subseteq Nat \ {0}
  <2>1. client_buffer \in Seq(Entries) /\ max_rows \in Nat
    BY DEF IInv, Types
  <2>2. Len(client_buffer) \in Nat
    BY <2>1, LenProperties
  <2> QED BY <2>1, <2>2, PyAssumption
<1> USE <1>a, NodeFacts DEF gatewayVars, fetchVars
<1>1. CASE SubmitQuery \/ SubmitAck
  BY <1>1, BufferFrame DEF SubmitQuery, SubmitAck
<1>2. CASE ForwardNext
  BY <1>2, BufferFrame DEF ForwardNext
<1>4. ASSUME NEW b \in 1..Len(DataOwners), NEW e \in 1..Len(DataOwners), FetchBegin(b, e)
      PROVE  BufferBounded'
  <2>1. CASE UNCHANGED fetchVars
    BY <1>4, <2>1, BufferFrame DEF FetchBegin
  <2>2. CASE fetch' = "visit" /\ max_rows' \in FetchSizes
    BY <1>4, <2>2 DEF FetchBegin, BufferBounded
  <2> QED BY <1>4, <2>1, <2>2 DEF FetchBegin
<1>5. CASE VisitEnd
  BY <1>5, BufferFrame DEF VisitEnd, VisitStep
<1>6. ASSUME NEW o \in Owners, VisitSkip(o)
      PROVE  BufferBounded'
  BY <1>6, BufferFrame DEF VisitSkip, VisitStep
<1>7. ASSUME NEW o \in Owners, VisitCall(o)
      PROVE  BufferBounded'
  <2>1. Len(client_buffer) < max_rows
    BY <1>7, <1>b DEF VisitCall, Visiting, Enough
  <2>2. fetch = "visit" /\ UNCHANGED <<client_buffer, max_rows>>
    BY <1>7 DEF VisitCall, Visiting, VisitStep
  <2> QED BY <2>1, <2>2 DEF BufferBounded
<1>8. ASSUME NEW o \in Owners, FetchReply(o)
      PROVE  BufferBounded'
  <2>1. /\ Calling(o) /\ o \in Nodes /\ fetch = "call" /\ pull[o].stage = "replied"
        /\ UNCHANGED max_rows /\ fetch' = "visit"
    BY <1>8 DEF OneCall, FetchReply, Back, VisitStep
  <2>2. Len(pull[o].rows) <= max_rows /\ Len(pull[o].rows) \in Nat
    <3>1. pull[o].rows \in Seq(Nat)
      BY <2>1, CallFacts
    <3>2. ~pull[o].orphan
      BY <2>1 DEF Calling
    <3> QED BY <2>1, <3>1, <3>2, LenProperties DEF Calling
  <2>3. /\ client_buffer' = client_buffer \o Tagged(pull[o].rows, o)
        /\ Tagged(pull[o].rows, o) \in Seq(Entries)
        /\ Len(Tagged(pull[o].rows, o)) = Len(pull[o].rows)
    BY <1>8, <2>1, CallFacts, TaggedOK DEF FetchReply, Tagged
  <2>4. Len(client_buffer') = Len(client_buffer) + Len(pull[o].rows)
    <3> DEFINE t == Tagged(pull[o].rows, o)
    <3>1. client_buffer \in Seq(Entries)
      BY DEF Types
    <3>2. t \in Seq(Entries) /\ Len(t) = Len(pull[o].rows) /\ client_buffer' = client_buffer \o t
      BY <2>3
    <3> HIDE DEF t
    <3>3. Len(client_buffer \o t) = Len(client_buffer) + Len(t)
      BY <3>1, <3>2, ConcatProperties
    <3> QED BY <3>2, <3>3
  <2> SUFFICES ASSUME NEW m \in FetchSizes, \A j \in FetchSizes : j <= m
               PROVE  Len(client_buffer') < 2 * m /\ max_rows <= m
    BY <2>1 DEF BufferBounded
  <2>5. max_rows <= m /\ Len(client_buffer) < max_rows
    BY <2>1 DEF BufferBounded
  <2> QED BY <1>b, <2>2, <2>4, <2>5
<1>9. ASSUME NEW o \in Owners, FetchError(o) \/ FetchExpire(o)
      PROVE  BufferBounded'
  BY <1>9, BufferFrame DEF FetchError, FetchExpire, Back, VisitStep
<1>11. CASE FetchEmit
  <2> DEFINE k == Lower(max_rows, Len(client_buffer))
  <2>1. /\ client_buffer' = SubSeq(client_buffer, k + 1, Len(client_buffer))
        /\ fetch' = "idle" /\ UNCHANGED max_rows
    BY <1>11 DEF FetchEmit
  <2>2. k \in Nat /\ Len(client_buffer') = Len(client_buffer) - k
    BY <1>b, <2>1, DrainFacts DEF Types
  <2> HIDE DEF k
  <2> QED BY <1>b, <2>1, <2>2 DEF BufferBounded
<1>12. CASE CancelBegin
  <2>1. client_buffer' = <<>> /\ UNCHANGED fetchVars /\ Len(<<>>) = 0
    BY <1>12 DEF CancelBegin, CancelUnchanged
  <2>2. fetch = "idle"
    BY <1>12 DEF CancelBegin, OneCall
  <2> QED BY <1>b, <2>1, <2>2 DEF BufferBounded
<1>13. CASE CancelNext \/ CancelReply
  BY <1>13, BufferFrame DEF CancelNext, CancelReply, CancelUnchanged
<1>15. ASSUME NEW n \in Nodes, Produce(n)
       PROVE  BufferBounded'
  <2>1. ProducerStep(n)
    BY <1>15 DEF Produce, ProduceBegin, ProduceCheck, ProduceRow, ProduceEnd
  <2> QED BY <2>1, BufferFrame DEF ProducerStep
<1>16. ASSUME NEW o \in Owners, PullChunk(o)
       PROVE  BufferBounded'
  <2>1. HandlerStep
    BY <1>16 DEF PullChunk, PullNotFound, PullDrain, PullLook, PullFinish
  <2> QED BY <2>1, BufferFrame DEF HandlerStep
<1>17. ASSUME NEW o \in Owners, ForwardLate(o)
       PROVE  BufferBounded'
  BY <1>17, BufferFrame DEF ForwardLate
<1>18. CASE UNCHANGED vars
  BY <1>18, BufferFrame DEF vars
<1> QED BY <1>1, <1>2, <1>4, <1>5, <1>6, <1>7, <1>8, <1>9, <1>11,
           <1>12, <1>13, <1>15, <1>16, <1>17, <1>18
        DEF Next, FetchStep, Finish

-----------------------------------------------------------------------------
(* The calls. *)

(* Nothing that a call depends on changes, except that more owners may be
   given up while no call is under way. *)
LEMMA CallsFrame ==
    ASSUME Types, OneCall,
           UNCHANGED <<shard, fetchVars, pull>>,
           client' = client \/ (client # "fetching" /\ client' # "fetching"),
           fetch # "idle" => UNCHANGED client_producers_done,
           \A o \in Owners : client_producers_done[o] => client_producers_done'[o],
           faults > 0 => faults' > 0,
           \A o \in Nodes : pull[o].done => matched_cursor'[o] = matched_cursor[o]
    PROVE  OneCall'
<1>1. ASSUME NEW o \in Nodes PROVE Calling(o)'
  BY DEF OneCall, Calling, fetchVars
<1>2. fetch' = "idle" <=> client' # "fetching"
  BY DEF OneCall, fetchVars
<1>3. fetch' = "call" => todo' # <<>> /\ ~client_producers_done'[Head(todo')]
  BY DEF OneCall, fetchVars
<1> QED BY <1>1, <1>2, <1>3 DEF OneCall

(* While FetchChunk visits, only handlers that have lost it are under way. *)
LEMMA NobodyCalls ==
    ASSUME Types, OneCall, NEW p \in Nodes, pull[p].stage # "none",
           fetch # "call" \/ p # Head(todo)
    PROVE  pull[p].orphan
BY CallFacts DEF OneCall, Calling

(* FetchChunk goes on after the call of o, whose handler has answered, is
   gone, or goes on alone. *)
LEMMA CallsBack ==
    ASSUME Types, OneCall, NEW o \in Owners, o = Head(todo), fetch = "call",
           fetch' = "visit", UNCHANGED <<client, shard, matched_cursor>>,
           NEW call, pull' = [pull EXCEPT ![o] = call],
           \A p \in Owners : client_producers_done[p] => client_producers_done'[p],
           faults > 0 => faults' > 0,
           call = NoCall \/ (/\ call = [pull[o] EXCEPT !.orphan = TRUE]
                             /\ pull[o].stage \in {"sent", "drained", "looked"}
                             /\ faults' > 0 /\ client_producers_done'[o])
    PROVE  OneCall'
<1>1. fetch' = "idle" <=> client' # "fetching"
  BY DEF OneCall
<1>2. ASSUME NEW p \in Nodes PROVE Calling(p)'
  <2>1. CASE p # o
    <3>1. pull'[p] = pull[p] /\ Calling(p) /\ (pull[p].stage # "none" => pull[p].orphan)
      BY <2>1, NobodyCalls DEF Types, OneCall
    <3> QED BY <3>1 DEF Calling
  <2>2. CASE p = o
    <3>1. pull'[o] = call /\ Calling(o)
      BY NodeFacts DEF Types, OneCall
    <3>2. CASE call = NoCall
      BY <2>2, <3>1, <3>2 DEF Calling, NoCall
    <3>3. CASE call # NoCall
      <4>1. /\ call.orphan /\ call.stage = pull[o].stage /\ call.rows = pull[o].rows
            /\ call.max_rows = pull[o].max_rows /\ call.done = pull[o].done
        BY <3>3, CallFacts, NodeFacts DEF Calls
      <4>2. pull'[o].orphan /\ pull'[o].stage \in {"sent", "drained", "looked"}
        BY <3>1, <3>3, <4>1
      <4> QED BY <2>2, <3>1, <3>3, <4>1, <4>2 DEF Calling
    <3> QED BY <3>2, <3>3
  <2> QED BY <2>1, <2>2
<1> QED BY <1>1, <1>2 DEF OneCall

(* A step of the handler of o. *)
LEMMA CallsHandler ==
    ASSUME Types, OneCall, NEW o \in Owners, HandlerStep,
           NEW call, pull' = [pull EXCEPT ![o] = call],
           pull[o].stage \in {"sent", "drained", "looked"},
           \/ call = NoCall /\ pull[o].orphan
           \/ /\ call.orphan = pull[o].orphan /\ call.max_rows = pull[o].max_rows
              /\ call.stage \in {"drained", "looked", "replied", "error"}
              /\ call.orphan => call.stage \in {"drained", "looked"}
              /\ call.stage = "error" => call.rows = <<>>
              /\ Len(call.rows) <= call.max_rows
              /\ call.done => matched_cursor[o] = shard[o].found
    PROVE  OneCall'
<1>1. UNCHANGED <<shard, client, fetch, todo, max_rows, faults, client_producers_done,
                  matched_cursor>>
  BY DEF HandlerStep, fetchVars, gatewayVars
<1>2. ASSUME NEW p \in Nodes PROVE Calling(p)'
  <2>1. CASE p # o
    <3>1. pull'[p] = pull[p] /\ Calling(p)
      BY <2>1 DEF Types, OneCall
    <3> QED BY <1>1, <3>1 DEF Calling
  <2>2. CASE p = o
    <3>1. pull'[o] = call /\ Calling(o)
      BY NodeFacts DEF Types, OneCall
    <3>2. CASE call = NoCall
      BY <2>2, <3>1, <3>2 DEF Calling, NoCall
    <3>3. CASE call # NoCall
      BY <1>1, <2>2, <3>1, <3>3 DEF Calling
    <3> QED BY <3>2, <3>3
  <2> QED BY <2>1, <2>2
<1> QED BY <1>1, <1>2 DEF OneCall

LEMMA CallsStep ==
    ASSUME IInv, [Next]_vars
    PROVE  OneCall'
<1>a. Types /\ Production /\ OneCall /\ Phases
  BY DEF IInv
<1>b. faults \in Nat
  BY <1>a DEF Types
<1> USE <1>a, NodeFacts DEF requestVars, gatewayVars, fetchVars
<1>1. CASE SubmitQuery \/ SubmitAck
  BY <1>1, CallsFrame DEF SubmitQuery, SubmitAck, Register
<1>2. CASE ForwardNext
  <2>1. Head(toForward) \in Owners
    BY <1>2, HeadTailProperties DEF ForwardNext, Types
  <2>2. fetch = "idle"
    BY <1>2 DEF ForwardNext, Phases, OneCall
  <2>3. /\ UNCHANGED matched_cursor /\ (faults > 0 => faults' > 0)
        /\ \A o \in Owners : client_producers_done[o] => client_producers_done'[o]
    <3>1. CASE NotForwarded \/ ForwardAccepted(Head(toForward))
      BY <3>1 DEF NotForwarded, ForwardAccepted, Register
    <3>2. CASE ForwardFailed(Head(toForward))
      <4>1. faults' > 0
        BY <1>b, <3>2 DEF ForwardFailed, Fault
      <4>2. \A o \in Owners : client_producers_done[o] => client_producers_done'[o]
        BY <2>1, <3>2 DEF ForwardFailed, GiveUp, Types
      <4> QED BY <3>2, <4>1, <4>2 DEF ForwardFailed
    <3> QED BY <1>2, <3>1, <3>2 DEF ForwardNext, Forward
  <2>4. UNCHANGED <<shard, client, fetchVars, pull>>
    BY <1>2 DEF ForwardNext
  <2> QED BY <2>2, <2>3, <2>4, CallsFrame
<1>3. ASSUME NEW b \in 1..Len(DataOwners), NEW e \in 1..Len(DataOwners), FetchBegin(b, e)
      PROVE  OneCall'
  <2>1. UNCHANGED <<shard, client_producers_done, pull, faults, matched_cursor>>
        /\ client = "ready"
    BY <1>3 DEF FetchBegin
  <2>2. fetch = "idle"
    BY <2>1 DEF OneCall
  <2>3. ASSUME NEW p \in Nodes PROVE Calling(p)'
    <3>1. Calling(p) /\ (pull[p].stage # "none" => pull[p].orphan)
      BY <2>2, NobodyCalls DEF OneCall
    <3> QED BY <2>1, <3>1 DEF Calling
  <2>4. fetch' # "call" /\ (fetch' = "idle" <=> client' # "fetching")
    BY <1>3, <2>2 DEF FetchBegin
  <2> QED BY <2>3, <2>4 DEF OneCall
<1>4. CASE VisitEnd
  <2>1. /\ UNCHANGED <<shard, client, client_producers_done, pull, faults, matched_cursor>>
        /\ fetch = "visit" /\ fetch' = "emit"
    BY <1>4 DEF VisitEnd, VisitStep
  <2>2. ASSUME NEW p \in Nodes PROVE Calling(p)'
    <3>1. Calling(p) /\ (pull[p].stage # "none" => pull[p].orphan)
      BY <2>1, NobodyCalls DEF OneCall
    <3> QED BY <2>1, <3>1 DEF Calling
  <2> QED BY <2>1, <2>2 DEF OneCall
<1>5. ASSUME NEW o \in Owners, VisitSkip(o)
      PROVE  OneCall'
  <2>1. /\ UNCHANGED <<shard, client, client_producers_done, pull, faults, matched_cursor>>
        /\ fetch = "visit" /\ fetch' = "visit"
    BY <1>5 DEF VisitSkip, Visiting, VisitStep
  <2>2. ASSUME NEW p \in Nodes PROVE Calling(p)'
    <3>1. Calling(p) /\ (pull[p].stage # "none" => pull[p].orphan)
      BY <2>1, NobodyCalls DEF OneCall
    <3> QED BY <2>1, <3>1 DEF Calling
  <2> QED BY <2>1, <2>2 DEF OneCall
<1>6. ASSUME NEW o \in Owners, VisitCall(o)
      PROVE  OneCall'
  <2> DEFINE call == [NoCall EXCEPT !.stage = "sent", !.max_rows = max_rows]
  <2>1. /\ UNCHANGED <<shard, client, client_producers_done, faults, matched_cursor, todo,
                       max_rows>>
        /\ fetch = "visit" /\ fetch' = "call"
        /\ todo # <<>> /\ o = Head(todo) /\ ~client_producers_done[o]
        /\ pull' = [pull EXCEPT ![o] = call]
    BY <1>6 DEF VisitCall, Visiting, VisitStep
  <2>2. /\ call.stage = "sent" /\ call.rows = <<>> /\ Len(call.rows) = 0
        /\ call.max_rows = max_rows /\ ~call.orphan /\ ~call.done
    BY DEF NoCall
  <2> HIDE DEF call
  <2>3. max_rows \in Nat
    BY DEF Types
  <2>4. ASSUME NEW p \in Nodes PROVE Calling(p)'
    <3>1. CASE p # o
      <4>1. /\ Calling(p) /\ (pull[p].stage # "none" => pull[p].orphan)
            /\ pull'[p] = pull[p]
        BY <2>1, <3>1, NobodyCalls DEF OneCall, Types
      <4> QED BY <2>1, <4>1 DEF Calling
    <3>2. CASE p = o
      <4>1. pull'[p] = call
        BY <2>1, <3>2 DEF Types
      <4> QED BY <2>1, <2>2, <2>3, <3>2, <4>1 DEF Calling
    <3> QED BY <3>1, <3>2
  <2> QED BY <2>1, <2>4 DEF OneCall
<1>7. ASSUME NEW o \in Owners, FetchReply(o)
      PROVE  OneCall'
  <2>1. /\ o = Head(todo) /\ fetch = "call" /\ fetch' = "visit"
        /\ UNCHANGED <<client, shard, matched_cursor, faults>>
        /\ pull' = [pull EXCEPT ![o] = NoCall]
    BY <1>7 DEF FetchReply, Back, VisitStep
  <2>2. \A p \in Owners : client_producers_done[p] => client_producers_done'[p]
    BY <1>7 DEF FetchReply, Types
  <2> QED BY <2>1, <2>2, CallsBack
<1>8. ASSUME NEW o \in Owners, FetchError(o)
      PROVE  OneCall'
  <2>1. /\ o = Head(todo) /\ fetch = "call" /\ fetch' = "visit"
        /\ UNCHANGED <<client, shard, matched_cursor, faults>>
        /\ pull' = [pull EXCEPT ![o] = NoCall]
    BY <1>8 DEF FetchError, Back, VisitStep
  <2>2. \A p \in Owners : client_producers_done[p] => client_producers_done'[p]
    BY <1>8 DEF FetchError, GiveUp, Types
  <2> QED BY <2>1, <2>2, CallsBack
<1>9. ASSUME NEW o \in Owners, FetchExpire(o)
      PROVE  OneCall'
  <2>1. /\ o = Head(todo) /\ fetch = "call" /\ fetch' = "visit"
        /\ UNCHANGED <<client, shard, matched_cursor>>
        /\ pull[o].stage \in {"sent", "drained", "looked"}
    BY <1>9 DEF FetchExpire, Back, VisitStep
  <2>2. /\ client_producers_done'[o]
        /\ \A p \in Owners : client_producers_done[p] => client_producers_done'[p]
    BY <1>9 DEF FetchExpire, GiveUp, Types
  <2>3. faults' > 0
    BY <1>9, <1>b DEF FetchExpire, Fault
  <2>4. CASE pull' = [pull EXCEPT ![o] = NoCall]
    BY <2>1, <2>2, <2>3, <2>4, CallsBack
  <2>5. CASE pull' = [pull EXCEPT ![o].orphan = TRUE]
    <3> DEFINE call == [pull[o] EXCEPT !.orphan = TRUE]
    <3>1. pull' = [pull EXCEPT ![o] = call]
      BY <2>5, Zenon
    <3>2. call = [pull[o] EXCEPT !.orphan = TRUE]
      OBVIOUS
    <3> HIDE DEF call
    <3> QED BY <2>1, <2>2, <2>3, <3>1, <3>2, CallsBack
  <2> QED BY <1>9, <2>4, <2>5 DEF FetchExpire
<1>10. CASE FetchEmit
  <2>1. /\ UNCHANGED <<shard, client_producers_done, pull, faults, matched_cursor>>
        /\ fetch = "emit" /\ fetch' = "idle" /\ client' \in {"done", "ready"}
    BY <1>10 DEF FetchEmit
  <2>2. ASSUME NEW p \in Nodes PROVE Calling(p)'
    <3>1. Calling(p) /\ (pull[p].stage # "none" => pull[p].orphan)
      BY <2>1, NobodyCalls DEF OneCall
    <3> QED BY <2>1, <3>1 DEF Calling
  <2> QED BY <2>1, <2>2 DEF OneCall
<1>11. CASE CancelBegin \/ CancelReply
  <2>1. /\ UNCHANGED <<shard, client_producers_done, pull, faults, matched_cursor, fetchVars>>
        /\ client # "fetching" /\ client' # "fetching"
    BY <1>11 DEF CancelBegin, CancelReply, CancelUnchanged
  <2> QED BY <2>1, CallsFrame
<1>12. CASE CancelNext
  <2>1. UNCHANGED <<shard, client, client_producers_done, pull, matched_cursor, fetchVars>>
    BY <1>12 DEF CancelNext, CancelUnchanged
  <2>2. faults > 0 => faults' > 0
    BY <1>12, <1>b DEF CancelNext, CancelOwner, Fault
  <2> QED BY <2>1, <2>2, CallsFrame
<1>13. ASSUME NEW n \in Nodes, Produce(n)
       PROVE  OneCall'
  <2>1. ProducerStep(n)
    BY <1>13 DEF Produce, ProduceBegin, ProduceCheck, ProduceRow, ProduceEnd
  <2>2. \A o \in Nodes : pull[o].done => matched_cursor'[o] = matched_cursor[o]
    <3>1. CASE ProduceRow(n)
      <4>1. /\ producer[n] = "row"
            /\ matched_cursor' = [matched_cursor EXCEPT ![n] = matched_cursor[n] + 1]
        BY <3>1 DEF ProduceRow, Advanced
      <4>2. ~pull[n].done
        BY <4>1, ProductionFacts DEF Producing, OneCall, Calling
      <4> QED BY <4>1, <4>2 DEF Types
    <3>2. CASE ~ProduceRow(n)
      BY <1>13, <3>2 DEF Produce, ProduceBegin, ProduceCheck, ProduceEnd
    <3> QED BY <3>1, <3>2
  <2> QED BY <2>1, <2>2, CallsFrame DEF ProducerStep
<1>14. ASSUME NEW o \in Owners, PullNotFound(o)
       PROVE  OneCall'
  <2> DEFINE call == [pull[o] EXCEPT !.stage = "error"]
  <2>1. /\ pull' = [pull EXCEPT ![o] = IF pull[o].orphan THEN NoCall ELSE call]
        /\ pull[o].stage = "sent" /\ HandlerStep
    BY <1>14 DEF PullNotFound, Answered
  <2>2. /\ call.orphan = pull[o].orphan /\ call.max_rows = pull[o].max_rows
        /\ call.rows = pull[o].rows /\ call.done = pull[o].done /\ call.stage = "error"
    BY CallFacts DEF Calls
  <2> HIDE DEF call
  <2>3. Calling(o)
    BY DEF OneCall
  <2>4. CASE pull[o].orphan
    BY <2>1, <2>4, CallsHandler
  <2>5. CASE ~pull[o].orphan
    <3>1. /\ pull' = [pull EXCEPT ![o] = call]
          /\ call.rows = <<>> /\ Len(call.rows) <= call.max_rows
          /\ call.done => matched_cursor[o] = shard[o].found
      BY <2>1, <2>2, <2>3, <2>5 DEF Calling
    <3> QED BY <2>1, <2>2, <2>5, <3>1, CallsHandler
  <2> QED BY <2>4, <2>5
<1>15. ASSUME NEW o \in Owners, PullDrain(o)
       PROVE  OneCall'
  <2> DEFINE k == Lower(pull[o].max_rows, Len(matched[o]))
             front == SubSeq(matched[o], 1, k)
             call == [pull[o] EXCEPT !.stage = "drained", !.rows = front]
  <2>1. /\ pull' = [pull EXCEPT ![o].stage = "drained", ![o].rows = front]
        /\ pull[o].stage = "sent" /\ HandlerStep
    BY <1>15 DEF PullDrain
  <2>2. Len(front) <= pull[o].max_rows
    <3>1. matched[o] \in Seq(Nat) /\ pull[o].max_rows \in Nat
      BY CallFacts DEF Types
    <3> QED BY <3>1, DrainFacts
  <2> HIDE DEF front
  <2>3. pull' = [pull EXCEPT ![o] = call]
    BY <2>1 DEF Types
  <2>4. /\ call.orphan = pull[o].orphan /\ call.max_rows = pull[o].max_rows
        /\ call.rows = front /\ call.done = pull[o].done /\ call.stage = "drained"
    BY CallFacts DEF Calls
  <2> HIDE DEF call
  <2>5. call.done => matched_cursor[o] = shard[o].found
    BY <2>4 DEF OneCall, Calling
  <2> QED BY <2>1, <2>2, <2>3, <2>4, <2>5, CallsHandler
<1>16. ASSUME NEW o \in Owners, PullLook(o)
       PROVE  OneCall'
  <2> DEFINE call == [pull[o] EXCEPT !.stage = "looked", !.done = done_producing[o]]
  <2>1. /\ pull' = [pull EXCEPT ![o].stage = "looked", ![o].done = done_producing[o]]
        /\ pull[o].stage = "drained" /\ HandlerStep
    BY <1>16 DEF PullLook
  <2>2. pull' = [pull EXCEPT ![o] = call]
    BY <2>1 DEF Types
  <2>3. /\ call.orphan = pull[o].orphan /\ call.max_rows = pull[o].max_rows
        /\ call.rows = pull[o].rows /\ call.done = done_producing[o]
        /\ call.stage = "looked"
    BY CallFacts DEF Calls
  <2> HIDE DEF call
  <2>4. /\ call.done => matched_cursor[o] = shard[o].found
        /\ Len(call.rows) <= call.max_rows
    BY <2>3, ProductionFacts DEF Producing, OneCall, Calling
  <2> QED BY <2>1, <2>2, <2>3, <2>4, CallsHandler
<1>17. ASSUME NEW o \in Owners, PullFinish(o)
       PROVE  OneCall'
  <2> DEFINE call == [pull[o] EXCEPT !.stage = "replied", !.last = NoMoreRows(o)]
  <2>1. /\ pull' = [pull EXCEPT ![o] = IF pull[o].orphan THEN NoCall ELSE call]
        /\ pull[o].stage = "looked" /\ HandlerStep
    BY <1>17 DEF PullFinish, Answered
  <2>2. /\ call.orphan = pull[o].orphan /\ call.max_rows = pull[o].max_rows
        /\ call.rows = pull[o].rows /\ call.done = pull[o].done /\ call.stage = "replied"
    BY CallFacts DEF Calls
  <2> HIDE DEF call
  <2>3. Calling(o)
    BY DEF OneCall
  <2>4. CASE pull[o].orphan
    BY <2>1, <2>4, CallsHandler
  <2>5. CASE ~pull[o].orphan
    <3>1. /\ pull' = [pull EXCEPT ![o] = call]
          /\ Len(call.rows) <= call.max_rows
          /\ call.done => matched_cursor[o] = shard[o].found
      BY <2>1, <2>2, <2>3, <2>5 DEF Calling
    <3> QED BY <2>1, <2>2, <2>5, <3>1, CallsHandler
  <2> QED BY <2>4, <2>5
<1>18. ASSUME NEW o \in Owners, ForwardLate(o)
       PROVE  OneCall'
  BY <1>18, CallsFrame DEF ForwardLate, Register
<1>19. CASE UNCHANGED vars
  BY <1>19, CallsFrame DEF vars
<1> QED BY <1>1, <1>2, <1>3, <1>4, <1>5, <1>6, <1>7, <1>8, <1>9, <1>10, <1>11,
           <1>12, <1>13, <1>14, <1>15, <1>16, <1>17, <1>18, <1>19
        DEF Next, FetchStep, PullChunk, Finish

-----------------------------------------------------------------------------
(* The phases of the query. *)

(* A step that neither client nor CancelQuery takes part in. *)
LEMMA PhasesFrame ==
    ASSUME Phases,
           UNCHANGED <<client, toForward, toCancel, cancelled, lateForward>>,
           registered'[Self] => registered[Self],
           faults > 0 => faults' > 0, faults \in Nat,
           client = "fetching" \/ UNCHANGED <<client_buffer, client_producers_done>>
    PROVE  Phases'
<1>1. faults' = 0 => faults = 0
  OBVIOUS
<1> QED BY <1>1 DEF Phases

LEMMA RegisterSelf ==
    ASSUME Types, NEW o \in Owners, Register(o), o # Self
    PROVE  registered'[Self] = registered[Self]
BY NodeFacts DEF Register, Types

LEMMA DropSelf ==
    ASSUME Types, NEW o \in Owners, DropAtLast(o)
    PROVE  registered'[Self] => registered[Self]
BY NodeFacts DEF DropAtLast, Types

LEMMA PhasesStep ==
    ASSUME IInv, [Next]_vars
    PROVE  Phases'
<1>a. Types /\ OneCall /\ Phases
  BY DEF IInv
<1>b. faults \in Nat
  BY <1>a DEF Types
<1>c. fetch # "idle" => client = "fetching"
  BY <1>a DEF OneCall
<1> USE <1>a, <1>b, NodeFacts DEF requestVars, gatewayVars
<1>1. CASE SubmitQuery
  <2>1. /\ client = "start" /\ client' = "submitting"
        /\ UNCHANGED <<cancelled, client_producers_done, lateForward, toCancel, faults>>
    BY <1>1 DEF SubmitQuery, Register, submitVars
  <2> QED BY <2>1 DEF Phases
<1>2. CASE ForwardNext
  <2>1. /\ Head(toForward) \in Owners /\ client = "submitting"
        /\ UNCHANGED <<client, cancelled, toCancel>>
    BY <1>2, HeadTailProperties
       DEF ForwardNext, NotForwarded, Forward, ForwardAccepted, ForwardFailed, Register,
           Phases, Types
  <2>2. CASE NotForwarded \/ ForwardAccepted(Head(toForward))
    <3>1. UNCHANGED <<lateForward, client_producers_done, faults>>
      BY <2>2 DEF NotForwarded, ForwardAccepted
    <3> QED BY <2>1, <3>1 DEF Phases
  <2>3. CASE ForwardFailed(Head(toForward))
    <3>1. faults' # 0
      BY <2>3 DEF ForwardFailed, Fault
    <3> QED BY <2>1, <3>1 DEF Phases
  <2> QED BY <1>2, <2>2, <2>3 DEF ForwardNext, Forward
<1>3. CASE SubmitAck
  <2>1. /\ client = "submitting" /\ client' = "ready" /\ toForward = <<>>
        /\ UNCHANGED <<toForward, cancelled, client_producers_done, lateForward, toCancel,
                       faults>>
    BY <1>3 DEF SubmitAck, submitVars
  <2> QED BY <2>1 DEF Phases
<1>4. ASSUME NEW b \in 1..Len(DataOwners), NEW e \in 1..Len(DataOwners), FetchBegin(b, e)
      PROVE  Phases'
  <2>1. /\ client = "ready" /\ client' \in {"fetching", "failed"}
        /\ UNCHANGED <<toForward, cancelled, client_producers_done, lateForward, toCancel,
                       faults>>
    BY <1>4 DEF FetchBegin, submitVars
  <2> QED BY <2>1 DEF Phases
<1>5. ASSUME VisitStep, fetch # "idle", faults > 0 => faults' > 0
      PROVE  Phases'
  BY <1>5, <1>c, PhasesFrame DEF VisitStep, submitVars
<1>6. CASE FetchEmit
  <2> DEFINE k     == Lower(max_rows, Len(client_buffer))
             chunk == SubSeq(client_buffer, 1, k)
             rest  == SubSeq(client_buffer, k + 1, Len(client_buffer))
             last  == IsLast(rest, chunk)
  <2>1. /\ client_buffer' = rest
        /\ registered' = [registered EXCEPT ![Self] = @ /\ ~last]
        /\ client' = IF last THEN "done" ELSE "ready"
        /\ UNCHANGED <<toForward, cancelled, client_producers_done, lateForward, toCancel,
                       faults>>
        /\ fetch = "emit"
    BY <1>6 DEF FetchEmit, submitVars
  <2>2. last => rest = <<>> /\ \A o \in Owners \ {Self} : client_producers_done[o]
    BY DEF IsLast
  <2> HIDE DEF rest, last
  <2>3. last => ~registered'[Self]
    BY <2>1 DEF Types
  <2>4. client = "fetching"
    BY <1>c, <2>1
  <2> QED BY <2>1, <2>2, <2>3, <2>4 DEF Phases
<1>7. CASE CancelBegin
  <2>1. /\ client = "ready" /\ client' = "cancelling"
        /\ cancelled' = [cancelled EXCEPT ![Self] = TRUE]
        /\ UNCHANGED <<toForward, client_producers_done, lateForward, faults>>
    BY <1>7 DEF CancelBegin, CancelUnchanged, submitVars
  <2>2. Self \notin Owners
    BY <1>7, PyAssumption DEF CancelBegin
  <2>3. cancelled'[Self]
    BY <2>1 DEF Types
  <2> QED BY <2>1, <2>2, <2>3 DEF Phases
<1>8. CASE CancelNext
  <2>1. /\ client = "cancelling" /\ UNCHANGED <<client, toForward, client_producers_done,
                                                lateForward>>
        /\ cancelled[Self]
    BY <1>8 DEF CancelNext, CancelUnchanged, submitVars, Phases
  <2>2. cancelled'[Self] /\ (faults' = 0 => faults = 0)
    <3>1. CASE CancelOwner(Head(toCancel))
      <4>1. Head(toCancel) \in Owners
        BY <1>8, HeadTailProperties DEF CancelNext, Types
      <4> QED BY <2>1, <3>1, <4>1 DEF CancelOwner, Types
    <3>2. CASE Fault /\ UNCHANGED <<cancelled, matched, registered>>
      BY <2>1, <3>2 DEF Fault
    <3> QED BY <1>8, <3>1, <3>2 DEF CancelNext
  <2>3. /\ client' = "cancelling" /\ UNCHANGED toForward
        /\ UNCHANGED client_producers_done /\ UNCHANGED lateForward
    BY <2>1
  <2>4. Self \notin Owners /\ toForward = <<>> /\ (faults = 0 => lateForward = {})
    BY <2>1 DEF Phases
  <2> QED BY <2>2, <2>3, <2>4 DEF Phases
<1>9. CASE CancelReply
  <2>1. /\ client = "cancelling" /\ client' = "cancelled" /\ toCancel = <<>>
        /\ UNCHANGED <<toForward, client_producers_done, lateForward, faults, cancelled,
                       toCancel>>
        /\ ~registered'[Self]
    BY <1>9 DEF CancelReply, CancelUnchanged, submitVars, Types
  <2> QED BY <2>1 DEF Phases
<1>10. ASSUME NEW n \in Nodes, Produce(n)
       PROVE  Phases'
  <2>1. ProducerStep(n)
    BY <1>10 DEF Produce, ProduceBegin, ProduceCheck, ProduceRow, ProduceEnd
  <2> QED BY <2>1, PhasesFrame DEF ProducerStep, submitVars
<1>11. ASSUME NEW o \in Owners, PullChunk(o)
       PROVE  Phases'
  <2>1. HandlerStep
    BY <1>11 DEF PullChunk, PullNotFound, PullDrain, PullLook, PullFinish
  <2>2. registered'[Self] => registered[Self]
    BY <1>11, DropSelf DEF PullChunk, PullNotFound, PullDrain, PullLook, PullFinish
  <2> QED BY <2>1, <2>2, PhasesFrame DEF HandlerStep, submitVars
<1>12. ASSUME NEW o \in Owners, ForwardLate(o)
       PROVE  Phases'
  <2>1. /\ o \in lateForward /\ o # Self /\ Register(o)
        /\ UNCHANGED <<client, toForward, toCancel, client_buffer, client_producers_done,
                       faults, cancelled>>
    BY <1>12 DEF ForwardLate, Register, Types
  <2>2. registered'[Self] = registered[Self]
    BY <2>1, RegisterSelf
  <2>3. faults # 0
    BY <2>1 DEF Phases
  <2> QED BY <2>1, <2>2, <2>3 DEF Phases
<1>13. CASE UNCHANGED vars
  BY <1>13, PhasesFrame DEF vars, submitVars
<1>14. ASSUME VisitEnd \/ \E o \in Owners : VisitSkip(o) \/ VisitCall(o) \/ FetchReply(o)
                               \/ FetchError(o) \/ FetchExpire(o)
       PROVE  Phases'
  <2>1. VisitStep /\ fetch # "idle"
    BY <1>14 DEF VisitEnd, VisitSkip, VisitCall, FetchReply, FetchError, FetchExpire, Visiting
  <2>2. faults > 0 => faults' > 0
    <3>1. UNCHANGED faults \/ Fault
      BY <1>14 DEF VisitEnd, VisitSkip, VisitCall, FetchReply, FetchError, FetchExpire
    <3> QED BY <3>1 DEF Fault
  <2> QED BY <1>5, <2>1, <2>2
<1> QED BY <1>1, <1>2, <1>3, <1>4, <1>6, <1>7, <1>8, <1>9, <1>10, <1>11,
           <1>12, <1>13, <1>14
        DEF Next, FetchStep, Finish

-----------------------------------------------------------------------------
(* Who still holds the query. *)

LEMMA SettledFrame ==
    ASSUME NEW o \in Owners, Settled(o),
           shard' = shard, matched_cursor'[o] = matched_cursor[o],
           matched'[o] = matched[o] \/ matched'[o] = <<>>,
           registered'[o] => registered[o]
    PROVE  Settled(o)'
BY DEF Settled

(* A step that registers nobody, calls nobody back and cancels nothing. *)
LEMMA ReleasesFrame ==
    ASSUME Releases, Types,
           UNCHANGED <<shard, client, toForward, toCancel, cancelled,
                       client_producers_done, registered, pull>>,
           faults > 0 => faults' > 0,
           \A o \in Owners : Settled(o) =>
               matched_cursor'[o] = matched_cursor[o] /\ matched'[o] = matched[o]
    PROVE  Releases'
<1>1. faults' = 0 => faults = 0
  BY DEF Types
<1>2. ASSUME NEW o \in Owners, Settled(o) PROVE Settled(o)'
  BY <1>2, SettledFrame
<1>3. ASSUME faults' = 0, NEW o \in Owners \ {Self} PROVE Releasing(o)'
  <2>1. Releasing(o)
    BY <1>1, <1>3 DEF Releases
  <2>2. Settled(o) => Settled(o)'
    BY <1>2, <1>3
  <2> QED BY <2>1, <2>2 DEF Releasing, Waiting
<1> QED BY <1>3 DEF Releases

LEMMA ReleasesStep ==
    ASSUME IInv, [Next]_vars
    PROVE  Releases'
<1>a. Types /\ Production /\ OneCall /\ Phases /\ Releases
  BY DEF IInv
<1>b. faults \in Nat
  BY <1>a DEF Types
<1>c. fetch # "idle" <=> client = "fetching"
  BY <1>a DEF OneCall
<1> USE <1>a, NodeFacts DEF requestVars, gatewayVars, submitVars
(* Without a fault, a handler at work is the one that FetchChunk waits for. *)
<1>d. ASSUME faults = 0, NEW o \in Owners, pull[o].stage # "none"
      PROVE  fetch = "call" /\ client = "fetching" /\ o = Head(todo) /\ ~pull[o].orphan
  BY <1>c, <1>d, CallFacts DEF OneCall, Calling
<1>1. CASE SubmitQuery
  <2> SUFFICES ASSUME faults' = 0, NEW o \in Owners \ {Self} PROVE Releasing(o)'
    BY DEF Releases
  <2>1. /\ client = "start" /\ client' = "submitting" /\ toForward' = DataOwners
        /\ UNCHANGED <<cancelled, client_producers_done, toCancel, faults, pull>>
    BY <1>1 DEF SubmitQuery, Register
  <2>2. ~client_producers_done[o] /\ ~cancelled[Self]
    BY <2>1 DEF Phases
  <2>3. pull[o].stage = "none"
    BY <1>d, <2>1
  <2>4. Waiting(DataOwners, o)
    BY DEF Waiting, Owners
  <2>5. Waiting(toForward', o)
    BY <2>1, <2>4
  <2> QED BY <2>1, <2>2, <2>3, <2>5 DEF Releasing, Waiting
<1>2. CASE ForwardNext
  <2> SUFFICES ASSUME faults' = 0, NEW o \in Owners \ {Self} PROVE Releasing(o)'
    BY DEF Releases
  <2> DEFINE h == Head(toForward)
  <2>1. /\ h \in Owners /\ client = "submitting" /\ toForward' = Tail(toForward)
        /\ UNCHANGED <<shard, client, toCancel, pull, cancelled, matched, matched_cursor>>
    BY <1>2, HeadTailProperties
       DEF ForwardNext, NotForwarded, Forward, ForwardAccepted, ForwardFailed, Register,
           Phases, Types
  <2>2. ~ForwardFailed(h)
    BY <1>b DEF ForwardFailed, Fault
  <2>3. UNCHANGED <<client_producers_done, faults>>
        /\ \/ h = Self /\ UNCHANGED registered
           \/ registered' = [registered EXCEPT ![h] = TRUE]
    BY <1>2, <2>2 DEF ForwardNext, NotForwarded, Forward, ForwardAccepted, Register
  <2>4. ~client_producers_done[o] /\ ~cancelled[Self] /\ pull[o].stage = "none"
    BY <1>d, <2>1, <2>3 DEF Phases
  <2>5. ASSUME ~registered'[o] PROVE Settled(o)' \/ Waiting(toForward', o)
    <3>1. ~registered[o] /\ o # h
      BY <2>1, <2>3, <2>5 DEF Types
    <3>2. Settled(o) \/ Waiting(toForward, o)
      BY <2>1, <2>3, <2>4, <3>1 DEF Releases, Releasing
    <3>3. Settled(o) => Settled(o)'
      BY <2>1, <2>5 DEF Settled
    <3>4. Waiting(toForward, o) => Waiting(Tail(toForward), o)
      BY <1>2, <3>1, WaitingTail DEF ForwardNext, Types
    <3> QED BY <2>1, <3>2, <3>3, <3>4
  <2> QED BY <2>1, <2>3, <2>4, <2>5 DEF Releasing
<1>3. CASE SubmitAck
  <2> SUFFICES ASSUME faults' = 0, NEW o \in Owners \ {Self} PROVE Releasing(o)'
    BY DEF Releases
  <2>1. /\ client = "submitting" /\ client' = "ready"
        /\ UNCHANGED <<shard, toForward, toCancel, pull, cancelled, matched, matched_cursor,
                       registered, client_producers_done, faults>>
    BY <1>3 DEF SubmitAck
  <2>2. Releasing(o)
    BY <2>1 DEF Releases
  <2> QED BY <2>1, <2>2 DEF Releasing, Settled, Waiting
<1>4. ASSUME NEW b \in 1..Len(DataOwners), NEW e \in 1..Len(DataOwners), FetchBegin(b, e)
      PROVE  Releases'
  <2> SUFFICES ASSUME faults' = 0, NEW o \in Owners \ {Self} PROVE Releasing(o)'
    BY DEF Releases
  <2>1. /\ client = "ready" /\ client' # "start"
        /\ UNCHANGED <<shard, toForward, toCancel, pull, cancelled, matched, matched_cursor,
                       registered, client_producers_done, faults>>
    BY <1>4 DEF FetchBegin
  <2>2. Releasing(o)
    BY <2>1 DEF Releases
  <2> QED BY <2>1, <2>2 DEF Releasing, Settled, Waiting
<1>5. CASE VisitEnd
  BY <1>5, ReleasesFrame DEF VisitEnd, VisitStep
<1>6. ASSUME NEW p \in Owners, VisitSkip(p)
      PROVE  Releases'
  BY <1>6, ReleasesFrame DEF VisitSkip, VisitStep
(* Calls end or begin. *)
<1>7. ASSUME VisitStep, client = "fetching", UNCHANGED faults,
             \A o \in Owners : pull'[o] = pull[o] \/ pull'[o].stage \in {"none", "sent"},
             \A o \in Owners \ {Self} :
                 faults = 0 /\ client_producers_done'[o] /\ ~client_producers_done[o] =>
                     Settled(o)
      PROVE  Releases'
  <2> SUFFICES ASSUME faults' = 0, NEW o \in Owners \ {Self} PROVE Releasing(o)'
    BY DEF Releases
  <2>1. /\ UNCHANGED <<shard, client, toForward, toCancel, cancelled, matched,
                       matched_cursor, registered>>
        /\ faults = 0
    BY <1>7 DEF VisitStep
  <2>2. Releasing(o)
    BY <2>1 DEF Releases
  <2>3. Settled(o) => Settled(o)'
    BY <2>1 DEF Settled
  <2>4. client_producers_done'[o] => client_producers_done[o] \/ Settled(o)
    BY <1>7
  <2>5. pull'[o] = pull[o] \/ pull'[o].stage \in {"none", "sent"}
    BY <1>7
  <2> QED BY <2>1, <2>2, <2>3, <2>4, <2>5 DEF Releasing, Waiting
<1>8. ASSUME NEW p \in Owners, VisitCall(p)
      PROVE  Releases'
  <2> DEFINE call == [NoCall EXCEPT !.stage = "sent", !.max_rows = max_rows]
  <2>1. /\ VisitStep /\ fetch = "visit" /\ pull' = [pull EXCEPT ![p] = call]
        /\ UNCHANGED <<client_producers_done, faults>>
    BY <1>8 DEF VisitCall, Visiting
  <2>2. call.stage = "sent"
    BY DEF NoCall
  <2> HIDE DEF call
  <2>3. client = "fetching"
    BY <1>c, <2>1
  <2>4. \A o \in Owners : pull'[o] = pull[o] \/ pull'[o].stage \in {"none", "sent"}
    BY <2>1, <2>2 DEF Types
  <2>5. \A o \in Owners \ {Self} :
            faults = 0 /\ client_producers_done'[o] /\ ~client_producers_done[o] => Settled(o)
    BY <2>1
  <2>6. VisitStep /\ UNCHANGED faults
    BY <2>1
  <2> QED BY <1>7, <2>3, <2>4, <2>5, <2>6
<1>9. ASSUME NEW p \in Owners, FetchReply(p) \/ FetchError(p)
      PROVE  Releases'
  <2>1. /\ VisitStep /\ fetch = "call" /\ pull' = [pull EXCEPT ![p] = NoCall]
        /\ UNCHANGED faults /\ NoCall.stage = "none"
    BY <1>9 DEF FetchReply, FetchError, NoCall
  <2>2. client = "fetching"
    BY <1>c, <2>1
  <2>3. ASSUME faults = 0, NEW o \in Owners \ {Self}, client_producers_done'[o],
               ~client_producers_done[o]
        PROVE  Settled(o)
    <3>1. o = p /\ (pull[p].stage = "error" \/ (pull[p].stage = "replied" /\ pull[p].last))
      <4>1. CASE FetchReply(p)
        <5>1. /\ client_producers_done' =
                   [client_producers_done EXCEPT ![p] = @ \/ pull[p].last]
              /\ pull[p].stage = "replied"
          BY <4>1 DEF FetchReply
        <5> QED BY <2>3, <5>1 DEF Types
      <4>2. CASE FetchError(p)
        <5>1. /\ client_producers_done' = [client_producers_done EXCEPT ![p] = TRUE]
              /\ pull[p].stage = "error"
          BY <4>2 DEF FetchError, GiveUp
        <5>2. o = p
          BY <2>3, <5>1 DEF Types
        <5> QED BY <5>1, <5>2
      <4> QED BY <1>9, <4>1, <4>2
    <3>2. ~cancelled[Self] /\ Releasing(o)
      BY <2>1, <2>2, <2>3 DEF Phases, Releases
    <3> QED BY <3>1, <3>2 DEF Releasing
  <2>4. \A o \in Owners \ {Self} :
            faults = 0 /\ client_producers_done'[o] /\ ~client_producers_done[o] => Settled(o)
    BY <2>3
  <2>5. \A o \in Owners : pull'[o] = pull[o] \/ pull'[o].stage \in {"none", "sent"}
    BY <2>1 DEF Types
  <2>6. VisitStep /\ UNCHANGED faults
    BY <2>1
  <2> QED BY <1>7, <2>2, <2>4, <2>5, <2>6
<1>10. ASSUME NEW p \in Owners, FetchExpire(p)
       PROVE  Releases'
  <2>1. faults' # 0
    BY <1>10, <1>b DEF FetchExpire, Fault
  <2> QED BY <2>1 DEF Releases
<1>11. CASE FetchEmit
  <2> SUFFICES ASSUME faults' = 0, NEW o \in Owners \ {Self} PROVE Releasing(o)'
    BY DEF Releases
  <2>1. /\ client' # "start" /\ fetch = "emit"
        /\ UNCHANGED <<shard, toForward, toCancel, pull, cancelled, matched, matched_cursor,
                       client_producers_done, faults>>
    BY <1>11 DEF FetchEmit
  <2>2. registered'[o] = registered[o]
    BY <1>11 DEF FetchEmit, Types
  <2>3. client = "fetching" /\ Releasing(o)
    BY <1>c, <2>1 DEF Releases
  <2> QED BY <2>1, <2>2, <2>3 DEF Releasing, Settled, Waiting
<1>12. CASE CancelBegin
  <2> SUFFICES ASSUME faults' = 0, NEW o \in Owners \ {Self} PROVE Releasing(o)'
    BY DEF Releases
  <2>1. toCancel' = DataOwners /\ cancelled'[Self]
    BY <1>12 DEF CancelBegin, Types
  <2>2. Waiting(DataOwners, o)
    BY DEF Waiting, Owners
  <2>3. Waiting(toCancel', o)
    BY <2>1, <2>2
  <2> QED BY <2>1, <2>3 DEF Releasing, Waiting
<1>13. CASE CancelNext
  <2> SUFFICES ASSUME faults' = 0, NEW o \in Owners \ {Self} PROVE Releasing(o)'
    BY DEF Releases
  <2> DEFINE h == Head(toCancel)
  <2>1. h \in Owners /\ toCancel' = Tail(toCancel)
    BY <1>13, HeadTailProperties DEF CancelNext, Types
  <2>2. cancelled[Self]
    BY <1>13 DEF CancelNext, Phases
  <2>3. CancelOwner(h) /\ faults = 0
    BY <1>13, <1>b DEF CancelNext, CancelOwner, Fault
  <2>4. /\ cancelled'[Self] /\ ~registered'[h]
        /\ (o # h => registered'[o] = registered[o])
    BY <2>1, <2>2, <2>3 DEF CancelOwner, Types
  <2>5. ASSUME registered'[o] PROVE Waiting(toCancel', o)
    <3>1. o # h /\ Waiting(toCancel, o)
      BY <2>2, <2>3, <2>4, <2>5 DEF Releases, Releasing
    <3>2. Waiting(Tail(toCancel), o)
      BY <1>13, <3>1, WaitingTail DEF CancelNext, Types
    <3> QED BY <2>1, <3>2
  <2> QED BY <2>4, <2>5 DEF Releasing
<1>14. CASE CancelReply
  <2> SUFFICES ASSUME faults' = 0, NEW o \in Owners \ {Self} PROVE Releasing(o)'
    BY DEF Releases
  <2>1. /\ UNCHANGED <<toCancel, cancelled, faults>> /\ registered'[o] = registered[o]
        /\ cancelled[Self]
    BY <1>14 DEF CancelReply, Types, Phases
  <2>2. Releasing(o)
    BY <2>1 DEF Releases
  <2> QED BY <2>1, <2>2 DEF Releasing, Waiting
<1>15. ASSUME NEW n \in Nodes, Produce(n)
       PROVE  Releases'
  <2>1. ProducerStep(n)
    BY <1>15 DEF Produce, ProduceBegin, ProduceCheck, ProduceRow, ProduceEnd
  <2>2. ASSUME NEW o \in Owners, Settled(o)
        PROVE  matched_cursor'[o] = matched_cursor[o] /\ matched'[o] = matched[o]
    <3>1. CASE ProduceRow(n)
      <4>1. n # o
        BY <2>2, <3>1, ProductionFacts DEF ProduceRow, Producing, Settled
      <4> QED BY <3>1, <4>1 DEF ProduceRow, Types
    <3>2. CASE ~ProduceRow(n)
      BY <1>15, <3>2 DEF Produce, ProduceBegin, ProduceCheck, ProduceEnd
    <3> QED BY <3>1, <3>2
  <2> QED BY <2>1, <2>2, ReleasesFrame DEF ProducerStep
(* A handler that answers p's caller, or goes on. *)
<1>16. ASSUME NEW p \in Owners, HandlerStep, faults = 0, pull[p].stage # "none",
              NEW call, pull' = [pull EXCEPT ![p] = call],
              p # Self => /\ call.stage = "error" => Settled(p)
                          /\ call.stage = "replied" /\ call.last => Settled(p)'
                          /\ ~registered'[p] => ~registered[p] \/ Settled(p)',
              \A o \in Owners : o # p => /\ registered'[o] = registered[o]
                                        /\ matched'[o] = matched[o],
              registered'[p] => registered[p],
              matched'[p] = matched[p] \/ matched'[p] = <<>> \/ matched[p] # <<>>
       PROVE  Releases'
  <2> SUFFICES ASSUME NEW o \in Owners \ {Self} PROVE Releasing(o)'
    BY DEF Releases
  <2>1. UNCHANGED <<shard, client, toForward, toCancel, cancelled, matched_cursor,
                    client_producers_done>>
    BY <1>16 DEF HandlerStep
  <2>2. Releasing(o) /\ ~cancelled[Self] /\ client = "fetching"
    BY <1>d, <1>16 DEF Releases, Phases
  <2>3. Settled(o) => Settled(o)'
    BY <1>16, <2>1 DEF Settled
  <2>4. CASE o # p
    <3>1. pull'[o] = pull[o] /\ registered'[o] = registered[o]
      BY <1>16, <2>4 DEF Types
    <3> QED BY <2>1, <2>2, <2>3, <3>1 DEF Releasing, Waiting
  <2>5. CASE o = p
    <3>1. pull'[o] = call
      BY <1>16, <2>5 DEF Types
    <3> QED BY <1>16, <2>1, <2>2, <2>3, <2>5, <3>1 DEF Releasing, Waiting
  <2> QED BY <2>4, <2>5
<1>17. ASSUME NEW p \in Owners, PullChunk(p)
       PROVE  Releases'
  <2> SUFFICES ASSUME faults = 0 PROVE Releases'
    BY <1>17 DEF PullChunk, PullNotFound, PullDrain, PullLook, PullFinish, HandlerStep,
         Releases
  <2>1. HandlerStep /\ pull[p].stage # "none"
    BY <1>17 DEF PullChunk, PullNotFound, PullDrain, PullLook, PullFinish
  <2>2. /\ ~pull[p].orphan /\ client = "fetching" /\ ~cancelled[Self] /\ toForward = <<>>
        /\ Producing(p)
    BY <1>d, <2>1, ProductionFacts DEF Phases
  <2>3. UNCHANGED <<shard, matched_cursor>>
    BY <2>1 DEF HandlerStep
  <2>4. CASE PullNotFound(p)
    <3> DEFINE call == [pull[p] EXCEPT !.stage = "error"]
    <3>1. /\ pull' = [pull EXCEPT ![p] = call]
          /\ UNCHANGED <<registered, matched>> /\ (~registered[p] \/ ~shard[p].file)
      BY <2>2, <2>4 DEF PullNotFound, Answered
    <3>2. call.stage = "error"
      BY CallFacts DEF Calls
    <3> HIDE DEF call
    <3>3. ASSUME p # Self PROVE Settled(p)
      <4>1. CASE ~registered[p]
        <5>1. Settled(p) \/ Waiting(toForward, p)
          BY <2>2, <3>3, <4>1 DEF Releases, Releasing
        <5>2. ~Waiting(<<>>, p)
          BY DEF Waiting
        <5> QED BY <2>2, <5>1, <5>2
      <4>2. CASE ~shard[p].file
        <5>1. shard[p].found = 0
          BY <4>2, ShardFacts
        <5>2. matched_cursor[p] = 0 /\ Len(matched[p]) = 0
          BY <2>2, <5>1, ProductionFacts DEF Producing
        <5>3. matched[p] = <<>>
          BY <5>2, ProductionFacts, EmptySeq
        <5> QED BY <4>2, <5>1, <5>2, <5>3 DEF Settled
      <4> QED BY <3>1, <4>1, <4>2
    <3> QED BY <1>16, <2>1, <3>1, <3>2, <3>3
  <2>5. CASE PullDrain(p)
    <3> DEFINE k == Lower(pull[p].max_rows, Len(matched[p]))
               front == SubSeq(matched[p], 1, k)
               rest == SubSeq(matched[p], k + 1, Len(matched[p]))
               call == [pull[p] EXCEPT !.stage = "drained", !.rows = front]
    <3>1. /\ pull' = [pull EXCEPT ![p].stage = "drained", ![p].rows = front]
          /\ matched' = [matched EXCEPT ![p] = rest]
          /\ UNCHANGED registered
      BY <2>5 DEF PullDrain
    <3>2. matched[p] = <<>> => rest = <<>>
      <4>1. matched[p] \in Seq(Nat) /\ pull[p].max_rows \in Nat
        BY CallFacts DEF Types
      <4>2. rest \in Seq(Nat) /\ Len(rest) = Len(matched[p]) - k /\ k \in 0..Len(matched[p])
        BY <4>1, DrainFacts
      <4> HIDE DEF rest, k
      <4> QED BY <4>1, <4>2, EmptySeq
    <3> HIDE DEF front, rest
    <3>3. pull' = [pull EXCEPT ![p] = call]
      BY <3>1 DEF Types
    <3>4. call.stage = "drained"
      BY CallFacts DEF Calls
    <3> HIDE DEF call
    <3>5. /\ \A o \in Owners : o # p => matched'[o] = matched[o]
          /\ matched'[p] = rest
      BY <3>1 DEF Types
    <3>6. p # Self => /\ call.stage = "error" => Settled(p)
                      /\ call.stage = "replied" /\ call.last => Settled(p)'
                      /\ ~registered'[p] => ~registered[p] \/ Settled(p)'
      BY <3>1, <3>4
    <3>7. matched'[p] = matched[p] \/ matched'[p] = <<>> \/ matched[p] # <<>>
      BY <3>2, <3>5
    <3>8. /\ \A o \in Owners : o # p => /\ registered'[o] = registered[o]
                                        /\ matched'[o] = matched[o]
          /\ registered'[p] => registered[p]
      BY <3>1, <3>5
    <3> QED BY <1>16, <2>1, <3>3, <3>6, <3>7, <3>8
  <2>6. CASE PullLook(p)
    <3> DEFINE call == [pull[p] EXCEPT !.stage = "looked", !.done = done_producing[p]]
    <3>1. /\ pull' = [pull EXCEPT ![p].stage = "looked", ![p].done = done_producing[p]]
          /\ UNCHANGED <<registered, matched>>
      BY <2>6 DEF PullLook
    <3>2. pull' = [pull EXCEPT ![p] = call]
      BY <3>1 DEF Types
    <3>3. call.stage = "looked"
      BY CallFacts DEF Calls
    <3> HIDE DEF call
    <3> QED BY <1>16, <2>1, <3>1, <3>2, <3>3
  <2>7. CASE PullFinish(p)
    <3> DEFINE call == [pull[p] EXCEPT !.stage = "replied", !.last = NoMoreRows(p)]
    <3>1. /\ pull' = [pull EXCEPT ![p] = call]
          /\ registered' = [registered EXCEPT ![p] = @ /\ ~NoMoreRows(p)]
          /\ UNCHANGED matched
      BY <2>2, <2>7 DEF PullFinish, Answered, DropAtLast
    <3>2. call.last = NoMoreRows(p)
      BY CallFacts DEF Calls
    <3>3. call.stage = "replied"
      BY CallFacts DEF Calls
    <3> HIDE DEF call
    <3>4. NoMoreRows(p) => Settled(p)'
      <4> SUFFICES ASSUME NoMoreRows(p) PROVE Settled(p)'
        OBVIOUS
      <4>1. pull[p].done /\ matched[p] = <<>>
        BY DEF NoMoreRows
      <4>2. matched_cursor[p] = shard[p].found
        BY <4>1 DEF OneCall, Calling
      <4>3. ~registered'[p]
        BY <3>1 DEF Types
      <4> QED BY <2>3, <3>1, <4>1, <4>2, <4>3 DEF Settled
    <3>5. /\ \A o \in Owners : o # p => registered'[o] = registered[o]
          /\ registered'[p] => registered[p]
          /\ ~registered'[p] => ~registered[p] \/ NoMoreRows(p)
      BY <3>1 DEF Types
    <3> QED BY <1>16, <2>1, <3>1, <3>2, <3>3, <3>4, <3>5
  <2> QED BY <1>17, <2>4, <2>5, <2>6, <2>7 DEF PullChunk
<1>18. ASSUME NEW o \in Owners, ForwardLate(o)
       PROVE  Releases'
  <2>1. faults' # 0
    BY <1>18 DEF ForwardLate, Phases
  <2> QED BY <2>1 DEF Releases
<1>19. CASE UNCHANGED vars
  BY <1>19, ReleasesFrame DEF vars
<1> QED BY <1>1, <1>2, <1>3, <1>4, <1>5, <1>6, <1>8, <1>9, <1>10, <1>11, <1>12,
           <1>13, <1>14, <1>15, <1>17, <1>18, <1>19
        DEF Next, FetchStep, Finish

-----------------------------------------------------------------------------
(* Where each owner's rows are. *)

LEMMA GoingFacts ==
    ASSUME IInv, [Next]_vars, NEW o \in Owners, Going(o)'
    PROVE  Going(o)
<1>a. Types /\ Phases
  BY DEF IInv
<1> USE <1>a, NodeFacts DEF requestVars, gatewayVars
<1>1. faults' = 0 => faults = 0
  <2>1. UNCHANGED faults \/ Fault
    BY DEF Next, SubmitQuery, ForwardNext, Forward, NotForwarded, ForwardAccepted,
         ForwardFailed, SubmitAck, FetchBegin, FetchStep, VisitEnd, VisitSkip, VisitCall,
         FetchReply, FetchError, FetchEmit, CancelBegin, CancelNext, CancelOwner, CancelReply,
         Produce, ProduceBegin, ProduceCheck, ProduceRow, ProduceEnd, ProducerStep,
         PullChunk, PullNotFound, PullDrain, PullLook, PullFinish, HandlerStep,
         FetchExpire, ForwardLate, Finish, vars
  <2> QED BY <2>1 DEF Fault, Types
<1>2. client_producers_done[o] => client_producers_done'[o]
  <2>1. CASE ForwardNext
    <3>1. Head(toForward) \in Owners
      BY <2>1, HeadTailProperties DEF ForwardNext, Types
    <3>2. UNCHANGED client_producers_done \/ GiveUp(Head(toForward))
      BY <2>1 DEF ForwardNext, Forward, NotForwarded, ForwardAccepted, ForwardFailed
    <3> QED BY <3>1, <3>2 DEF GiveUp, Types
  <2>2. ASSUME NEW p \in Owners, FetchReply(p)
        PROVE  client_producers_done[o] => client_producers_done'[o]
    BY <2>2 DEF FetchReply, Types
  <2>3. ASSUME NEW p \in Owners, FetchError(p) \/ FetchExpire(p)
        PROVE client_producers_done[o] => client_producers_done'[o]
    BY <2>3 DEF FetchError, FetchExpire, GiveUp, Types
  <2>4. \/ UNCHANGED client_producers_done \/ ForwardNext
        \/ \E p \in Owners : FetchReply(p) \/ FetchError(p) \/ FetchExpire(p)
    BY DEF Next, SubmitQuery, SubmitAck, FetchBegin, FetchStep, VisitEnd, VisitSkip, VisitCall,
         FetchEmit, CancelBegin, CancelNext, CancelReply, CancelUnchanged,
         Produce, ProduceBegin, ProduceCheck, ProduceRow, ProduceEnd, ProducerStep,
         PullChunk, PullNotFound, PullDrain, PullLook, PullFinish, HandlerStep,
         ForwardLate, Finish, vars
  <2> QED BY <2>1, <2>2, <2>3, <2>4
<1>3. cancelled[Self] => cancelled'[Self]
  <2>1. CASE CancelBegin
    BY <2>1 DEF CancelBegin, Types
  <2>2. CASE CancelNext
    <3>1. Head(toCancel) \in Owners
      BY <2>2, HeadTailProperties DEF CancelNext, Types
    <3>2. UNCHANGED cancelled \/ CancelOwner(Head(toCancel))
      BY <2>2 DEF CancelNext
    <3> QED BY <3>1, <3>2 DEF CancelOwner, Types
  <2>3. UNCHANGED cancelled \/ CancelBegin \/ CancelNext
    BY DEF Next, SubmitQuery, Register, ForwardNext, Forward, NotForwarded, ForwardAccepted,
         ForwardFailed, SubmitAck, FetchBegin, FetchStep, VisitEnd, VisitSkip, VisitCall,
         FetchReply, FetchError, FetchEmit, VisitStep, CancelReply,
         Produce, ProduceBegin, ProduceCheck, ProduceRow, ProduceEnd, ProducerStep,
         PullChunk, PullNotFound, PullDrain, PullLook, PullFinish, HandlerStep,
         FetchExpire, ForwardLate, Finish, vars
  <2> QED BY <2>1, <2>2, <2>3
<1> QED BY <1>1, <1>2, <1>3 DEF Going

LEMMA StreamFacts ==
    ASSUME IInv, NEW o \in Owners
    PROVE  /\ delivered[o] \in Seq(Nat) /\ OfOwner(client_buffer, o) \in Seq(Nat)
           /\ Held(o) \in Seq(Nat) /\ pull[o].rows \in Seq(Nat) /\ matched[o] \in Seq(Nat)
           /\ matched_cursor[o] \in Nat
           /\ Stream(o)
<1>1. Types /\ Streams /\ o \in Nodes
  BY NodeFacts DEF IInv
<1>2. delivered[o] \in Seq(Nat) /\ matched[o] \in Seq(Nat) /\ matched_cursor[o] \in Nat
      /\ client_buffer \in Seq(Entries)
  BY <1>1 DEF Types
<1>3. OfOwner(client_buffer, o) \in Seq(Nat)
  BY <1>2, OfOwnerRows
<1>4. Held(o) \in Seq(Nat)
  BY <1>2, <1>3, ConcatProperties DEF Held
<1> QED BY <1>1, <1>2, <1>3, <1>4, CallFacts DEF Streams

(* The rows of o stay where they are. *)
LEMMA StreamFrame ==
    ASSUME NEW o \in Owners, Stream(o),
           delivered'[o] = delivered[o], client_buffer' = client_buffer,
           Going(o)' => /\ Going(o) /\ pull'[o].rows = pull[o].rows
                        /\ matched'[o] = matched[o]
                        /\ matched_cursor'[o] = matched_cursor[o]
    PROVE  Stream(o)'
<1>1. Held(o)' = Held(o)
  BY DEF Held
<1>2. Going(o)' => Whole(o)' = Whole(o)
  BY <1>1 DEF Whole
<1> QED BY <1>1, <1>2 DEF Stream

(* A reply goes into the buffer. *)
LEMMA StreamReply ==
    ASSUME IInv, NEW p \in Owners, FetchReply(p), NEW o \in Owners
    PROVE  Stream(o)'
<1>a. Types /\ Phases /\ OneCall
  BY DEF IInv
<1> DEFINE t == Tagged(pull[p].rows, p)
<1>1. /\ fetch = "call" /\ p = Head(todo) /\ pull' = [pull EXCEPT ![p] = NoCall]
      /\ client_buffer' = client_buffer \o t
      /\ UNCHANGED <<delivered, matched, matched_cursor, cancelled, faults>>
  BY DEF FetchReply, VisitStep, requestVars, Tagged
<1>2. Going(p)
  BY <1>1, <1>a DEF Going, OneCall, Phases
<1>3. p \in Nodes /\ pull[p].rows \in Seq(Nat)
  BY <1>a, NodeFacts, CallFacts
<1>4. t \in Seq(Entries) /\ OfOwner(t, o) = IF o = p THEN pull[p].rows ELSE <<>>
  BY <1>3, TaggedOK, OfTagged
<1> HIDE DEF t
<1>5. OfOwner(client_buffer', o) = OfOwner(client_buffer, o) \o OfOwner(t, o)
  <2>1. client_buffer \in Seq(Entries)
    BY <1>a DEF Types
  <2> QED BY <1>1, <1>4, <2>1, OfConcat
<1>6. CASE o # p
  <2>1. OfOwner(client_buffer', o) = OfOwner(client_buffer, o)
    BY <1>4, <1>5, <1>6, StreamFacts, ConcatEmptySeq
  <2>2. Held(o)' = Held(o)
    BY <1>1, <2>1 DEF Held
  <2>3. pull'[o] = pull[o]
    BY <1>1, <1>6, <1>a, NodeFacts DEF Types
  <2>4. Whole(o)' = Whole(o)
    BY <1>1, <2>2, <2>3 DEF Whole
  <2>5. Going(o)' => Going(o)
    <3>1. client_producers_done'[o] = client_producers_done[o]
      BY <1>6, <1>a DEF FetchReply, Types
    <3> QED BY <1>1, <3>1 DEF Going
  <2> QED BY <1>1, <2>2, <2>4, <2>5, StreamFacts DEF Stream
<1>7. CASE o = p
  <2> DEFINE d == delivered[o]
             b == OfOwner(client_buffer, o)
             r == pull[o].rows
             m == matched[o]
  <2>1. /\ d \in Seq(Nat) /\ b \in Seq(Nat) /\ r \in Seq(Nat) /\ m \in Seq(Nat)
        /\ d \o b \in Seq(Nat) /\ ((d \o b) \o r) \o m = Rows(matched_cursor[o])
        /\ matched_cursor[o] \in Nat
    BY <1>2, <1>7, StreamFacts DEF Stream, Whole, Held
  <2>2. Held(o)' = d \o (b \o r)
    BY <1>1, <1>4, <1>5, <1>7 DEF Held
  <2>3. pull'[o].rows = <<>>
    BY <1>1, <1>3, <1>7, <1>a DEF Types, NoCall
  <2>4. Whole(o)' = ((d \o (b \o r)) \o <<>>) \o m
    BY <1>1, <2>2, <2>3 DEF Whole
  <2>5. matched_cursor'[o] = matched_cursor[o]
    BY <1>1
  <2> HIDE DEF d, b, r, m
  <2>6. d \o (b \o r) = (d \o b) \o r
    <3>1. d \in Seq(Nat) /\ b \in Seq(Nat) /\ r \in Seq(Nat)
      BY <2>1
    <3>2. (d \o b) \o r = d \o (b \o r)
      BY <3>1, RowsAssociate, Zenon
    <3> QED BY <3>2
  <2>7. (d \o b) \o r \in Seq(Nat)
    BY <2>1, ConcatProperties
  <2>8. ((d \o b) \o r) \o <<>> = (d \o b) \o r
    BY <2>7, ConcatEmptySeq
  <2>9. (d \o b) \o r = Rows(Len((d \o b) \o r))
    BY <2>1, <2>7, RowsFront
  <2>10. Held(o)' = Rows(Len(Held(o)'))
    BY <2>2, <2>6, <2>9
  <2>11. Whole(o)' = Rows(matched_cursor'[o])
    BY <2>1, <2>4, <2>5, <2>6, <2>8
  <2> QED BY <2>10, <2>11 DEF Stream
<1> QED BY <1>6, <1>7

(* A chunk goes to the client. *)
LEMMA StreamEmit ==
    ASSUME IInv, FetchEmit, NEW o \in Owners, Going(o)' => Going(o)
    PROVE  Stream(o)'
<1>a. Types /\ o \in Nodes
  BY NodeFacts DEF IInv
<1> DEFINE k     == Lower(max_rows, Len(client_buffer))
           chunk == SubSeq(client_buffer, 1, k)
           rest  == SubSeq(client_buffer, k + 1, Len(client_buffer))
<1>1. /\ client_buffer' = rest
      /\ delivered' = [n \in Nodes |-> delivered[n] \o OfOwner(chunk, n)]
      /\ UNCHANGED <<matched, matched_cursor, pull>>
  BY DEF FetchEmit
<1>2. /\ chunk \in Seq(Entries) /\ rest \in Seq(Entries) /\ chunk \o rest = client_buffer
  BY <1>a, DrainFacts DEF Types
<1> HIDE DEF chunk, rest
<1>3. OfOwner(client_buffer, o) = OfOwner(chunk, o) \o OfOwner(rest, o)
  BY <1>2, OfConcat
<1>4. OfOwner(chunk, o) \in Seq(Nat) /\ OfOwner(rest, o) \in Seq(Nat) /\ delivered[o] \in Seq(Nat)
  BY <1>2, OfOwnerRows, StreamFacts
<1>5. (delivered[o] \o OfOwner(chunk, o)) \o OfOwner(rest, o)
         = delivered[o] \o (OfOwner(chunk, o) \o OfOwner(rest, o))
  BY <1>4, RowsAssociate
<1>6. Held(o)' = Held(o)
  <2>1. delivered'[o] = delivered[o] \o OfOwner(chunk, o)
    BY <1>1, <1>a
  <2>2. Held(o)' = (delivered[o] \o OfOwner(chunk, o)) \o OfOwner(rest, o)
    BY <1>1, <2>1 DEF Held
  <2> QED BY <1>3, <1>5, <2>2 DEF Held
<1>7. Whole(o)' = Whole(o)
  BY <1>1, <1>6 DEF Whole
<1> QED BY <1>1, <1>6, <1>7, StreamFacts DEF Stream

(* The rows in the buffer are thrown away. *)
LEMMA StreamCancel ==
    ASSUME IInv, CancelBegin, NEW o \in Owners
    PROVE  Stream(o)'
<1>1. client_buffer' = <<>> /\ UNCHANGED delivered
      /\ cancelled' = [cancelled EXCEPT ![Self] = TRUE]
  BY DEF CancelBegin, CancelUnchanged
<1>2. ~Going(o)'
  BY <1>1, NodeFacts DEF Going, IInv, Types
<1>3. Held(o) = Rows(Len(Held(o))) /\ Held(o) \in Seq(Nat)
      /\ delivered[o] \in Seq(Nat) /\ OfOwner(client_buffer, o) \in Seq(Nat)
  BY StreamFacts DEF Stream
<1>4. Len(Held(o)) \in Nat /\ delivered[o] \o OfOwner(client_buffer, o) = Rows(Len(Held(o)))
  BY <1>3, LenProperties DEF Held
<1>5. delivered[o] = Rows(Len(delivered[o]))
  BY <1>3, <1>4, RowsFront
<1>6. Held(o)' = delivered[o]
  BY <1>1, <1>3, OfNobody, ConcatEmptySeq DEF Held
<1> QED BY <1>2, <1>5, <1>6 DEF Stream

(* PullChunk takes rows from the deque. *)
LEMMA StreamDrain ==
    ASSUME IInv, NEW p \in Owners, PullDrain(p), NEW o \in Owners, Going(o)' => Going(o)
    PROVE  Stream(o)'
<1>a. Types /\ OneCall
  BY DEF IInv
<1> DEFINE k     == Lower(pull[p].max_rows, Len(matched[p]))
           front == SubSeq(matched[p], 1, k)
           rest  == SubSeq(matched[p], k + 1, Len(matched[p]))
<1>1. /\ pull' = [pull EXCEPT ![p].stage = "drained", ![p].rows = front]
      /\ matched' = [matched EXCEPT ![p] = rest]
      /\ pull[p].stage = "sent"
      /\ UNCHANGED <<delivered, client_buffer, matched_cursor>>
  BY DEF PullDrain, HandlerStep, gatewayVars
<1>2. p \in Nodes /\ matched[p] \in Seq(Nat) /\ pull[p].max_rows \in Nat
  BY <1>a, NodeFacts, CallFacts DEF Types
<1>3. front \in Seq(Nat) /\ rest \in Seq(Nat) /\ front \o rest = matched[p]
  BY <1>2, DrainFacts
<1> HIDE DEF front, rest
<1>4. CASE o # p
  <2>1. pull'[o] = pull[o] /\ matched'[o] = matched[o]
    BY <1>1, <1>4, <1>a, NodeFacts DEF Types
  <2> QED BY <1>1, <2>1, StreamFrame, StreamFacts
<1>5. CASE o = p
  <2>1. pull'[o].rows = front /\ matched'[o] = rest /\ pull[o].rows = <<>>
    <3>1. pull[p].rows = <<>>
      BY <1>1, <1>2, <1>a DEF OneCall, Calling
    <3>2. pull'[p].rows = front
      BY <1>1, <1>2, <1>a, CallFacts DEF Types, Calls
    <3> QED BY <1>1, <1>2, <1>5, <1>a, <3>1, <3>2 DEF Types
  <2>2. Held(o)' = Held(o) /\ Held(o) \in Seq(Nat)
    BY <1>1, StreamFacts DEF Held
  <2>3. Whole(o)' = (Held(o) \o front) \o rest
    BY <2>1, <2>2 DEF Whole
  <2>4. Whole(o) = (Held(o) \o <<>>) \o (front \o rest)
    BY <1>3, <1>5, <2>1 DEF Whole
  <2>5. Held(o) \o <<>> = Held(o)
    BY <2>2, ConcatEmptySeq
  <2>6. (Held(o) \o front) \o rest = Held(o) \o (front \o rest)
    BY <1>3, <2>2, RowsAssociate
  <2>7. Whole(o)' = Whole(o)
    BY <2>3, <2>4, <2>5, <2>6
  <2> QED BY <1>1, <2>2, <2>7, StreamFacts DEF Stream
<1> QED BY <1>4, <1>5

(* The producer pushes a row. *)
LEMMA StreamRow ==
    ASSUME IInv, NEW n \in Nodes, ProduceRow(n), NEW o \in Owners, Going(o)' => Going(o)
    PROVE  Stream(o)'
<1>a. Types
  BY DEF IInv
<1>1. /\ matched' = [matched EXCEPT ![n] = Append(matched[n], matched_cursor[n] + 1)]
      /\ matched_cursor' = [matched_cursor EXCEPT ![n] = matched_cursor[n] + 1]
      /\ UNCHANGED <<delivered, client_buffer, pull>>
  BY DEF ProduceRow, Advanced, ProducerStep, gatewayVars
<1>2. CASE o # n
  <2>1. matched_cursor'[o] = matched_cursor[o] /\ matched'[o] = matched[o]
    BY <1>1, <1>2, <1>a, NodeFacts DEF Types
  <2> QED BY <1>1, <2>1, StreamFrame, StreamFacts
<1>3. CASE o = n
  <2> DEFINE h == Held(o) \o pull[o].rows
             c == matched_cursor[o]
  <2>1. matched'[o] = Append(matched[o], c + 1) /\ matched_cursor'[o] = c + 1
    BY <1>1, <1>3, <1>a DEF Types
  <2>2. Held(o)' = Held(o) /\ pull'[o].rows = pull[o].rows
    BY <1>1 DEF Held
  <2>3. /\ h \in Seq(Nat) /\ matched[o] \in Seq(Nat) /\ c \in Nat
        /\ Going(o) => h \o matched[o] = Rows(c)
    BY StreamFacts, ConcatProperties DEF Stream, Whole
  <2>4. Whole(o)' = h \o Append(matched[o], c + 1)
    BY <2>1, <2>2 DEF Whole
  <2> HIDE DEF h, c
  <2>5. h \o Append(matched[o], c + 1) = Append(h \o matched[o], c + 1)
    <3>1. c + 1 \in Nat
      BY <2>3
    <3> QED BY <2>3, <3>1, RowsConcatAppend, Zenon
  <2>6. Going(o) => Whole(o)' = Rows(c + 1)
    BY <2>3, <2>4, <2>5, NextRow
  <2> QED BY <2>1, <2>2, <2>6, StreamFacts DEF Stream
<1> QED BY <1>2, <1>3

LEMMA StreamsStep ==
    ASSUME IInv, [Next]_vars
    PROVE  Streams'
<1>a. Types /\ OneCall /\ Phases
  BY DEF IInv
<1> SUFFICES ASSUME NEW o \in Owners PROVE Stream(o)'
  BY DEF Streams
<1>b. Stream(o) /\ (Going(o)' => Going(o)) /\ o \in Nodes
  BY StreamFacts, GoingFacts, NodeFacts
<1> USE <1>a, <1>b DEF requestVars, gatewayVars
(* The rows do not move. *)
<1>c. ASSUME UNCHANGED <<delivered, client_buffer, matched, matched_cursor, pull>>
      PROVE  Stream(o)'
  BY <1>c, StreamFrame
<1>d. ASSUME UNCHANGED <<delivered, client_buffer>>, ~Going(o)'
      PROVE  Stream(o)'
  BY <1>d, StreamFrame
<1>1. CASE SubmitQuery \/ SubmitAck
  BY <1>1, <1>c DEF SubmitQuery, SubmitAck, Register
<1>2. CASE ForwardNext
  BY <1>2, <1>c
     DEF ForwardNext, NotForwarded, Forward, ForwardAccepted, ForwardFailed, Register
<1>3. ASSUME NEW b \in 1..Len(DataOwners), NEW e \in 1..Len(DataOwners), FetchBegin(b, e)
      PROVE  Stream(o)'
  BY <1>3, <1>c DEF FetchBegin
<1>4. CASE VisitEnd
  BY <1>4, <1>c DEF VisitEnd, VisitStep
<1>5. ASSUME NEW p \in Owners, VisitSkip(p)
      PROVE  Stream(o)'
  BY <1>5, <1>c DEF VisitSkip, VisitStep
<1>6. ASSUME NEW p \in Owners, VisitCall(p)
      PROVE  Stream(o)'
  <2> DEFINE call == [NoCall EXCEPT !.stage = "sent", !.max_rows = max_rows]
  <2>1. /\ fetch = "visit" /\ pull' = [pull EXCEPT ![p] = call] /\ p \in Nodes
        /\ UNCHANGED <<delivered, client_buffer, matched, matched_cursor>>
    BY <1>6, NodeFacts DEF VisitCall, Visiting, VisitStep
  <2>2. call.rows = <<>>
    BY DEF NoCall
  <2> HIDE DEF call
  <2>3. ASSUME Going(o), o = p PROVE pull[o].rows = <<>>
    <3>1. ~pull[o].orphan
      <4>1. pull[o].orphan => faults > 0 /\ client_producers_done[o]
        BY DEF OneCall, Calling
      <4> QED BY <2>3, <4>1 DEF Going
    <3>2. pull[o].stage = "none"
      BY <2>1, <3>1, NobodyCalls
    <3>3. pull[o] = NoCall
      BY <3>2 DEF OneCall, Calling
    <3> QED BY <3>3 DEF NoCall
  <2>4. Going(o)' => pull'[o].rows = pull[o].rows
    BY <2>1, <2>2, <2>3 DEF Types
  <2> QED BY <2>1, <2>4, StreamFrame
<1>7. ASSUME NEW p \in Owners, FetchReply(p)
      PROVE  Stream(o)'
  BY <1>7, StreamReply
<1>8. ASSUME NEW p \in Owners, FetchError(p)
      PROVE  Stream(o)'
  <2>1. /\ pull[p].stage = "error" /\ pull' = [pull EXCEPT ![p] = NoCall] /\ p \in Nodes
        /\ UNCHANGED <<delivered, client_buffer, matched, matched_cursor>>
    BY <1>8, NodeFacts DEF FetchError, VisitStep
  <2>2. pull[p].rows = <<>> /\ NoCall.rows = <<>>
    BY <2>1 DEF OneCall, Calling, NoCall
  <2>3. pull'[o].rows = pull[o].rows
    BY <2>1, <2>2 DEF Types
  <2> QED BY <2>1, <2>3, StreamFrame
<1>9. ASSUME NEW p \in Owners, FetchExpire(p)
      PROVE  Stream(o)'
  <2>1. /\ UNCHANGED <<delivered, client_buffer, matched, matched_cursor>>
        /\ p \in Nodes
    BY <1>9, NodeFacts DEF FetchExpire, VisitStep
  <2>2. CASE o # p
    <3>1. pull'[o] = pull[o]
      BY <1>9, <2>1, <2>2 DEF FetchExpire, Types
    <3> QED BY <2>1, <3>1, StreamFrame
  <2>3. CASE o = p
    <3>1. faults' # 0 /\ client_producers_done'[o]
      BY <1>9, <2>3 DEF FetchExpire, Fault, GiveUp, Types
    <3>2. ~Going(o)'
      BY <3>1 DEF Going
    <3> QED BY <1>d, <2>1, <3>2
  <2> QED BY <2>2, <2>3
<1>10. CASE FetchEmit
  BY <1>10, StreamEmit
<1>11. CASE CancelBegin
  BY <1>11, StreamCancel
<1>12. CASE CancelNext
  <2>1. cancelled[Self] /\ UNCHANGED <<delivered, client_buffer>>
    BY <1>12 DEF CancelNext, CancelUnchanged, Phases
  <2>2. ~Going(o)
    BY <2>1 DEF Going
  <2> QED BY <1>d, <2>1, <2>2
<1>13. CASE CancelReply
  BY <1>13, <1>c DEF CancelReply, CancelUnchanged
<1>14. ASSUME NEW n \in Nodes, Produce(n)
       PROVE  Stream(o)'
  <2>1. CASE ProduceRow(n)
    BY <2>1, StreamRow
  <2>2. CASE ProduceBegin(n) \/ ProduceCheck(n) \/ ProduceEnd(n)
    BY <1>c, <2>2 DEF ProduceBegin, ProduceCheck, ProduceEnd, ProducerStep
  <2> QED BY <1>14, <2>1, <2>2 DEF Produce
<1>15. ASSUME NEW p \in Owners, PullDrain(p)
       PROVE  Stream(o)'
  BY <1>15, StreamDrain
(* A handler keeps its rows, unless it has nobody to send them to. *)
<1>e. ASSUME NEW p \in Owners, HandlerStep, UNCHANGED matched,
             NEW call, call.rows = pull[p].rows,
             pull' = [pull EXCEPT ![p] = IF pull[p].orphan THEN NoCall ELSE call]
      PROVE  Stream(o)'
  <2>1. UNCHANGED <<delivered, client_buffer, matched_cursor>>
    BY <1>e DEF HandlerStep
  <2>2. ASSUME Going(o) PROVE pull'[o].rows = pull[o].rows
    <3>1. pull[o].orphan => faults > 0 /\ client_producers_done[o]
      BY DEF OneCall, Calling
    <3>2. ~pull[o].orphan
      BY <2>2, <3>1 DEF Going
    <3> QED BY <1>e, <3>2, NodeFacts DEF Types
  <2> QED BY <1>e, <2>1, <2>2, StreamFrame
<1>16. ASSUME NEW p \in Owners, PullNotFound(p)
       PROVE  Stream(o)'
  <2> DEFINE call == [pull[p] EXCEPT !.stage = "error"]
  <2>1. /\ pull' = [pull EXCEPT ![p] = IF pull[p].orphan THEN NoCall ELSE call]
        /\ HandlerStep /\ UNCHANGED matched
    BY <1>16 DEF PullNotFound, Answered
  <2>2. call.rows = pull[p].rows
    BY CallFacts, NodeFacts DEF Calls
  <2> HIDE DEF call
  <2> QED BY <1>e, <2>1, <2>2
<1>17. ASSUME NEW p \in Owners, PullLook(p)
       PROVE  Stream(o)'
  <2>1. /\ pull' = [pull EXCEPT ![p].stage = "looked", ![p].done = done_producing[p]]
        /\ HandlerStep /\ UNCHANGED matched
    BY <1>17 DEF PullLook
  <2>2. pull'[o].rows = pull[o].rows
    BY <2>1, CallFacts, NodeFacts DEF Types, Calls
  <2> QED BY <2>1, <2>2, StreamFrame DEF HandlerStep
<1>18. ASSUME NEW p \in Owners, PullFinish(p)
       PROVE  Stream(o)'
  <2> DEFINE call == [pull[p] EXCEPT !.stage = "replied", !.last = NoMoreRows(p)]
  <2>1. /\ pull' = [pull EXCEPT ![p] = IF pull[p].orphan THEN NoCall ELSE call]
        /\ HandlerStep /\ UNCHANGED matched
    BY <1>18 DEF PullFinish, Answered
  <2>2. call.rows = pull[p].rows
    BY CallFacts, NodeFacts DEF Calls
  <2> HIDE DEF call
  <2> QED BY <1>e, <2>1, <2>2
<1>19. ASSUME NEW p \in Owners, ForwardLate(p)
       PROVE  Stream(o)'
  BY <1>19, <1>c DEF ForwardLate, Register
<1>20. CASE UNCHANGED vars
  BY <1>20, <1>c DEF vars
<1> QED BY <1>1, <1>2, <1>3, <1>4, <1>5, <1>6, <1>7, <1>8, <1>9, <1>10, <1>11, <1>12,
           <1>13, <1>14, <1>15, <1>16, <1>17, <1>18, <1>19, <1>20
        DEF Next, FetchStep, PullChunk, Finish

-----------------------------------------------------------------------------
(* The invariant, and what follows from it. *)

LEMMA InitHolds == Init => IInv
<1> SUFFICES ASSUME Init PROVE IInv
  OBVIOUS
<1> USE NodeFacts
<1>1. Types
  BY EmptySeq, NoCallOK DEF Init, Types
<1>2. \A n \in Nodes : shard[n].found \in Nat
  BY <1>1, ShardFacts
<1>3. Len(<<>>) = 0 /\ NoCall.rows = <<>> /\ NoCall.max_rows = 0 /\ NoCall.stage = "none"
      /\ ~NoCall.orphan /\ ~NoCall.done
  BY DEF NoCall
<1>4. Production
  BY <1>2, <1>3, PyAssumption DEF Init, Production, Producing
<1>5. BufferBounded
  BY <1>3, PyAssumption DEF Init, BufferBounded
<1>6. OneCall
  BY <1>3 DEF Init, OneCall, Calling
<1>7. Phases
  BY DEF Init, Phases
<1>8. Releases
  BY <1>3 DEF Init, Releases, Releasing
<1>9. Streams
  <2> SUFFICES ASSUME NEW o \in Owners PROVE Stream(o)
    BY DEF Streams
  <2>1. <<>> \o <<>> = <<>> /\ Rows(0) = <<>>
    BY NoRows, EmptySeq, ConcatEmptySeq
  <2>2. Held(o) = <<>>
    BY <2>1, OfNobody DEF Init, Held
  <2>3. Whole(o) = <<>> /\ matched_cursor[o] = 0
    BY <1>3, <2>1, <2>2 DEF Init, Whole
  <2> QED BY <1>3, <2>1, <2>2, <2>3 DEF Stream
<1> QED BY <1>1, <1>4, <1>5, <1>6, <1>7, <1>8, <1>9 DEF IInv

LEMMA StepKeeps == IInv /\ [Next]_vars => IInv'
BY TypesStep, ProductionStep, BufferStep, CallsStep, PhasesStep, ReleasesStep, StreamsStep
   DEF IInv

LEMMA PyInvariant == Spec => []IInv
BY InitHolds, StepKeeps, PTL DEF Spec

(* A deque holds at most MAX_BUFFERED rows, although its size is read and
   changed in critical sections of their own, and the gateway's buffer less
   than two chunks, however many owners answer a FetchChunk (node.py
   _produce_loop and FetchChunk). *)
THEOREM PyMemoryBounded == Spec => []BoundedMemory
<1>1. IInv => BoundedMemory
  BY DEF IInv, Production, Producing, BufferBounded, BoundedMemory
<1> QED BY <1>1, PyInvariant, PTL

(* Without a fault or a cancel no row of an owner is lost, doubled or out of
   order between its deque and the client, whichever owners the two looks at
   the clock make FetchChunk visit (node.py PullChunk and FetchChunk). *)
THEOREM PyRowsConserved == Spec => []RowsConserved
<1>1. ASSUME IInv PROVE RowsConserved
  <2> SUFFICES ASSUME NEW o \in Owners, faults = 0, ~cancelled[Self]
               PROVE  delivered[o] \o OfOwner(client_buffer, o) \o pull[o].rows \o matched[o]
                         = Rows(matched_cursor[o])
    BY DEF RowsConserved
  <2>1. Stream(o) /\ Going(o)
    BY <1>1, StreamFacts DEF Going
  <2> QED BY <2>1 DEF Stream, Whole, Held
<1> QED BY <1>1, PyInvariant, PTL

(* Whatever fails, expires or answers too late, the client has a gap-free
   beginning of each owner's rows: who has failed once is not asked again
   (node.py FetchChunk). *)
THEOREM PyOnlyPrefixes == Spec => []OnlyPrefixes
<1>1. ASSUME IInv PROVE OnlyPrefixes
  <2> SUFFICES ASSUME NEW o \in Owners PROVE delivered[o] = Rows(Len(delivered[o]))
    BY DEF OnlyPrefixes
  <2>1. Held(o) = Rows(Len(Held(o))) /\ Held(o) \in Seq(Nat)
        /\ delivered[o] \in Seq(Nat) /\ OfOwner(client_buffer, o) \in Seq(Nat)
    BY <1>1, StreamFacts DEF Stream
  <2>2. Len(Held(o)) \in Nat /\ delivered[o] \o OfOwner(client_buffer, o) = Rows(Len(Held(o)))
    BY <2>1, LenProperties DEF Held
  <2> QED BY <2>1, <2>2, RowsFront
<1> QED BY <1>1, PyInvariant, PTL

(* is_last is only said once every owner's rows are with the client, if no
   call has failed and the gateway has none of its own (node.py FetchChunk). *)
THEOREM PyLastMeansAll == Spec => []LastMeansAll
<1>1. ASSUME IInv PROVE LastMeansAll
  <2> SUFFICES ASSUME client = "done", faults = 0, shard[Self].found = 0, NEW o \in Owners
               PROVE  delivered[o] = Rows(shard[o].found)
    BY DEF LastMeansAll
  <2>1. Types /\ Production /\ OneCall /\ Phases /\ Releases /\ o \in Nodes
    BY <1>1, NodeFacts DEF IInv
  <2>2. client_buffer = <<>> /\ ~cancelled[Self] /\ fetch = "idle"
    BY <2>1 DEF Phases, OneCall
  <2>3. pull[o].rows = <<>>
    <3>1. pull[o].stage = "none"
      BY <2>1, <2>2 DEF OneCall, Calling
    <3>2. pull[o] = NoCall
      BY <2>1, <3>1 DEF OneCall, Calling
    <3> QED BY <3>2 DEF NoCall
  <2>4. Whole(o) = Rows(matched_cursor[o])
    BY <1>1, <2>2, StreamFacts DEF Stream, Going
  <2>5. delivered[o] \in Seq(Nat) /\ matched[o] \in Seq(Nat)
    BY <1>1, StreamFacts
  <2>6. Whole(o) = delivered[o] \o matched[o]
    BY <2>2, <2>3, <2>5, OfNobody, ConcatEmptySeq DEF Whole, Held
  <2>7. matched_cursor[o] = shard[o].found /\ matched[o] = <<>>
    <3>1. CASE o = Self
      <4>1. matched_cursor[o] = 0 /\ Len(matched[o]) = 0
        BY <2>1, <3>1, ProductionFacts DEF Producing
      <4> QED BY <2>5, <3>1, <4>1, EmptySeq
    <3>2. CASE o # Self
      <4>1. client_producers_done[o] /\ Releasing(o)
        BY <2>1, <3>2 DEF Phases, Releases
      <4> QED BY <2>2, <4>1 DEF Releasing, Settled
    <3> QED BY <3>1, <3>2
  <2> QED BY <2>4, <2>5, <2>6, <2>7, ConcatEmptySeq
<1> QED BY <1>1, PyInvariant, PTL

(* When the last chunk or the answer to a cancel is on its way, the gateway
   and all owners with a file have dropped the query, if no call has failed
   (node.py _drop, in three handlers). *)
THEOREM PyEndedIsReleased == Spec => []EndedIsReleased
<1>1. ASSUME IInv PROVE EndedIsReleased
  <2> SUFFICES ASSUME client \in {"done", "cancelled"}, faults = 0, NEW n \in Nodes,
                      shard[n].file \/ n = Self
               PROVE  ~registered[n]
    BY DEF EndedIsReleased
  <2>1. Types /\ Phases /\ Releases
    BY <1>1 DEF IInv
  <2>2. CASE n = Self
    BY <2>1, <2>2 DEF Phases
  <2>3. CASE n # Self
    <3>1. n \in Owners \ {Self} /\ Releasing(n)
      BY <2>1, <2>3 DEF Nodes, Releases
    <3>2. CASE client = "done"
      BY <2>1, <2>3, <3>1, <3>2 DEF Phases, Releasing, Settled
    <3>3. CASE client = "cancelled"
      <4>1. toCancel = <<>> /\ cancelled[Self]
        BY <2>1, <3>3 DEF Phases
      <4>2. ~Waiting(toCancel, n)
        BY <4>1 DEF Waiting
      <4> QED BY <3>1, <4>1, <4>2 DEF Releasing
    <3> QED BY <3>2, <3>3
  <2> QED BY <2>2, <2>3
<1> QED BY <1>1, PyInvariant, PTL
=============================================================================
