-------------------------- MODULE PartitionProofs ---------------------------
(*****************************************************************************)
(* What an owner loads and finds: the C++ store holds the rows of its file  *)
(* however the bytes are divided among threads (LoadIs), a Python owner a   *)
(* sorted permutation of them (PyLoadIs), and both find in it what a scan   *)
(* of every row would (MatchedIs, PyMatchedIs).  The first part is about    *)
(* sequences and Filter alone.                                              *)
(*****************************************************************************)
EXTENDS PyPartition, SequenceTheorems, FiniteSetTheorems, WellFoundedInduction, TLAPS

(* Induction, for a set in place of a predicate. *)
LEMMA NatInduct ==
    ASSUME NEW A, 0 \in A, \A n \in Nat : n \in A => n + 1 \in A
    PROVE  \A n \in Nat : n \in A
<1> DEFINE B == Nat \ A
<1> SUFFICES ASSUME B # {} PROVE FALSE
  OBVIOUS
<1>1. PICK n \in B : \A m \in B : ~ (<<m, n>> \in OpToRel(<, Nat))
  BY WFMin, NatLessThanWellFounded, Zenon
<1>2. n \in Nat /\ n \notin A /\ n # 0
  OBVIOUS
<1>3. n - 1 \in Nat /\ n - 1 < n
  BY <1>2
<1>4. <<n - 1, n>> \in OpToRel(<, Nat)
  BY <1>2, <1>3 DEF OpToRel
<1>5. n - 1 \in A
  BY <1>1, <1>3, <1>4
<1>6. (n - 1) + 1 \in A
  BY <1>3, <1>5
<1> QED BY <1>2, <1>6

(* A nonempty set of naturals has a least element. *)
LEMMA LeastNat ==
    ASSUME NEW A, A \subseteq Nat, A # {}
    PROVE  \E n \in A : \A m \in A : n <= m
<1>1. PICK n \in A : \A m \in A : <<m, n>> \notin OpToRel(<, Nat)
  BY WFMin, NatLessThanWellFounded, Zenon
<1>2. \A m \in A : ~ (m < n)
  BY <1>1 DEF OpToRel
<1> QED BY <1>2

LEMMA SeqInduct ==
    ASSUME NEW T, NEW A, <<>> \in A,
           \A s \in Seq(T), e \in T : s \in A => Append(s, e) \in A
    PROVE  \A s \in Seq(T) : s \in A
<1> DEFINE B == {n \in Nat : \A s \in Seq(T) : Len(s) = n => s \in A}
<1>1. 0 \in B
  BY EmptySeq
<1>2. ASSUME NEW n \in Nat, n \in B PROVE n + 1 \in B
  <2> SUFFICES ASSUME NEW s \in Seq(T), Len(s) = n + 1 PROVE s \in A
    OBVIOUS
  <2>1. s # <<>>
    BY EmptySeq
  <2>2. PICK t \in Seq(T), e \in T : s = Append(t, e)
    BY <2>1, SequenceEmptyOrAppend
  <2>3. Len(t) = n
    BY <2>2, AppendProperties, LenProperties
  <2> QED BY <1>2, <2>2, <2>3
<1> HIDE DEF B
<1>3. \A n \in Nat : n \in B
  BY <1>1, <1>2, NatInduct
<1> QED BY <1>3, LenProperties DEF B

LEMMA ConcatAppend ==
    ASSUME NEW S, NEW s \in Seq(S), NEW t \in Seq(S), NEW e \in S
    PROVE  s \o Append(t, e) = Append(s \o t, e)
<1> DEFINE u == <<e>>
<1>1. u \in Seq(S)
  OBVIOUS
<1>2. Append(t, e) = t \o u /\ Append(s \o t, e) = (s \o t) \o u
  BY AppendIsConcat, ConcatProperties
<1> HIDE DEF u
<1>3. (s \o t) \o u = s \o (t \o u)
  BY <1>1, ConcatAssociative
<1> QED BY <1>2, <1>3

LEMMA ToSetAppend ==
    ASSUME NEW S, NEW s \in Seq(S), NEW e \in S
    PROVE  ToSet(Append(s, e)) = ToSet(s) \cup {e}
<1>1. /\ Len(s) \in Nat /\ DOMAIN s = 1..Len(s)
      /\ DOMAIN Append(s, e) = 1..(Len(s) + 1)
      /\ Append(s, e)[Len(s) + 1] = e
      /\ \A i \in 1..Len(s) : Append(s, e)[i] = s[i]
  BY AppendProperties, LenProperties
<1> QED BY <1>1 DEF ToSet

(* A function defined by recursion up to N exists. *)
Recurs(f, N, b, step) ==
    /\ f[0] = b
    /\ \A i \in 1..N : f[i] = step[i][f[i - 1]]

LEMMA Recursion ==
    ASSUME NEW N \in Nat, NEW V, NEW b \in V, NEW step \in [1..N -> [V -> V]]
    PROVE  \E f \in [0..N -> V] : Recurs(f, N, b, step)
<1> DEFINE Upto(n) == \E f \in [0..n -> V] :
              f[0] = b /\ \A i \in 1..n : f[i] = step[i][f[i - 1]]
           A == {n \in Nat : n <= N => Upto(n)}
<1>1. 0 \in A
  <2> DEFINE f == [i \in 0..0 |-> b]
  <2>1. f \in [0..0 -> V] /\ f[0] = b /\ \A i \in 1..0 : f[i] = step[i][f[i - 1]]
    OBVIOUS
  <2>2. Upto(0)
    BY <2>1
  <2> QED BY <2>2
<1>2. ASSUME NEW n \in Nat, n \in A PROVE n + 1 \in A
  <2> SUFFICES ASSUME n + 1 <= N PROVE Upto(n + 1)
    OBVIOUS
  <2>1. PICK f \in [0..n -> V] :
           f[0] = b /\ \A i \in 1..n : f[i] = step[i][f[i - 1]]
    BY <1>2
  <2>2. n + 1 \in 1..N /\ f[n] \in V
    OBVIOUS
  <2>3. step[n + 1][f[n]] \in V
    BY <2>2
  <2> DEFINE g == [i \in 0..(n + 1) |-> IF i = n + 1 THEN step[n + 1][f[n]] ELSE f[i]]
  <2>4. g \in [0..(n + 1) -> V]
    BY <2>3
  <2>5. g[0] = b
    BY <2>1
  <2>6. ASSUME NEW i \in 1..(n + 1) PROVE g[i] = step[i][g[i - 1]]
    <3>1. CASE i = n + 1
      BY <3>1
    <3>2. CASE i # n + 1
      <4>1. i \in 1..n /\ i - 1 \in 0..n /\ i - 1 # n + 1
        BY <3>2
      <4>2. g[i] = f[i] /\ g[i - 1] = f[i - 1]
        BY <3>2, <4>1
      <4> QED BY <2>1, <4>1, <4>2
    <3> QED BY <3>1, <3>2
  <2> HIDE DEF g
  <2> QED BY <2>4, <2>5, <2>6
<1> HIDE DEF A
<1>3. \A n \in Nat : n \in A
  BY <1>1, <1>2, NatInduct
<1> QED BY <1>3 DEF A, Recurs

-----------------------------------------------------------------------------
(* Filter *)

FilterRun(f, s, S) ==
    /\ f[0] = <<>>
    /\ \A i \in 1..Len(s) :
          f[i] = IF s[i] \in S THEN Append(f[i - 1], s[i]) ELSE f[i - 1]

LEMMA FilterIs ==
    ASSUME NEW T, NEW s \in Seq(T), NEW S
    PROVE  \E f \in [0..Len(s) -> Seq(T)] : FilterRun(f, s, S) /\ Filter(s, S) = f[Len(s)]
<1> DEFINE N == Len(s)
           K(f) == f = [i \in 0..N |-> IF i = 0 THEN <<>>
                          ELSE IF s[i] \in S THEN Append(f[i - 1], s[i]) ELSE f[i - 1]]
           kept == CHOOSE f : K(f)
           step == [i \in 1..N |-> [q \in Seq(T) |-> IF s[i] \in S THEN Append(q, s[i]) ELSE q]]
<1>1. N \in Nat /\ \A i \in 1..N : s[i] \in T
  BY LenProperties, ElementOfSeq
<1>2. step \in [1..N -> [Seq(T) -> Seq(T)]]
  <2>1. ASSUME NEW i \in 1..N, NEW q \in Seq(T)
        PROVE  (IF s[i] \in S THEN Append(q, s[i]) ELSE q) \in Seq(T)
    BY <1>1, AppendProperties
  <2> QED BY <2>1
<1>3. <<>> \in Seq(T)
  BY EmptySeq
<1> HIDE DEF step, N
<1>4. PICK f \in [0..N -> Seq(T)] : Recurs(f, N, <<>>, step)
  BY <1>1, <1>2, <1>3, Recursion
<1>5. ASSUME NEW i \in 1..N
      PROVE  f[i] = IF s[i] \in S THEN Append(f[i - 1], s[i]) ELSE f[i - 1]
  <2>1. f[i - 1] \in Seq(T)
    BY <1>1
  <2>2. step[i][f[i - 1]] = IF s[i] \in S THEN Append(f[i - 1], s[i]) ELSE f[i - 1]
    BY <2>1 DEF step
  <2> QED BY <1>4, <2>2 DEF Recurs
<1>6. K(f)
  <2> DEFINE g == [i \in 0..N |-> IF i = 0 THEN <<>>
                     ELSE IF s[i] \in S THEN Append(f[i - 1], s[i]) ELSE f[i - 1]]
  <2>1. ASSUME NEW i \in 0..N PROVE g[i] = f[i]
    <3>1. CASE i = 0
      BY <1>4, <3>1 DEF Recurs
    <3>2. CASE i # 0
      <4>1. i \in 1..N
        BY <1>1, <3>2
      <4> QED BY <1>5, <3>2, <4>1, Zenon
    <3> QED BY <3>1, <3>2
  <2>2. DOMAIN g = 0..N /\ DOMAIN f = 0..N
    OBVIOUS
  <2>3. f = [i \in 0..N |-> f[i]] /\ g = [i \in 0..N |-> g[i]]
    OBVIOUS
  <2> HIDE DEF g
  <2>4. f = g
    BY <2>1, <2>3
  <2> QED BY <2>4 DEF g
<1>7. K(kept)
  BY <1>6
<1> HIDE DEF kept
<1>8. FilterRun(kept, s, S)
  <2>1. kept[0] = <<>>
    BY <1>1, <1>7
  <2>2. ASSUME NEW i \in 1..N
        PROVE  kept[i] = IF s[i] \in S THEN Append(kept[i - 1], s[i]) ELSE kept[i - 1]
    <3>1. i \in 0..N /\ i # 0
      BY <1>1
    <3> QED BY <1>7, <3>1, Zenon
  <2> QED BY <2>1, <2>2 DEF FilterRun, N
<1>9. DOMAIN kept = 0..N /\ kept = [i \in 0..N |-> kept[i]]
  BY <1>7
<1>10. \A i \in Nat : i \in 0..N => kept[i] \in Seq(T)
  <2> DEFINE A == {i \in Nat : i \in 0..N => kept[i] \in Seq(T)}
  <2>1. 0 \in A
    BY <1>3, <1>8 DEF FilterRun
  <2>2. ASSUME NEW i \in Nat, i \in A PROVE i + 1 \in A
    <3> SUFFICES ASSUME i + 1 \in 0..N PROVE kept[i + 1] \in Seq(T)
      OBVIOUS
    <3>1. i + 1 \in 1..N /\ (i + 1) - 1 = i /\ kept[i] \in Seq(T)
      BY <1>1, <2>2
    <3>2. s[i + 1] \in T
      BY <1>1, <3>1
    <3>3. kept[i + 1] = IF s[i + 1] \in S THEN Append(kept[i], s[i + 1]) ELSE kept[i]
      BY <1>8, <3>1 DEF FilterRun, N
    <3> QED BY <3>1, <3>2, <3>3, AppendProperties
  <2> HIDE DEF A
  <2>3. \A i \in Nat : i \in A
    BY <2>1, <2>2, NatInduct
  <2> QED BY <2>3 DEF A
<1>11. Filter(s, S) = kept[N]
  BY DEF Filter, kept, N
<1>12. \A i \in 0..N : kept[i] \in Seq(T)
  BY <1>1, <1>10
<1>13. kept \in [0..N -> Seq(T)]
  BY <1>9, <1>12
<1> QED BY <1>8, <1>11, <1>13 DEF N

(* There is one such run: prefixes of s give prefixes of it. *)
LEMMA FilterRunUnique ==
    ASSUME NEW T, NEW s \in Seq(T), NEW t \in Seq(T), NEW S, NEW f, NEW g,
           Len(s) <= Len(t), \A i \in 1..Len(s) : s[i] = t[i],
           FilterRun(f, s, S), FilterRun(g, t, S)
    PROVE  f[Len(s)] = g[Len(s)]
<1> DEFINE A == {i \in Nat : i <= Len(s) => f[i] = g[i]}
<1>1. Len(s) \in Nat /\ Len(t) \in Nat
  BY LenProperties
<1>2. 0 \in A
  BY DEF FilterRun
<1>3. ASSUME NEW i \in Nat, i \in A PROVE i + 1 \in A
  <2> SUFFICES ASSUME i + 1 <= Len(s) PROVE f[i + 1] = g[i + 1]
    OBVIOUS
  <2>1. i + 1 \in 1..Len(s) /\ i + 1 \in 1..Len(t) /\ (i + 1) - 1 = i /\ f[i] = g[i]
    BY <1>1, <1>3
  <2> QED BY <2>1 DEF FilterRun
<1> HIDE DEF A
<1>4. \A i \in Nat : i \in A
  BY <1>2, <1>3, NatInduct
<1> QED BY <1>1, <1>4 DEF A

LEMMA FilterSeq ==
    ASSUME NEW T, NEW s \in Seq(T), NEW S
    PROVE  Filter(s, S) \in Seq(T)
BY FilterIs, LenProperties

LEMMA FilterEmpty == ASSUME NEW S PROVE Filter(<<>>, S) = <<>>
<1>1. <<>> \in Seq({}) /\ Len(<<>>) = 0
  BY EmptySeq
<1>2. PICK f \in [0..0 -> Seq({})] : FilterRun(f, <<>>, S) /\ Filter(<<>>, S) = f[0]
  <2>1. \E f \in [0..Len(<<>>) -> Seq({})] :
           FilterRun(f, <<>>, S) /\ Filter(<<>>, S) = f[Len(<<>>)]
    BY <1>1, FilterIs, Zenon
  <2> QED BY <1>1, <2>1
<1> QED BY <1>2 DEF FilterRun

LEMMA FilterAppend ==
    ASSUME NEW T, NEW s \in Seq(T), NEW e \in T, NEW S
    PROVE  Filter(Append(s, e), S) =
              IF e \in S THEN Append(Filter(s, S), e) ELSE Filter(s, S)
<1> DEFINE t == Append(s, e)
<1>1. /\ t \in Seq(T) /\ Len(s) \in Nat /\ Len(t) = Len(s) + 1
      /\ t[Len(t)] = e /\ \A i \in 1..Len(s) : s[i] = t[i]
  BY AppendProperties, LenProperties
<1> HIDE DEF t
<1>2. PICK f \in [0..Len(s) -> Seq(T)] : FilterRun(f, s, S) /\ Filter(s, S) = f[Len(s)]
  BY FilterIs
<1>3. PICK g \in [0..Len(t) -> Seq(T)] : FilterRun(g, t, S) /\ Filter(t, S) = g[Len(t)]
  BY <1>1, FilterIs
<1>4. f[Len(s)] = g[Len(s)]
  BY <1>1, <1>2, <1>3, FilterRunUnique
<1>5. Len(t) \in 1..Len(t) /\ Len(t) - 1 = Len(s)
  BY <1>1
<1>6. g[Len(t)] = IF t[Len(t)] \in S THEN Append(g[Len(t) - 1], t[Len(t)]) ELSE g[Len(t) - 1]
  BY <1>3, <1>5 DEF FilterRun
<1>7. Filter(t, S) = IF e \in S THEN Append(Filter(s, S), e) ELSE Filter(s, S)
  BY <1>1, <1>2, <1>3, <1>4, <1>5, <1>6
<1> QED BY <1>7 DEF t

(* What a sequence has through Filter. *)
LEMMA FilterConcat ==
    ASSUME NEW T, NEW s \in Seq(T), NEW S
    PROVE  \A t \in Seq(T) : Filter(s \o t, S) = Filter(s, S) \o Filter(t, S)
<1> DEFINE A == {t \in Seq(T) : Filter(s \o t, S) = Filter(s, S) \o Filter(t, S)}
<1>1. <<>> \in A
  <2>1. s \o <<>> = s /\ Filter(s, S) \o <<>> = Filter(s, S)
    BY FilterSeq, ConcatEmptySeq
  <2> QED BY <2>1, FilterEmpty, EmptySeq
<1>2. ASSUME NEW t \in Seq(T), NEW e \in T, t \in A PROVE Append(t, e) \in A
  <2>1. Append(t, e) \in Seq(T) /\ s \o t \in Seq(T)
    BY AppendProperties, ConcatProperties
  <2>2. s \o Append(t, e) = Append(s \o t, e)
    BY ConcatAppend
  <2>3. Filter(s, S) \in Seq(T) /\ Filter(t, S) \in Seq(T)
    BY FilterSeq
  <2>4. Filter(Append(s \o t, e), S) =
          IF e \in S THEN Append(Filter(s \o t, S), e) ELSE Filter(s \o t, S)
    BY <2>1, FilterAppend
  <2>5. Filter(Append(t, e), S) = IF e \in S THEN Append(Filter(t, S), e) ELSE Filter(t, S)
    BY FilterAppend
  <2>6. Filter(s, S) \o Append(Filter(t, S), e) = Append(Filter(s, S) \o Filter(t, S), e)
    BY <2>3, ConcatAppend
  <2> QED BY <1>2, <2>1, <2>2, <2>4, <2>5, <2>6
<1> HIDE DEF A
<1>3. \A t \in Seq(T) : t \in A
  BY <1>1, <1>2, SeqInduct
<1> QED BY <1>3 DEF A

LEMMA FilterFilter ==
    ASSUME NEW T, NEW S, NEW U
    PROVE  \A s \in Seq(T) : Filter(Filter(s, S), U) = Filter(s, S \cap U)
<1> DEFINE W == S \cap U
           A == {s \in Seq(T) : Filter(Filter(s, S), U) = Filter(s, W)}
<1>1. <<>> \in A
  BY FilterEmpty, EmptySeq
<1>2. \A e : e \in W <=> e \in S /\ e \in U
  OBVIOUS
<1> HIDE DEF W
<1>3. ASSUME NEW s \in Seq(T), NEW e \in T, s \in A PROVE Append(s, e) \in A
  <2>1. Append(s, e) \in Seq(T) /\ Filter(s, S) \in Seq(T)
    BY AppendProperties, FilterSeq
  <2>2. Filter(Append(s, e), S) = IF e \in S THEN Append(Filter(s, S), e) ELSE Filter(s, S)
    BY FilterAppend
  <2>3. Filter(Append(s, e), W) = IF e \in W THEN Append(Filter(s, W), e) ELSE Filter(s, W)
    BY FilterAppend
  <2>4. Filter(Append(Filter(s, S), e), U) =
          IF e \in U THEN Append(Filter(Filter(s, S), U), e) ELSE Filter(Filter(s, S), U)
    BY <2>1, FilterAppend
  <2>5. Filter(Filter(Append(s, e), S), U) = Filter(Append(s, e), W)
    <3>1. Filter(Filter(s, S), U) = Filter(s, W)
      BY <1>3
    <3>2. CASE e \in S
      <4>1. Filter(Append(s, e), S) = Append(Filter(s, S), e)
        BY <2>2, <3>2
      <4>2. Filter(Filter(Append(s, e), S), U) =
              IF e \in U THEN Append(Filter(s, W), e) ELSE Filter(s, W)
        BY <2>4, <3>1, <4>1
      <4>3. Filter(Append(s, e), W) =
              IF e \in U THEN Append(Filter(s, W), e) ELSE Filter(s, W)
        BY <1>2, <2>3, <3>2
      <4> QED BY <4>2, <4>3
    <3>3. CASE e \notin S
      <4>1. Filter(Append(s, e), S) = Filter(s, S)
        BY <2>2, <3>3
      <4>2. Filter(Append(s, e), W) = Filter(s, W)
        BY <1>2, <2>3, <3>3
      <4> QED BY <3>1, <4>1, <4>2
    <3> QED BY <3>2, <3>3
  <2> QED BY <2>1, <2>5
<1> HIDE DEF A
<1>4. \A s \in Seq(T) : s \in A
  BY <1>1, <1>3, SeqInduct
<1> QED BY <1>4 DEF A, W

(* Only what is in the sequence counts. *)
LEMMA FilterSame ==
    ASSUME NEW T, NEW S, NEW U
    PROVE  \A s \in Seq(T) :
              (\A i \in 1..Len(s) : s[i] \in S <=> s[i] \in U) => Filter(s, S) = Filter(s, U)
<1> DEFINE P(s) == \A i \in 1..Len(s) : s[i] \in S <=> s[i] \in U
           A == {s \in Seq(T) : P(s) => Filter(s, S) = Filter(s, U)}
<1>1. <<>> \in A
  BY FilterEmpty, EmptySeq
<1>2. ASSUME NEW s \in Seq(T), NEW e \in T, s \in A PROVE Append(s, e) \in A
  <2> SUFFICES ASSUME P(Append(s, e)) PROVE Filter(Append(s, e), S) = Filter(Append(s, e), U)
    BY AppendProperties
  <2>1. /\ Len(s) \in Nat /\ Len(Append(s, e)) = Len(s) + 1 /\ Append(s, e)[Len(s) + 1] = e
        /\ \A i \in 1..Len(s) : Append(s, e)[i] = s[i]
    BY AppendProperties, LenProperties
  <2>2. e \in S <=> e \in U
    BY <2>1
  <2>3. P(s)
    BY <2>1
  <2>4. Filter(s, S) = Filter(s, U)
    BY <1>2, <2>3
  <2> HIDE DEF P
  <2>5. /\ Filter(Append(s, e), S) = IF e \in S THEN Append(Filter(s, S), e) ELSE Filter(s, S)
        /\ Filter(Append(s, e), U) = IF e \in U THEN Append(Filter(s, U), e) ELSE Filter(s, U)
    BY FilterAppend
  <2> QED BY <2>2, <2>4, <2>5
<1> HIDE DEF A
<1>3. \A s \in Seq(T) : s \in A
  BY <1>1, <1>2, SeqInduct
<1> QED BY <1>3 DEF A

LEMMA FilterAll ==
    ASSUME NEW T, NEW S
    PROVE  \A s \in Seq(T) : (\A i \in 1..Len(s) : s[i] \in S) => Filter(s, S) = s
<1> DEFINE P(s) == \A i \in 1..Len(s) : s[i] \in S
           A == {s \in Seq(T) : P(s) => Filter(s, S) = s}
<1>1. <<>> \in A
  BY FilterEmpty, EmptySeq
<1>2. ASSUME NEW s \in Seq(T), NEW e \in T, s \in A PROVE Append(s, e) \in A
  <2> SUFFICES ASSUME P(Append(s, e)) PROVE Filter(Append(s, e), S) = Append(s, e)
    BY AppendProperties
  <2>1. /\ Len(s) \in Nat /\ Len(Append(s, e)) = Len(s) + 1 /\ Append(s, e)[Len(s) + 1] = e
        /\ \A i \in 1..Len(s) : Append(s, e)[i] = s[i]
    BY AppendProperties, LenProperties
  <2>2. e \in S
    BY <2>1
  <2>3. P(s)
    BY <2>1
  <2>4. Filter(s, S) = s
    BY <1>2, <2>3
  <2> HIDE DEF P
  <2>5. Filter(Append(s, e), S) = IF e \in S THEN Append(Filter(s, S), e) ELSE Filter(s, S)
    BY FilterAppend
  <2> QED BY <2>2, <2>4, <2>5
<1> HIDE DEF A
<1>3. \A s \in Seq(T) : s \in A
  BY <1>1, <1>2, SeqInduct
<1> QED BY <1>3 DEF A

LEMMA ToSetFilter ==
    ASSUME NEW T, NEW S
    PROVE  \A s \in Seq(T) : ToSet(Filter(s, S)) = ToSet(s) \cap S
<1> DEFINE A == {s \in Seq(T) : ToSet(Filter(s, S)) = ToSet(s) \cap S}
<1>1. <<>> \in A
  BY FilterEmpty, EmptySeq DEF ToSet
<1>2. ASSUME NEW s \in Seq(T), NEW e \in T, s \in A PROVE Append(s, e) \in A
  <2>1. Append(s, e) \in Seq(T) /\ Filter(s, S) \in Seq(T)
    BY AppendProperties, FilterSeq
  <2>2. ToSet(Append(s, e)) = ToSet(s) \cup {e}
    BY ToSetAppend
  <2>3. ToSet(Append(Filter(s, S), e)) = ToSet(Filter(s, S)) \cup {e}
    BY <2>1, ToSetAppend
  <2>4. Filter(Append(s, e), S) = IF e \in S THEN Append(Filter(s, S), e) ELSE Filter(s, S)
    BY FilterAppend
  <2> QED BY <1>2, <2>1, <2>2, <2>3, <2>4
<1> HIDE DEF A
<1>3. \A s \in Seq(T) : s \in A
  BY <1>1, <1>2, SeqInduct
<1> QED BY <1>3 DEF A

LEMMA FilterSubset ==
    ASSUME NEW T, NEW s \in Seq(T), NEW S
    PROVE  Filter(s, S) \in Seq(T \cap S)
<1> DEFINE f == Filter(s, S)
<1>1. f \in Seq(T) /\ ToSet(f) = ToSet(s) \cap S
  BY FilterSeq, ToSetFilter
<1> HIDE DEF f
<1>2. Len(f) \in Nat /\ f = [i \in 1..Len(f) |-> f[i]] /\ DOMAIN f = 1..Len(f)
  BY <1>1, LenProperties
<1>3. ASSUME NEW i \in 1..Len(f) PROVE f[i] \in T \cap S
  BY <1>1, <1>2, ElementOfSeq DEF ToSet
<1>4. [i \in 1..Len(f) |-> f[i]] \in Seq(T \cap S)
  BY <1>2, <1>3, IsASeq
<1>5. f \in Seq(T \cap S)
  BY <1>2, <1>4
<1> QED BY <1>5 DEF f

LEMMA FilterNone ==
    ASSUME NEW T, NEW S, NEW s \in Seq(T), \A i \in 1..Len(s) : s[i] \notin S
    PROVE  Filter(s, S) = <<>>
<1> DEFINE f == Filter(s, S)
<1>1. f \in Seq(T) /\ ToSet(f) = ToSet(s) \cap S
  BY FilterSeq, ToSetFilter
<1> HIDE DEF f
<1>2. ToSet(f) = {}
  BY <1>1, LenProperties DEF ToSet
<1>3. f = <<>>
  BY <1>1, <1>2, LenProperties, EmptySeq DEF ToSet
<1> QED BY <1>3 DEF f

(* Parts of a sequence *)
LEMMA PartIs ==
    ASSUME NEW T, NEW s \in Seq(T), NEW lo \in Nat, NEW hi \in Nat, lo <= hi, hi <= Len(s)
    PROVE  /\ SubSeq(s, lo + 1, hi) \in Seq(T)
           /\ Len(SubSeq(s, lo + 1, hi)) = hi - lo
           /\ \A i \in 1..(hi - lo) : SubSeq(s, lo + 1, hi)[i] = s[lo + i]
<1>1. Len(s) \in Nat /\ \A i \in (lo + 1)..hi : s[i] \in T
  BY LenProperties, ElementOfSeq
<1>2. lo + 1 \in Int /\ hi \in Int
  OBVIOUS
<1> DEFINE m == lo + 1
           p == SubSeq(s, m, hi)
<1> HIDE DEF m
<1>3. /\ p \in Seq(T) /\ Len(p) = (IF m <= hi THEN hi - m + 1 ELSE 0)
      /\ \A i \in 1..(hi - m + 1) : p[i] = s[m + i - 1]
  <2>1. m \in Int /\ \A i \in m..hi : s[i] \in T
    BY <1>1, <1>2 DEF m
  <2> QED BY <1>2, <2>1, SubSeqProperties
<1> HIDE DEF p
<1>4. p \in Seq(T) /\ Len(p) = hi - lo
  BY <1>3 DEF m
<1>5. \A i \in 1..(hi - lo) : p[i] = s[lo + i]
  <2> SUFFICES ASSUME NEW i \in 1..(hi - lo) PROVE p[i] = s[lo + i]
    OBVIOUS
  <2>1. i \in 1..(hi - m + 1) /\ m + i - 1 = lo + i
    BY DEF m
  <2> QED BY <1>3, <2>1
<1> QED BY <1>4, <1>5 DEF p, m

LEMMA Parts ==
    ASSUME NEW T, NEW s \in Seq(T), NEW lo \in Nat, NEW mid \in Nat, NEW hi \in Nat,
           lo <= mid, mid <= hi, hi <= Len(s)
    PROVE  SubSeq(s, lo + 1, mid) \o SubSeq(s, mid + 1, hi) = SubSeq(s, lo + 1, hi)
<1>1. Len(s) \in Nat
  BY LenProperties
<1>2. lo + 1 \in 1..(Len(s) + 1) /\ mid \in ((lo + 1) - 1)..Len(s) /\ hi \in mid..Len(s)
  BY <1>1
<1> DEFINE m == lo + 1
<1> HIDE DEF m
<1>3. m \in 1..(Len(s) + 1) /\ mid \in (m - 1)..Len(s)
  BY <1>2 DEF m
<1>4. SubSeq(s, m, mid) \o SubSeq(s, mid + 1, hi) = SubSeq(s, m, hi)
  BY <1>2, <1>3, ConcatAdjacentSubSeq
<1> QED BY <1>4 DEF m

(* What lies outside the middle does not pass. *)
LEMMA FilterMiddle ==
    ASSUME NEW T, NEW S, NEW s \in Seq(T), NEW lo \in Nat, NEW hi \in Nat,
           lo <= hi, hi <= Len(s),
           \A i \in 1..Len(s) : i <= lo \/ i > hi => s[i] \notin S
    PROVE  Filter(s, S) = Filter(SubSeq(s, lo + 1, hi), S)
<1> DEFINE n == Len(s)
           a == SubSeq(s, 0 + 1, lo)
           b == SubSeq(s, lo + 1, hi)
           c == SubSeq(s, hi + 1, n)
           d == SubSeq(s, lo + 1, n)
<1>1. n \in Nat /\ 0 <= lo /\ lo <= n /\ n <= Len(s)
  BY LenProperties
<1>2. /\ a \in Seq(T) /\ Len(a) = lo - 0 /\ \A i \in 1..(lo - 0) : a[i] = s[0 + i]
      /\ b \in Seq(T) /\ d \in Seq(T)
      /\ c \in Seq(T) /\ Len(c) = n - hi /\ \A i \in 1..(n - hi) : c[i] = s[hi + i]
  <2> HIDE DEF n
  <2>1. hi <= n /\ n <= Len(s)
    BY DEF n
  <2>2. a \in Seq(T) /\ Len(a) = lo - 0 /\ \A i \in 1..(lo - 0) : a[i] = s[0 + i]
    <3>1. 0 \in Nat /\ 0 <= lo /\ lo <= Len(s)
      BY <1>1
    <3> QED BY <3>1, PartIs, Zenon
  <2>3. b \in Seq(T)
    BY PartIs
  <2>4. c \in Seq(T) /\ Len(c) = n - hi /\ \A i \in 1..(n - hi) : c[i] = s[hi + i]
    BY <1>1, <2>1, PartIs, Zenon
  <2>5. d \in Seq(T)
    BY <1>1, <2>1, PartIs
  <2> QED BY <2>2, <2>3, <2>4, <2>5
<1>3. s = a \o d /\ d = b \o c
  <2>1. SubSeq(s, 1, n) = s
    BY SubSeqFull
  <2>2. 0 + 1 = 1
    OBVIOUS
  <2> HIDE DEF n
  <2>3. hi <= n
    BY DEF n
  <2>4. b \o c = d
    BY <1>1, <2>3, Parts
  <2>5. a \o d = SubSeq(s, 0 + 1, n)
    BY <1>1, Parts
  <2> QED BY <2>1, <2>2, <2>4, <2>5
<1>4. \A i \in 1..Len(a) : a[i] \notin S
  <2> HIDE DEF a
  <2> QED BY <1>1, <1>2
<1>5. \A i \in 1..Len(c) : c[i] \notin S
  <2> SUFFICES ASSUME NEW i \in 1..(n - hi) PROVE c[i] \notin S
    BY <1>2
  <2>1. c[i] = s[hi + i] /\ hi + i \in 1..n /\ hi + i > hi
    BY <1>1, <1>2
  <2> QED BY <2>1
<1> HIDE DEF a, b, c, d, n
<1>6. Filter(a, S) = <<>> /\ Filter(c, S) = <<>>
  BY <1>2, <1>4, <1>5, FilterNone
<1>7. \A t \in Seq(T) : Filter(b \o t, S) = Filter(b, S) \o Filter(t, S)
  <2>1. b \in Seq(T)
    BY <1>2
  <2> TAKE t \in Seq(T)
  <2> QED BY <2>1, FilterConcat
<1>8. \A t \in Seq(T) : Filter(a \o t, S) = Filter(a, S) \o Filter(t, S)
  <2>1. a \in Seq(T)
    BY <1>2
  <2> TAKE t \in Seq(T)
  <2> QED BY <2>1, FilterConcat
<1>9. Filter(d, S) = Filter(b, S) \o <<>> /\ Filter(s, S) = <<>> \o Filter(d, S)
  BY <1>2, <1>3, <1>6, <1>7, <1>8, Zenon
<1>10. Filter(b, S) \in Seq(T) /\ Filter(d, S) \in Seq(T)
  BY <1>2, FilterSeq
<1>11. <<>> \o Filter(d, S) = Filter(d, S) /\ Filter(b, S) \o <<>> = Filter(b, S)
  BY <1>10, ConcatEmptySeq
<1>12. Filter(s, S) = Filter(b, S)
  BY <1>9, <1>11
<1> QED BY <1>12 DEF b

(* Filter lets a sequence grow no longer, and as long only if all of it passes. *)
LEMMA FilterLen ==
    ASSUME NEW T, NEW S
    PROVE  \A s \in Seq(T) : /\ Len(Filter(s, S)) <= Len(s)
                             /\ Len(Filter(s, S)) = Len(s) => Filter(s, S) = s
<1> DEFINE P(s) == /\ Len(Filter(s, S)) <= Len(s)
                   /\ Len(Filter(s, S)) = Len(s) => Filter(s, S) = s
           A == {s \in Seq(T) : P(s)}
<1>1. P(<<>>)
  BY FilterEmpty
<1>2. ASSUME NEW s \in Seq(T), NEW e \in T, P(s) PROVE P(Append(s, e))
  <2> DEFINE f == Filter(s, S)
             g == Filter(Append(s, e), S)
  <2>1. f \in Seq(T) /\ g = IF e \in S THEN Append(f, e) ELSE f
    BY FilterSeq, FilterAppend
  <2>2. Len(f) <= Len(s) /\ (Len(f) = Len(s) => f = s)
    BY <1>2
  <2> HIDE DEF f, g
  <2>3. /\ Len(f) \in Nat /\ Len(s) \in Nat
        /\ Len(Append(f, e)) = Len(f) + 1 /\ Len(Append(s, e)) = Len(s) + 1
    BY <2>1, LenProperties, AppendProperties
  <2>4. Len(g) <= Len(Append(s, e)) /\ (Len(g) = Len(Append(s, e)) => g = Append(s, e))
    BY <2>1, <2>2, <2>3
  <2> QED BY <2>4 DEF g
<1> HIDE DEF P
<1>3. <<>> \in A /\ \A s \in Seq(T), e \in T : s \in A => Append(s, e) \in A
  BY <1>1, <1>2, EmptySeq, AppendProperties
<1> HIDE DEF A
<1>4. \A s \in Seq(T) : s \in A
  BY <1>3, SeqInduct
<1> QED BY <1>4 DEF A, P

-----------------------------------------------------------------------------
(* FlattenSeq *)

LEMMA FlattenEmpty ==
    ASSUME NEW P
    PROVE  FlattenSeq([t \in 1..0 |-> P[t]]) = <<>>
<1>1. [t \in 1..0 |-> P[t]] = <<>> /\ Len(<<>>) = 0
  OBVIOUS
<1> QED BY <1>1 DEF FlattenSeq

FlattenRun(f, P, m) ==
    \A i \in 1..m : f[i] = IF i = 1 THEN P[i] ELSE f[i - 1] \o P[i]

LEMMA FlattenIs ==
    ASSUME NEW T, NEW m \in Nat \ {0}, NEW P \in [1..m -> Seq(T)]
    PROVE  \E f \in [1..m -> Seq(T)] : FlattenRun(f, P, m) /\ FlattenSeq(P) = f[m]
<1> DEFINE K(f) == f = [i \in 1..m |-> IF i = 1 THEN P[i] ELSE f[i - 1] \o P[i]]
           flatten == CHOOSE f : K(f)
           step == [i \in 1..(m - 1) |-> [q \in Seq(T) |-> q \o P[i + 1]]]
<1>1. step \in [1..(m - 1) -> [Seq(T) -> Seq(T)]]
  <2>1. ASSUME NEW i \in 1..(m - 1), NEW q \in Seq(T) PROVE q \o P[i + 1] \in Seq(T)
    <3>1. P[i + 1] \in Seq(T)
      OBVIOUS
    <3> QED BY <3>1, ConcatProperties
  <2> QED BY <2>1
<1> HIDE DEF step
<1>2. m - 1 \in Nat /\ P[1] \in Seq(T)
  OBVIOUS
<1>3. PICK g \in [0..(m - 1) -> Seq(T)] : Recurs(g, m - 1, P[1], step)
  BY <1>1, <1>2, Recursion
<1> DEFINE f == [i \in 1..m |-> g[i - 1]]
<1>4. f \in [1..m -> Seq(T)]
  BY <1>2
<1>5. ASSUME NEW i \in 1..m PROVE f[i] = IF i = 1 THEN P[i] ELSE f[i - 1] \o P[i]
  <2>1. CASE i = 1
    BY <1>2, <1>3, <2>1 DEF Recurs
  <2>2. CASE i # 1
    <3>1. i - 1 \in 1..(m - 1) /\ i - 1 \in 1..m /\ (i - 1) + 1 = i /\ (i - 1) - 1 \in 0..(m - 1)
      BY <2>2
    <3>2. g[i - 1] = step[i - 1][g[(i - 1) - 1]]
      BY <1>3, <3>1 DEF Recurs
    <3>3. g[(i - 1) - 1] \in Seq(T) /\ f[i - 1] = g[(i - 1) - 1] /\ f[i] = g[i - 1]
      BY <3>1
    <3>4. step[i - 1][g[(i - 1) - 1]] = g[(i - 1) - 1] \o P[i]
      BY <3>1, <3>3 DEF step
    <3> QED BY <2>2, <3>2, <3>3, <3>4
  <2> QED BY <2>1, <2>2
<1> HIDE DEF f
<1>6. K(f)
  <2> DEFINE h == [i \in 1..m |-> IF i = 1 THEN P[i] ELSE f[i - 1] \o P[i]]
  <2>1. \A i \in 1..m : h[i] = f[i]
    BY <1>5
  <2>2. f = [i \in 1..m |-> f[i]] /\ h = [i \in 1..m |-> h[i]]
    BY <1>4
  <2> HIDE DEF h
  <2>3. f = h
    BY <2>1, <2>2
  <2> QED BY <2>3 DEF h
<1>7. K(flatten)
  BY <1>6
<1> HIDE DEF flatten
<1>8. FlattenRun(flatten, P, m)
  BY <1>7, Zenon DEF FlattenRun
<1>9. FlattenSeq(P) = flatten[m]
  <2>1. Len(P) = m
    BY LenProperties, IsASeq
  <2> QED BY <2>1 DEF FlattenSeq, flatten
<1>10. \A i \in Nat : i \in 1..m => flatten[i] = f[i]
  <2> DEFINE A == {i \in Nat : i \in 1..m => flatten[i] = f[i]}
  <2>1. 0 \in A
    OBVIOUS
  <2>2. ASSUME NEW i \in Nat, i \in A PROVE i + 1 \in A
    <3> SUFFICES ASSUME i + 1 \in 1..m PROVE flatten[i + 1] = f[i + 1]
      OBVIOUS
    <3>1. CASE i = 0
      BY <1>5, <1>8, <3>1 DEF FlattenRun
    <3>2. CASE i # 0
      <4>1. i \in 1..m /\ (i + 1) - 1 = i /\ i + 1 # 1
        BY <3>2
      <4>2. flatten[i + 1] = flatten[i] \o P[i + 1]
        BY <1>8, <4>1 DEF FlattenRun
      <4>3. f[i + 1] = f[i] \o P[i + 1]
        BY <1>5, <4>1
      <4> QED BY <2>2, <4>1, <4>2, <4>3
    <3> QED BY <3>1, <3>2
  <2> HIDE DEF A
  <2>3. \A i \in Nat : i \in A
    BY <2>1, <2>2, NatInduct
  <2> QED BY <2>3 DEF A
<1>11. FlattenSeq(P) = f[m]
  BY <1>9, <1>10
<1>12. FlattenRun(f, P, m)
  BY <1>5 DEF FlattenRun
<1> QED BY <1>4, <1>11, <1>12

(* The parts up to m + 1 are those up to m and one more. *)
LEMMA FlattenStep ==
    ASSUME NEW T, NEW m \in Nat, NEW P \in [1..(m + 1) -> Seq(T)]
    PROVE  FlattenSeq(P) = FlattenSeq([t \in 1..m |-> P[t]]) \o P[m + 1]
<1> DEFINE Q == [t \in 1..m |-> P[t]]
<1>1. PICK f \in [1..(m + 1) -> Seq(T)] : FlattenRun(f, P, m + 1) /\ FlattenSeq(P) = f[m + 1]
  <2>1. m + 1 \in Nat \ {0}
    OBVIOUS
  <2> QED BY <2>1, FlattenIs
<1>2. CASE m = 0
  <2>1. FlattenSeq(P) = P[1] /\ P[1] \in Seq(T)
    BY <1>1, <1>2 DEF FlattenRun
  <2>2. FlattenSeq(Q) = <<>>
    BY <1>2, FlattenEmpty
  <2>3. <<>> \o P[1] = P[1]
    BY <2>1, ConcatEmptySeq
  <2> QED BY <1>2, <2>1, <2>2, <2>3
<1>3. CASE m # 0
  <2>1. Q \in [1..m -> Seq(T)] /\ m \in Nat \ {0}
    BY <1>3
  <2>2. \A i \in 1..m : Q[i] = P[i]
    OBVIOUS
  <2> HIDE DEF Q
  <2>3. PICK g \in [1..m -> Seq(T)] : FlattenRun(g, Q, m) /\ FlattenSeq(Q) = g[m]
    BY <2>1, FlattenIs
  <2>4. \A i \in Nat : i \in 1..m => g[i] = f[i]
    <3> DEFINE A == {i \in Nat : i \in 1..m => g[i] = f[i]}
    <3>1. 0 \in A
      OBVIOUS
    <3>2. ASSUME NEW i \in Nat, i \in A PROVE i + 1 \in A
      <4> SUFFICES ASSUME i + 1 \in 1..m PROVE g[i + 1] = f[i + 1]
        OBVIOUS
      <4>1. i + 1 \in 1..(m + 1) /\ Q[i + 1] = P[i + 1]
        BY <2>2
      <4>2. CASE i = 0
        <5>1. i + 1 = 1 /\ 1 \in 1..m /\ 1 \in 1..(m + 1)
          BY <4>2
        <5>2. g[1] = Q[1]
          BY <2>3, <5>1 DEF FlattenRun
        <5>3. f[1] = P[1]
          BY <1>1, <5>1 DEF FlattenRun
        <5> QED BY <4>1, <5>1, <5>2, <5>3
      <4>3. CASE i # 0
        <5>1. i \in 1..m /\ (i + 1) - 1 = i /\ i + 1 # 1
          BY <4>3
        <5>2. g[i + 1] = g[i] \o Q[i + 1]
          BY <2>3, <5>1 DEF FlattenRun
        <5>3. f[i + 1] = f[i] \o P[i + 1]
          BY <1>1, <4>1, <5>1 DEF FlattenRun
        <5> QED BY <3>2, <4>1, <5>1, <5>2, <5>3
      <4> QED BY <4>2, <4>3
    <3> HIDE DEF A
    <3>3. \A i \in Nat : i \in A
      BY <3>1, <3>2, NatInduct
    <3> QED BY <3>3 DEF A
  <2>5. m + 1 \in 1..(m + 1) /\ m + 1 # 1 /\ (m + 1) - 1 = m /\ m \in 1..m
    BY <1>3
  <2>6. f[m + 1] = f[m] \o P[m + 1]
    BY <1>1, <2>5 DEF FlattenRun
  <2>7. FlattenSeq(Q) = f[m]
    BY <2>3, <2>4, <2>5
  <2>8. FlattenSeq(P) = FlattenSeq(Q) \o P[m + 1]
    BY <1>1, <2>6, <2>7
  <2> QED BY <2>8 DEF Q
<1> QED BY <1>2, <1>3

LEMMA FlattenType ==
    ASSUME NEW T, NEW m \in Nat, NEW P \in [1..m -> Seq(T)]
    PROVE  FlattenSeq(P) \in Seq(T)
<1>1. CASE m = 0
  <2>1. P = [t \in 1..0 |-> P[t]]
    BY <1>1
  <2>2. FlattenSeq([t \in 1..0 |-> P[t]]) = <<>>
    BY FlattenEmpty
  <2> QED BY <2>1, <2>2, EmptySeq
<1>2. CASE m # 0
  <2>1. m \in Nat \ {0} /\ m \in 1..m
    BY <1>2
  <2>2. PICK f \in [1..m -> Seq(T)] : FlattenSeq(P) = f[m]
    BY <2>1, FlattenIs
  <2> QED BY <2>1, <2>2
<1> QED BY <1>1, <1>2

-----------------------------------------------------------------------------
(* Ranks *)

LEMMA SubsetOfUpto ==
    ASSUME NEW n \in Nat, NEW S, S \subseteq 1..n
    PROVE  IsFiniteSet(S) /\ Cardinality(S) \in Nat /\ Cardinality(S) <= n
<1>1. IsFiniteSet(1..n) /\ Cardinality(1..n) = n
  BY FS_Interval
<1>2. IsFiniteSet(S) /\ Cardinality(S) <= Cardinality(1..n)
  BY <1>1, FS_Subset
<1> QED BY <1>1, <1>2, FS_CardinalityType

(* The indices that come before k when those with the lesser key come first. *)
Before(key, n, k) == {j \in 1..n : key[j] < key[k] \/ (key[j] = key[k] /\ j < k)}

LEMMA Smaller ==
    ASSUME NEW S, IsFiniteSet(S), NEW T, T \subseteq S, T # S
    PROVE  Cardinality(T) < Cardinality(S)
<1>1. IsFiniteSet(T) /\ Cardinality(T) <= Cardinality(S) /\ Cardinality(S) # Cardinality(T)
  BY FS_Subset
<1> QED BY <1>1, FS_CardinalityType

LEMMA RankGrows ==
    ASSUME NEW n \in Nat, NEW key \in [1..n -> Int], NEW j \in 1..n, NEW k \in 1..n,
           j \in Before(key, n, k)
    PROVE  Cardinality(Before(key, n, j)) < Cardinality(Before(key, n, k))
<1>1. Before(key, n, j) \subseteq Before(key, n, k)
  <2> SUFFICES ASSUME NEW i \in 1..n, i \in Before(key, n, j) PROVE i \in Before(key, n, k)
    BY DEF Before
  <2>1. key[i] \in Int /\ key[j] \in Int /\ key[k] \in Int
    OBVIOUS
  <2> QED BY <2>1 DEF Before
<1>2. j \notin Before(key, n, j)
  BY DEF Before
<1>3. Before(key, n, k) \subseteq 1..n
  BY DEF Before
<1> QED BY <1>1, <1>2, <1>3, SubsetOfUpto, Smaller

LEMMA RankIsBijection ==
    ASSUME NEW n \in Nat, NEW key \in [1..n -> Int]
    PROVE  [k \in 1..n |-> Cardinality(Before(key, n, k)) + 1] \in Bijection(1..n, 1..n)
<1> DEFINE rank == [k \in 1..n |-> Cardinality(Before(key, n, k)) + 1]
<1>1. rank \in [1..n -> 1..n]
  <2> SUFFICES ASSUME NEW k \in 1..n PROVE Cardinality(Before(key, n, k)) + 1 \in 1..n
    OBVIOUS
  <2>1. Before(key, n, k) \subseteq 1..n /\ k \notin Before(key, n, k)
    BY DEF Before
  <2>2. IsFiniteSet(1..n) /\ Cardinality(1..n) = n
    BY FS_Interval
  <2>3. Cardinality(Before(key, n, k)) < n
    BY <2>1, <2>2, Smaller
  <2>4. Cardinality(Before(key, n, k)) \in Nat
    BY <2>1, SubsetOfUpto
  <2> QED BY <2>3, <2>4
<1>2. ASSUME NEW j \in 1..n, NEW k \in 1..n, rank[j] = rank[k] PROVE j = k
  <2> SUFFICES ASSUME j # k PROVE FALSE
    OBVIOUS
  <2>1. j \in Before(key, n, k) \/ k \in Before(key, n, j)
    <3>1. key[j] \in Int /\ key[k] \in Int
      OBVIOUS
    <3> QED BY <3>1 DEF Before
  <2>2. /\ Cardinality(Before(key, n, j)) \in Nat /\ Cardinality(Before(key, n, k)) \in Nat
        /\ Cardinality(Before(key, n, j)) + 1 = Cardinality(Before(key, n, k)) + 1
    BY <1>2, SubsetOfUpto DEF Before
  <2>3. Cardinality(Before(key, n, j)) = Cardinality(Before(key, n, k))
    BY <2>2
  <2> QED BY <2>1, <2>2, <2>3, RankGrows
<1> HIDE DEF rank
<1>3. rank \in Injection(1..n, 1..n)
  BY <1>1, <1>2 DEF Injection, IsInjective
<1>4. rank \in Surjection(1..n, 1..n)
  BY <1>3, FS_Interval, FS_Injection
<1> QED BY <1>3, <1>4 DEF Bijection, rank

-----------------------------------------------------------------------------
(* Counting *)

(* The positions of s with an element of S. *)
Places(s, S) == {i \in 1..Len(s) : s[i] \in S}

LEMMA FilterCounts ==
    ASSUME NEW T, NEW S
    PROVE  \A s \in Seq(T) : /\ IsFiniteSet(Places(s, S))
                             /\ Len(Filter(s, S)) = Cardinality(Places(s, S))
<1> DEFINE Q(s) == /\ IsFiniteSet(Places(s, S))
                   /\ Len(Filter(s, S)) = Cardinality(Places(s, S))
           A == {s \in Seq(T) : Q(s)}
<1>1. <<>> \in A
  <2>1. Places(<<>>, S) = {} /\ Filter(<<>>, S) = <<>>
    BY FilterEmpty, EmptySeq DEF Places
  <2>2. Cardinality({}) = 0 /\ IsFiniteSet({})
    BY FS_EmptySet
  <2> QED BY <2>1, <2>2, EmptySeq
<1>2. ASSUME NEW s \in Seq(T), NEW e \in T, s \in A PROVE Append(s, e) \in A
  <2> DEFINE n == Len(s)
             t == Append(s, e)
             X == Places(s, S)
  <2>1. /\ n \in Nat /\ t \in Seq(T) /\ Len(t) = n + 1 /\ t[n + 1] = e
        /\ \A i \in 1..n : t[i] = s[i]
    BY AppendProperties, LenProperties
  <2>2. IsFiniteSet(X) /\ Len(Filter(s, S)) = Cardinality(X) /\ n + 1 \notin X
    BY <1>2, <2>1 DEF Places
  <2>3. Filter(t, S) = IF e \in S THEN Append(Filter(s, S), e) ELSE Filter(s, S)
    BY FilterAppend
  <2>4. Filter(s, S) \in Seq(T)
    BY FilterSeq
  <2>5. CASE e \in S
    <3>1. Places(t, S) = X \cup {n + 1}
      <4> HIDE DEF t, n
      <4>1. \A i : i \in 1..(n + 1) <=> i \in 1..n \/ i = n + 1
        BY <2>1
      <4> QED BY <2>1, <2>5, <4>1 DEF Places, n
    <3>2. IsFiniteSet(X \cup {n + 1}) /\ Cardinality(X \cup {n + 1}) = Cardinality(X) + 1
      <4> HIDE DEF X, n
      <4> QED BY <2>2, FS_AddElement
    <3>3. Len(Filter(t, S)) = Len(Filter(s, S)) + 1
      <4> DEFINE f == Filter(s, S)
      <4> HIDE DEF f, t
      <4>1. Len(Append(f, e)) = Len(f) + 1
        BY <2>4, AppendProperties DEF f
      <4> QED BY <2>3, <2>5, <4>1 DEF f
    <3> QED BY <2>1, <2>2, <3>1, <3>2, <3>3
  <2>6. CASE e \notin S
    <3>1. Places(t, S) = X
      <4> HIDE DEF t, n
      <4>1. \A i : i \in 1..(n + 1) <=> i \in 1..n \/ i = n + 1
        BY <2>1
      <4> QED BY <2>1, <2>6, <4>1 DEF Places, n
    <3> QED BY <2>1, <2>2, <2>3, <2>6, <3>1
  <2> QED BY <2>5, <2>6
<1> HIDE DEF A
<1>3. \A s \in Seq(T) : s \in A
  BY <1>1, <1>2, SeqInduct
<1> QED BY <1>3 DEF A

LEMMA PermutedCounts ==
    ASSUME NEW T, NEW t \in Seq(T), NEW s \in Seq(T), Len(s) = Len(t),
           NEW order \in Bijection(1..Len(t), 1..Len(t)),
           \A i \in 1..Len(t) : s[i] = t[order[i]], NEW S
    PROVE  Len(Filter(s, S)) = Len(Filter(t, S))
<1> DEFINE n == Len(t)
           X == Places(s, S)
           Y == Places(t, S)
           f == [i \in X |-> order[i]]
<1>1. /\ order \in [1..n -> 1..n]
      /\ \A i, j \in 1..n : order[i] = order[j] => i = j
      /\ \A k \in 1..n : \E i \in 1..n : order[i] = k
  BY DEF Bijection, Injection, Surjection, IsInjective
<1>2. \A i \in 1..n : i \in X <=> order[i] \in Y
  BY <1>1 DEF Places
<1>3. X \subseteq 1..n /\ Y \subseteq 1..n
  BY DEF Places
<1> HIDE DEF X, Y, n
<1>4. f \in [X -> Y]
  BY <1>2, <1>3
<1>5. \A i, j \in X : f[i] = f[j] => i = j
  BY <1>1, <1>3
<1>6. \A k \in Y : \E i \in X : f[i] = k
  <2> SUFFICES ASSUME NEW k \in Y PROVE \E i \in X : f[i] = k
    OBVIOUS
  <2>1. PICK i \in 1..n : order[i] = k
    BY <1>1, <1>3
  <2>2. i \in X
    BY <1>2, <2>1
  <2> QED BY <2>1, <2>2
<1> HIDE DEF f
<1>7. f \in Bijection(X, Y)
  BY <1>4, <1>5, <1>6 DEF Bijection, Injection, Surjection, IsInjective
<1>8. ExistsBijection(X, Y)
  BY <1>7 DEF ExistsBijection
<1>9. IsFiniteSet(X) /\ Len(Filter(s, S)) = Cardinality(X) /\ Len(Filter(t, S)) = Cardinality(Y)
  BY FilterCounts DEF X, Y
<1>10. Cardinality(Y) = Cardinality(X)
  BY <1>8, <1>9, FS_Bijection
<1> QED BY <1>9, <1>10

LEMMA MinOfNat ==
    ASSUME NEW S, S \subseteq Nat, S # {}
    PROVE  Min(S) \in S /\ \A x \in S : Min(S) <= x
<1>1. PICK n \in S : \A m \in S : n <= m
  BY LeastNat
<1> QED BY <1>1 DEF Min

-----------------------------------------------------------------------------
(* Files *)

(* Typing of files *)
IsFile(file) == file.lines \in Seq(LineType)

RowsIn(file) == {file.lines[k].row : k \in DOMAIN file.lines}

LEMMA ChunkType ==
    ASSUME NEW file, IsFile(file), NEW nt, NEW t
    PROVE  Newlines(file, nt, t) \in Nat
<1>1. Len(file.lines) \in Nat
  BY LenProperties DEF IsFile
<1>2. {k \in Chunk(file, nt, t) : k < Len(file.lines) \/ file.terminated} \subseteq 1..Len(file.lines)
  BY DEF Chunk
<1> QED BY <1>1, <1>2, SubsetOfUpto DEF Newlines

(* csv_store.cpp:371-424: every slot is empty or holds the row of a line. *)
LEMMA ParsedType ==
    ASSUME NEW file, IsFile(file), NEW nt, NEW t
    PROVE  Parsed(file, nt, t) \in Seq(RowsIn(file) \cup {Invalid})
<1> DEFINE T == {l \in LineType : l.row \in RowsIn(file)}
           mine == [k \in DOMAIN file.lines |-> [file.lines[k] EXCEPT
                      !.width = IF k \in Chunk(file, nt, t) THEN @ ELSE 0]]
           U == {r \in [width : Nat, row : SlotType] : r.row \in RowsIn(file)}
           full == Filter(mine, {line \in ToSet(mine) : line.width > 0})
           V == RowsIn(file) \cup {Invalid}
<1>1. /\ Len(file.lines) \in Nat /\ DOMAIN file.lines = 1..Len(file.lines)
      /\ \A k \in 1..Len(file.lines) : file.lines[k] \in LineType
  BY LenProperties, ElementOfSeq DEF IsFile
<1>2. mine \in Seq(U)
  <2>1. ASSUME NEW k \in 1..Len(file.lines)
        PROVE  [file.lines[k] EXCEPT !.width = IF k \in Chunk(file, nt, t) THEN @ ELSE 0] \in U
    <3>1. file.lines[k] \in [width : Nat, row : SlotType] /\ file.lines[k].row \in RowsIn(file)
      BY <1>1 DEF LineType, RowsIn
    <3> QED BY <3>1
  <2> HIDE DEF U
  <2> QED BY <1>1, <2>1, IsASeq
<1>3. full \in Seq(U)
  <2> HIDE DEF mine, U
  <2> QED BY <1>2, FilterSeq
<1>4. Newlines(file, nt, t) \in Nat
  BY ChunkType
<1> HIDE DEF mine, full
<1>5. ASSUME NEW s \in 1..Newlines(file, nt, t)
      PROVE  (IF s <= Len(full) THEN full[s].row ELSE Invalid) \in V
  <2>1. CASE s <= Len(full)
    <3>1. s \in 1..Len(full)
      BY <1>3, <1>4, <2>1, LenProperties
    <3>2. full[s] \in U
      BY <1>3, <3>1, ElementOfSeq
    <3> QED BY <2>1, <3>2
  <2> QED BY <2>1
<1> HIDE DEF V
<1>6. [s \in 1..Newlines(file, nt, t) |-> IF s <= Len(full) THEN full[s].row ELSE Invalid] \in Seq(V)
  BY <1>4, <1>5, IsASeq
<1> QED BY <1>6 DEF Parsed, full, mine, V

LEMMA LoadType ==
    ASSUME NEW file, IsFile(file), NEW nt \in Nat
    PROVE  Load(file, nt) \in Seq(RowsIn(file) \cup {Invalid})
<1> DEFINE V == RowsIn(file) \cup {Invalid}
           P == [t \in 1..nt |-> Parsed(file, nt, t)]
<1>1. P \in [1..nt -> Seq(V)]
  BY ParsedType
<1> HIDE DEF V, P
<1>2. FlattenSeq(P) \in Seq(V)
  BY <1>1, FlattenType
<1> QED BY <1>2 DEF Load, P, V

(* py/server/node.py:136-194: the rows of a Python owner are those of its file,
   in the order of the column the shards are cut along. *)
THEOREM PyLoadIs ==
    ASSUME NEW file, IsFile(file), NEW column,
           \A k \in DOMAIN file.lines : file.lines[k].row \in [Columns -> Int]
    PROVE  LET n == Len(file.lines)
           IN  \E order \in Bijection(1..n, 1..n) :
                  /\ PyLoad(file, column) = [i \in 1..n |-> file.lines[order[i]].row]
                  /\ column \in Columns =>
                        \A i, j \in 1..n : i <= j =>
                           file.lines[order[i]].row[column] <= file.lines[order[j]].row[column]
<1> DEFINE n == Len(file.lines)
<1>1. n \in Nat /\ DOMAIN file.lines = 1..n
  BY LenProperties DEF IsFile
<1>2. CASE column \notin Columns
  <2> DEFINE order == [i \in 1..n |-> i]
  <2>1. order \in Bijection(1..n, 1..n)
    BY DEF Bijection, Injection, Surjection, IsInjective
  <2>2. PyLoad(file, column) = [i \in 1..n |-> file.lines[i].row]
    BY <1>1, <1>2 DEF PyLoad
  <2>3. PyLoad(file, column) = [i \in 1..n |-> file.lines[order[i]].row]
    BY <2>2
  <2> QED BY <1>2, <2>1, <2>3
<1>3. CASE column \in Columns
  <2> DEFINE key == [k \in 1..n |-> file.lines[k].row[column]]
             before(k) == {j \in DOMAIN file.lines :
                file.lines[j].row[column] < file.lines[k].row[column]
                \/ (file.lines[j].row[column] = file.lines[k].row[column] /\ j < k)}
             rank == [k \in 1..n |-> Cardinality(Before(key, n, k)) + 1]
             nth(i) == CHOOSE k \in 1..n : Cardinality(before(k)) = i - 1
             order == [i \in 1..n |-> nth(i)]
  <2>1. key \in [1..n -> Int]
    BY <1>1, <1>3
  <2>2. rank \in Bijection(1..n, 1..n)
    BY <1>1, <2>1, RankIsBijection
  <2>3. ASSUME NEW k \in 1..n PROVE before(k) = Before(key, n, k)
    BY <1>1 DEF Before
  <2> HIDE DEF key
  <2>4. ASSUME NEW k \in 1..n PROVE Cardinality(Before(key, n, k)) \in Nat
    BY <1>1, SubsetOfUpto DEF Before
  <2>5. ASSUME NEW i \in 1..n
        PROVE  nth(i) \in 1..n /\ Cardinality(Before(key, n, nth(i))) = i - 1 /\ rank[nth(i)] = i
    <3>1. PICK k \in 1..n : rank[k] = i
      BY <2>2 DEF Bijection, Surjection
    <3>2. Cardinality(before(k)) = i - 1
      <4>1. Cardinality(Before(key, n, k)) + 1 = i /\ Cardinality(Before(key, n, k)) \in Nat
        BY <2>4, <3>1
      <4>2. before(k) = Before(key, n, k)
        BY <2>3
      <4> HIDE DEF before, key
      <4> QED BY <4>1, <4>2
    <3>3. nth(i) \in 1..n /\ Cardinality(before(nth(i))) = i - 1
      BY <3>2
    <3> HIDE DEF nth, before
    <3>4. Cardinality(Before(key, n, nth(i))) = i - 1
      BY <2>3, <3>3
    <3> QED BY <1>1, <3>3, <3>4
  <2> HIDE DEF nth
  <2>6. order \in Bijection(1..n, 1..n)
    <3>1. order \in [1..n -> 1..n]
      BY <2>5
    <3>2. ASSUME NEW i \in 1..n, NEW j \in 1..n, order[i] = order[j] PROVE i = j
      BY <2>5, <3>2
    <3>3. ASSUME NEW k \in 1..n PROVE \E i \in 1..n : order[i] = k
      <4>1. rank[k] \in 1..n
        BY <2>2 DEF Bijection, Injection
      <4>2. rank[nth(rank[k])] = rank[k] /\ nth(rank[k]) \in 1..n
        BY <2>5, <4>1
      <4>3. nth(rank[k]) = k
        BY <2>2, <4>2 DEF Bijection, Injection, IsInjective
      <4> QED BY <4>1, <4>3
    <3> QED BY <3>1, <3>2, <3>3 DEF Bijection, Injection, Surjection, IsInjective
  <2>7. ASSUME NEW i \in 1..n, NEW j \in 1..n, i <= j
        PROVE  key[nth(i)] <= key[nth(j)]
    <3> DEFINE a == nth(i)
               b == nth(j)
    <3>1. /\ a \in 1..n /\ Cardinality(Before(key, n, a)) = i - 1
          /\ b \in 1..n /\ Cardinality(Before(key, n, b)) = j - 1
      BY <2>5
    <3> HIDE DEF a, b
    <3>2. key[a] \in Int /\ key[b] \in Int
      BY <2>1, <3>1
    <3>3. ASSUME key[b] < key[a] PROVE FALSE
      <4>1. b \in Before(key, n, a)
        BY <3>1, <3>3 DEF Before
      <4>2. j - 1 < i - 1
        BY <1>1, <2>1, <3>1, <4>1, RankGrows
      <4> QED BY <1>1, <2>7, <4>2
    <3>4. key[a] <= key[b]
      BY <3>2, <3>3
    <3> QED BY <3>4 DEF a, b
  <2>8. PyLoad(file, column) = [i \in 1..n |-> file.lines[nth(i)].row]
    BY <1>1, <1>3 DEF PyLoad, nth
  <2>9. PyLoad(file, column) = [i \in 1..n |-> file.lines[order[i]].row]
    BY <2>8
  <2>10. \A i, j \in 1..n : i <= j =>
            file.lines[order[i]].row[column] <= file.lines[order[j]].row[column]
    BY <2>5, <2>7 DEF key
  <2> QED BY <2>6, <2>9, <2>10
<1> QED BY <1>2, <1>3

-----------------------------------------------------------------------------
(* Offsets *)

LEMMA StartIs ==
    ASSUME NEW file, IsFile(file)
    PROVE  LET n == Len(file.lines)
           IN  /\ \A k \in 1..(n + 1) : Start(file, k) \in Nat
               /\ Start(file, 1) = 0
               /\ \A k \in 1..n : Start(file, k + 1) = Start(file, k) + file.lines[k].width + 1
<1> DEFINE n == Len(file.lines)
           K(f) == f = [j \in 1..(n + 1) |->
                          IF j = 1 THEN 0 ELSE f[j - 1] + file.lines[j - 1].width + 1]
           start == CHOOSE f : K(f)
           step == [i \in 1..n |-> [q \in Nat |-> q + file.lines[i].width + 1]]
<1>1. n \in Nat /\ \A k \in 1..n : file.lines[k].width \in Nat
  <2>1. n \in Nat /\ \A k \in 1..n : file.lines[k] \in LineType
    BY LenProperties, ElementOfSeq DEF IsFile
  <2> QED BY <2>1 DEF LineType
<1> HIDE DEF n
<1>2. step \in [1..n -> [Nat -> Nat]]
  BY <1>1
<1> HIDE DEF step
<1>3. PICK g \in [0..n -> Nat] : Recurs(g, n, 0, step)
  BY <1>1, <1>2, Recursion
<1>4. g[0] = 0 /\ \A i \in 1..n : g[i] = g[i - 1] + file.lines[i].width + 1
  <2>1. ASSUME NEW i \in 1..n PROVE g[i] = g[i - 1] + file.lines[i].width + 1
    <3>1. g[i - 1] \in Nat
      BY <1>1
    <3>2. step[i][g[i - 1]] = g[i - 1] + file.lines[i].width + 1
      BY <3>1 DEF step
    <3> QED BY <1>3, <3>2 DEF Recurs
  <2> QED BY <1>3, <2>1 DEF Recurs
<1> DEFINE f == [j \in 1..(n + 1) |-> g[j - 1]]
<1>5. K(f)
  <2>1. ASSUME NEW j \in 1..(n + 1)
        PROVE  f[j] = IF j = 1 THEN 0 ELSE f[j - 1] + file.lines[j - 1].width + 1
    <3>1. CASE j = 1
      BY <1>1, <1>4, <3>1
    <3>2. CASE j # 1
      <4>1. j - 1 \in 1..n /\ j - 1 \in 1..(n + 1)
        BY <1>1, <3>2
      <4>2. f[j] = g[j - 1] /\ f[j - 1] = g[(j - 1) - 1]
        BY <4>1
      <4> QED BY <1>4, <3>2, <4>1, <4>2
    <3> QED BY <3>1, <3>2
  <2> DEFINE h == [j \in 1..(n + 1) |-> IF j = 1 THEN 0 ELSE f[j - 1] + file.lines[j - 1].width + 1]
  <2>2. f = [j \in 1..(n + 1) |-> f[j]] /\ h = [j \in 1..(n + 1) |-> h[j]]
    OBVIOUS
  <2>3. \A j \in 1..(n + 1) : f[j] = h[j]
    BY <2>1
  <2> HIDE DEF f, h
  <2>4. f = h
    BY <2>2, <2>3
  <2> QED BY <2>4 DEF h
<1>6. K(start)
  BY <1>5
<1> HIDE DEF start, f
<1>7. start[1] = 0 /\ \A k \in 1..n : start[k + 1] = start[k] + file.lines[k].width + 1
  <2>1. start[1] = 0
    BY <1>1, <1>6
  <2>2. ASSUME NEW k \in 1..n PROVE start[k + 1] = start[k] + file.lines[k].width + 1
    <3>1. k + 1 \in 1..(n + 1) /\ k + 1 # 1 /\ (k + 1) - 1 = k
      BY <1>1
    <3>2. start[k + 1] = start[(k + 1) - 1] + file.lines[(k + 1) - 1].width + 1
      BY <1>6, <3>1, Zenon
    <3> QED BY <3>1, <3>2
  <2> QED BY <2>1, <2>2
<1>8. \A k \in 1..(n + 1) : start[k] \in Nat
  <2> DEFINE A == {k \in Nat : k <= n => start[k + 1] \in Nat}
  <2>1. 0 \in A
    BY <1>7
  <2>2. ASSUME NEW k \in Nat, k \in A PROVE k + 1 \in A
    <3> SUFFICES ASSUME k + 1 <= n PROVE start[(k + 1) + 1] \in Nat
      OBVIOUS
    <3>1. k + 1 \in 1..n /\ start[k + 1] \in Nat
      BY <1>1, <2>2
    <3>2. start[(k + 1) + 1] = start[k + 1] + file.lines[k + 1].width + 1
      BY <1>7, <3>1
    <3> QED BY <1>1, <3>1, <3>2
  <2> HIDE DEF A
  <2>3. \A k \in Nat : k \in A
    BY <2>1, <2>2, NatInduct
  <2>4. ASSUME NEW k \in 1..(n + 1) PROVE start[k] \in Nat
    <3>1. k - 1 \in Nat /\ k - 1 <= n /\ (k - 1) + 1 = k
      BY <1>1
    <3>2. k - 1 \in A
      BY <2>3, <3>1
    <3>3. start[(k - 1) + 1] \in Nat
      BY <3>1, <3>2 DEF A
    <3> QED BY <3>1, <3>3
  <2> QED BY <2>4
<1>9. ASSUME NEW k PROVE Start(file, k) = start[k]
  BY DEF Start, start, n
<1> QED BY <1>7, <1>8, <1>9 DEF n

(* Offsets grow from line to line. *)
LEMMA StartGrows ==
    ASSUME NEW file, IsFile(file)
    PROVE  LET n == Len(file.lines)
           IN  \A j, k \in 1..(n + 1) : j < k => Start(file, j) < Start(file, k)
<1> DEFINE n == Len(file.lines)
           A == {m \in Nat : \A j, k \in 1..(n + 1) :
                                j < k /\ k <= m => Start(file, j) < Start(file, k)}
<1>1. n \in Nat /\ \A k \in 1..n : file.lines[k].width \in Nat
  <2>1. n \in Nat /\ \A k \in 1..n : file.lines[k] \in LineType
    BY LenProperties, ElementOfSeq DEF IsFile
  <2> QED BY <2>1 DEF LineType
<1>2. /\ \A k \in 1..(n + 1) : Start(file, k) \in Nat
      /\ \A k \in 1..n : Start(file, k + 1) = Start(file, k) + file.lines[k].width + 1
  BY StartIs
<1> HIDE DEF n
<1>3. 0 \in A
  BY <1>1
<1>4. ASSUME NEW m \in Nat, m \in A PROVE m + 1 \in A
  <2> SUFFICES ASSUME NEW j \in 1..(n + 1), NEW k \in 1..(n + 1), j < k, k <= m + 1
               PROVE  Start(file, j) < Start(file, k)
    OBVIOUS
  <2>1. CASE k <= m
    BY <1>4, <2>1
  <2>2. CASE k = m + 1
    <3>1. m \in 1..n /\ j <= m /\ k = m + 1
      BY <1>1, <2>2
    <3>2. Start(file, m) < Start(file, k)
      BY <1>1, <1>2, <3>1
    <3>3. CASE j = m
      BY <3>2, <3>3
    <3>4. CASE j < m
      <4>1. Start(file, j) < Start(file, m)
        BY <1>1, <1>4, <3>1, <3>4
      <4> QED BY <1>1, <1>2, <3>1, <3>2, <4>1
    <3> QED BY <3>1, <3>3, <3>4
  <2> QED BY <2>1, <2>2
<1> HIDE DEF A
<1>5. \A m \in Nat : m \in A
  BY <1>3, <1>4, NatInduct
<1>6. n + 1 \in A
  BY <1>1, <1>5
<1> QED BY <1>6 DEF A, n

(* A bound on the offset cuts the lines in two. *)
LEMMA CutExists ==
    ASSUME NEW file, IsFile(file), NEW b \in Int
    PROVE  \E c \in 0..Len(file.lines) :
              \A k \in 1..Len(file.lines) : Start(file, k) <= b <=> k <= c
<1> DEFINE n == Len(file.lines)
           A == {k \in 1..n : Start(file, k) > b}
<1>1. n \in Nat
  BY LenProperties DEF IsFile
<1>2. /\ \A k \in 1..n : Start(file, k) \in Nat
      /\ \A j, k \in 1..n : j < k => Start(file, j) < Start(file, k)
  <2>1. \A k \in 1..n : k \in 1..(n + 1)
    BY <1>1
  <2>2. \A k \in 1..(n + 1) : Start(file, k) \in Nat
    BY StartIs
  <2>3. \A j, k \in 1..(n + 1) : j < k => Start(file, j) < Start(file, k)
    BY StartGrows
  <2> HIDE DEF n
  <2> QED BY <2>1, <2>2, <2>3
<1> HIDE DEF n
<1>3. CASE A = {}
  <2>1. n \in 0..n /\ \A k \in 1..n : Start(file, k) <= b <=> k <= n
    BY <1>1, <1>2, <1>3
  <2> QED BY <2>1 DEF n
<1>4. CASE A # {}
  <2>1. PICK m \in A : \A k \in A : m <= k
    <3>1. A \subseteq Nat
      OBVIOUS
    <3> HIDE DEF A
    <3> QED BY <1>4, <3>1, LeastNat
  <2>2. m - 1 \in 0..n
    BY <1>1
  <2>3. ASSUME NEW k \in 1..n PROVE Start(file, k) <= b <=> k <= m - 1
    <3>1. CASE k < m
      BY <1>2, <2>1, <3>1
    <3>2. CASE k = m
      BY <1>2, <2>1, <3>2
    <3>3. CASE k > m
      BY <1>2, <2>1, <3>3
    <3> QED BY <3>1, <3>2, <3>3
  <2> QED BY <2>2, <2>3 DEF n
<1> QED BY <1>3, <1>4

(* The shares of the bytes grow from thread to thread. *)
LEMMA SharesGrow ==
    ASSUME NEW size \in Nat, NEW nt \in Nat \ {0}, NEW t \in Nat
    PROVE  /\ (size * t) \div nt \in Int
           /\ (size * t) \div nt <= (size * (t + 1)) \div nt
<1> DEFINE a == size * t
           b == size * (t + 1)
<1>1. a \in Nat /\ b \in Nat /\ b = a + size
  OBVIOUS
<1> HIDE DEF a, b
<1>2. a <= b
  BY <1>1
<1>3. a \div nt <= b \div nt
  BY <1>1, <1>2, SMTT(30)
<1>4. a \div nt \in Int
  BY <1>1
<1> QED BY <1>3, <1>4 DEF a, b

(* csv_store.cpp:330-341: the chunks divide the lines, in order: thread t has
   those behind the c[t - 1] lines of the threads before it. *)
IsCut(c, file, nt) ==
    /\ c \in [0..nt -> 0..Len(file.lines)]
    /\ c[0] = 0 /\ c[nt] = Len(file.lines)
    /\ \A t \in 1..nt : c[t - 1] <= c[t] /\ Chunk(file, nt, t) = (c[t - 1] + 1)..c[t]

LEMMA ChunksAre ==
    ASSUME NEW file, IsFile(file), NEW nt \in Nat \ {0}
    PROVE  \E c : IsCut(c, file, nt)
<1> DEFINE n == Len(file.lines)
           size == Size(file)
           share == [t \in 0..nt |-> (size * t) \div nt]
           P(t, x) == \A k \in 1..n : Start(file, k) <= share[t] <=> k <= x
           cut(t) == CHOOSE x \in 0..n : P(t, x)
           c == [t \in 0..nt |-> IF t = 0 THEN 0 ELSE IF t = nt THEN n ELSE cut(t)]
<1>1. n \in Nat /\ \A k \in 1..(n + 1) : Start(file, k) \in Nat
  BY LenProperties, StartIs DEF IsFile
<1>2. size \in Int /\ (n > 0 => size \in Nat)
  <2>1. n > 0 => Start(file, 1) < Start(file, n + 1)
    <3>1. n > 0 => 1 \in 1..(n + 1) /\ n + 1 \in 1..(n + 1) /\ 1 < n + 1
      BY <1>1
    <3> QED BY <3>1, StartGrows
  <2>2. Start(file, n + 1) \in Nat /\ 1 \in 1..(n + 1)
    BY <1>1
  <2> HIDE DEF n
  <2>3. Start(file, 1) \in Nat /\ Start(file, n + 1) \in Nat
    BY <1>1, <2>2
  <2>4. size = Start(file, n + 1) - (IF file.terminated THEN 0 ELSE 1)
    BY DEF Size, n
  <2> HIDE DEF size
  <2> QED BY <2>1, <2>3, <2>4
<1> HIDE DEF size
<1>3. \A t \in 0..nt : share[t] \in Int /\ share[t] = (size * t) \div nt
  BY <1>2
<1>4. \A t \in 1..nt : n > 0 => share[t - 1] <= share[t]
  <2> SUFFICES ASSUME NEW t \in 1..nt, n > 0 PROVE share[t - 1] <= share[t]
    OBVIOUS
  <2> DEFINE u == t - 1
  <2>1. u \in Nat /\ u + 1 = t /\ u \in 0..nt /\ t \in 0..nt
    OBVIOUS
  <2> HIDE DEF u
  <2>2. (size * u) \div nt <= (size * (u + 1)) \div nt
    BY <1>2, <2>1, SharesGrow
  <2> HIDE DEF share, n
  <2>3. share[u] <= share[t]
    BY <1>3, <2>1, <2>2
  <2> QED BY <2>3 DEF u
<1> HIDE DEF share
<1>5. ASSUME NEW t \in 0..nt PROVE cut(t) \in 0..n /\ P(t, cut(t))
  <2>1. share[t] \in Int
    BY <1>3
  <2>2. \E x \in 0..n : P(t, x)
    BY <2>1, CutExists
  <2> HIDE DEF P, n
  <2> QED BY <2>2
<1> HIDE DEF cut
<1>6. c \in [0..nt -> 0..n]
  BY <1>1, <1>5
<1>7. c[0] = 0 /\ c[nt] = n
  OBVIOUS
<1>8. ASSUME NEW t \in 1..nt PROVE c[t - 1] <= c[t] /\ Chunk(file, nt, t) = (c[t - 1] + 1)..c[t]
  <2>1. t - 1 \in 0..nt /\ t \in 0..nt /\ c[t - 1] \in 0..n /\ c[t] \in 0..n
    BY <1>6
  <2>2. ASSUME NEW k \in 1..n
        PROVE  (t > 1 => (Size(file) * (t - 1)) \div nt < Start(file, k)) <=> c[t - 1] < k
    <3>1. CASE t = 1
      <4>1. c[t - 1] = 0
        BY <3>1
      <4> QED BY <1>1, <3>1, <4>1
    <3>2. CASE t # 1
      <4>1. t - 1 # 0 /\ t - 1 # nt /\ t > 1
        BY <3>2
      <4>2. c[t - 1] = cut(t - 1) /\ P(t - 1, cut(t - 1)) /\ share[t - 1] \in Int
        BY <1>3, <1>5, <2>1, <4>1
      <4>3. share[t - 1] = (Size(file) * (t - 1)) \div nt
        BY <1>3, <2>1 DEF size
      <4>4. Start(file, k) <= share[t - 1] <=> k <= c[t - 1]
        BY <4>2
      <4>5. Start(file, k) \in Nat
        BY <1>1
      <4> HIDE DEF c, n
      <4> QED BY <2>1, <4>1, <4>2, <4>3, <4>4, <4>5
    <3> QED BY <3>1, <3>2
  <2>3. ASSUME NEW k \in 1..n
        PROVE  (t < nt => ~((Size(file) * t) \div nt < Start(file, k))) <=> k <= c[t]
    <3>1. CASE t = nt
      <4>1. c[t] = n
        BY <3>1
      <4> QED BY <1>1, <3>1, <4>1
    <3>2. CASE t # nt
      <4>1. t # 0 /\ t < nt
        BY <3>2
      <4>2. c[t] = cut(t) /\ P(t, cut(t)) /\ share[t] \in Int
        BY <1>3, <1>5, <2>1, <4>1
      <4>3. share[t] = (Size(file) * t) \div nt
        BY <1>3, <2>1 DEF size
      <4>4. Start(file, k) <= share[t] <=> k <= c[t]
        BY <4>2
      <4>5. Start(file, k) \in Nat
        BY <1>1
      <4> HIDE DEF c, n
      <4> QED BY <2>1, <4>1, <4>2, <4>3, <4>4, <4>5
    <3> QED BY <3>1, <3>2
  <2>4. c[t - 1] <= c[t]
    <3>1. CASE t = 1 \/ t = nt
      BY <1>7, <2>1, <3>1
    <3>2. CASE t # 1 /\ t # nt
      <4>1. c[t - 1] = cut(t - 1) /\ P(t - 1, cut(t - 1)) /\ c[t] = cut(t) /\ P(t, cut(t))
        BY <1>5, <2>1, <3>2
      <4>2. \A k \in 1..n : k <= c[t - 1] => k <= c[t]
        <5> SUFFICES ASSUME NEW k \in 1..n, k <= c[t - 1] PROVE k <= c[t]
          OBVIOUS
        <5>1. Start(file, k) <= share[t - 1]
          BY <4>1
        <5>2. share[t - 1] <= share[t] /\ share[t - 1] \in Int /\ share[t] \in Int
          BY <1>1, <1>3, <1>4, <2>1
        <5>3. Start(file, k) \in Nat
          BY <1>1
        <5>4. Start(file, k) <= share[t]
          BY <5>1, <5>2, <5>3
        <5> QED BY <4>1, <5>4
      <4> HIDE DEF c, n
      <4> QED BY <1>1, <2>1, <4>2
    <3> QED BY <3>1, <3>2
  <2> HIDE DEF c
  <2>5. Chunk(file, nt, t) = {k \in 1..n : c[t - 1] < k /\ k <= c[t]}
    BY <2>2, <2>3 DEF Chunk
  <2>6. {k \in 1..n : c[t - 1] < k /\ k <= c[t]} = (c[t - 1] + 1)..c[t]
    BY <1>1, <2>1
  <2> QED BY <2>4, <2>5, <2>6
<1> HIDE DEF c
<1> QED BY <1>6, <1>7, <1>8 DEF IsCut, n

-----------------------------------------------------------------------------
(* The rows of lines *)

Row == [Columns -> Int]

Rowing(lines) == [k \in 1..Len(lines) |-> lines[k].row]

(* Those that parse. *)
Good(lines) == Filter(Rowing(lines), Row)

LEMMA RowingIs ==
    ASSUME NEW q \in Seq(LineType)
    PROVE  /\ Rowing(q) \in Seq(SlotType) /\ Len(Rowing(q)) = Len(q)
           /\ \A k \in 1..Len(q) : Rowing(q)[k] = q[k].row
<1>1. Len(q) \in Nat /\ \A k \in 1..Len(q) : q[k].row \in SlotType
  <2>1. Len(q) \in Nat /\ \A k \in 1..Len(q) : q[k] \in LineType
    BY LenProperties, ElementOfSeq
  <2> QED BY <2>1 DEF LineType
<1>2. [k \in 1..Len(q) |-> q[k].row] \in Seq(SlotType)
  BY <1>1, IsASeq
<1>3. Rowing(q) \in Seq(SlotType) /\ DOMAIN Rowing(q) = 1..Len(q)
  BY <1>2 DEF Rowing
<1>4. Len(Rowing(q)) \in Nat /\ DOMAIN Rowing(q) = 1..Len(Rowing(q))
  BY <1>3, LenProperties
<1>5. Len(Rowing(q)) = Len(q)
  BY <1>1, <1>3, <1>4
<1> QED BY <1>3, <1>5 DEF Rowing

LEMMA RowingConcat ==
    ASSUME NEW q \in Seq(LineType), NEW r \in Seq(LineType)
    PROVE  Rowing(q \o r) = Rowing(q) \o Rowing(r)
<1> DEFINE s == Rowing(q \o r)
           a == Rowing(q)
           b == Rowing(r)
           t == a \o b
<1>1. /\ q \o r \in Seq(LineType) /\ Len(q \o r) = Len(q) + Len(r)
      /\ \A i \in 1..(Len(q) + Len(r)) :
            (q \o r)[i] = IF i <= Len(q) THEN q[i] ELSE r[i - Len(q)]
  BY ConcatProperties
<1>2. Len(q) \in Nat /\ Len(r) \in Nat
  BY LenProperties
<1>3. /\ s \in Seq(SlotType) /\ Len(s) = Len(q) + Len(r)
      /\ \A k \in 1..(Len(q) + Len(r)) : s[k] = (q \o r)[k].row
  BY <1>1, RowingIs
<1>4. /\ a \in Seq(SlotType) /\ Len(a) = Len(q) /\ \A k \in 1..Len(q) : a[k] = q[k].row
      /\ b \in Seq(SlotType) /\ Len(b) = Len(r) /\ \A k \in 1..Len(r) : b[k] = r[k].row
  BY RowingIs
<1> HIDE DEF s, a, b
<1>5. /\ t \in Seq(SlotType) /\ Len(t) = Len(q) + Len(r)
      /\ \A i \in 1..(Len(q) + Len(r)) : t[i] = IF i <= Len(q) THEN a[i] ELSE b[i - Len(q)]
  <2>1. /\ a \o b \in Seq(SlotType) /\ Len(a \o b) = Len(a) + Len(b)
        /\ \A i \in 1..(Len(a) + Len(b)) :
              (a \o b)[i] = IF i <= Len(a) THEN a[i] ELSE b[i - Len(a)]
    <3>1. a \in Seq(SlotType) /\ b \in Seq(SlotType)
      BY <1>4
    <3> QED BY <3>1, ConcatProperties
  <2> QED BY <1>4, <2>1
<1> HIDE DEF t
<1>6. ASSUME NEW i \in 1..(Len(q) + Len(r)) PROVE s[i] = t[i]
  <2>1. CASE i <= Len(q)
    <3>1. i \in 1..Len(q)
      BY <1>2, <2>1
    <3> QED BY <1>1, <1>3, <1>4, <1>5, <2>1, <3>1
  <2>2. CASE i > Len(q)
    <3>1. i - Len(q) \in 1..Len(r) /\ ~(i <= Len(q))
      BY <1>2, <2>2
    <3>2. s[i] = r[i - Len(q)].row
      BY <1>1, <1>3, <3>1
    <3>3. t[i] = b[i - Len(q)]
      BY <1>5, <3>1
    <3> QED BY <1>4, <3>1, <3>2, <3>3
  <2> QED BY <1>2, <2>1, <2>2
<1>7. s = t
  BY <1>3, <1>5, <1>6, SeqEqual
<1> QED BY <1>7 DEF s, t, a, b

LEMMA GoodConcat ==
    ASSUME NEW q \in Seq(LineType), NEW r \in Seq(LineType)
    PROVE  Good(q \o r) = Good(q) \o Good(r)
<1> DEFINE a == Rowing(q)
           b == Rowing(r)
<1>1. a \in Seq(SlotType) /\ b \in Seq(SlotType) /\ Rowing(q \o r) = a \o b
  BY RowingIs, RowingConcat
<1> HIDE DEF a, b
<1>2. Filter(a \o b, Row) = Filter(a, Row) \o Filter(b, Row)
  BY <1>1, FilterConcat
<1> QED BY <1>1, <1>2 DEF Good, a, b

LEMMA GoodAppend ==
    ASSUME NEW q \in Seq(LineType), NEW l \in LineType
    PROVE  Good(Append(q, l)) = IF l.row \in Row THEN Append(Good(q), l.row) ELSE Good(q)
<1> DEFINE a == Rowing(q)
           b == Rowing(Append(q, l))
<1>1. /\ Append(q, l) \in Seq(LineType) /\ Len(Append(q, l)) = Len(q) + 1 /\ Len(q) \in Nat
      /\ Append(q, l)[Len(q) + 1] = l
      /\ \A i \in 1..Len(q) : Append(q, l)[i] = q[i]
  BY AppendProperties, LenProperties
<1>2. l.row \in SlotType
  BY DEF LineType
<1>3. /\ a \in Seq(SlotType) /\ Len(a) = Len(q) /\ \A k \in 1..Len(q) : a[k] = q[k].row
      /\ b \in Seq(SlotType) /\ Len(b) = Len(q) + 1
      /\ \A k \in 1..(Len(q) + 1) : b[k] = Append(q, l)[k].row
  BY <1>1, RowingIs
<1> HIDE DEF a, b
<1>4. b = Append(a, l.row)
  <2> DEFINE c == Append(a, l.row)
  <2>1. /\ c \in Seq(SlotType) /\ Len(c) = Len(q) + 1 /\ c[Len(q) + 1] = l.row
        /\ \A i \in 1..Len(q) : c[i] = a[i]
    BY <1>2, <1>3, AppendProperties
  <2> HIDE DEF c
  <2>2. ASSUME NEW i \in 1..(Len(q) + 1) PROVE b[i] = c[i]
    BY <1>1, <1>3, <2>1
  <2>3. b = c
    BY <1>3, <2>1, <2>2, SeqEqual
  <2> QED BY <2>3 DEF c
<1>5. Filter(Append(a, l.row), Row) =
         IF l.row \in Row THEN Append(Filter(a, Row), l.row) ELSE Filter(a, Row)
  <2>1. a \in Seq(SlotType) /\ l.row \in SlotType
    BY <1>2, <1>3
  <2>2. ASSUME NEW s \in Seq(SlotType), NEW e \in SlotType
        PROVE  Filter(Append(s, e), Row) =
                  IF e \in Row THEN Append(Filter(s, Row), e) ELSE Filter(s, Row)
    BY <2>2, FilterAppend
  <2> QED BY <2>1, <2>2
<1> QED BY <1>4, <1>5 DEF Good, a, b

(* Lines without a row may be dropped first. *)
LEMMA GoodFilter ==
    ASSUME NEW U, \A l \in LineType : l.row \in Row => l \in U
    PROVE  \A q \in Seq(LineType) : Good(Filter(q, U)) = Good(q)
<1> DEFINE A == {q \in Seq(LineType) : Good(Filter(q, U)) = Good(q)}
<1>1. <<>> \in A
  BY FilterEmpty, EmptySeq
<1>2. ASSUME NEW q \in Seq(LineType), NEW l \in LineType, q \in A PROVE Append(q, l) \in A
  <2> DEFINE f == Filter(q, U)
  <2>1. f \in Seq(LineType) /\ Append(q, l) \in Seq(LineType)
    BY FilterSeq, AppendProperties
  <2>2. Filter(Append(q, l), U) = IF l \in U THEN Append(f, l) ELSE f
    BY FilterAppend
  <2>3. Good(f) = Good(q)
    BY <1>2
  <2> HIDE DEF f
  <2>4. Good(Append(f, l)) = IF l.row \in Row THEN Append(Good(f), l.row) ELSE Good(f)
    BY <2>1, GoodAppend
  <2>5. Good(Append(q, l)) = IF l.row \in Row THEN Append(Good(q), l.row) ELSE Good(q)
    BY GoodAppend
  <2>6. Good(Filter(Append(q, l), U)) = Good(Append(q, l))
    <3>1. CASE l \in U
      BY <2>2, <2>3, <2>4, <2>5, <3>1
    <3>2. CASE l \notin U
      <4>1. l.row \notin Row
        BY <3>2
      <4> QED BY <2>2, <2>3, <2>5, <3>2, <4>1
    <3> QED BY <3>1, <3>2
  <2> QED BY <2>1, <2>6
<1> HIDE DEF A
<1>3. \A q \in Seq(LineType) : q \in A
  BY <1>1, <1>2, SeqInduct
<1> QED BY <1>3 DEF A

(* Kept lines all have rows. *)
LEMMA GoodIs ==
    ASSUME NEW q \in Seq(LineType), NEW U, \A l \in LineType : l \in U <=> l.row \in Row
    PROVE  Rowing(Filter(q, U)) = Good(q)
<1> DEFINE f == Filter(q, U)
<1>1. Good(f) = Good(q)
  BY GoodFilter
<1>2. f \in Seq(LineType \cap U) /\ f \in Seq(LineType)
  BY FilterSubset, FilterSeq
<1> HIDE DEF f
<1>3. \A k \in 1..Len(f) : f[k] \in LineType \cap U
  BY <1>2, ElementOfSeq
<1> DEFINE a == Rowing(f)
<1>4. a \in Seq(SlotType) /\ Len(a) = Len(f) /\ \A k \in 1..Len(f) : a[k] = f[k].row
  BY <1>2, RowingIs
<1> HIDE DEF a
<1>5. \A k \in 1..Len(a) : a[k] \in Row
  BY <1>3, <1>4
<1>6. Filter(a, Row) = a
  BY <1>4, <1>5, FilterAll
<1>7. Good(f) = a
  BY <1>6 DEF Good, a
<1> QED BY <1>1, <1>7 DEF a, f

(* Slots that stay empty hold no row. *)
LEMMA PaddedIs ==
    ASSUME NEW r \in Seq(SlotType), NEW m \in Nat, Len(r) <= m
    PROVE  Filter([s \in 1..m |-> IF s <= Len(r) THEN r[s] ELSE Invalid], Row) = Filter(r, Row)
<1> DEFINE p == [s \in 1..m |-> IF s <= Len(r) THEN r[s] ELSE Invalid]
<1>1. Len(r) \in Nat /\ \A s \in 1..Len(r) : r[s] \in SlotType
  BY LenProperties, ElementOfSeq
<1>2. \A s \in 1..m : (IF s <= Len(r) THEN r[s] ELSE Invalid) \in SlotType
  BY <1>1 DEF SlotType
<1>3. p \in Seq(SlotType)
  <2>1. [s \in 1..m |-> IF s <= Len(r) THEN r[s] ELSE Invalid] \in Seq(SlotType)
    BY <1>2, IsASeq
  <2> QED BY <2>1
<1>4. Len(p) = m
  <2>1. DOMAIN p = 1..m
    OBVIOUS
  <2> HIDE DEF p
  <2>2. Len(p) \in Nat /\ DOMAIN p = 1..Len(p)
    BY <1>3, LenProperties
  <2> QED BY <2>1, <2>2
<1>5. \A s \in 1..m : p[s] = IF s <= Len(r) THEN r[s] ELSE Invalid
  OBVIOUS
<1> HIDE DEF p
<1>6. Invalid \notin Row
  BY InvalidIsNoRow DEF Row
<1>7. \A s \in 1..Len(p) : s <= 0 \/ s > Len(r) => p[s] \notin Row
  BY <1>1, <1>4, <1>5, <1>6
<1>8. Filter(p, Row) = Filter(SubSeq(p, 0 + 1, Len(r)), Row)
  <2>1. 0 \in Nat /\ 0 <= Len(r) /\ Len(r) <= Len(p) /\ Len(r) \in Nat
    BY <1>1, <1>4
  <2> QED BY <1>3, <1>7, <2>1, FilterMiddle
<1>9. SubSeq(p, 0 + 1, Len(r)) = r
  <2> DEFINE q == SubSeq(p, 0 + 1, Len(r))
  <2>1. 0 \in Nat /\ 0 <= Len(r) /\ Len(r) <= Len(p) /\ Len(r) \in Nat
    BY <1>1, <1>4
  <2>2. q \in Seq(SlotType) /\ Len(q) = Len(r) - 0 /\ \A s \in 1..(Len(r) - 0) : q[s] = p[0 + s]
    BY <1>3, <2>1, PartIs
  <2> HIDE DEF q
  <2>3. ASSUME NEW s \in 1..Len(q) PROVE q[s] = r[s]
    BY <1>1, <1>4, <1>5, <2>2
  <2>4. q = r
    BY <1>1, <2>2, <2>3, SeqEqual
  <2> QED BY <2>4 DEF q
<1> QED BY <1>8, <1>9 DEF p

NotBlank == {l \in LineType : l.width > 0}

(* Pass 2 parses the lines of the chunk that are not blank. *)
Full(file, chunk) ==
    LET mine == [k \in DOMAIN file.lines |-> [file.lines[k] EXCEPT
                    !.width = IF k \in chunk THEN @ ELSE 0]]
    IN  Filter(mine, {line \in ToSet(mine) : line.width > 0})

LEMMA FullIs ==
    ASSUME NEW file, IsFile(file), NEW chunk, NEW lo \in Nat, NEW hi \in Nat,
           lo <= hi, hi <= Len(file.lines), chunk = (lo + 1)..hi
    PROVE  Full(file, chunk) = Filter(SubSeq(file.lines, lo + 1, hi), NotBlank)
<1> DEFINE n == Len(file.lines)
           lines == file.lines
           mine == [k \in DOMAIN file.lines |-> [file.lines[k] EXCEPT
                           !.width = IF k \in chunk THEN @ ELSE 0]]
           S == {line \in ToSet(mine) : line.width > 0}
           U == [width : Nat, row : SlotType]
           a == SubSeq(mine, lo + 1, hi)
           b == SubSeq(lines, lo + 1, hi)
<1>1. /\ lines \in Seq(LineType)
      /\ n \in Nat /\ DOMAIN file.lines = 1..n /\ \A k \in 1..n : file.lines[k] \in LineType
  BY LenProperties, ElementOfSeq DEF IsFile
<1>2. \A l \in LineType : l \in U
  BY DEF LineType
<1>3. ASSUME NEW k \in 1..n
      PROVE  /\ [file.lines[k] EXCEPT !.width = IF k \in chunk THEN @ ELSE 0] \in U
             /\ k \in chunk => [file.lines[k] EXCEPT !.width = IF k \in chunk THEN @ ELSE 0] = file.lines[k]
             /\ k \notin chunk => [file.lines[k] EXCEPT !.width = IF k \in chunk THEN @ ELSE 0].width = 0
  <2>1. file.lines[k] \in U
    BY <1>1, <1>2
  <2> QED BY <2>1
<1>4. mine \in Seq(U)
  <2> HIDE DEF U, n
  <2> QED BY <1>1, <1>3, IsASeq
<1>5. lines \in Seq(U)
  <2> HIDE DEF U, n
  <2>1. \A k \in 1..n : file.lines[k] \in U
    BY <1>1, <1>2
  <2>2. [k \in 1..n |-> file.lines[k]] \in Seq(U)
    BY <1>1, <2>1, IsASeq
  <2>3. file.lines = [k \in 1..n |-> file.lines[k]]
    BY <1>1, LenProperties DEF n
  <2> QED BY <2>2, <2>3
<1>6. /\ DOMAIN mine = 1..n
      /\ \A k \in 1..n : k \in chunk => mine[k] = lines[k]
      /\ \A k \in 1..n : k \notin chunk => mine[k].width = 0
  BY <1>1, <1>3
<1> HIDE DEF mine, U, n, lines
<1>7. Len(mine) = n
  BY <1>1, <1>4, <1>6, LenProperties
<1>8. hi <= n
  BY DEF n
<1>9. Filter(mine, S) = Filter(a, S)
  <2>1. \A i \in 1..Len(mine) : i <= lo \/ i > hi => mine[i] \notin S
    BY <1>1, <1>6, <1>7
  <2> HIDE DEF S
  <2> QED BY <1>4, <1>7, <1>8, <2>1, FilterMiddle
<1>10. Len(lines) = n
  BY DEF lines, n
<1>11. /\ a \in Seq(U) /\ Len(a) = hi - lo /\ \A i \in 1..(hi - lo) : a[i] = mine[lo + i]
  BY <1>4, <1>7, <1>8, PartIs
<1>12. b \in Seq(U) /\ Len(b) = hi - lo /\ \A i \in 1..(hi - lo) : b[i] = lines[lo + i]
  BY <1>5, <1>8, <1>10, PartIs
<1> HIDE DEF a, b
<1>13. \A i \in 1..(hi - lo) : lo + i \in 1..n /\ lo + i \in chunk
  BY <1>1, <1>8
<1>14. a = b
  <2>1. \A i \in 1..Len(a) : a[i] = b[i]
    BY <1>6, <1>11, <1>12, <1>13
  <2> QED BY <1>11, <1>12, <2>1, SeqEqual
<1>15. ASSUME NEW i \in 1..Len(b) PROVE b[i] \in S <=> b[i] \in NotBlank
  <2>1. lo + i \in 1..n /\ b[i] = lines[lo + i] /\ b[i] = mine[lo + i]
    BY <1>6, <1>12, <1>13
  <2>2. b[i] \in LineType
    BY <1>1, <2>1 DEF lines
  <2>3. b[i] \in ToSet(mine)
    BY <1>6, <2>1 DEF ToSet
  <2> QED BY <2>2, <2>3 DEF NotBlank
<1> HIDE DEF S
<1>16. Filter(b, S) = Filter(b, NotBlank)
  BY <1>12, <1>15, FilterSame
<1> QED BY <1>9, <1>14, <1>16 DEF Full, mine, S, b, lines

(* A thread parses the lines of its chunk, except that there is no room for
   the file's last line if it has no newline and no line before it in the
   chunk is blank. *)
LEMMA ParsedIs ==
    ASSUME NEW file, IsFile(file), NEW nt, NEW t, NEW lo \in Nat, NEW hi \in Nat,
           lo <= hi, hi <= Len(file.lines), Chunk(file, nt, t) = (lo + 1)..hi
    PROVE  LET part(top) == SubSeq(file.lines, lo + 1, top)
           IN  \/ Filter(Parsed(file, nt, t), Row) = Good(part(hi))
               \/ /\ ~file.terminated /\ lo < hi /\ hi = Len(file.lines)
                  /\ Filter(Parsed(file, nt, t), Row) = Good(part(hi - 1))
<1> DEFINE n == Len(file.lines)
           part == SubSeq(file.lines, lo + 1, hi)
           full == Filter(part, NotBlank)
           m == Newlines(file, nt, t)
           r == Rowing(full)
           p == Parsed(file, nt, t)
<1>1. n \in Nat /\ hi <= n /\ file.lines \in Seq(LineType)
  BY LenProperties DEF IsFile
<1>2. p = [s \in 1..m |-> IF s <= Len(full) THEN full[s].row ELSE Invalid]
  <2> DEFINE kept == Full(file, Chunk(file, nt, t))
  <2>1. kept = full
    BY <1>1, FullIs
  <2>2. p = [s \in 1..m |-> IF s <= Len(kept) THEN kept[s].row ELSE Invalid]
    BY DEF Parsed, Full
  <2> HIDE DEF kept, full, p, m
  <2> QED BY <2>1, <2>2
<1>3. /\ m \in Nat
      /\ m = hi - lo \/ (~file.terminated /\ lo < hi /\ hi = n /\ m = (hi - 1) - lo)
  <2> DEFINE W == {k \in (lo + 1)..hi : k < n \/ file.terminated}
  <2>1. m = Cardinality(W)
    BY DEF Newlines
  <2>2. CASE ~file.terminated /\ lo < hi /\ hi = n
    <3>1. W = (lo + 1)..(hi - 1)
      BY <1>1, <2>2
    <3>2. Cardinality((lo + 1)..(hi - 1)) =
             IF lo + 1 > hi - 1 THEN 0 ELSE (hi - 1) - (lo + 1) + 1
      BY FS_Interval
    <3> HIDE DEF m, W, n
    <3>3. m = IF lo + 1 > hi - 1 THEN 0 ELSE (hi - 1) - (lo + 1) + 1
      BY <2>1, <3>1, <3>2
    <3> QED BY <2>2, <3>3
  <2>3. CASE ~(~file.terminated /\ lo < hi /\ hi = n)
    <3>1. W = (lo + 1)..hi
      BY <1>1, <2>3
    <3>2. Cardinality((lo + 1)..hi) = IF lo + 1 > hi THEN 0 ELSE hi - (lo + 1) + 1
      BY FS_Interval
    <3> HIDE DEF m, W, n
    <3>3. m = IF lo + 1 > hi THEN 0 ELSE hi - (lo + 1) + 1
      BY <2>1, <3>1, <3>2
    <3> QED BY <3>3
  <2> QED BY <2>2, <2>3
<1>4. part \in Seq(LineType) /\ Len(part) = hi - lo /\ \A i \in 1..(hi - lo) : part[i] = file.lines[lo + i]
  BY <1>1, PartIs
<1> HIDE DEF n, part, m, p
<1>5. /\ full \in Seq(LineType) /\ Len(full) \in Nat /\ Len(full) <= hi - lo
      /\ Len(full) = hi - lo => full = part
  <2>1. full \in Seq(LineType)
    BY <1>4, FilterSeq
  <2>2. Len(full) <= Len(part) /\ (Len(full) = Len(part) => full = part)
    BY <1>4, FilterLen
  <2> HIDE DEF full
  <2> QED BY <1>4, <2>1, <2>2, LenProperties
<1>6. Good(full) = Good(part)
  <2>1. \A l \in LineType : l.row \in Row => l \in NotBlank
    BY InvalidIsNoRow DEF LineType, NotBlank, Row
  <2> QED BY <1>4, <2>1, GoodFilter
<1> HIDE DEF full
<1>7. r \in Seq(SlotType) /\ Len(r) = Len(full) /\ \A k \in 1..Len(full) : r[k] = full[k].row
  BY <1>5, RowingIs
<1> HIDE DEF r
<1>8. CASE Len(full) <= m
  <2> DEFINE q == [s \in 1..m |-> IF s <= Len(r) THEN r[s] ELSE Invalid]
  <2>1. Filter(q, Row) = Filter(r, Row)
    BY <1>3, <1>7, <1>8, PaddedIs
  <2>2. p = q
    <3>1. ASSUME NEW s \in 1..m
          PROVE  (IF s <= Len(full) THEN full[s].row ELSE Invalid) = (IF s <= Len(r) THEN r[s] ELSE Invalid)
      BY <1>3, <1>5, <1>7
    <3> QED BY <1>2, <3>1
  <2> HIDE DEF q
  <2>3. Filter(p, Row) = Good(part)
    BY <1>6, <2>1, <2>2 DEF Good, r
  <2> QED BY <2>3 DEF p, part
<1>9. CASE ~(Len(full) <= m)
  <2>1. ~file.terminated /\ lo < hi /\ hi = n /\ m = (hi - 1) - lo /\ full = part
    BY <1>3, <1>5, <1>9
  <2> DEFINE top == hi - 1
             less == SubSeq(file.lines, lo + 1, top)
             q == Rowing(less)
  <2>2. top \in Nat /\ lo <= top /\ top <= Len(file.lines) /\ m = top - lo /\ m < hi - lo
    BY <1>1, <2>1 DEF n
  <2> HIDE DEF top
  <2>3. less \in Seq(LineType) /\ Len(less) = m /\ \A i \in 1..m : less[i] = file.lines[lo + i]
    <3>1. /\ less \in Seq(LineType) /\ Len(less) = top - lo
          /\ \A i \in 1..(top - lo) : less[i] = file.lines[lo + i]
      <4>1. file.lines \in Seq(LineType) /\ top \in Nat /\ lo <= top /\ top <= Len(file.lines)
        BY <1>1, <2>2
      <4> QED BY <4>1, PartIs
    <3> QED BY <2>2, <3>1
  <2> HIDE DEF less
  <2>4. q \in Seq(SlotType) /\ Len(q) = m /\ \A k \in 1..m : q[k] = less[k].row
    BY <2>3, RowingIs
  <2> HIDE DEF q
  <2>5. ASSUME NEW s \in 1..m
        PROVE  (IF s <= Len(full) THEN full[s].row ELSE Invalid) = q[s]
    <3>1. s <= Len(full) /\ s \in 1..(hi - lo)
      BY <1>3, <1>5, <1>9, <2>2
    <3>2. full[s] = less[s]
      BY <1>4, <2>1, <2>3, <3>1
    <3> QED BY <2>4, <3>1, <3>2
  <2>6. p = [s \in 1..m |-> q[s]]
    BY <1>2, <2>5
  <2>7. q = [s \in 1..m |-> q[s]]
    BY <2>4, LenProperties
  <2>8. Filter(p, Row) = Good(less)
    BY <2>6, <2>7 DEF Good, q
  <2> QED BY <2>1, <2>8 DEF p, less, top, n
<1> QED BY <1>8, <1>9

(* csv_store.cpp:371-424: whatever the cuts are, the rows in the store are
   those of the file, with or without a last line that has no newline. *)
THEOREM LoadIs ==
    ASSUME NEW file, IsFile(file), NEW nt \in Nat \ {0}
    PROVE  LET n == Len(file.lines)
           IN  \/ Filter(Load(file, nt), Row) = Good(SubSeq(file.lines, 0 + 1, n))
               \/ /\ ~file.terminated /\ n > 0
                  /\ Filter(Load(file, nt), Row) = Good(SubSeq(file.lines, 0 + 1, n - 1))
<1> DEFINE n == Len(file.lines)
           V == RowsIn(file) \cup {Invalid}
           P == [t \in 1..nt |-> Parsed(file, nt, t)]
           upto(hi) == SubSeq(file.lines, 0 + 1, hi)
           loaded(m) == Filter(FlattenSeq([t \in 1..m |-> P[t]]), Row)
<1>1. n \in Nat /\ file.lines \in Seq(LineType)
  BY LenProperties DEF IsFile
<1>2. PICK c : IsCut(c, file, nt)
  BY ChunksAre
<1> DEFINE Q(m) == \/ loaded(m) = Good(upto(c[m]))
                   \/ /\ ~file.terminated /\ n > 0 /\ c[m] = n
                      /\ loaded(m) = Good(upto(n - 1))
           A == {m \in Nat : m <= nt => Q(m)}
<1>3. \A t \in 1..nt : P[t] \in Seq(V)
  BY ParsedType
<1>4. /\ \A t \in 0..nt : c[t] \in 0..n
      /\ c[0] = 0 /\ c[nt] = n
      /\ \A t \in 1..nt : c[t - 1] <= c[t] /\ Chunk(file, nt, t) = (c[t - 1] + 1)..c[t]
  BY <1>2 DEF IsCut
<1>5. \A t \in 1..nt : P[t] = Parsed(file, nt, t)
  OBVIOUS
<1> HIDE DEF P, V, n
<1>6. ASSUME NEW lo \in Nat, NEW hi \in Nat, lo <= hi, hi <= n
      PROVE  Good(upto(lo)) \o Good(SubSeq(file.lines, lo + 1, hi)) = Good(upto(hi))
  <2> DEFINE a == upto(lo)
             b == SubSeq(file.lines, lo + 1, hi)
  <2>1. 0 \in Nat /\ 0 <= lo /\ hi <= Len(file.lines) /\ lo <= Len(file.lines)
    BY <1>1, <1>6 DEF n
  <2>2. a \in Seq(LineType)
    BY <1>1, <2>1, PartIs
  <2>3. b \in Seq(LineType)
    BY <1>1, <1>6, <2>1, PartIs
  <2>4. a \o b = upto(hi)
    BY <1>1, <1>6, <2>1, Parts
  <2> HIDE DEF a, b, upto
  <2>5. Good(a \o b) = Good(a) \o Good(b)
    BY <2>2, <2>3, GoodConcat
  <2> QED BY <2>4, <2>5 DEF a, b
<1>7. 0 \in A
  <2>1. upto(0) = <<>>
    BY SubSeqEmpty
  <2>2. FlattenSeq([t \in 1..0 |-> P[t]]) = <<>>
    BY FlattenEmpty
  <2>3. loaded(0) = <<>>
    BY <2>2, FilterEmpty
  <2>4. Good(<<>>) = <<>>
    <3>1. Rowing(<<>>) = <<>>
      BY DEF Rowing
    <3> QED BY <3>1, FilterEmpty DEF Good
  <2> HIDE DEF loaded, upto
  <2> QED BY <1>4, <2>1, <2>3, <2>4
<1>8. ASSUME NEW m \in Nat, m \in A PROVE m + 1 \in A
  <2> SUFFICES ASSUME m + 1 <= nt PROVE Q(m + 1)
    OBVIOUS
  <2> DEFINE lo == c[m]
             hi == c[m + 1]
             p == P[m + 1]
             part(top) == SubSeq(file.lines, lo + 1, top)
  <2>1. /\ m + 1 \in 1..nt /\ m \in 0..nt /\ m + 1 \in 0..nt /\ (m + 1) - 1 = m
        /\ Q(m)
    BY <1>8
  <2>2. /\ lo \in Nat /\ hi \in Nat /\ lo <= hi /\ hi <= n
        /\ Chunk(file, nt, m + 1) = (lo + 1)..hi /\ p = Parsed(file, nt, m + 1)
    BY <1>1, <1>4, <1>5, <2>1
  <2>3. loaded(m + 1) = loaded(m) \o Filter(p, Row)
    <3> DEFINE R == [t \in 1..(m + 1) |-> P[t]]
               L == FlattenSeq([t \in 1..m |-> P[t]])
    <3>1. R \in [1..(m + 1) -> Seq(V)]
      BY <1>3, <2>1
    <3>2. [t \in 1..m |-> R[t]] = [t \in 1..m |-> P[t]] /\ R[m + 1] = P[m + 1]
      OBVIOUS
    <3>3. \A t \in 1..m : P[t] \in Seq(V)
      BY <1>3, <2>1
    <3> HIDE DEF R
    <3>4. FlattenSeq(R) = L \o P[m + 1]
      BY <3>1, <3>2, FlattenStep
    <3>5. L \in Seq(V)
      <4>1. [t \in 1..m |-> P[t]] \in [1..m -> Seq(V)]
        BY <3>3
      <4> QED BY <4>1, FlattenType
    <3>6. p \in Seq(V)
      BY <1>3, <2>1
    <3> HIDE DEF L, p
    <3>7. Filter(L \o p, Row) = Filter(L, Row) \o Filter(p, Row)
      BY <3>5, <3>6, FilterConcat
    <3>8. FlattenSeq(R) = L \o p
      BY <3>4 DEF p
    <3> QED BY <3>7, <3>8 DEF R, L
  <2>4. \/ Filter(p, Row) = Good(part(hi))
        \/ /\ ~file.terminated /\ lo < hi /\ hi = n /\ Filter(p, Row) = Good(part(hi - 1))
    <3> HIDE DEF p, lo, hi
    <3>1. hi <= Len(file.lines)
      BY <2>2 DEF n
    <3>2. \/ Filter(Parsed(file, nt, m + 1), Row) = Good(part(hi))
          \/ /\ ~file.terminated /\ lo < hi /\ hi = Len(file.lines)
             /\ Filter(Parsed(file, nt, m + 1), Row) = Good(part(hi - 1))
      BY <2>2, <3>1, ParsedIs
    <3> QED BY <2>2, <3>2 DEF n
  <2>5. CASE loaded(m) = Good(upto(lo))
    <3>1. CASE Filter(p, Row) = Good(part(hi))
      <4>1. Good(upto(lo)) \o Good(part(hi)) = Good(upto(hi))
        <5> HIDE DEF lo, hi, upto
        <5> QED BY <1>6, <2>2
      <4> HIDE DEF loaded, upto, part
      <4> QED BY <2>3, <2>5, <3>1, <4>1
    <3>2. CASE ~file.terminated /\ lo < hi /\ hi = n /\ Filter(p, Row) = Good(part(hi - 1))
      <4>1. Good(upto(lo)) \o Good(part(hi - 1)) = Good(upto(hi - 1))
        <5> HIDE DEF lo, hi, upto
        <5>1. hi - 1 \in Nat /\ lo <= hi - 1 /\ hi - 1 <= n
          BY <1>1, <2>2, <3>2
        <5> DEFINE top == hi - 1
        <5>2. top \in Nat /\ lo <= top /\ top <= n
          BY <5>1
        <5> HIDE DEF top
        <5>3. Good(upto(lo)) \o Good(SubSeq(file.lines, lo + 1, top)) = Good(upto(top))
          BY <1>6, <2>2, <5>2
        <5> QED BY <5>3 DEF top
      <4>2. n > 0
        BY <1>1, <2>2, <3>2
      <4> HIDE DEF loaded, upto, part
      <4> QED BY <2>3, <2>5, <3>2, <4>1, <4>2
    <3> QED BY <2>4, <3>1, <3>2
  <2>6. CASE ~file.terminated /\ n > 0 /\ lo = n /\ loaded(m) = Good(upto(n - 1))
    <3>1. hi = n /\ ~ (lo < hi)
      BY <1>1, <2>2, <2>6
    <3>2. Filter(p, Row) = Good(part(hi))
      BY <2>4, <3>1
    <3>3. Good(part(hi)) = <<>>
      <4>1. part(hi) = <<>>
        <5> HIDE DEF lo, hi
        <5> QED BY <2>2, <2>6, <3>1, SubSeqEmpty
      <4>2. Rowing(<<>>) = <<>>
        BY DEF Rowing
      <4> QED BY <4>1, <4>2, FilterEmpty DEF Good
    <3>4. Good(upto(n - 1)) \o <<>> = Good(upto(n - 1))
      <4> DEFINE top == n - 1
                 u == upto(top)
                 w == Rowing(u)
      <4>1. 0 \in Nat /\ 0 <= top /\ top \in Nat /\ top <= Len(file.lines)
        BY <1>1, <2>6 DEF n
      <4> HIDE DEF top
      <4>2. u \in Seq(LineType)
        BY <1>1, <4>1, PartIs
      <4> HIDE DEF u
      <4>3. w \in Seq(SlotType)
        BY <4>2, RowingIs
      <4> HIDE DEF w
      <4>4. Filter(w, Row) \in Seq(SlotType)
        BY <4>3, FilterSeq
      <4>5. Filter(w, Row) \o <<>> = Filter(w, Row)
        BY <4>4, ConcatEmptySeq
      <4> QED BY <4>5 DEF w, u, top, Good
    <3> HIDE DEF loaded, upto, part
    <3> QED BY <2>3, <2>6, <3>1, <3>2, <3>3, <3>4
  <2> QED BY <2>1, <2>5, <2>6
<1> HIDE DEF A
<1>9. \A m \in Nat : m \in A
  BY <1>7, <1>8, NatInduct
<1>10. Q(nt)
  BY <1>9 DEF A
<1>11. [t \in 1..nt |-> P[t]] = [t \in 1..nt |-> Parsed(file, nt, t)]
  BY <1>5
<1>12. loaded(nt) = Filter(Load(file, nt), Row)
  BY <1>11 DEF Load
<1> HIDE DEF loaded, upto
<1>13. \/ Filter(Load(file, nt), Row) = Good(upto(n))
       \/ ~file.terminated /\ n > 0 /\ Filter(Load(file, nt), Row) = Good(upto(n - 1))
  BY <1>4, <1>10, <1>12
<1> QED BY <1>13 DEF upto, n

-----------------------------------------------------------------------------
(* Predicates and the pre-filter *)

(* A predicate of a query. *)
IsPredicate(p) ==
    /\ p.low \in Int /\ p.high \in Int
    /\ p.inclusive \in BOOLEAN

(* A predicate hits only values between its ends. *)
LEMMA HitBetween ==
    ASSUME NEW p, IsPredicate(p), NEW v \in Int, Hit(p, v)
    PROVE  p.low <= v /\ v <= p.high
BY DEF Hit, IsPredicate

(* csv_store.cpp:253: the pre-filter never skips a shard in which a row
   matches, whatever ranges cover the row. *)
THEOREM PrefilterSound ==
    ASSUME NEW query, NEW row, Matches(row, query),
           \A i \in DOMAIN query : IsPredicate(query[i]),
           NEW ranges, DOMAIN ranges \subseteq Columns,
           \A c \in DOMAIN ranges :
               /\ row[c] \in Int /\ ranges[c].lo \in Int /\ ranges[c].hi \in Int
               /\ ranges[c].lo <= row[c] /\ row[c] <= ranges[c].hi
    PROVE  CanMatch(ranges, query)
<1> SUFFICES ASSUME NEW i \in DOMAIN query, query[i].column \in DOMAIN ranges
             PROVE  /\ query[i].high >= ranges[query[i].column].lo
                    /\ query[i].low <= ranges[query[i].column].hi
  BY DEF CanMatch
<1>1. Hit(query[i], row[query[i].column])
  BY DEF Matches
<1>2. query[i].low <= row[query[i].column] /\ row[query[i].column] <= query[i].high
  BY <1>1, HitBetween
<1> QED
  BY <1>2 DEF IsPredicate

-----------------------------------------------------------------------------
(* range_search *)

LEMMA SharesEnd ==
    ASSUME NEW size \in Nat, NEW nt \in Nat \ {0}, NEW t \in 0..nt
    PROVE  /\ (size * t) \div nt \in 0..size
           /\ (size * 0) \div nt = 0
           /\ (size * nt) \div nt = size
<1> DEFINE a == size * t
           b == size * nt
<1>1. a \in Nat /\ b \in Nat /\ a <= b /\ size * 0 = 0
  <2>1. t <= nt
    OBVIOUS
  <2> QED BY <2>1, SMTT(30)
<1>2. b \div nt = size
  BY SMTT(30)
<1> HIDE DEF a, b
<1>3. a \div nt <= b \div nt
  BY <1>1, SMTT(30)
<1>4. a \div nt \in Int /\ a \div nt >= 0
  BY <1>1, SMTT(30)
<1>5. 0 \div nt = 0
  BY SMTT(30)
<1> QED BY <1>1, <1>2, <1>3, <1>4, <1>5 DEF a, b

(* csv_store.cpp:124-188: however many threads share the loop, the rows that
   match are found once and in order. *)
LEMMA RangeSearchIs ==
    ASSUME NEW T, NEW s \in Seq(T), NEW query, NEW nt \in Nat \ {0}
    PROVE  RangeSearch(s, query, nt) = Filter(s, Matching(s, query))
<1> DEFINE n == Len(s)
           M == Matching(s, query)
           c == [t \in 0..nt |-> (n * t) \div nt]
           upto(hi) == SubSeq(s, 0 + 1, hi)
           P == [t \in 1..nt |-> Scanned(s, query, nt, t)]
           found(m) == FlattenSeq([t \in 1..m |-> P[t]])
           Q(m) == found(m) = Filter(upto(c[m]), M)
           A == {m \in Nat : m <= nt => Q(m)}
<1>1. n \in Nat
  BY LenProperties
<1>2. c[0] = 0 /\ c[nt] = n /\ \A t \in 0..nt : c[t] \in 0..n
  BY <1>1, SharesEnd
<1>3. \A t \in 1..nt : c[t - 1] <= c[t]
  <2> SUFFICES ASSUME NEW t \in 1..nt PROVE c[t - 1] <= c[t]
    OBVIOUS
  <2> DEFINE u == t - 1
  <2>1. u \in Nat /\ u + 1 = t /\ u \in 0..nt /\ t \in 0..nt
    OBVIOUS
  <2> HIDE DEF u, n
  <2>2. (n * u) \div nt <= (n * (u + 1)) \div nt
    BY <1>1, <2>1, SharesGrow
  <2>3. c[u] <= c[t]
    BY <2>1, <2>2
  <2> QED BY <2>3 DEF u
<1>4. \A t \in 1..nt : P[t] = Filter(SubSeq(s, c[t - 1] + 1, c[t]), M)
  <2> SUFFICES ASSUME NEW t \in 1..nt PROVE P[t] = Filter(SubSeq(s, c[t - 1] + 1, c[t]), M)
    OBVIOUS
  <2>1. t - 1 \in 0..nt /\ t \in 0..nt
    OBVIOUS
  <2>2. c[t - 1] = (Len(s) * (t - 1)) \div nt /\ c[t] = (Len(s) * t) \div nt
    BY <2>1
  <2> HIDE DEF c
  <2> QED BY <2>2 DEF Scanned
<1> HIDE DEF n, M, c, P
<1>5. \A t \in 1..nt : P[t] \in Seq(T)
  <2> SUFFICES ASSUME NEW t \in 1..nt PROVE P[t] \in Seq(T)
    OBVIOUS
  <2> DEFINE lo == c[t - 1]
             hi == c[t]
  <2>1. t - 1 \in 0..nt /\ t \in 0..nt
    OBVIOUS
  <2>2. lo \in Nat /\ hi \in Nat /\ lo <= hi /\ hi <= Len(s) /\ P[t] = Filter(SubSeq(s, lo + 1, hi), M)
    BY <1>1, <1>2, <1>3, <1>4, <2>1 DEF n
  <2> HIDE DEF lo, hi
  <2>3. SubSeq(s, lo + 1, hi) \in Seq(T)
    BY <2>2, PartIs
  <2> QED BY <2>2, <2>3, FilterSeq
<1>6. 0 \in A
  <2>1. upto(0) = <<>>
    BY SubSeqEmpty
  <2>2. found(0) = <<>>
    BY FlattenEmpty
  <2> HIDE DEF found, upto
  <2> QED BY <1>2, <2>1, <2>2, FilterEmpty
<1>7. ASSUME NEW m \in Nat, m \in A PROVE m + 1 \in A
  <2> SUFFICES ASSUME m + 1 <= nt PROVE Q(m + 1)
    OBVIOUS
  <2> DEFINE lo == c[m]
             hi == c[m + 1]
             a == upto(lo)
             b == SubSeq(s, lo + 1, hi)
  <2>1. m + 1 \in 1..nt /\ m \in 0..nt /\ m + 1 \in 0..nt /\ (m + 1) - 1 = m /\ Q(m)
    BY <1>7
  <2>2. lo \in Nat /\ hi \in Nat /\ lo <= hi /\ hi <= Len(s) /\ P[m + 1] = Filter(b, M)
    BY <1>1, <1>2, <1>3, <1>4, <2>1 DEF n
  <2>3. found(m + 1) = found(m) \o P[m + 1]
    <3> DEFINE R == [t \in 1..(m + 1) |-> P[t]]
    <3>1. R \in [1..(m + 1) -> Seq(T)]
      BY <1>5, <2>1
    <3>2. [t \in 1..m |-> R[t]] = [t \in 1..m |-> P[t]] /\ R[m + 1] = P[m + 1]
      OBVIOUS
    <3> HIDE DEF R
    <3>3. FlattenSeq(R) = FlattenSeq([t \in 1..m |-> P[t]]) \o P[m + 1]
      BY <3>1, <3>2, FlattenStep
    <3> QED BY <3>3 DEF R
  <2>4. a \in Seq(T) /\ b \in Seq(T) /\ a \o b = upto(hi)
    <3> HIDE DEF lo, hi
    <3>1. 0 \in Nat /\ 0 <= lo /\ lo <= Len(s)
      BY <1>1, <2>2 DEF n
    <3>2. a \in Seq(T)
      BY <2>2, <3>1, PartIs
    <3>3. b \in Seq(T)
      BY <2>2, PartIs
    <3>4. a \o b = upto(hi)
      BY <2>2, <3>1, Parts
    <3> QED BY <3>2, <3>3, <3>4
  <2>5. found(m) = Filter(a, M)
    BY <2>1
  <2> HIDE DEF found, upto, a, b, lo, hi
  <2>6. Filter(a \o b, M) = Filter(a, M) \o Filter(b, M)
    <3>1. a \in Seq(T) /\ b \in Seq(T)
      BY <2>4
    <3> QED BY <3>1, FilterConcat
  <2>7. found(m + 1) = Filter(upto(hi), M)
    BY <2>2, <2>3, <2>4, <2>5, <2>6
  <2> QED BY <2>7 DEF hi
<1> HIDE DEF A
<1>8. \A m \in Nat : m \in A
  BY <1>6, <1>7, NatInduct
<1>9. Q(nt)
  BY <1>8 DEF A
<1>10. [t \in 1..nt |-> P[t]] = [t \in 1..nt |-> Scanned(s, query, nt, t)]
  BY DEF P
<1>11. found(nt) = RangeSearch(s, query, nt)
  BY <1>10 DEF RangeSearch
<1>12. upto(c[nt]) = s
  <2>1. SubSeq(s, 1, Len(s)) = s
    BY SubSeqFull
  <2> QED BY <1>2, <2>1 DEF n
<1> HIDE DEF found, upto
<1> QED BY <1>9, <1>11, <1>12 DEF M

-----------------------------------------------------------------------------
(* The pre-filter *)

(* A column of a shard has a least and a greatest value, unless no slot holds
   a row. *)
Values(s, c) == {r[c] : r \in ToSet(s) \ {Invalid}}

LEMMA RangeExists ==
    ASSUME NEW c \in Columns
    PROVE  \A s \in Seq(SlotType) :
              Values(s, c) # {} => /\ \E x \in Values(s, c) : \A y \in Values(s, c) : x <= y
                                   /\ \E x \in Values(s, c) : \A y \in Values(s, c) : x >= y
<1> DEFINE X(s) == Values(s, c)
           Q(s) == /\ X(s) \subseteq Int
                   /\ X(s) # {} => /\ \E x \in X(s) : \A y \in X(s) : x <= y
                                   /\ \E x \in X(s) : \A y \in X(s) : x >= y
           A == {s \in Seq(SlotType) : Q(s)}
<1>1. <<>> \in A
  <2>1. X(<<>>) = {}
    BY DEF Values, ToSet
  <2> QED BY <2>1, EmptySeq
<1>2. ASSUME NEW s \in Seq(SlotType), NEW e \in SlotType, s \in A PROVE Append(s, e) \in A
  <2>1. Append(s, e) \in Seq(SlotType)
    BY AppendProperties
  <2>2. ToSet(Append(s, e)) = ToSet(s) \cup {e}
    BY ToSetAppend
  <2>3. Q(s)
    BY <1>2
  <2> DEFINE x == X(s)
             y == X(Append(s, e))
  <2>4. CASE e = Invalid
    <3>1. y = x
      BY <2>2, <2>4 DEF Values
    <3> QED BY <2>1, <2>3, <3>1
  <2>5. CASE e # Invalid
    <3> DEFINE v == e[c]
    <3>1. y = x \cup {v}
      BY <2>2, <2>5 DEF Values
    <3>2. v \in Int
      BY <2>5 DEF SlotType
    <3> HIDE DEF x, y, v
    <3>3. /\ x \subseteq Int
          /\ x # {} => /\ \E p \in x : \A q \in x : p <= q
                       /\ \E p \in x : \A q \in x : p >= q
      BY <2>3 DEF x
    <3>4. y \subseteq Int
      BY <3>1, <3>2, <3>3
    <3>5. CASE x = {}
      BY <2>1, <3>1, <3>2, <3>4, <3>5 DEF y
    <3>6. CASE x # {}
      <4>1. PICK p \in x : \A q \in x : p <= q
        BY <3>3, <3>6
      <4>2. PICK r \in x : \A q \in x : r >= q
        BY <3>3, <3>6
      <4>3. \E l \in y : \A q \in y : l <= q
        <5>1. CASE v < p
          <6>1. v \in y /\ \A q \in y : v <= q
            BY <3>1, <3>2, <3>3, <4>1, <5>1
          <6> QED BY <6>1
        <5>2. CASE ~(v < p)
          <6>1. p \in y /\ \A q \in y : p <= q
            BY <3>1, <3>2, <3>3, <4>1, <5>2
          <6> QED BY <6>1
        <5> QED BY <5>1, <5>2
      <4>4. \E l \in y : \A q \in y : l >= q
        <5>1. CASE v > r
          <6>1. v \in y /\ \A q \in y : v >= q
            BY <3>1, <3>2, <3>3, <4>2, <5>1
          <6> QED BY <6>1
        <5>2. CASE ~(v > r)
          <6>1. r \in y /\ \A q \in y : r >= q
            BY <3>1, <3>2, <3>3, <4>2, <5>2
          <6> QED BY <6>1
        <5> QED BY <5>1, <5>2
      <4> QED BY <2>1, <3>4, <4>3, <4>4 DEF y
    <3> QED BY <3>5, <3>6
  <2> QED BY <2>4, <2>5
<1> HIDE DEF A
<1>3. \A s \in Seq(SlotType) : s \in A
  BY <1>1, <1>2, SeqInduct
<1> QED BY <1>3 DEF A

(* A query that fails the pre-filter matches no row, also if some columns have
   no range yet. *)
LEMMA SkippedIsEmpty ==
    ASSUME NEW s \in Seq(SlotType), NEW query \in QueryType, NEW ranges,
           DOMAIN ranges \subseteq DOMAIN ColumnRanges(s),
           \A c \in DOMAIN ranges : ranges[c] = ColumnRanges(s)[c],
           ~CanMatch(ranges, query)
    PROVE  Matching(s, query) = {}
<1>1. ASSUME NEW row \in ToSet(s), Matches(row, query) PROVE FALSE
  <2>1. \A i \in DOMAIN query : IsPredicate(query[i])
    <3>1. \A i \in 1..Len(query) :
             query[i] \in [column : STRING, low : Int, high : Int, inclusive : BOOLEAN]
      BY ElementOfSeq DEF QueryType
    <3> QED BY <3>1, LenProperties DEF QueryType, IsPredicate
  <2>2. DOMAIN ranges \subseteq Columns
    BY DEF ColumnRanges
  <2>3. ASSUME NEW c \in DOMAIN ranges
        PROVE  /\ row[c] \in Int /\ ranges[c].lo \in Int /\ ranges[c].hi \in Int
               /\ ranges[c].lo <= row[c] /\ row[c] <= ranges[c].hi
    <3> DEFINE X == Values(s, c)
    <3>1. c \in Columns
      BY <2>2
    <3>2. \A r \in ToSet(s) : r # Invalid => r[c] \in Int
      <4>1. \A r \in ToSet(s) : r \in SlotType
        BY ElementOfSeq, LenProperties DEF ToSet
      <4> QED BY <3>1, <4>1 DEF SlotType
    <3>3. row[c] \in X /\ X \subseteq Int
      BY <1>1, <3>2 DEF Matches, Values
    <3>4. /\ \E x \in X : \A y \in X : x <= y
          /\ \E x \in X : \A y \in X : x >= y
      BY <3>1, <3>3, RangeExists
    <3>5. ranges[c] = [lo |-> Min(X), hi |-> Max(X)]
      BY DEF ColumnRanges, Values
    <3> HIDE DEF X
    <3>6. Min(X) \in X /\ \A y \in X : Min(X) <= y
      BY <3>4 DEF Min
    <3>7. Max(X) \in X /\ \A y \in X : Max(X) >= y
      BY <3>4 DEF Max
    <3>8. Min(X) \in Int /\ Max(X) \in Int /\ Min(X) <= row[c] /\ row[c] <= Max(X)
      <4> DEFINE least == Min(X)
                 most  == Max(X)
      <4> HIDE DEF least, most
      <4>1. least \in Int /\ most \in Int /\ least <= row[c] /\ most >= row[c] /\ row[c] \in Int
        BY <3>3, <3>6, <3>7 DEF least, most
      <4>2. row[c] <= most
        BY <4>1
      <4> QED BY <4>1, <4>2 DEF least, most
    <3>9. ranges[c].lo = Min(X) /\ ranges[c].hi = Max(X)
      BY <3>5
    <3>10. row[c] \in Int
      BY <3>3
    <3> QED BY <3>8, <3>9, <3>10, Zenon
  <2> QED BY <1>1, <2>1, <2>2, <2>3, PrefilterSound
<1> QED BY <1>1 DEF Matching

(* node.cpp:625-647: what a C++ owner keeps for a query is what a scan of its
   rows, one by one, would find: the pre-filter and the threads change nothing. *)
THEOREM MatchedIs ==
    ASSUME NEW s \in Seq(SlotType), NEW query \in QueryType, NEW nt \in Nat \ {0}
    PROVE  Matched(s, query, nt) = Filter(s, Matching(s, query))
<1>1. CASE CanMatch(ColumnRanges(s), query)
  BY <1>1, RangeSearchIs DEF Matched
<1>2. CASE ~CanMatch(ColumnRanges(s), query)
  <2>1. Matching(s, query) = {}
    <3> DEFINE R == ColumnRanges(s)
    <3>1. DOMAIN R \subseteq DOMAIN ColumnRanges(s) /\ \A c \in DOMAIN R : R[c] = ColumnRanges(s)[c]
      OBVIOUS
    <3>2. ~CanMatch(R, query)
      BY <1>2
    <3> HIDE DEF R
    <3> QED BY <3>1, <3>2, SkippedIsEmpty
  <2>2. \A i \in 1..Len(s) : s[i] \notin Matching(s, query)
    BY <2>1
  <2>3. Filter(s, Matching(s, query)) = <<>>
    BY <2>2, FilterNone
  <2> QED BY <1>2, <2>3 DEF Matched
<1> QED BY <1>1, <1>2

-----------------------------------------------------------------------------
(* The search of a Python owner *)

(* A set of positions with all positions before them. *)
LEMMA PrefixIs ==
    ASSUME NEW n \in Nat, NEW D, D \subseteq 1..n,
           \A j \in D : \A i \in 1..n : i <= j => i \in D
    PROVE  Cardinality(D) \in 0..n /\ D = 1..Cardinality(D)
<1>1. \E m \in 0..n : D = 1..m
  <2> DEFINE C == (1..n) \ D
  <2>1. CASE C = {}
    <3>1. D = 1..n
      BY <2>1
    <3> QED BY <3>1
  <2>2. CASE C # {}
    <3>1. C \subseteq Nat
      OBVIOUS
    <3>2. PICK m \in C : \A k \in C : m <= k
      <4> HIDE DEF C
      <4> QED BY <2>2, <3>1, LeastNat
    <3>3. m \in 1..n /\ m \notin D
      OBVIOUS
    <3>4. \A k \in 1..n : k \in D <=> k < m
      <4> SUFFICES ASSUME NEW k \in 1..n PROVE k \in D <=> k < m
        OBVIOUS
      <4>1. k \in D => ~ (m <= k)
        BY <3>3
      <4>2. k \notin D => m <= k
        BY <3>2
      <4> QED BY <3>3, <4>1, <4>2
    <3>5. D = 1..(m - 1)
      <4> HIDE DEF C
      <4>1. \A k : k \in D <=> k \in 1..(m - 1)
        <5> SUFFICES ASSUME NEW k PROVE k \in D <=> k \in 1..(m - 1)
          OBVIOUS
        <5>1. k \in D => k \in 1..n
          OBVIOUS
        <5>2. k \in 1..(m - 1) <=> k \in 1..n /\ k < m
          BY <3>3
        <5> QED BY <3>4, <5>1, <5>2
      <4> QED BY <4>1
    <3>6. m - 1 \in 0..n
      BY <3>3
    <3> QED BY <3>5, <3>6
  <2> QED BY <2>1, <2>2
<1>2. PICK m \in 0..n : D = 1..m
  BY <1>1
<1>3. Cardinality(1..m) = IF 1 > m THEN 0 ELSE m - 1 + 1
  BY FS_Interval
<1>4. Cardinality(D) = m
  BY <1>2, <1>3
<1> QED BY <1>2, <1>4

SortedBy(s, column) ==
    \A i, j \in 1..Len(s) : i <= j => s[i][column] <= s[j][column]

(* py/server/node.py:224: on a sorted column, bisection finds the rows in the
   window of a predicate. *)
LEMMA WindowIs ==
    ASSUME NEW s \in Seq(Row), NEW p, IsPredicate(p), p.column \in Columns,
           SortedBy(s, p.column)
    PROVE  \E lo, hi \in 0..Len(s) :
              /\ Window(s, p) = SubSeq(s, lo + 1, hi)
              /\ \A i \in 1..Len(s) : Hit(p, s[i][p.column]) <=> lo < i /\ i <= hi
<1> DEFINE n == Len(s)
           col == p.column
           key == [i \in 1..n |-> s[i][col]]
           less(v) == {i \in 1..n : key[i] < v}
           upto(v) == {i \in 1..n : key[i] <= v}
<1>1. n \in Nat /\ DOMAIN s = 1..n /\ \A i \in 1..n : s[i][col] \in Int
  <2>1. n \in Nat /\ DOMAIN s = 1..n /\ \A i \in 1..n : s[i] \in Row
    BY LenProperties, ElementOfSeq
  <2> QED BY <2>1 DEF Row
<1>2. p.low \in Int /\ p.high \in Int /\ p.inclusive \in BOOLEAN
  BY DEF IsPredicate
<1>3. \A i \in 1..n : key[i] \in Int /\ key[i] = s[i][col]
  BY <1>1
<1>4. \A i, j \in 1..n : i <= j => key[i] <= key[j]
  BY DEF SortedBy
<1>5. ASSUME NEW v \in Int
      PROVE  /\ Below(s, col, v) = Cardinality(less(v))
             /\ NotAbove(s, col, v) = Cardinality(upto(v))
  <2>1. {i \in DOMAIN s : s[i][col] < v} = less(v) /\ {i \in DOMAIN s : s[i][col] <= v} = upto(v)
    BY <1>1
  <2> QED BY <2>1 DEF Below, NotAbove
<1> HIDE DEF n, col, key
<1>6. ASSUME NEW v \in Int
      PROVE  /\ Below(s, col, v) \in 0..n
             /\ \A i \in 1..n : key[i] < v <=> i <= Below(s, col, v)
  <2> DEFINE D == less(v)
  <2>1. D \subseteq 1..n /\ \A j \in D : \A i \in 1..n : i <= j => i \in D
    <3>1. ASSUME NEW j \in D, NEW i \in 1..n, i <= j PROVE i \in D
      <4>1. key[i] <= key[j] /\ key[j] < v /\ key[i] \in Int /\ key[j] \in Int
        BY <1>3, <1>4, <3>1
      <4> QED BY <4>1
    <3> QED BY <3>1
  <2>2. \A i \in 1..n : i \in D <=> key[i] < v
    OBVIOUS
  <2> HIDE DEF D
  <2>3. Cardinality(D) \in 0..n /\ D = 1..Cardinality(D)
    BY <1>1, <2>1, PrefixIs
  <2>4. \A i \in 1..n : key[i] < v <=> i <= Cardinality(D)
    BY <1>1, <2>2, <2>3
  <2> QED BY <1>5, <2>3, <2>4 DEF D
<1>7. ASSUME NEW v \in Int
      PROVE  /\ NotAbove(s, col, v) \in 0..n
             /\ \A i \in 1..n : key[i] <= v <=> i <= NotAbove(s, col, v)
  <2> DEFINE D == upto(v)
  <2>1. D \subseteq 1..n /\ \A j \in D : \A i \in 1..n : i <= j => i \in D
    <3>1. ASSUME NEW j \in D, NEW i \in 1..n, i <= j PROVE i \in D
      <4>1. key[i] <= key[j] /\ key[j] <= v /\ key[i] \in Int /\ key[j] \in Int
        BY <1>3, <1>4, <3>1
      <4> QED BY <4>1
    <3> QED BY <3>1
  <2>2. \A i \in 1..n : i \in D <=> key[i] <= v
    OBVIOUS
  <2> HIDE DEF D
  <2>3. Cardinality(D) \in 0..n /\ D = 1..Cardinality(D)
    BY <1>1, <2>1, PrefixIs
  <2>4. \A i \in 1..n : key[i] <= v <=> i <= Cardinality(D)
    BY <1>1, <2>2, <2>3
  <2> QED BY <1>5, <2>3, <2>4 DEF D
<1>8. CASE p.inclusive
  <2> DEFINE lo == Below(s, col, p.low)
             hi == NotAbove(s, col, p.high)
  <2>1. Window(s, p) = SubSeq(s, lo + 1, hi)
    BY <1>8 DEF Window, col
  <2>2. lo \in 0..n /\ hi \in 0..n
    BY <1>2, <1>6, <1>7
  <2>3. ASSUME NEW i \in 1..n PROVE Hit(p, s[i][col]) <=> lo < i /\ i <= hi
    <3>1. key[i] < p.low <=> i <= lo
      BY <1>2, <1>6
    <3>2. key[i] <= p.high <=> i <= hi
      BY <1>2, <1>7
    <3>3. key[i] \in Int /\ key[i] = s[i][col]
      BY <1>3
    <3>4. Hit(p, key[i]) <=> p.low <= key[i] /\ key[i] <= p.high
      BY <1>8 DEF Hit
    <3> HIDE DEF lo, hi
    <3> QED BY <1>1, <1>2, <2>2, <3>1, <3>2, <3>3, <3>4
  <2> HIDE DEF lo, hi
  <2> QED BY <2>1, <2>2, <2>3 DEF n, col
<1>9. CASE ~p.inclusive
  <2> DEFINE lo == NotAbove(s, col, p.low)
             hi == Below(s, col, p.high)
  <2>1. Window(s, p) = SubSeq(s, lo + 1, hi)
    BY <1>9 DEF Window, col
  <2>2. lo \in 0..n /\ hi \in 0..n
    BY <1>2, <1>6, <1>7
  <2>3. ASSUME NEW i \in 1..n PROVE Hit(p, s[i][col]) <=> lo < i /\ i <= hi
    <3>1. key[i] <= p.low <=> i <= lo
      BY <1>2, <1>7
    <3>2. key[i] < p.high <=> i <= hi
      BY <1>2, <1>6
    <3>3. key[i] \in Int /\ key[i] = s[i][col]
      BY <1>3
    <3>4. Hit(p, key[i]) <=> p.low < key[i] /\ key[i] < p.high
      BY <1>9 DEF Hit
    <3> HIDE DEF lo, hi
    <3> QED BY <1>1, <1>2, <2>2, <3>1, <3>2, <3>3, <3>4
  <2> HIDE DEF lo, hi
  <2> QED BY <2>1, <2>2, <2>3 DEF n, col
<1> QED BY <1>8, <1>9

(* py/server/node.py:230-302: on a shard that is sorted by the column the shards
   are cut along, the window and the scan of its rows find what a scan of all rows
   finds, in the same order. *)
THEOREM PyRangeSearchIs ==
    ASSUME NEW s \in Seq(Row), NEW query \in QueryType, NEW column,
           column \in Columns => SortedBy(s, column)
    PROVE  PyRangeSearch(s, query, column) = Filter(s, Matching(s, query))
<1> DEFINE M == Matching(s, query)
           sorting == {i \in DOMAIN query : query[i].column = column}
           Others(I) == {row \in ToSet(s) : \A i \in I : Hit(query[i], row[query[i].column])}
<1>1. /\ Len(s) \in Nat /\ DOMAIN s = 1..Len(s)
      /\ \A i \in 1..Len(s) : s[i] \in Row /\ s[i] # Invalid /\ s[i] \in ToSet(s)
  <2>1. Len(s) \in Nat /\ DOMAIN s = 1..Len(s) /\ \A i \in 1..Len(s) : s[i] \in Row
    BY LenProperties, ElementOfSeq
  <2> QED BY <2>1, InvalidIsNoRow DEF Row, ToSet
<1>2. DOMAIN query = 1..Len(query) /\ Len(query) \in Nat /\ \A i \in DOMAIN query : IsPredicate(query[i])
  <2>1. \A i \in 1..Len(query) :
           query[i] \in [column : STRING, low : Int, high : Int, inclusive : BOOLEAN]
    BY ElementOfSeq DEF QueryType
  <2> QED BY <2>1, LenProperties DEF QueryType, IsPredicate
<1>3. CASE \E i \in DOMAIN query : query[i].column \notin Columns
  <2>1. \A i \in 1..Len(s) : s[i] \notin M
    BY <1>3 DEF Matching, Matches
  <2> HIDE DEF M
  <2>2. Filter(s, M) = <<>>
    BY <2>1, FilterNone
  <2> QED BY <1>3, <2>2 DEF PyRangeSearch, M
<1>4. CASE \A i \in DOMAIN query : query[i].column \in Columns
  <2>1. \A row \in ToSet(s) :
           row # Invalid => (row \in M <=> row \in Others(DOMAIN query))
    BY <1>4 DEF Matching, Matches
  <2>2. CASE sorting = {}
    <3>1. PyRangeSearch(s, query, column) = Filter(s, Others(DOMAIN query))
      BY <1>4, <2>2 DEF PyRangeSearch
    <3>2. \A i \in 1..Len(s) : s[i] \in Others(DOMAIN query) <=> s[i] \in M
      BY <1>1, <2>1
    <3> DEFINE O == Others(DOMAIN query)
    <3> HIDE DEF O, M
    <3>3. Filter(s, O) = Filter(s, M)
      <4>1. \A i \in 1..Len(s) : s[i] \in O <=> s[i] \in M
        BY <3>2 DEF O
      <4> QED BY <4>1, FilterSame
    <3> QED BY <3>1, <3>3 DEF O, M
  <2>3. CASE sorting # {}
    <3> DEFINE first == Min(sorting)
               p == query[first]
               others == DOMAIN query \ {first}
               O == Others(others)
    <3>1. first \in DOMAIN query /\ p.column = column
      <4>1. sorting \subseteq Nat
        BY <1>2
      <4>2. Min(sorting) \in sorting
        <5> HIDE DEF sorting
        <5> QED BY <2>3, <4>1, MinOfNat
      <4> QED BY <4>2
    <3>2. PyRangeSearch(s, query, column) = Filter(Window(s, p), O)
      BY <1>4, <2>3 DEF PyRangeSearch
    <3>3. \A i \in 1..Len(s) : s[i] \in M <=> s[i] \in O /\ Hit(p, s[i][column])
      <4> SUFFICES ASSUME NEW i \in 1..Len(s)
                   PROVE  s[i] \in M <=> s[i] \in O /\ Hit(p, s[i][column])
        OBVIOUS
      <4>1. s[i] \in M <=> s[i] \in Others(DOMAIN query)
        BY <1>1, <2>1
      <4>2. DOMAIN query = others \cup {first}
        BY <3>1
      <4> HIDE DEF first, others
      <4>3. s[i] \in Others(DOMAIN query) <=> s[i] \in O /\ Hit(p, s[i][p.column])
        BY <1>1, <4>2
      <4> QED BY <3>1, <4>1, <4>3
    <3> HIDE DEF first, p, M, O, others
    <3>4. IsPredicate(p) /\ p.column \in Columns /\ SortedBy(s, p.column)
      BY <1>2, <1>4, <3>1 DEF p
    <3>5. PICK lo, hi \in 0..Len(s) :
              /\ Window(s, p) = SubSeq(s, lo + 1, hi)
              /\ \A i \in 1..Len(s) : Hit(p, s[i][p.column]) <=> lo < i /\ i <= hi
      BY <3>4, WindowIs
    <3>6. CASE lo <= hi
      <4> DEFINE part == SubSeq(s, lo + 1, hi)
      <4>1. lo \in Nat /\ hi \in Nat /\ hi <= Len(s)
        BY <1>1, <3>5
      <4>2. \A i \in 1..Len(s) : i <= lo \/ i > hi => s[i] \notin M
        BY <1>1, <3>1, <3>3, <3>5, <4>1
      <4>3. Filter(s, M) = Filter(part, M)
        BY <3>6, <4>1, <4>2, FilterMiddle
      <4>4. /\ part \in Seq(Row) /\ Len(part) = hi - lo
            /\ \A i \in 1..(hi - lo) : part[i] = s[lo + i]
        BY <3>6, <4>1, PartIs
      <4>5. \A i \in 1..Len(part) : part[i] \in O <=> part[i] \in M
        <5> SUFFICES ASSUME NEW i \in 1..Len(part) PROVE part[i] \in O <=> part[i] \in M
          OBVIOUS
        <5> DEFINE k == lo + i
        <5>1. k \in 1..Len(s) /\ lo < k /\ k <= hi /\ part[i] = s[k]
          <6> HIDE DEF part
          <6> QED BY <1>1, <3>6, <4>1, <4>4
        <5> HIDE DEF k, part
        <5> QED BY <3>1, <3>3, <3>5, <5>1
      <4> HIDE DEF part
      <4>6. Filter(part, O) = Filter(part, M)
        BY <4>4, <4>5, FilterSame
      <4> QED BY <3>2, <3>5, <4>3, <4>6 DEF part, M
    <3>7. CASE lo > hi
      <4>1. SubSeq(s, lo + 1, hi) = <<>>
        BY <1>1, <3>5, <3>7, SubSeqEmpty
      <4>2. \A i \in 1..Len(s) : s[i] \notin M
        BY <1>1, <3>1, <3>3, <3>5, <3>7
      <4>3. Filter(s, M) = <<>>
        BY <4>2, FilterNone
      <4>4. Filter(<<>>, O) = <<>>
        BY FilterEmpty
      <4> QED BY <3>2, <3>5, <4>1, <4>3, <4>4 DEF M
    <3> QED BY <1>1, <3>5, <3>6, <3>7
  <2> QED BY <2>2, <2>3
<1> QED BY <1>3, <1>4

(* py/server/node.py:211 and 498: the pre-filter drops no row of a Python owner,
   whichever column ranges it has computed yet. *)
THEOREM PyMatchedIs ==
    ASSUME NEW s \in Seq(Row), NEW query \in QueryType, NEW column, NEW known,
           column \in Columns => SortedBy(s, column)
    PROVE  PyMatched(s, query, column, known) = Filter(s, Matching(s, query))
<1> DEFINE R == ColumnRanges(s)
           K == [c \in DOMAIN R \cap known |-> R[c]]
<1>1. s \in Seq(SlotType)
  <2>1. Row \subseteq SlotType
    BY DEF Row, SlotType
  <2> QED BY <2>1, LenProperties, ElementOfSeq, IsASeq
<1>2. CASE CanMatch(K, query)
  BY <1>2, PyRangeSearchIs DEF PyMatched
<1>3. CASE ~CanMatch(K, query)
  <2>1. DOMAIN K \subseteq DOMAIN R /\ \A c \in DOMAIN K : K[c] = R[c]
    OBVIOUS
  <2> HIDE DEF K
  <2>2. Matching(s, query) = {}
    BY <1>1, <1>3, <2>1, SkippedIsEmpty
  <2>3. \A i \in 1..Len(s) : s[i] \notin Matching(s, query)
    BY <2>2
  <2>4. Filter(s, Matching(s, query)) = <<>>
    BY <2>3, FilterNone
  <2> QED BY <1>3, <2>4 DEF PyMatched, K
<1> QED BY <1>2, <1>3
=============================================================================
