-------------------------- MODULE DataOwnerProofs --------------------------
(***************************************************************************)
(* Every action of a data owner keeps the types of its state, the producer *)
(* inside matched_indices and the deque inside kMaxBuffered.  The modules  *)
(* that use DataOwner cite these lemmas, one for each action.              *)
(***************************************************************************)
EXTENDS DataOwner, SequenceTheorems, TLAPS

(* There is another row to push in this turn, unless it is cancelled. *)
InTurn(n) == producer[n] \in {"check", "push"}

(* The producer stays inside matched_indices, all of its turn. *)
CursorInRange ==
    \A n \in Nodes :
        /\ matched_cursor[n] <= NRows[n]
        /\ InTurn(n) => /\ matched_cursor[n] + quota[n] <= NRows[n]
                        /\ quota[n] > 0

(* While rows are being pushed there is room for one: what the check before
   the turn and the check after each row add up to. *)
BufferRoom ==
    \A n \in Nodes :
        /\ Len(matched[n]) <= MaxBuffered
        /\ InTurn(n) => Len(matched[n]) < MaxBuffered

OwnerInv == OwnerTypeOK /\ CursorInRange /\ BufferRoom

(* The facts about the constants and the types that the lemmas start from. *)
LEMMA OwnerFacts ==
    ASSUME OwnerInv, NEW n \in Nodes
    PROVE  /\ NRows[n] \in Nat /\ matched_cursor[n] \in Nat
           /\ quota[n] \in 0..Batch
           /\ matched[n] \in Seq(Nat) /\ Len(matched[n]) \in Nat
           /\ MaxBuffered \in Nat \ {0} /\ Batch \in Nat \ {0}
           /\ n \in Nodes \ HasPart => NRows[n] = 0
<1>1. matched[n] \in Seq(Nat)
  BY DEF OwnerInv, OwnerTypeOK
<1>2. Len(matched[n]) \in Nat
  BY <1>1, LenProperties
<1> QED BY <1>1, <1>2, OwnerAssumption DEF OwnerInv, OwnerTypeOK

LEMMA RemoteIsNode == Remote \subseteq Nodes
BY DEF Remote, Nodes

-----------------------------------------------------------------------------
(* Sequences of rows. *)

(* The first k rows and one more. *)
LEMMA NextRow ==
    ASSUME NEW k \in Nat
    PROVE  /\ Rows(k) \in Seq(Nat)
           /\ Append(Rows(k), k + 1) = Rows(k + 1)
<1>1. Rows(k) \in Seq(Nat) /\ Len(Rows(k)) = k
  BY DEF Rows
<1>2. Rows(k + 1) \in Seq(Nat) /\ Len(Rows(k + 1)) = k + 1
  BY DEF Rows
<1>3. /\ Append(Rows(k), k + 1) \in Seq(Nat)
      /\ Len(Append(Rows(k), k + 1)) = k + 1
      /\ \A i \in 1..k : Append(Rows(k), k + 1)[i] = Rows(k)[i]
      /\ Append(Rows(k), k + 1)[k + 1] = k + 1
  BY <1>1, AppendProperties
<1>4. \A i \in 1..(k + 1) : Append(Rows(k), k + 1)[i] = Rows(k + 1)[i]
  BY <1>3 DEF Rows
<1> QED BY <1>1, <1>2, <1>3, <1>4, SeqEqual

LEMMA RowsAssociate ==
    \A s, t, u \in Seq(Nat) : (s \o t) \o u = s \o (t \o u)
BY ConcatAssociative, SMTT(20)

LEMMA ConcatAppend ==
    ASSUME NEW s \in Seq(Nat), NEW t \in Seq(Nat), NEW e \in Nat
    PROVE  s \o Append(t, e) = Append(s \o t, e)
<1>1. <<e>> \in Seq(Nat) /\ s \o t \in Seq(Nat)
  <2>1. <<e>> \in Seq(Nat)
    OBVIOUS
  <2>2. s \o t \in Seq(Nat)
    BY ConcatProperties
  <2> QED BY <2>1, <2>2
<1>2. Append(t, e) = t \o <<e>>
  BY AppendIsConcat, Zenon
<1>3. Append(s \o t, e) = (s \o t) \o <<e>>
  BY <1>1, AppendIsConcat, Zenon
<1>4. (s \o t) \o <<e>> = s \o (t \o <<e>>)
  BY <1>1, RowsAssociate, Zenon
<1> QED BY <1>2, <1>3, <1>4, Zenon

LEMMA NoRows == Rows(0) = <<>>
<1>1. Rows(0) \in Seq(Nat) /\ Len(Rows(0)) = 0
  BY DEF Rows
<1> QED BY <1>1, EmptySeq

(* A sequence of rows cut in two. *)
LEMMA Split ==
    ASSUME NEW s \in Seq(Nat), NEW k \in 0..Len(s)
    PROVE  /\ SubSeq(s, 1, k) \in Seq(Nat) /\ Len(SubSeq(s, 1, k)) = k
           /\ SubSeq(s, k + 1, Len(s)) \in Seq(Nat)
           /\ Len(SubSeq(s, k + 1, Len(s))) = Len(s) - k
           /\ SubSeq(s, 1, k) \o SubSeq(s, k + 1, Len(s)) = s
<1>1. Len(s) \in Nat /\ k \in Nat /\ k <= Len(s) /\ 1 \in Int /\ k \in Int
      /\ k + 1 \in Int /\ Len(s) \in Int
  BY LenProperties
<1>2. /\ \A i \in 1..k : s[i] \in Nat
      /\ \A i \in (k + 1)..Len(s) : s[i] \in Nat
  BY <1>1, ElementOfSeq
<1>3. /\ SubSeq(s, 1, k) \in Seq(Nat)
      /\ Len(SubSeq(s, 1, k)) = IF 1 <= k THEN k - 1 + 1 ELSE 0
  BY <1>1, <1>2, SubSeqProperties
<1>4. /\ SubSeq(s, k + 1, Len(s)) \in Seq(Nat)
      /\ Len(SubSeq(s, k + 1, Len(s))) =
            IF k + 1 <= Len(s) THEN Len(s) - (k + 1) + 1 ELSE 0
  BY <1>1, <1>2, SubSeqProperties
<1>5. /\ 1 \in 1..(Len(s) + 1) /\ k \in (1 - 1)..Len(s)
      /\ Len(s) \in k..Len(s)
  BY <1>1
<1>6. SubSeq(s, 1, k) \o SubSeq(s, k + 1, Len(s)) = SubSeq(s, 1, Len(s))
  BY <1>5, ConcatAdjacentSubSeq, Zenon
<1>7. SubSeq(s, 1, Len(s)) = s
  BY SubSeqFull
<1>8. Len(SubSeq(s, 1, k)) = k /\ Len(SubSeq(s, k + 1, Len(s))) = Len(s) - k
  BY <1>1, <1>3, <1>4
<1>9. SubSeq(s, 1, k) \o SubSeq(s, k + 1, Len(s)) = s
  BY <1>6, <1>7, Zenon
<1> QED BY <1>3, <1>4, <1>8, <1>9

(* Rows of one owner in increasing order, none beyond its cursor k. *)
Ordered(s, k) ==
    \A i \in 1..Len(s) :
        s[i] <= k /\ \A j \in 1..Len(s) : i < j => s[i] < s[j]

LEMMA OrderedNone == \A k \in Nat : Ordered(<<>>, k)
BY EmptySeq DEF Ordered

(* The producer pushes one more row. *)
LEMMA OrderedAppend ==
    ASSUME NEW s \in Seq(Nat), NEW k \in Nat, Ordered(s, k)
    PROVE  Ordered(Append(s, k + 1), k + 1)
<1> DEFINE t == Append(s, k + 1)
<1>1. /\ Len(s) \in Nat /\ Len(t) = Len(s) + 1
      /\ \A i \in 1..Len(s) : t[i] = s[i] /\ s[i] \in Nat /\ s[i] <= k
      /\ t[Len(s) + 1] = k + 1
  BY AppendProperties, LenProperties, ElementOfSeq DEF Ordered
<1> HIDE DEF t
<1>2. \A i, j \in 1..Len(s) : i < j => s[i] < s[j]
  BY DEF Ordered
<1>3. \A i, j \in 1..Len(t) : t[i] <= k + 1 /\ (i < j => t[i] < t[j])
  BY <1>1, <1>2, SMTT(20)
<1> QED BY <1>3 DEF Ordered, t

(* Rows in the middle get lost. *)
LEMMA OrderedErase ==
    ASSUME NEW a \in Seq(Nat), NEW b \in Seq(Nat), NEW c \in Seq(Nat),
           NEW k \in Nat, Ordered(a \o (b \o c), k)
    PROVE  Ordered(a \o c, k)
<1> DEFINE s == a \o (b \o c)
           t == a \o c
           at(i) == IF i <= Len(a) THEN i ELSE i + Len(b)
<1>1. Len(a) \in Nat /\ Len(b) \in Nat /\ Len(c) \in Nat
  BY LenProperties
<1>2. /\ b \o c \in Seq(Nat) /\ Len(b \o c) = Len(b) + Len(c)
      /\ \A i \in 1..Len(c) : (b \o c)[i + Len(b)] = c[i]
  BY <1>1, ConcatProperties
<1>3. /\ Len(s) = Len(a) + Len(b) + Len(c)
      /\ \A i \in 1..Len(a) : s[i] = a[i]
      /\ \A i \in 1..Len(c) : s[i + Len(a) + Len(b)] = c[i]
  <2>1. /\ Len(s) = Len(a) + Len(b \o c)
        /\ \A i \in 1..(Len(a) + Len(b \o c)) : s[i] =
              IF i <= Len(a) THEN a[i] ELSE (b \o c)[i - Len(a)]
    BY <1>2, ConcatProperties
  <2>2. ASSUME NEW i \in 1..Len(c)
        PROVE  s[i + Len(a) + Len(b)] = c[i]
    <3>1. /\ i + Len(a) + Len(b) \in 1..(Len(a) + Len(b \o c))
          /\ ~(i + Len(a) + Len(b) <= Len(a))
          /\ (i + Len(a) + Len(b)) - Len(a) = i + Len(b)
      BY <1>1, <1>2
    <3> HIDE DEF s
    <3> QED BY <1>2, <2>1, <3>1
  <2> QED BY <1>1, <1>2, <2>1, <2>2
<1>4. /\ Len(t) = Len(a) + Len(c)
      /\ \A i \in 1..(Len(a) + Len(c)) : t[i] =
            IF i <= Len(a) THEN a[i] ELSE c[i - Len(a)]
  BY ConcatProperties
<1> HIDE DEF s, t
<1>5. ASSUME NEW i \in 1..Len(t)
      PROVE  at(i) \in 1..Len(s) /\ t[i] = s[at(i)]
  <2>1. CASE i <= Len(a)
    <3>1. at(i) = i /\ i \in 1..Len(a)
      BY <1>1, <1>4, <2>1
    <3>2. t[i] = a[i]
      BY <1>4, <2>1
    <3>3. i \in 1..Len(s) /\ s[i] = a[i]
      BY <1>1, <1>3, <3>1
    <3> HIDE DEF at
    <3> QED BY <3>1, <3>2, <3>3
  <2>2. CASE ~(i <= Len(a))
    <3>1. i - Len(a) \in 1..Len(c) /\ (i - Len(a)) + Len(a) + Len(b) = at(i)
      BY <1>1, <1>4, <2>2
    <3>2. t[i] = c[i - Len(a)] /\ at(i) \in 1..Len(s)
      BY <1>1, <1>3, <1>4, <2>2
    <3> QED BY <1>3, <3>1, <3>2
  <2> QED BY <2>1, <2>2
<1>6. \A i, j \in 1..Len(t) : i < j => at(i) < at(j)
  BY <1>1, <1>4
<1> HIDE DEF at
<1> QED BY <1>5, <1>6 DEF Ordered, s, t

(* The rows at the front of an ordered stream, and those behind. *)
LEMMA OrderedFront ==
    ASSUME NEW a \in Seq(Nat), NEW b \in Seq(Nat), NEW k \in Nat,
           Ordered(a \o b, k)
    PROVE  Ordered(a, k)
<1>1. a \o (b \o <<>>) = a \o b /\ a \o <<>> = a /\ <<>> \in Seq(Nat)
  BY ConcatEmptySeq, EmptySeq
<1> QED BY <1>1, OrderedErase

-----------------------------------------------------------------------------
(* OwnerInit *)
LEMMA InitKeeps ==
    ASSUME NEW loading, OwnerInit(loading)
    PROVE  OwnerInv
<1>1. OwnerTypeOK
  BY EmptySeq, OwnerAssumption DEF OwnerInit, OwnerTypeOK, NoCall
<1>2. CursorInRange /\ BufferRoom
  BY EmptySeq, OwnerAssumption DEF OwnerInit, CursorInRange, BufferRoom, InTurn
<1> QED BY <1>1, <1>2 DEF OwnerInv

(* A step that leaves all of the owner's state alone. *)
LEMMA StutterKeeps ==
    ASSUME OwnerInv, UNCHANGED ownerVars
    PROVE  OwnerInv'
BY DEF ownerVars, requestVars, producerVars, callVars, OwnerInv, OwnerTypeOK,
       CursorInRange, BufferRoom, InTurn

(* register_request *)
LEMMA RegisterKeeps ==
    ASSUME OwnerInv, NEW n \in Nodes, RegisterRequest(n)
    PROVE  OwnerInv'
<1>1. UNCHANGED <<callVars, up>>
  BY DEF RegisterRequest
<1>2. CASE registered[n]
  BY <1>1, <1>2, StutterKeeps DEF RegisterRequest, ownerVars
<1>3. CASE ~registered[n]
  <2> USE DEF requestVars, producerVars, callVars
  <2>1. /\ registered' = [registered EXCEPT ![n] = TRUE]
        /\ matched' = [matched EXCEPT ![n] = <<>>]
        /\ matched_cursor' = [matched_cursor EXCEPT ![n] = 0]
        /\ done_producing' =
              [done_producing EXCEPT ![n] = n \in HasPart /\ NRows[n] = 0]
        /\ cancelled' = [cancelled EXCEPT ![n] = FALSE]
        /\ producer' = [producer EXCEPT ![n] = "idle"]
        /\ quota' = [quota EXCEPT ![n] = 0]
        /\ produced' = [produced EXCEPT ![n] = FALSE]
        /\ registrations' = [registrations EXCEPT ![n] = @ + 1]
    BY <1>3 DEF RegisterRequest
  <2>2. (n \in HasPart /\ NRows[n] = 0) \in BOOLEAN
    OBVIOUS
  <2>3. OwnerTypeOK'
    BY <1>1, <2>1, <2>2, EmptySeq, OwnerFacts, SMTT(20)
       DEF OwnerInv, OwnerTypeOK
  <2>4. CursorInRange'
    BY <2>1, OwnerFacts, SMTT(20)
       DEF OwnerInv, OwnerTypeOK, CursorInRange, InTurn
  <2>5. BufferRoom'
    BY <2>1, EmptySeq, OwnerFacts DEF OwnerInv, OwnerTypeOK, BufferRoom, InTurn
  <2> QED BY <2>3, <2>4, <2>5 DEF OwnerInv
<1> QED BY <1>2, <1>3

(* CancelQuery at a peer *)
LEMMA CancelKeeps ==
    ASSUME OwnerInv, NEW o \in Remote, CancelRequest(o)
    PROVE  OwnerInv'
<1>1. UNCHANGED <<matched_cursor, done_producing, producerVars, callVars, up,
                  registrations>>
  BY DEF CancelRequest
<1>2. o \in Nodes
  BY RemoteIsNode
<1>3. CASE up[o] /\ registered[o]
  <2>1. /\ cancelled' = [cancelled EXCEPT ![o] = TRUE]
        /\ matched' = [matched EXCEPT ![o] = <<>>]
        /\ registered' = [registered EXCEPT ![o] = FALSE]
    BY <1>3 DEF CancelRequest
  <2>2. OwnerTypeOK'
    BY <1>1, <2>1, EmptySeq
       DEF OwnerInv, OwnerTypeOK, producerVars, callVars
  <2>3. CursorInRange'
    BY <1>1 DEF OwnerInv, CursorInRange, InTurn, producerVars
  <2>4. Len(<<>>) = 0 /\ MaxBuffered \in Nat \ {0}
    BY EmptySeq, OwnerAssumption
  <2>5. BufferRoom'
    BY <1>1, <1>2, <2>1, <2>4
       DEF OwnerInv, OwnerTypeOK, BufferRoom, InTurn, producerVars
  <2> QED BY <2>2, <2>3, <2>5 DEF OwnerInv
<1>4. CASE ~(up[o] /\ registered[o])
  BY <1>1, <1>4, StutterKeeps DEF CancelRequest, ownerVars, requestVars
<1> QED BY <1>3, <1>4

-----------------------------------------------------------------------------
(* produce_loop: the four pieces of a turn. *)

LEMMA BeginKeeps ==
    ASSUME OwnerInv, NEW n \in Nodes, ProduceBegin(n)
    PROVE  OwnerInv'
<1> USE DEF requestVars, callVars, ProduceBegin, InTurn
<1>1. /\ TurnRows(n) \in 0..Batch
      /\ matched_cursor[n] + TurnRows(n) <= NRows[n]
  BY OwnerFacts DEF TurnRows, OwnerInv, CursorInRange
<1>2. OwnerTypeOK'
  BY <1>1 DEF OwnerInv, OwnerTypeOK
<1>3. CursorInRange'
  BY <1>1 DEF OwnerInv, OwnerTypeOK, CursorInRange
<1>4. BufferRoom'
  BY DEF OwnerInv, OwnerTypeOK, BufferRoom
<1> QED BY <1>2, <1>3, <1>4 DEF OwnerInv

LEMMA CheckKeeps ==
    ASSUME OwnerInv, NEW n \in Nodes, ProduceCheck(n)
    PROVE  OwnerInv'
<1> USE DEF requestVars, callVars, ProduceCheck, AfterCheck, InTurn
<1>1. OwnerTypeOK'
  BY DEF OwnerInv, OwnerTypeOK
<1>2. CursorInRange' /\ BufferRoom'
  BY DEF OwnerInv, OwnerTypeOK, CursorInRange, BufferRoom
<1> QED BY <1>1, <1>2 DEF OwnerInv

LEMMA RowKeeps ==
    ASSUME OwnerInv, NEW n \in Nodes, ProduceRow(n)
    PROVE  OwnerInv'
<1> USE DEF callVars
<1>1. /\ producer[n] = "push"
      /\ matched' = [matched EXCEPT ![n] = Pushed(n)]
      /\ matched_cursor' = [matched_cursor EXCEPT ![n] = @ + 1]
      /\ quota' = [quota EXCEPT ![n] = @ - 1]
      /\ produced' = [produced EXCEPT ![n] = @ \/ ~Fills(n)]
      /\ producer' = [producer EXCEPT ![n] =
                         IF Fills(n) \/ quota[n] = 1 THEN "store"
                                                     ELSE "check"]
      /\ UNCHANGED <<registered, done_producing, cancelled, callVars, up,
                     registrations>>
  BY DEF ProduceRow
<1>2. Pushed(n) \in Seq(Nat) /\ Len(Pushed(n)) = Len(matched[n]) + 1
  BY OwnerFacts, AppendProperties DEF Pushed
<1>3. Fills(n) <=> Len(matched[n]) + 1 >= MaxBuffered
  BY DEF Fills
<1>4. quota[n] \in 1..Batch /\ quota[n] - 1 \in 0..Batch
  BY <1>1, OwnerFacts DEF OwnerInv, CursorInRange, InTurn
<1>5. OwnerTypeOK'
  <2>1. matched' \in [Nodes -> Seq(Nat)] /\ matched_cursor' \in [Nodes -> Nat]
    BY <1>1, <1>2 DEF OwnerInv, OwnerTypeOK
  <2>2. producer' \in [Nodes -> {"idle", "check", "push", "store", "notify"}]
    BY <1>1 DEF OwnerInv, OwnerTypeOK
  <2>3. (produced[n] \/ ~Fills(n)) \in BOOLEAN
    OBVIOUS
  <2>4. quota' \in [Nodes -> 0..Batch] /\ produced' \in [Nodes -> BOOLEAN]
    BY <1>1, <1>4, <2>3 DEF OwnerInv, OwnerTypeOK
  <2> QED BY <1>1, <2>1, <2>2, <2>4 DEF OwnerInv, OwnerTypeOK
<1>6. CursorInRange'
  <2> SUFFICES ASSUME NEW m \in Nodes
               PROVE  /\ matched_cursor'[m] <= NRows[m]
                      /\ InTurn(m)' =>
                            /\ matched_cursor'[m] + quota'[m] <= NRows[m]
                            /\ quota'[m] > 0
    BY DEF CursorInRange
  <2>1. CASE m # n
    BY <1>1, <2>1 DEF OwnerInv, OwnerTypeOK, CursorInRange, InTurn
  <2>2. CASE m = n
    <3>1. /\ matched_cursor'[n] = matched_cursor[n] + 1
          /\ quota'[n] = quota[n] - 1
          /\ InTurn(n)' => quota[n] # 1
      BY <1>1 DEF OwnerInv, OwnerTypeOK, InTurn
    <3>2. matched_cursor[n] + quota[n] <= NRows[n]
      BY <1>1 DEF OwnerInv, CursorInRange, InTurn
    <3>3. NRows[n] \in Nat /\ matched_cursor[n] \in Nat
      BY OwnerFacts
    <3> QED BY <1>4, <2>2, <3>1, <3>2, <3>3
  <2> QED BY <2>1, <2>2
<1>7. BufferRoom'
  <2> SUFFICES ASSUME NEW m \in Nodes
               PROVE  /\ Len(matched'[m]) <= MaxBuffered
                      /\ InTurn(m)' => Len(matched'[m]) < MaxBuffered
    BY DEF BufferRoom
  <2>1. /\ Len(matched[m]) <= MaxBuffered
        /\ InTurn(m) => Len(matched[m]) < MaxBuffered
    BY DEF OwnerInv, BufferRoom
  <2>2. CASE m # n
    BY <1>1, <2>1, <2>2 DEF OwnerInv, OwnerTypeOK, InTurn
  <2>3. CASE m = n
    <3>1. matched'[m] = Pushed(n)
      BY <1>1, <2>3 DEF OwnerInv, OwnerTypeOK
    <3>2. InTurn(m)' => ~Fills(n)
      BY <1>1, <2>3 DEF OwnerInv, OwnerTypeOK, InTurn
    <3>3. Len(matched[n]) \in Nat /\ MaxBuffered \in Nat
      BY OwnerFacts
    <3> QED BY <1>1, <1>2, <1>3, <2>1, <2>3, <3>1, <3>2, <3>3 DEF InTurn
  <2> QED BY <2>2, <2>3
<1> QED BY <1>5, <1>6, <1>7 DEF OwnerInv

LEMMA StoreKeeps ==
    ASSUME OwnerInv, NEW n \in Nodes, ProduceStore(n)
    PROVE  OwnerInv'
<1> USE DEF callVars
<1>1. StoredDone(n) \in BOOLEAN
  BY DEF StoredDone, OwnerInv, OwnerTypeOK
<1>2. PICK p \in {"notify", "idle"} :
         producer' = [producer EXCEPT ![n] = p]
  BY DEF ProduceStore
<1>3. /\ done_producing' = [done_producing EXCEPT ![n] = StoredDone(n)]
      /\ UNCHANGED <<registered, matched, matched_cursor, cancelled, quota,
                     produced, callVars, up, registrations>>
  BY DEF ProduceStore
<1>4. OwnerTypeOK'
  BY <1>1, <1>2, <1>3 DEF OwnerInv, OwnerTypeOK
<1>5. CursorInRange' /\ BufferRoom'
  BY <1>2, <1>3 DEF OwnerInv, OwnerTypeOK, CursorInRange, BufferRoom, InTurn
<1> QED BY <1>4, <1>5 DEF OwnerInv

LEMMA EmptyPartKeeps ==
    ASSUME OwnerInv, NEW n \in Nodes, ProduceEmptyPart(n)
    PROVE  OwnerInv'
<1> USE DEF callVars, ProduceEmptyPart
<1>1. OwnerTypeOK'
  BY DEF OwnerInv, OwnerTypeOK
<1>2. CursorInRange' /\ BufferRoom'
  BY DEF OwnerInv, OwnerTypeOK, CursorInRange, BufferRoom, InTurn
<1> QED BY <1>1, <1>2 DEF OwnerInv

-----------------------------------------------------------------------------
(* PullChunk: only the drain touches the deque, and it only shortens it. *)

LEMMA DrainedDeque ==
    ASSUME OwnerInv, NEW o \in Remote, NEW max \in Nat
    PROVE  /\ Take(o, max) \in Nat /\ Take(o, max) <= Len(matched[o])
           /\ SubSeq(matched[o], 1, Take(o, max)) \in Seq(Nat)
           /\ Rest(o, max) \in Seq(Nat)
           /\ Len(Rest(o, max)) = Len(matched[o]) - Take(o, max)
<1>1. matched[o] \in Seq(Nat) /\ Len(matched[o]) \in Nat
  BY RemoteIsNode, OwnerFacts
<1>2. Take(o, max) \in Nat /\ Take(o, max) <= Len(matched[o])
  BY <1>1 DEF Take
<1>3. \A i \in 1..Len(matched[o]) : matched[o][i] \in Nat
  BY <1>1, ElementOfSeq
<1>4. SubSeq(matched[o], 1, Take(o, max)) \in Seq(Nat)
  BY <1>1, <1>2, <1>3, SubSeqProperties
<1>5. /\ Rest(o, max) \in Seq(Nat)
      /\ Len(Rest(o, max)) = IF Take(o, max) + 1 <= Len(matched[o])
                        THEN Len(matched[o]) - (Take(o, max) + 1) + 1 ELSE 0
  <2>1. \A i \in (Take(o, max) + 1)..Len(matched[o]) : matched[o][i] \in Nat
    BY <1>1, <1>2, <1>3
  <2> QED BY <1>1, <1>2, <2>1, SubSeqProperties DEF Rest
<1> QED BY <1>1, <1>2, <1>4, <1>5

(* A drain takes the front and leaves the rest. *)
LEMMA DequeSplit ==
    ASSUME OwnerInv, NEW o \in Remote, NEW max \in Nat
    PROVE  SubSeq(matched[o], 1, Take(o, max)) \o Rest(o, max) = matched[o]
<1>1. matched[o] \in Seq(Nat) /\ Len(matched[o]) \in Nat
  BY RemoteIsNode, OwnerFacts
<1>2. Take(o, max) \in 0..Len(matched[o])
  <2>1. Take(o, max) \in Nat /\ Take(o, max) <= Len(matched[o])
    BY DrainedDeque
  <2> QED BY <1>1, <2>1
<1>3. 1 \in 1..(Len(matched[o]) + 1)
      /\ Take(o, max) \in (1 - 1)..Len(matched[o])
      /\ Len(matched[o]) \in Take(o, max)..Len(matched[o])
  BY <1>1, <1>2
<1>4. SubSeq(matched[o], 1, Take(o, max))
         \o SubSeq(matched[o], Take(o, max) + 1, Len(matched[o]))
         = SubSeq(matched[o], 1, Len(matched[o]))
  BY <1>1, <1>3, ConcatAdjacentSubSeq, Zenon
<1> QED BY <1>1, <1>4, SubSeqFull DEF Rest

(* A drain finds nothing in an empty deque. *)
LEMMA EmptyRest ==
    ASSUME OwnerInv, NEW o \in Remote, NEW max \in Nat, matched[o] = <<>>
    PROVE  Rest(o, max) = <<>>
<1>1. /\ Rest(o, max) \in Seq(Nat)
      /\ Len(Rest(o, max)) = Len(matched[o]) - Take(o, max)
      /\ Take(o, max) \in Nat /\ Take(o, max) <= Len(matched[o])
  BY DrainedDeque
<1>2. Len(matched[o]) = 0
  BY EmptySeq
<1>3. Len(Rest(o, max)) = 0
  BY <1>1, <1>2
<1> QED BY <1>1, <1>3, EmptySeq

LEMMA DequeShortened ==
    ASSUME OwnerInv, NEW o \in Remote, NEW max \in Nat, UNCHANGED producer,
           \/ matched' = matched
           \/ matched' = [matched EXCEPT ![o] = Rest(o, max)]
    PROVE  BufferRoom'
<1> SUFFICES ASSUME NEW m \in Nodes
             PROVE  /\ Len(matched'[m]) <= MaxBuffered
                    /\ InTurn(m) => Len(matched'[m]) < MaxBuffered
  BY DEF BufferRoom, InTurn
<1>1. /\ Len(matched[m]) <= MaxBuffered
      /\ InTurn(m) => Len(matched[m]) < MaxBuffered
  BY DEF OwnerInv, BufferRoom
<1>2. CASE matched'[m] = matched[m]
  BY <1>1, <1>2
<1>3. CASE matched'[m] # matched[m]
  <2>1. m = o /\ matched'[m] = Rest(o, max)
    BY <1>3 DEF OwnerInv, OwnerTypeOK
  <2>2. Len(Rest(o, max)) \in Nat /\ Len(Rest(o, max)) <= Len(matched[o])
    <3>1. Len(matched[o]) \in Nat
      BY OwnerFacts, RemoteIsNode
    <3>2. /\ Take(o, max) \in Nat /\ Take(o, max) <= Len(matched[o])
          /\ Len(Rest(o, max)) = Len(matched[o]) - Take(o, max)
      BY DrainedDeque
    <3> QED BY <3>1, <3>2
  <2>3. Len(matched[o]) \in Nat /\ MaxBuffered \in Nat
    BY OwnerFacts, RemoteIsNode
  <2> QED BY <1>1, <2>1, <2>2, <2>3
<1> QED BY <1>2, <1>3

LEMMA SendKeeps ==
    ASSUME OwnerInv, NEW o \in Remote, PullSend(o)
    PROVE  OwnerInv'
BY EmptySeq DEF PullSend, Sent, requestVars, producerVars, OwnerInv,
   OwnerTypeOK, CursorInRange, BufferRoom, InTurn

LEMMA FindKeeps ==
    ASSUME OwnerInv, NEW o \in Remote, PullFind(o)
    PROVE  OwnerInv'
BY EmptySeq DEF PullFind, Found, requestVars, producerVars, OwnerInv,
   OwnerTypeOK, CursorInRange, BufferRoom, InTurn

LEMMA DrainKeeps ==
    ASSUME OwnerInv, NEW o \in Remote, NEW max \in Nat, Drained(o, max)
    PROVE  OwnerInv'
<1> USE DEF producerVars, Drained
<1>1. o \in Nodes
  BY RemoteIsNode
<1>2. OwnerTypeOK'
  BY <1>1, DrainedDeque DEF OwnerInv, OwnerTypeOK
<1>3. CursorInRange'
  BY DEF OwnerInv, CursorInRange, InTurn
<1>4. BufferRoom'
  BY DequeShortened
<1> QED BY <1>2, <1>3, <1>4 DEF OwnerInv

LEMMA FinishKeeps ==
    ASSUME OwnerInv, NEW o \in Remote, PullFinish(o)
    PROVE  OwnerInv'
<1> USE DEF producerVars
<1>1. PICK last \in BOOLEAN :
         /\ pull' = [pull EXCEPT ![o] = [stage |-> "replied", last |-> last,
                                         rows |-> pull[o].rows]]
         /\ registered' = [registered EXCEPT ![o] = @ /\ ~last]
  BY DEF PullFinish, DropAtLast
<1>2. UNCHANGED <<matched, matched_cursor, done_producing, cancelled,
                  producerVars, lateSent, lateFound, lateEmpty, up,
                  registrations>>
  BY DEF PullFinish
<1>3. o \in Nodes /\ (registered[o] /\ ~last) \in BOOLEAN
  BY RemoteIsNode
<1>4. OwnerTypeOK'
  BY <1>1, <1>2, <1>3 DEF OwnerInv, OwnerTypeOK
<1>5. CursorInRange' /\ BufferRoom'
  BY <1>2 DEF OwnerInv, CursorInRange, BufferRoom, InTurn
<1> QED BY <1>4, <1>5 DEF OwnerInv

LEMMA FailKeeps ==
    ASSUME OwnerInv, NEW o \in Remote, PullFail(o)
    PROVE  OwnerInv'
BY EmptySeq DEF PullFail, Failed, requestVars, producerVars, OwnerInv,
   OwnerTypeOK, CursorInRange, BufferRoom, InTurn

LEMMA ReturnKeeps ==
    ASSUME OwnerInv, NEW o \in Remote, PullReturn(o)
    PROVE  OwnerInv'
BY EmptySeq DEF PullReturn, NoCall, requestVars, producerVars, OwnerInv,
   OwnerTypeOK, CursorInRange, BufferRoom, InTurn

LEMMA ExpireKeeps ==
    ASSUME OwnerInv, NEW o \in Remote, PullExpire(o)
    PROVE  OwnerInv'
<1> USE DEF PullExpire, requestVars, producerVars
<1>1. CursorInRange' /\ BufferRoom'
  BY DEF OwnerInv, CursorInRange, BufferRoom, InTurn
<1>2. NoCall \in [stage : {"none", "sent", "found", "drained", "replied", "error"},
                  rows : Seq(Nat), last : BOOLEAN]
  BY EmptySeq DEF NoCall
<1>3. pull' \in [Remote ->
            [stage : {"none", "sent", "found", "drained", "replied", "error"},
             rows : Seq(Nat), last : BOOLEAN]]
  BY <1>2 DEF OwnerInv, OwnerTypeOK
<1>4. lateSent' \in [Remote -> Nat]
  BY DEF OwnerInv, OwnerTypeOK
<1>5. lateFound' \in [Remote -> Nat]
  BY DEF OwnerInv, OwnerTypeOK
<1>6. lateEmpty' \in [Remote -> Nat]
  BY DEF OwnerInv, OwnerTypeOK
<1>7. OwnerTypeOK'
  BY <1>3, <1>4, <1>5, <1>6 DEF OwnerInv, OwnerTypeOK
<1> QED BY <1>1, <1>7 DEF OwnerInv

(* A handler whose caller is gone: its lookup, its drain, both at once. *)
LEMMA LateFindKeeps ==
    ASSUME OwnerInv, NEW o \in Remote, LateFind(o)
    PROVE  OwnerInv'
<1> USE DEF requestVars, producerVars, LateFind
<1>1. /\ lateSent[o] \in Nat /\ lateSent[o] > 0
      /\ lateFound[o] \in Nat
  BY DEF OwnerInv, OwnerTypeOK
<1>2. /\ lateSent' \in [Remote -> Nat]
      /\ lateFound' \in [Remote -> Nat]
  BY <1>1 DEF OwnerInv, OwnerTypeOK
<1>3. OwnerTypeOK'
  BY <1>2 DEF OwnerInv, OwnerTypeOK
<1>4. CursorInRange' /\ BufferRoom'
  BY DEF OwnerInv, CursorInRange, BufferRoom, InTurn
<1> QED BY <1>3, <1>4 DEF OwnerInv

LEMMA LateDrainKeeps ==
    ASSUME OwnerInv, NEW o \in Remote, NEW max \in Nat, LateDrain(o, max)
    PROVE  OwnerInv'
<1> USE DEF producerVars
<1>1. /\ matched' = [matched EXCEPT ![o] = Rest(o, max)]
      /\ UNCHANGED <<registered, matched_cursor, done_producing, cancelled,
                     producerVars, pull, lateSent, up, registrations>>
  BY DEF LateDrain
<1>2. lateFound' \in [Remote -> Nat] /\ lateEmpty' \in [Remote -> Nat]
  <2>1. /\ lateFound[o] \in Nat /\ lateFound[o] > 0
        /\ lateEmpty[o] \in Nat
    BY DEF LateDrain, OwnerInv, OwnerTypeOK
  <2>2. (IF matched[o] = <<>> THEN lateEmpty[o] + 1 ELSE lateEmpty[o]) \in Nat
    BY <2>1
  <2> QED BY <2>1, <2>2 DEF LateDrain, OwnerInv, OwnerTypeOK
<1>3. matched' \in [Nodes -> Seq(Nat)]
  <2>1. Rest(o, max) \in Seq(Nat) /\ o \in Nodes
    BY DrainedDeque, RemoteIsNode
  <2> QED BY <1>1, <2>1 DEF OwnerInv, OwnerTypeOK
<1>4. OwnerTypeOK'
  BY <1>1, <1>2, <1>3 DEF OwnerInv, OwnerTypeOK
<1>5. CursorInRange'
  BY <1>1 DEF OwnerInv, CursorInRange, InTurn
<1>6. BufferRoom'
  BY <1>1, DequeShortened
<1> QED BY <1>4, <1>5, <1>6 DEF OwnerInv

LEMMA LateFindDrainKeeps ==
    ASSUME OwnerInv, NEW o \in Remote, NEW max \in Nat, LateFindDrain(o, max)
    PROVE  OwnerInv'
<1> USE DEF producerVars
<1>1. o \in Nodes
  BY RemoteIsNode
<1>2. /\ \/ matched' = matched
         \/ matched' = [matched EXCEPT ![o] = Rest(o, max)]
      /\ UNCHANGED <<registered, matched_cursor, done_producing, cancelled,
                     producerVars, pull, lateFound, up, registrations>>
  BY DEF LateFindDrain
<1>3. lateEmpty' \in [Remote -> Nat] /\ lateSent' \in [Remote -> Nat]
  <2>1. lateSent \in [Remote -> Nat] /\ lateEmpty \in [Remote -> Nat]
    BY DEF OwnerInv, OwnerTypeOK
  <2>2. lateSent[o] > 0 /\ lateSent' = [lateSent EXCEPT ![o] = @ - 1]
    BY DEF LateFindDrain
  <2>3. \/ lateEmpty' = lateEmpty
        \/ lateEmpty' = [lateEmpty EXCEPT ![o] =
                            IF matched[o] = <<>> THEN @ + 1 ELSE @]
    BY DEF LateFindDrain
  <2>4. lateSent[o] \in Nat /\ lateEmpty[o] \in Nat
    BY <2>1
  <2>5. lateSent' \in [Remote -> Nat]
    BY <2>1, <2>2, <2>4
  <2>6. (IF matched[o] = <<>> THEN lateEmpty[o] + 1 ELSE lateEmpty[o]) \in Nat
    BY <2>4
  <2>7. lateEmpty' \in [Remote -> Nat]
    BY <2>1, <2>3, <2>6
  <2> QED BY <2>5, <2>7
<1>4. matched' \in [Nodes -> Seq(Nat)]
  <2>1. Rest(o, max) \in Seq(Nat)
    BY DrainedDeque
  <2> QED BY <1>1, <1>2, <2>1 DEF OwnerInv, OwnerTypeOK
<1>5. OwnerTypeOK'
  BY <1>2, <1>3, <1>4 DEF OwnerInv, OwnerTypeOK
<1>6. CursorInRange'
  BY <1>2 DEF OwnerInv, CursorInRange, InTurn
<1>7. BufferRoom'
  BY <1>2, DequeShortened
<1> QED BY <1>5, <1>6, <1>7 DEF OwnerInv

LEMMA LateFinishKeeps ==
    ASSUME OwnerInv, NEW o \in Remote, LateFinish(o)
    PROVE  OwnerInv'
<1> USE DEF producerVars
<1>1. /\ lateEmpty' \in [Remote -> Nat]
      /\ registered' = [registered EXCEPT ![o] = @ /\ ~NoMoreRows(o)]
      /\ UNCHANGED <<matched, matched_cursor, done_producing, cancelled,
                     producerVars, pull, lateSent, lateFound, up,
                     registrations>>
  BY DEF LateFinish, DropAtLast, OwnerInv, OwnerTypeOK
<1>2. o \in Nodes /\ (registered[o] /\ ~NoMoreRows(o)) \in BOOLEAN
  BY RemoteIsNode
<1>3. OwnerTypeOK'
  BY <1>1, <1>2 DEF OwnerInv, OwnerTypeOK
<1>4. CursorInRange' /\ BufferRoom'
  BY <1>1 DEF OwnerInv, CursorInRange, BufferRoom, InTurn
<1> QED BY <1>3, <1>4 DEF OwnerInv
=============================================================================
