------------------------ MODULE FairSchedulerProofs ------------------------
(* The scheduler's queue is well formed, for any rids, weights and modes. *)
EXTENDS FairScheduler, SequenceTheorems, TLAPS

Entries == [rid : Rids, weight : Weights, credits : Nat]

(* CursorOnEntry and CreditsLeft need each other: a turn moves the cursor by
   what the entry under it has left. *)
SchedulerInv == TypeOK /\ CursorOnEntry /\ CreditsLeft /\ OneEntryEach

(* The queue without its i-th entry. *)
LEMMA WithoutEntry ==
    ASSUME q \in Seq(Entries), NEW i \in 1..Len(q)
    PROVE  /\ Without(i) \in Seq(Entries)
           /\ Len(Without(i)) = Len(q) - 1
           /\ \A k \in 1..(Len(q) - 1) :
                 Without(i)[k] = IF k < i THEN q[k] ELSE q[k + 1]
<1> DEFINE front == SubSeq(q, 1, i - 1)
           back  == SubSeq(q, i + 1, Len(q))
<1>1. Len(q) \in Nat /\ i \in Nat /\ 1 <= i /\ i <= Len(q)
  BY LenProperties
<1>2. \A k \in 1..Len(q) : q[k] \in Entries
  BY ElementOfSeq
<1>3. /\ front \in Seq(Entries) /\ Len(front) = i - 1
      /\ \A k \in 1..(i - 1) : front[k] = q[k]
  <2>1. \A k \in 1..(i - 1) : q[k] \in Entries
    BY <1>1, <1>2
  <2>2. /\ front \in Seq(Entries)
        /\ Len(front) = IF 1 <= i - 1 THEN (i - 1) - 1 + 1 ELSE 0
        /\ \A k \in 1..((i - 1) - 1 + 1) : front[k] = q[1 + k - 1]
    BY <1>1, <2>1, SubSeqProperties
  <2> QED BY <1>1, <2>2
<1>4. /\ back \in Seq(Entries) /\ Len(back) = Len(q) - i
      /\ \A k \in 1..(Len(q) - i) : back[k] = q[i + k]
  <2>1. \A k \in (i + 1)..Len(q) : q[k] \in Entries
    BY <1>1, <1>2
  <2>2. /\ back \in Seq(Entries)
        /\ Len(back) = IF i + 1 <= Len(q) THEN Len(q) - (i + 1) + 1 ELSE 0
        /\ \A k \in 1..(Len(q) - (i + 1) + 1) : back[k] = q[(i + 1) + k - 1]
    BY <1>1, <2>1, SubSeqProperties
  <2> QED BY <1>1, <2>2
<1> HIDE DEF front, back
<1>5. Without(i) = front \o back
  BY DEF Without, front, back
<1>6. /\ front \o back \in Seq(Entries)
      /\ Len(front \o back) = Len(front) + Len(back)
      /\ \A k \in 1..(Len(front) + Len(back)) :
            (front \o back)[k] = IF k <= Len(front) THEN front[k]
                                                    ELSE back[k - Len(front)]
  BY <1>3, <1>4, ConcatProperties
<1>7. ASSUME NEW k \in 1..(Len(q) - 1)
      PROVE  (front \o back)[k] = IF k < i THEN q[k] ELSE q[k + 1]
  <2>1. CASE k < i
    BY <1>1, <1>3, <1>4, <1>6, <2>1
  <2>2. CASE k >= i
    <3>1. k - (i - 1) \in 1..(Len(q) - i) /\ i + (k - (i - 1)) = k + 1
      BY <1>1, <2>2
    <3>2. (front \o back)[k] = back[k - (i - 1)]
      BY <1>1, <1>3, <1>4, <1>6, <2>2
    <3>3. back[k - (i - 1)] = q[i + (k - (i - 1))]
      BY <1>4, <3>1
    <3> QED BY <1>1, <2>2, <3>1, <3>2, <3>3
  <2>3. k < i \/ k >= i
    BY <1>1
  <2> QED BY <2>1, <2>2, <2>3
<1> QED BY <1>1, <1>3, <1>4, <1>5, <1>6, <1>7

(* add() *)
LEMMA AddKeeps ==
    ASSUME SchedulerInv, NEW r \in Rids, NEW w \in Weights, Add(r, w)
    PROVE  SchedulerInv'
<1>1. q \in Seq(Entries) /\ Len(q) \in Nat
  BY LenProperties DEF SchedulerInv, TypeOK, Entries
<1>2. \A k \in 1..Len(q) : q[k] \in Entries
  BY <1>1, ElementOfSeq
<1>3. w \in Nat \ {0}
  BY SchedulerAssumption
<1>4. mode' = mode /\ cursor' = cursor /\ served' = served
  BY DEF Add
<1>5. CASE r \in Queued
  <2>1. q' = [i \in 1..Len(q) |->
                 IF q[i].rid = r THEN [q[i] EXCEPT !.weight = w] ELSE q[i]]
    BY <1>5 DEF Add
  <2>2. q' \in Seq(Entries) /\ Len(q') = Len(q)
    BY <1>1, <1>2, <2>1 DEF Entries
  <2>3. \A k \in 1..Len(q) :
           q'[k].rid = q[k].rid /\ q'[k].credits = q[k].credits
    BY <1>2, <2>1 DEF Entries
  <2> QED BY <1>4, <2>2, <2>3 DEF SchedulerInv, TypeOK, Entries,
             CursorOnEntry, CreditsLeft, OneEntryEach
<1>6. CASE r \notin Queued
  <2>1. q' = Append(q, Entry(r, w)) /\ Entry(r, w) \in Entries
    BY <1>3, <1>6 DEF Add, Entry, Entries
  <2>2. /\ q' \in Seq(Entries) /\ Len(q') = Len(q) + 1
        /\ \A k \in 1..Len(q) : q'[k] = q[k]
        /\ q'[Len(q) + 1] = Entry(r, w)
    BY <1>1, <2>1, AppendProperties
  <2>3. \A k \in 1..Len(q) : q[k].rid # r
    BY <1>6 DEF Queued
  <2>4. CreditsLeft'
    BY <1>1, <1>3, <2>2 DEF SchedulerInv, CreditsLeft, Entry
  <2>5. OneEntryEach'
    BY <1>1, <2>2, <2>3 DEF SchedulerInv, OneEntryEach, Entry
  <2> QED BY <1>1, <1>4, <2>2, <2>4, <2>5
          DEF SchedulerInv, TypeOK, Entries, CursorOnEntry
<1> QED BY <1>5, <1>6

(* remove() *)
LEMMA RemoveKeeps ==
    ASSUME SchedulerInv, NEW r \in Rids, Remove(r)
    PROVE  SchedulerInv'
<1>1. q \in Seq(Entries) /\ Len(q) \in Nat
  BY LenProperties DEF SchedulerInv, TypeOK, Entries
<1>2. PICK i \in 1..Len(q) :
         /\ q' = Without(i) /\ cursor' = CursorIn(Len(q) - 1)
         /\ mode' = mode /\ served' = served
  BY DEF Remove
<1>3. /\ q' \in Seq(Entries) /\ Len(q') = Len(q) - 1
      /\ \A k \in 1..(Len(q) - 1) :
            q'[k] = IF k < i THEN q[k] ELSE q[k + 1]
  BY <1>1, <1>2, WithoutEntry
<1>4. cursor' \in Nat /\ CursorOnEntry'
  BY <1>1, <1>2, <1>3 DEF SchedulerInv, TypeOK, CursorOnEntry, CursorIn
<1>5. CreditsLeft'
  BY <1>1, <1>3 DEF SchedulerInv, CreditsLeft
<1>6. OneEntryEach'
  <2> DEFINE at(k) == IF k < i THEN k ELSE k + 1
  <2>1. \A k \in 1..(Len(q) - 1) : at(k) \in 1..Len(q) /\ q'[k] = q[at(k)]
    BY <1>1, <1>3
  <2>2. \A k, l \in 1..(Len(q) - 1) : at(k) = at(l) => k = l
    BY <1>1
  <2> HIDE DEF at
  <2> QED BY <1>3, <2>1, <2>2 DEF SchedulerInv, OneEntryEach
<1> QED BY <1>2, <1>3, <1>4, <1>5, <1>6 DEF SchedulerInv, TypeOK, Entries

(* next() *)
LEMMA NextKeeps ==
    ASSUME SchedulerInv, NextRid
    PROVE  SchedulerInv'
<1>1. q \in Seq(Entries) /\ Len(q) \in Nat /\ cursor \in Nat
  BY LenProperties DEF SchedulerInv, TypeOK, Entries
<1>2. \A k \in 1..Len(q) : q[k] \in Entries
  BY <1>1, ElementOfSeq
<1>3. CASE NextEmpty
  BY <1>3 DEF NextEmpty, SchedulerInv, TypeOK, CursorOnEntry, CreditsLeft,
              OneEntryEach
<1>4. ASSUME q # <<>>
      PROVE  /\ Len(q) >= 1 /\ Here \in 1..Len(q)
             /\ Advance \in Nat /\ Advance < Len(q)
  <2>1. Len(q) >= 1
    BY <1>1, <1>4, EmptySeq
  <2>2. Here \in 1..Len(q)
    BY <1>1, <2>1 DEF Here, SchedulerInv, CursorOnEntry
  <2>3. Advance \in Nat /\ Advance < Len(q)
    BY <1>1, <2>1 DEF Advance
  <2> QED BY <2>1, <2>2, <2>3
<1>5. CASE NextFifo
  <2>1. q[1].rid \in Rids
    BY <1>1, <1>2, <1>4, <1>5 DEF NextFifo, Entries
  <2> QED BY <1>5, <2>1 DEF NextFifo, SchedulerInv, TypeOK, CursorOnEntry,
             CreditsLeft, OneEntryEach
<1>6. CASE NextRoundRobin
  <2>1. q[Here].rid \in Rids
    BY <1>2, <1>4, <1>6 DEF NextRoundRobin, Entries
  <2> QED BY <1>4, <1>6, <2>1 DEF NextRoundRobin, SchedulerInv, TypeOK,
             CursorOnEntry, CreditsLeft, OneEntryEach
<1>7. CASE NextWeighted
  <2>1. Here \in 1..Len(q) /\ q[Here] \in Entries
    BY <1>2, <1>4, <1>7 DEF NextWeighted
  <2>2. /\ Spent(q[Here]) \in Entries
        /\ Spent(q[Here]).credits > 0
        /\ Spent(q[Here]).rid = q[Here].rid
    BY <1>7, <2>1, SchedulerAssumption DEF NextWeighted, Spent, Entries
  <2>3. /\ q' = [q EXCEPT ![Here] = Spent(q[Here])]
        /\ cursor' = IF q[Here].credits = 1 THEN Advance ELSE cursor
        /\ served' = {q[Here].rid} /\ mode' = mode
    BY <1>7 DEF NextWeighted
  <2>4. /\ q' \in Seq(Entries) /\ Len(q') = Len(q)
        /\ \A k \in 1..Len(q) :
              q'[k] = IF k = Here THEN Spent(q[Here]) ELSE q[k]
    BY <1>1, <2>1, <2>2, <2>3, ExceptSeq
  <2>5. cursor' \in Nat /\ CursorOnEntry'
    BY <1>1, <1>4, <1>7, <2>3, <2>4
       DEF NextWeighted, SchedulerInv, CursorOnEntry
  <2>6. CreditsLeft' /\ OneEntryEach'
    BY <2>2, <2>4 DEF SchedulerInv, CreditsLeft, OneEntryEach
  <2>7. TypeOK'
    BY <2>1, <2>3, <2>4, <2>5 DEF SchedulerInv, TypeOK, Entries
  <2> QED BY <2>5, <2>6, <2>7 DEF SchedulerInv
<1> QED BY <1>3, <1>5, <1>6, <1>7 DEF NextRid

(* The scheduler's invariant, whatever handlers add and remove between turns. *)
LEMMA SchedulerInvariant == Spec => []SchedulerInv
<1>1. Init => SchedulerInv
  BY EmptySeq DEF Init, SchedulerInv, TypeOK, CursorOnEntry, CreditsLeft,
                  OneEntryEach
<1>2. SchedulerInv /\ [Next]_vars => SchedulerInv'
  <2> SUFFICES ASSUME SchedulerInv, [Next]_vars PROVE SchedulerInv'
    OBVIOUS
  <2>1. CASE UNCHANGED vars
    BY <2>1 DEF vars, SchedulerInv, TypeOK, CursorOnEntry, CreditsLeft,
                OneEntryEach
  <2> QED BY <2>1, AddKeeps, RemoveKeeps, NextKeeps DEF Next
<1> QED BY <1>1, <1>2, PTL DEF Spec

(* scheduler.cpp:62-84: next() finds its cursor on an entry of the queue
   whenever the queue has one. *)
THEOREM SchedulerSafe == Spec => [](TypeOK /\ CursorOnEntry)
<1>1. SchedulerInv => TypeOK /\ CursorOnEntry
  BY DEF SchedulerInv
<1> QED BY <1>1, SchedulerInvariant, PTL

(* scheduler.cpp:37-59, 75: no query has two entries, and none is left in the
   queue without a credit to spend. *)
THEOREM EntriesStaySound == Spec => []EntriesAreSound
<1>1. SchedulerInv => EntriesAreSound
  BY DEF SchedulerInv, EntriesAreSound
<1> QED BY <1>1, SchedulerInvariant, PTL
=============================================================================
