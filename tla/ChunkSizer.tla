----------------------------- MODULE ChunkSizer -----------------------------
(***************************************************************************)
(* ChunkSizer (cpp/common/scheduler.cpp): how many rows the next chunk of  *)
(* a query may carry.  decide() takes the consumer's hint, or else grows   *)
(* the size when the consumer pulls quickly and shrinks it when it pulls   *)
(* slowly.  Time enters only as the pace of the pull compared to target.   *)
(***************************************************************************)
EXTENDS Naturals

CONSTANTS
    Rids,       \* request ids
    Hints,      \* the max_rows clients ask for; 0 leaves it to the node
    InitialRows, MinRows, MaxRows    \* chunking of the overlay

ASSUME ChunkingAssumption ==
    /\ Hints \subseteq Nat
    /\ InitialRows \in Nat \ {0}
    /\ MinRows \in Nat \ {0}
    /\ MaxRows \in Nat
    /\ MinRows <= MaxRows

Paces == {"quick", "steady", "slow"}

VARIABLES
    cur,        \* st.cur of the rids in s_, 0 elsewhere; decide() returns it
    has_last    \* st.has_last, FALSE elsewhere

sizerVars == <<cur, has_last>>

SizerInit ==
    /\ cur = [r \in Rids |-> 0]
    /\ has_last = [r \in Rids |-> FALSE]

Lower(a, b)  == IF a <= b THEN a ELSE b
Higher(a, b) == IF a <= b THEN b ELSE a

Clamp(n) == Higher(MinRows, Lower(MaxRows, n))

(* Mutants: "* 1.5" without "+ 1"; no cap. *)
GrownNoPlus(n) == Lower(MaxRows, (3 * n) \div 2)
GrownUncapped(n) == (3 * n) \div 2 + 1

(* int(cur * 1.5) + 1, and cur / 2. *)
Grown(n)  == Lower(MaxRows, (3 * n) \div 2 + 1)
Shrunk(n) == Higher(MinRows, n \div 2)

(* The entry as decide() finds it, creating it if it is not there. *)
Before(r) == IF cur[r] = 0 THEN InitialRows ELSE cur[r]

(* decide(r, 0) with the pull at pace p; the first one has none. *)
Paced(r, p) ==
    IF ~has_last[r] THEN Before(r)
    ELSE CASE p = "quick" -> Grown(Before(r))
           [] p = "slow"  -> Shrunk(Before(r))
           [] OTHER       -> Before(r)

Decided(r, n) ==
    /\ cur' = [cur EXCEPT ![r] = n]
    /\ has_last' = [has_last EXCEPT ![r] = TRUE]

Decide(r, hint, p) ==
    Decided(r, IF hint > 0 THEN Clamp(hint) ELSE Paced(r, p))

Forget(r) ==
    /\ cur' = [cur EXCEPT ![r] = 0]
    /\ has_last' = [has_last EXCEPT ![r] = FALSE]

SizerNext == \E r \in Rids :
    \/ \E hint \in Hints, p \in Paces : Decide(r, hint, p)
    \/ Forget(r)

SizerSpec == SizerInit /\ [][SizerNext]_sizerVars

-----------------------------------------------------------------------------
(* An entry is there with both its fields, or not at all. *)
SizerTypeOK ==
    /\ cur \in [Rids -> Nat]
    /\ has_last \in [Rids -> BOOLEAN]
    /\ \A r \in Rids : has_last[r] <=> cur[r] # 0

(* scheduler.cpp:5: every chunk size decided is within the overlay's bounds,
   whatever hints, paces and forgotten entries came before -- if the initial
   size is: decide() itself never looks at that, and the environment sets
   MINI2_INITIAL_ROWS and MINI2_MAX_ROWS independently (overlay.cpp:275). *)
WithinBounds ==
    InitialRows \in MinRows..MaxRows =>
        \A r \in Rids : cur[r] # 0 => cur[r] \in MinRows..MaxRows

(* scheduler.hpp:20-22: the size never gets stuck between the bounds: from
   every size in use a quick pull grows it, up to the cap, and a slow one
   shrinks it, down to the floor. *)
AlwaysAdapts ==
    InitialRows \in MinRows..MaxRows =>
        \A r \in Rids : cur[r] # 0 =>
            /\ Grown(cur[r]) > cur[r] \/ cur[r] = MaxRows
            /\ Shrunk(cur[r]) < cur[r] \/ cur[r] = MinRows
=============================================================================
