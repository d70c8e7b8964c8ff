---------------------------- MODULE SmartRouting ----------------------------
(***************************************************************************)
(* Smart routing (cpp/common/routing.cpp): which owners the gateway asks,  *)
(* judged by what the manifest of the shards says of each.                 *)
(*                                                                         *)
(* Numbers are counted in halves, so that casts to an integer lose         *)
(* something; a timestamp is counted in halves of a month.                 *)
(***************************************************************************)
EXTENDS Integers, Sequences, SequencesExt, Lists

(* static_cast<int>: truncation towards zero. *)
Truncated(halves) == IF halves >= 0 THEN halves \div 2 ELSE -((-halves) \div 2)

(* month_of_epoch, 1 to 12. *)
Month(t) == ((t \div 2) % 12) + 1

(* Fields that a manifest lacks keep their defaults; covers stands for the
   field of its scheme: owner_dist_range, owner_zones or owner_months. *)
DefaultMetadata ==
    [scheme |-> "", covers |-> <<>>, multiplier |-> 100,
     vnodes_per_owner |-> 0, total_vnodes |-> 0, hash_column |-> "", owners |-> <<>>]

(* load_owner_metadata *)
Metadata(manifest) ==
    [f \in DOMAIN DefaultMetadata \cup DOMAIN manifest |->
        IF f \in DOMAIN manifest THEN manifest[f] ELSE DefaultMetadata[f]]

(* OwnerMetadata::empty() *)
NoMetadata(meta) ==
    meta.scheme = "" \/ (meta.covers = <<>> /\ meta.vnodes_per_owner = 0)

Column(meta) == IF meta.scheme = "consistent_hash" THEN meta.hash_column ELSE meta.scheme

(* find_pred: the first predicate on the column the shards are cut along. *)
Clustering(query, meta) ==
    Filter(query, {p \in ToSet(query) : p.column = Column(meta)})

-----------------------------------------------------------------------------
(* trip_distance *)

(* Mutant: an owner whose range begins where the window ends is left out. *)
RangeOverlapsOpen(p, range) == ~(range.hi <= p.low \/ range.lo >= p.high)

RangeOverlaps(p, range) == ~(range.hi < p.low \/ range.lo > p.high)

(* pu_location_id: the window is cut to whole numbers first. *)
ZoneOverlaps(p, zones) ==
    \E z \in zones : Truncated(p.low) <= z /\ z <= Truncated(p.high)

(* pickup_datetime: the months of the window's ends, swapped when they are
   out of order. *)
MonthOverlaps(p, months) ==
    LET m_lo == Min({Month(p.low), Month(p.high)})
        m_hi == Max({Month(p.low), Month(p.high)})
    IN  \E m \in months : m_lo <= m /\ m <= m_hi

(* An owner the manifest says nothing of is asked. *)
Covered(o, p, meta) ==
    o \in DOMAIN meta.covers =>
        CASE meta.scheme = "trip_distance"  -> RangeOverlaps(p, meta.covers[o])
          [] meta.scheme = "pu_location_id" -> ZoneOverlaps(p, meta.covers[o])
          [] OTHER                          -> MonthOverlaps(p, meta.covers[o])

-----------------------------------------------------------------------------
(* consistent_hash *)

Bucket(v, meta) == Truncated(v * meta.multiplier)

Buckets(p, meta) ==
    LET b_lo == Min({Bucket(p.low, meta), Bucket(p.high, meta)})
        b_hi == Max({Bucket(p.low, meta), Bucket(p.high, meta)})
    IN  Max({b_lo, 0})..b_hi

(* Vnodes are dealt to the owners in stripes; the last owner takes the rest.
   meta.vnode stands for fnv1a32 % total_vnodes. *)
OwnerOf(b, meta) ==
    LET stripe == meta.vnode[b] \div meta.vnodes_per_owner
    IN  meta.owners[Min({stripe + 1, Len(meta.owners)})]

(* Wide windows hit everybody; a window that hits nobody asks everybody. *)
HashedOwners(all_owners, p, meta) ==
    LET buckets == Buckets(p, meta)
        hit     == {OwnerOf(b, meta) : b \in buckets}
        out     == Filter(all_owners, hit)
    IN  IF Cardinality(buckets) > 4 * meta.total_vnodes THEN all_owners
        ELSE IF out = <<>> THEN all_owners ELSE out

HashIsReady(meta) ==
    meta.vnodes_per_owner # 0 /\ meta.total_vnodes # 0 /\ meta.owners # <<>>

-----------------------------------------------------------------------------
(* eligible_owners *)
Eligible(all_owners, query, meta) ==
    LET preds == Clustering(query, meta)
    IN  IF NoMetadata(meta) \/ preds = <<>> THEN all_owners
        ELSE CASE meta.scheme \in {"trip_distance", "pu_location_id", "pickup_datetime"} ->
                      Filter(all_owners,
                             {o \in ToSet(all_owners) : Covered(o, Head(preds), meta)})
               [] meta.scheme = "consistent_hash" /\ HashIsReady(meta) ->
                      HashedOwners(all_owners, Head(preds), meta)
               [] OTHER -> all_owners
=============================================================================
