----------------------------- MODULE ClientArgs -----------------------------
(***************************************************************************)
(* How the client makes a query of its command line (parse in              *)
(* cpp/client/client.cpp).  An argument is a flag and its value.           *)
(***************************************************************************)
EXTENDS Integers, Sequences, SequencesExt

CONSTANT DefaultHigh    \* 1e9, the upper end of a window that names none

ASSUME DefaultHighAssumption == DefaultHigh \in Nat

Fresh(column) == [column |-> column, low |-> 0, high |-> DefaultHigh, inclusive |-> TRUE]

(* A bound needs a predicate to belong to: the last one, or a new one. *)
OrFresh(preds, column) == IF preds = <<>> THEN <<Fresh(column)>> ELSE preds

Lowered(preds, v) == [preds EXCEPT ![Len(preds)].low = v]
Raised(preds, v)  == [preds EXCEPT ![Len(preds)].high = v]

Argument(preds, arg) ==
    CASE arg.flag = "--column"  -> Append(preds, Fresh(arg.value))
      [] arg.flag = "--low"     -> Lowered(OrFresh(preds, "trip_distance"), arg.value)
      [] arg.flag = "--high"    -> Raised(OrFresh(preds, "trip_distance"), arg.value)
      [] arg.flag = "--low-dt"  -> Lowered(OrFresh(preds, "pickup_datetime"), arg.value)
      [] arg.flag = "--high-dt" -> Raised(OrFresh(preds, "pickup_datetime"), arg.value)
      [] arg.flag = "--exclusive" /\ preds # <<>> ->
            [preds EXCEPT ![Len(preds)].inclusive = FALSE]
      [] OTHER -> preds

Predicates(args) == OrFresh(FoldLeft(Argument, <<>>, args), "trip_distance")
=============================================================================
