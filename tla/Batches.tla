------------------------------- MODULE Batches -------------------------------
(***************************************************************************)
(* How a call over several items divides itself (tools/base.py, BatchShare *)
(* and run_batch).                                                         *)
(***************************************************************************)
EXTENDS Integers, Sequences, FiniteSetsExt, SequencesExt

(* BatchShare.of: the share of a budget the i-th of count items gets. *)
ShareOf(total, i, count) ==
    total \div count + (IF i <= total % count THEN 1 ELSE 0)

(* run_batch: every item once, where it was asked for first. *)
Once(items) ==
    LET first == {i \in DOMAIN items : \A j \in 1 .. i - 1 : items[j] # items[i]}
        at == SetToSortSeq(first, LAMBDA i, j : i < j)
    IN [k \in DOMAIN at |-> items[at[k]]]
==============================================================================
