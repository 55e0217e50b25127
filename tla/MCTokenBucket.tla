--------------------------- MODULE MCTokenBucket ---------------------------
(***************************************************************************)
(* Instances of TokenBucket for TLC.                                       *)
(***************************************************************************)
EXTENDS TokenBucket, TLC

\* One kind of bucket, whose second credit overflows it.
MCParams == {[cps |-> 2, burst |-> 3]}

\* Callers are interchangeable, and so are accumulators (safety only).
MCSymmetry == Permutations(Callers) \cup Permutations(Accs)
=============================================================================
