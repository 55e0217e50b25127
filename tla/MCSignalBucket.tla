---------------------------- MODULE MCSignalBucket ----------------------------
(***************************************************************************)
(* An instance of SignalBucket for TLC.                                    *)
(***************************************************************************)
EXTENDS SignalBucket

\* Two kinds of bucket: one that a credit fills at once, and one that overflows
\* at the second credit, with fetches that get less than they ask for.
MCParams == {[cps |-> 1, burst |-> 1], [cps |-> 2, burst |-> 3]}
=============================================================================
