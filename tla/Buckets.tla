------------------------------ MODULE Buckets ------------------------------
(***************************************************************************)
(* What a token-bucket library promises: each live bucket holds between 0  *)
(* and "burst" tokens, gains "cps" of them at a time without overflowing,  *)
(* and gives out no token that it does not hold.                           *)
(***************************************************************************)
EXTENDS Integers

CONSTANTS
  Slots,     \* where buckets live
  Params     \* the pairs [cps, burst] buckets are made with

VARIABLES
  live,      \* the slots that hold a bucket
  level,     \* the tokens in each of them
  limit      \* their parameters

bVars == <<live, level, limit>>

Least(x, y) == IF x <= y THEN x ELSE y

Init ==
  /\ live = {}
  /\ level = [s \in Slots |-> 0]
  /\ limit = [s \in Slots |-> [cps |-> 0, burst |-> 0]]

Create(s, p) ==
  /\ s \notin live
  /\ live' = live \cup {s}
  /\ level' = [level EXCEPT ![s] = 0]
  /\ limit' = [limit EXCEPT ![s] = p]

\* Some of the buckets gain their tokens, at the same moment.
Refill(S) ==
  /\ S \subseteq live
  /\ level' = [s \in Slots |->
                 IF s \in S THEN Least(level[s] + limit[s].cps, limit[s].burst)
                 ELSE level[s]]
  /\ UNCHANGED <<live, limit>>

Draw(s, k) ==
  /\ s \in live
  /\ k \in 1 .. level[s]
  /\ level' = [level EXCEPT ![s] = @ - k]
  /\ UNCHANGED <<live, limit>>

Remove(s) ==
  /\ s \in live
  /\ live' = live \ {s}
  /\ level' = [level EXCEPT ![s] = 0]
  /\ UNCHANGED limit

Next ==
  \/ \E S \in SUBSET live : Refill(S)
  \/ \E s \in Slots :
       \/ \E p \in Params : Create(s, p)
       \/ \E k \in 1 .. level[s] : Draw(s, k)
       \/ Remove(s)

Spec == Init /\ [][Next]_bVars
=============================================================================
