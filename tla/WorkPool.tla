----------------------------- MODULE WorkPool ------------------------------
(***************************************************************************)
(* What a work pool promises, whatever it is made of: every value is       *)
(* handed out once and judged once, at most one value is on offer at a     *)
(* time, and the pool is over only when every value has been judged.       *)
(***************************************************************************)
EXTENDS Naturals

CONSTANT Values

VARIABLES
  unissued,   \* the values nobody has offered yet
  offered,    \* the value on offer, as a set of at most one element
  inHand,     \* the values some worker has taken and not judged yet
  judged,     \* the values that have been judged
  over        \* the pool has ended normally

wpVars == <<unissued, offered, inHand, judged, over>>

Init ==
  /\ unissued = Values
  /\ offered = {}
  /\ inHand = {}
  /\ judged = {}
  /\ over = FALSE

Offer(v) ==
  /\ v \in unissued
  /\ offered = {}
  /\ unissued' = unissued \ {v}
  /\ offered' = {v}
  /\ UNCHANGED <<inHand, judged, over>>

Take(v) ==
  /\ v \in offered
  /\ offered' = {}
  /\ inHand' = inHand \cup {v}
  /\ UNCHANGED <<unissued, judged, over>>

Judge(v) ==
  /\ v \in inHand
  /\ inHand' = inHand \ {v}
  /\ judged' = judged \cup {v}
  /\ UNCHANGED <<unissued, offered, over>>

Close ==
  /\ judged = Values
  /\ over' = TRUE
  /\ UNCHANGED <<unissued, offered, inHand, judged>>

Next ==
  \/ \E v \in Values : Offer(v) \/ Take(v) \/ Judge(v)
  \/ Close

Spec == Init /\ [][Next]_wpVars
=============================================================================
