----------------------------- MODULE PoolProofs ----------------------------
(***************************************************************************)
(* Theorems about the prime pool of PoolCond, for every range of numbers   *)
(* and every set of workers.                                               *)
(***************************************************************************)
EXTENDS PoolCond, TLAPS

-----------------------------------------------------------------------------
(* The primality test.                                                     *)

\* Euclidean division by a positive number.
LEMMA DivMod ==
  ASSUME NEW k \in Nat, NEW d \in Nat, d > 0
  PROVE  k = d * (k \div d) + (k % d) /\ k % d \in Nat /\ k \div d \in Nat
OBVIOUS

\* Half the number bounds the divisors that is_primer() tries.
LEMMA Half ==
  ASSUME NEW k \in Nat, NEW d \in Nat
  PROVE  d <= k \div 2 <=> 2 * d <= k
OBVIOUS

\* A product leaves no remainder.
LEMMA ProductDivides ==
  ASSUME NEW a \in Nat, NEW b \in Nat, a > 0
  PROVE  (a * b) % a = 0
OBVIOUS

\* Multiplying by at least 2 doubles at least.
LEMMA ProductGrows ==
  ASSUME NEW a \in Nat, NEW b \in Nat, b >= 2
  PROVE  2 * a <= a * b
OBVIOUS

\* is_primer() (lines 110-123) answers 1 exactly for the primes, although it
\* tries no divisor beyond half the number.
THEOREM PrimerIsPrime == \A k \in Nat : IsPrimer(k) <=> Prime(k)
<1> SUFFICES ASSUME NEW k \in Nat
             PROVE  IsPrimer(k) <=> Prime(k)
  OBVIOUS
<1>1. ASSUME IsPrimer(k), NEW a \in 2 .. (k - 1), NEW b \in 2 .. (k - 1)
      PROVE  a * b # k
  <2> SUFFICES ASSUME a * b = k PROVE FALSE
    OBVIOUS
  <2>1. a <= k \div 2
    BY <1>1, ProductGrows, Half
  <2>2. k % a = 0
    <3>1. a \in Nat /\ b \in Nat /\ a > 0
      OBVIOUS
    <3>2. (a * b) % a = 0
      BY <3>1, ProductDivides
    <3> QED BY <3>2
  <2> QED BY <1>1, <2>1, <2>2 DEF IsPrimer
<1>2. ASSUME Prime(k), NEW d \in 2 .. (k \div 2)
      PROVE  k % d # 0
  <2> SUFFICES ASSUME k % d = 0 PROVE FALSE
    OBVIOUS
  <2> DEFINE q == k \div d
  <2>1. k = d * q /\ q \in Nat
    BY <1>2, DivMod
  <2>2. 2 * d <= k
    BY Half
  <2>3. q # 0 /\ q # 1
    BY <2>1, <2>2
  <2>4. 2 * q <= d * q
    BY <2>1, ProductGrows
  <2>5. d \in 2 .. (k - 1) /\ q \in 2 .. (k - 1)
    BY <2>1, <2>2, <2>3, <2>4
  <2> QED BY <1>2, <2>1, <2>5 DEF Prime
<1>3. IsPrimer(k) => Prime(k)
  BY <1>1 DEF IsPrimer, Prime
<1>4. Prime(k) => IsPrimer(k)
  BY <1>2 DEF IsPrimer, Prime
<1> QED BY <1>3, <1>4

-----------------------------------------------------------------------------
(* Type correctness.                                                       *)

LEMMA TypeInit == Init => TypeOK
BY NumbersAssumption, ThreadsAssumption
   DEF Init, TypeOK, Labels, Threads, Numbers, Idle, Monitors

LEMMA TypeStep == TypeOK /\ [Next]_vars => TypeOK'
<1> SUFFICES ASSUME TypeOK, [Next]_vars
             PROVE  TypeOK'
  OBVIOUS
<1> USE NumbersAssumption, ThreadsAssumption
    DEF TypeOK, Labels, Threads, Numbers, Monitors, Goto, At
<1>1. ASSUME NEW w \in Workers, Create(w) PROVE TypeOK'
  BY <1>1 DEF Create
<1>2. CASE CreateFails
  BY <1>2 DEF CreateFails
<1>3. ASSUME NEW t \in Threads, Lock(t) PROVE TypeOK'
  BY <1>3 DEF Lock, Locked
<1>4. ASSUME NEW t \in Threads, Wake(t) PROVE TypeOK'
  BY <1>4 DEF Wake, Locked
<1>5. ASSUME NEW t \in Threads, Sleep(t) PROVE TypeOK'
  BY <1>5 DEF Sleep, Waiting
<1>6. ASSUME NEW t \in Threads, Spurious(t) PROVE TypeOK'
  BY <1>6 DEF Spurious, SpuriouslyWoken
<1>7. CASE Post
  <2>1. job' \in Numbers /\ i' \in START .. (END + 1)
    BY <1>7 DEF Post
  <2> QED BY <1>7, <2>1 DEF Post, Unlocked, Broadcast
<1>8. CASE Finish
  BY <1>8 DEF Finish, Unlocked, Broadcast
<1>9. CASE Join
  BY <1>9 DEF Join
<1>10. ASSUME NEW w \in Workers, Leave(w) PROVE TypeOK'
  BY <1>10 DEF Leave, Unlocked
<1>11. ASSUME NEW w \in Workers, Take(w) PROVE TypeOK'
  BY <1>11 DEF Take, Unlocked, Broadcast
<1>12. ASSUME NEW w \in Workers, Judge(w) PROVE TypeOK'
  BY <1>12 DEF Judge
<1>13. CASE UNCHANGED vars
  BY <1>13 DEF vars
<1> QED
  BY <1>1, <1>2, <1>3, <1>4, <1>5, <1>6, <1>7, <1>8, <1>9, <1>10, <1>11, <1>12, <1>13
  DEF Next, MainStep, WorkerStep, Ended, MainWaits, WorkerWaits

\* Every variable keeps its type.
THEOREM TypeCorrect == Spec => []TypeOK
<1>1. Init => TypeOK
  BY TypeInit
<1>2. TypeOK /\ [Next]_vars => TypeOK'
  BY TypeStep
<1> QED BY <1>1, <1>2, PTL DEF Spec
-----------------------------------------------------------------------------
(* Safety.  ExactlyOnce and ReportInv are inductive once types are known;   *)
(* NoLostWakeup is inductive on its own, because whoever changes job takes *)
(* everybody out of the wait set in the same critical section.             *)

LEMMA ExactlyOnceInit == Init => ExactlyOnce
BY NumbersAssumption, ThreadsAssumption
   DEF Init, ExactlyOnce, Unissued, Offered, InHand, Threads, Numbers

LEMMA ExactlyOnceStep == TypeOK /\ TypeOK' /\ ExactlyOnce /\ [Next]_vars => ExactlyOnce'
<1> SUFFICES ASSUME TypeOK, TypeOK', ExactlyOnce, [Next]_vars
             PROVE  ExactlyOnce'
  OBVIOUS
<1> DEFINE Still == /\ Unissued' = Unissued /\ Offered' = Offered /\ judged' = judged
                    /\ n' = n
                    /\ \A w \in Workers : pc'[w] = "judge" <=> pc[w] = "judge"
<1>0. ASSUME Still PROVE ExactlyOnce'
  <2>1. InHand' = InHand
    BY <1>0 DEF InHand
  <2> QED BY <1>0, <2>1 DEF ExactlyOnce
<1> USE NumbersAssumption, ThreadsAssumption DEF Threads, Goto, At
<1>1. ASSUME NEW w \in Workers, Create(w) PROVE Still
  BY <1>1 DEF Create, Unissued, Offered, TypeOK
<1>2. ASSUME CreateFails \/ Join \/ UNCHANGED vars PROVE Still
  BY <1>2 DEF CreateFails, Join, vars, Unissued, Offered
<1>3. ASSUME NEW t \in Threads, Lock(t) \/ Wake(t) \/ Spurious(t) PROVE Still
  BY <1>3 DEF Lock, Wake, Spurious, Unissued, Offered, TypeOK
<1>4. ASSUME NEW t \in Threads, At(t, "section"), Sleep(t) PROVE Still
  BY <1>4 DEF Sleep, Unissued, Offered, TypeOK
<1>5. CASE Post
  <2>1. InHand' = InHand
    BY <1>5 DEF Post, InHand, TypeOK
  <2>2. Unissued = Unissued' \cup {i} /\ i \notin Unissued' /\ i \in Numbers
    BY <1>5 DEF Post, Unissued, TypeOK, Numbers
  <2>3. Offered = {} /\ Offered' = {i}
    BY <1>5 DEF Post, Offered, TypeOK, Numbers
  <2>4. \A v \in Workers : pc'[v] = "judge" <=> pc[v] = "judge"
    BY <1>5 DEF Post, TypeOK
  <2>5. judged' = judged /\ n' = n
    BY <1>5 DEF Post
  <2> QED BY <2>1, <2>2, <2>3, <2>4, <2>5 DEF ExactlyOnce
<1>6. CASE Finish
  BY <1>6, <1>0 DEF Finish, Unissued, Offered, TypeOK
<1>7. ASSUME NEW w \in Workers, Leave(w) PROVE Still
  BY <1>7 DEF Leave, Unissued, Offered, TypeOK
<1>8. ASSUME NEW w \in Workers, Take(w) PROVE ExactlyOnce'
  <2>1. job \in Numbers /\ job > 0
    BY <1>8 DEF Take, TypeOK, Numbers
  <2>2. Offered = {job} /\ Offered' = {}
    BY <1>8, <2>1 DEF Take, Offered
  <2>3. /\ pc[w] # "judge" /\ pc'[w] = "judge" /\ n'[w] = job
        /\ \A v \in Workers \ {w} : pc'[v] = pc[v] /\ n'[v] = n[v]
    BY <1>8 DEF Take, TypeOK
  <2>4. InHand' = InHand \cup {job}
    BY <2>3 DEF InHand
  <2>5. job \notin InHand
    BY <2>2 DEF ExactlyOnce
  <2>6. \A v \in Workers \ {w} : pc'[v] = "judge" => n'[v] # n'[w]
    BY <2>3, <2>5 DEF InHand
  <2>7. Unissued' = Unissued /\ judged' = judged
    BY <1>8 DEF Take, Unissued
  <2> QED BY <2>2, <2>3, <2>4, <2>5, <2>6, <2>7 DEF ExactlyOnce
<1>9. ASSUME NEW w \in Workers, Judge(w) PROVE ExactlyOnce'
  <2>1. /\ pc[w] = "judge" /\ pc'[w] # "judge" /\ n' = n
        /\ \A v \in Workers \ {w} : pc'[v] = pc[v]
    BY <1>9 DEF Judge, TypeOK
  <2>2. \A v \in Workers \ {w} : pc[v] = "judge" => n[v] # n[w]
    BY <2>1 DEF ExactlyOnce
  <2>3. n[w] \in InHand /\ InHand' = InHand \ {n[w]}
    BY <2>1, <2>2 DEF InHand
  <2>4. judged' = judged \cup {n[w]} /\ Unissued' = Unissued /\ Offered' = Offered
    BY <1>9 DEF Judge, Unissued, Offered
  <2> QED BY <2>1, <2>3, <2>4 DEF ExactlyOnce
<1> QED
  BY <1>0, <1>1, <1>2, <1>3, <1>4, <1>5, <1>6, <1>7, <1>8, <1>9
  DEF Next, MainStep, WorkerStep, Ended, MainWaits, WorkerWaits

\* Every number of the range is in exactly one place at any time.
THEOREM EveryNumberOnce == Spec => []ExactlyOnce
<1>1. Init => ExactlyOnce
  BY ExactlyOnceInit
<1>2. TypeOK /\ TypeOK' /\ ExactlyOnce /\ [Next]_vars => ExactlyOnce'
  BY ExactlyOnceStep
<1> QED BY <1>1, <1>2, TypeCorrect, PTL DEF Spec

LEMMA NoLostWakeupStep == TypeOK /\ NoLostWakeup /\ [Next]_vars => NoLostWakeup'
<1> SUFFICES ASSUME TypeOK, NoLostWakeup, [Next]_vars
             PROVE  NoLostWakeup'
  OBVIOUS
<1> USE ThreadsAssumption DEF NoLostWakeup, Threads, At
<1>1. CASE mon'.sleepers = {}
  BY <1>1
<1>2. CASE mon'.sleepers \subseteq mon.sleepers /\ job' = job /\ i' = i
  BY <1>2
<1>3. ASSUME MainWaits PROVE NoLostWakeup'
  BY <1>3 DEF MainWaits, Sleep, Waiting
<1>4. ASSUME NEW w \in Workers, WorkerWaits(w) PROVE NoLostWakeup'
  BY <1>4 DEF WorkerWaits, Sleep, Waiting
<1>5. ASSUME Post \/ Finish \/ \E w \in Workers : Take(w)
      PROVE  mon'.sleepers = {}
  BY <1>5 DEF Post, Finish, Take, Unlocked, Broadcast, TypeOK, Monitors
<1>6. ASSUME \/ CreateFails \/ Join \/ UNCHANGED vars
             \/ \E w \in Workers : Create(w) \/ Leave(w) \/ Judge(w)
             \/ \E t \in Threads : Lock(t) \/ Wake(t) \/ Spurious(t)
      PROVE  mon'.sleepers \subseteq mon.sleepers /\ job' = job /\ i' = i
  BY <1>6 DEF CreateFails, Join, vars, Create, Leave, Judge, Lock, Wake, Spurious,
              Locked, Unlocked, SpuriouslyWoken, TypeOK, Monitors
<1> QED
  BY <1>1, <1>2, <1>3, <1>4, <1>5, <1>6
  DEF Next, MainStep, WorkerStep, Ended

\* No thread sleeps while what it waits for has come true.
THEOREM NobodyOversleeps == Spec => []NoLostWakeup
<1>1. Init => NoLostWakeup
  BY DEF Init, Idle, NoLostWakeup
<1>2. TypeOK /\ NoLostWakeup /\ [Next]_vars => NoLostWakeup'
  BY NoLostWakeupStep
<1> QED BY <1>1, <1>2, TypeCorrect, PTL DEF Spec

-----------------------------------------------------------------------------
(* The report.                                                             *)

\* What is printed is the primes among the judged numbers, main joins exactly
\* when job is -1, nothing is left to issue then, and it returns 0 only when
\* everything has been judged.
ReportInv ==
  /\ printed = {k \in judged : IsPrimer(k)}
  /\ job = -1 <=> pc[Main] = "join"
  /\ job = -1 => i > END
  /\ status = "exit0" => judged = Numbers

LEMMA ReportStep ==
  TypeOK /\ ExactlyOnce /\ ReportInv /\ [Next]_vars => ReportInv'
<1> SUFFICES ASSUME TypeOK, ExactlyOnce, ReportInv, [Next]_vars
             PROVE  ReportInv'
  OBVIOUS
<1> USE NumbersAssumption, ThreadsAssumption DEF Threads, Goto, At
<1>1. ASSUME NEW w \in Workers, Create(w) PROVE ReportInv'
  BY <1>1 DEF Create, ReportInv, TypeOK
<1>2. ASSUME CreateFails \/ UNCHANGED vars PROVE ReportInv'
  BY <1>2 DEF CreateFails, vars, ReportInv
<1>3. ASSUME NEW t \in Threads, Lock(t) \/ Wake(t) \/ Spurious(t) PROVE ReportInv'
  BY <1>3 DEF Lock, Wake, Spurious, ReportInv, TypeOK
<1>4. ASSUME NEW t \in Threads, At(t, "section"), Sleep(t) PROVE ReportInv'
  BY <1>4 DEF Sleep, ReportInv, TypeOK
<1>5. ASSUME Post PROVE ReportInv'
  BY <1>5 DEF Post, ReportInv, TypeOK
<1>6. ASSUME Finish PROVE ReportInv'
  BY <1>6 DEF Finish, ReportInv, TypeOK
<1>7. CASE Join
  <2>1. Unissued = {} /\ Offered = {} /\ InHand = {}
    BY <1>7 DEF Join, ReportInv, Unissued, Offered, InHand, TypeOK
  <2>2. judged = Numbers
    BY <2>1 DEF ExactlyOnce
  <2> QED BY <1>7, <2>2 DEF Join, ReportInv
<1>8. ASSUME NEW w \in Workers, Leave(w) \/ Take(w) PROVE ReportInv'
  BY <1>8 DEF Leave, Take, ReportInv, TypeOK, Numbers
<1>9. ASSUME NEW w \in Workers, Judge(w) PROVE ReportInv'
  BY <1>9 DEF Judge, ReportInv, TypeOK
<1> QED
  BY <1>1, <1>2, <1>3, <1>4, <1>5, <1>6, <1>7, <1>8, <1>9
  DEF Next, MainStep, WorkerStep, Ended, MainWaits, WorkerWaits

LEMMA ReportInvariant == Spec => []ReportInv
<1>1. Init => ReportInv
  BY NumbersAssumption, ThreadsAssumption DEF Init, ReportInv, Threads
<1>2. TypeOK /\ ExactlyOnce /\ ReportInv /\ [Next]_vars => ReportInv'
  BY ReportStep
<1> QED BY <1>1, <1>2, TypeCorrect, EveryNumberOnce, PTL DEF Spec

\* A run that returns 0 has judged every number and printed exactly the primes.
THEOREM ReportIsComplete == Spec => []ReportComplete
<1>1. TypeOK /\ ReportInv => ReportComplete
  BY PrimerIsPrime, NumbersAssumption DEF TypeOK, ReportInv, ReportComplete, Numbers
<1> QED BY <1>1, TypeCorrect, ReportInvariant, PTL

-----------------------------------------------------------------------------
(* Refinement.                                                             *)

LEMMA PoolInit == Init => Pool!Init
BY NumbersAssumption, ThreadsAssumption
   DEF Init, Pool!Init, Unissued, Offered, InHand, Threads, Numbers

\* A step maps to the abstract step of the same name, or to a stutter when it
\* only moves the mutex, the wait set or a program counter.
LEMMA PoolStep ==
  /\ TypeOK /\ TypeOK' /\ ExactlyOnce /\ ExactlyOnce' /\ ReportInv /\ ReportInv'
  /\ [Next]_vars
  => [Pool!Next]_(Pool!wpVars)
<1> SUFFICES ASSUME TypeOK, TypeOK', ExactlyOnce, ExactlyOnce', ReportInv, ReportInv',
                    [Next]_vars
             PROVE  Pool!Next \/ UNCHANGED Pool!wpVars
  OBVIOUS
<1> USE NumbersAssumption, ThreadsAssumption DEF Threads, Goto, At
<1> DEFINE Still == /\ Unissued' = Unissued /\ Offered' = Offered /\ judged' = judged
                    /\ n' = n /\ (status' = "exit0") = (status = "exit0")
                    /\ \A w \in Workers : pc'[w] = "judge" <=> pc[w] = "judge"
<1>0. ASSUME Still PROVE UNCHANGED Pool!wpVars
  <2>1. InHand' = InHand
    BY <1>0 DEF InHand
  <2> QED BY <1>0, <2>1 DEF Pool!wpVars
<1>1. ASSUME NEW w \in Workers, Create(w) PROVE Still
  BY <1>1 DEF Create, Unissued, Offered, TypeOK
<1>2. ASSUME CreateFails PROVE Still
  BY <1>2 DEF CreateFails, Unissued, Offered
<1>3. ASSUME UNCHANGED vars PROVE Still
  BY <1>3 DEF vars, Unissued, Offered
<1>4. ASSUME NEW t \in Threads, Lock(t) \/ Wake(t) \/ Spurious(t) PROVE Still
  BY <1>4 DEF Lock, Wake, Spurious, Unissued, Offered, TypeOK
<1>5. ASSUME NEW t \in Threads, At(t, "section"), Sleep(t) PROVE Still
  BY <1>5 DEF Sleep, Unissued, Offered, TypeOK
<1>6. ASSUME Finish PROVE Still
  BY <1>6 DEF Finish, Unissued, Offered, TypeOK
<1>7. ASSUME NEW w \in Workers, Leave(w) PROVE Still
  BY <1>7 DEF Leave, Unissued, Offered, TypeOK
<1>8. ASSUME Post PROVE Pool!Offer(i) /\ i \in Numbers
  <2>1. InHand' = InHand
    BY <1>8 DEF Post, InHand, TypeOK
  <2>2. i \in Unissued /\ i \in Numbers /\ Unissued' = Unissued \ {i}
    BY <1>8 DEF Post, Unissued, TypeOK, Numbers
  <2>3. Offered = {} /\ Offered' = {i}
    BY <1>8 DEF Post, Offered, TypeOK, Numbers
  <2>4. judged' = judged /\ status' = status
    BY <1>8 DEF Post
  <2> QED BY <2>1, <2>2, <2>3, <2>4 DEF Pool!Offer
<1>9. ASSUME Join PROVE Pool!Close
  <2>1. status' = "exit0" /\ judged' = judged
    BY <1>9 DEF Join
  <2>2. judged = Numbers
    BY <2>1 DEF ReportInv
  <2>3. Unissued' = Unissued /\ Offered' = Offered /\ InHand' = InHand
    BY <1>9 DEF Join, Unissued, Offered, InHand
  <2> QED BY <2>1, <2>2, <2>3 DEF Pool!Close
<1>10. ASSUME NEW w \in Workers, Take(w) PROVE Pool!Take(job) /\ job \in Numbers
  <2>1. job \in Numbers /\ job > 0
    BY <1>10 DEF Take, TypeOK, Numbers
  <2>2. Offered = {job} /\ Offered' = {}
    BY <1>10, <2>1 DEF Take, Offered
  <2>3. InHand' = InHand \cup {job}
    BY <1>10 DEF Take, InHand, TypeOK
  <2>4. Unissued' = Unissued /\ judged' = judged /\ status' = status
    BY <1>10 DEF Take, Unissued
  <2> QED BY <2>1, <2>2, <2>3, <2>4 DEF Pool!Take
<1>11. ASSUME NEW w \in Workers, Judge(w) PROVE Pool!Judge(n[w]) /\ n[w] \in Numbers
  <2>1. /\ pc[w] = "judge" /\ pc'[w] # "judge" /\ n' = n
        /\ \A v \in Workers \ {w} : pc'[v] = pc[v]
    BY <1>11 DEF Judge, TypeOK
  <2>2. \A v \in Workers \ {w} : pc[v] = "judge" => n[v] # n[w]
    BY <2>1 DEF ExactlyOnce
  <2>3. n[w] \in InHand /\ InHand' = InHand \ {n[w]}
    BY <2>1, <2>2 DEF InHand
  <2>4. /\ judged' = judged \cup {n[w]} /\ Unissued' = Unissued
        /\ Offered' = Offered /\ status' = status
    BY <1>11 DEF Judge, Unissued, Offered
  <2>5. n[w] \in Numbers
    BY <2>1 DEF TypeOK
  <2> QED BY <2>3, <2>4, <2>5 DEF Pool!Judge
<1>12. CASE UNCHANGED vars
  BY <1>0, <1>3, <1>12
<1>13. CASE MainStep
  BY <1>0, <1>1, <1>2, <1>4, <1>5, <1>6, <1>8, <1>9, <1>13
  DEF MainStep, MainWaits, Pool!Next
<1>14. ASSUME NEW w \in Workers, WorkerStep(w) PROVE Pool!Next \/ UNCHANGED Pool!wpVars
  BY <1>0, <1>4, <1>5, <1>7, <1>10, <1>11, <1>14 DEF WorkerStep, WorkerWaits, Pool!Next
<1>15. CASE \E t \in Threads : Spurious(t)
  BY <1>0, <1>4, <1>15
<1> QED
  BY <1>12, <1>13, <1>14, <1>15 DEF Next, Ended

\* The program is a work pool: it hands every number out once, has it judged
\* once, and ends normally only when all are judged.
THEOREM PoolImplementsWorkPool == Spec => PoolSpec
<1>1. Init => Pool!Init
  BY PoolInit
<1>2. /\ TypeOK /\ TypeOK' /\ ExactlyOnce /\ ExactlyOnce' /\ ReportInv /\ ReportInv'
      /\ [Next]_vars
      => [Pool!Next]_(Pool!wpVars)
  BY PoolStep
<1> QED BY <1>1, <1>2, TypeCorrect, EveryNumberOnce, ReportInvariant, PTL
        DEF Spec, PoolSpec, Pool!Spec
=============================================================================
