----------------------------- MODULE PoolCond ------------------------------
(***************************************************************************)
(* pthreads/thr_static_pool_cond.c: the main thread hands the numbers      *)
(* START .. END one by one to a fixed set of workers through the shared    *)
(* variable "job"; whoever is free takes the number, tests it for          *)
(* primality outside the lock and comes back for more.                     *)
(*                                                                         *)
(* job > 0 is a number on offer, job = 0 says that the number was taken    *)
(* (or that none was offered yet) and job = -1 that there are no more.     *)
(* All accesses to job are made under one mutex, and both sides wait on    *)
(* the same condition variable: "mon" is that pair.                        *)
(***************************************************************************)
EXTENDS Integers, Monitor

CONSTANTS
  START, END,   \* the first and the last number to judge
  Workers,      \* the worker threads (THR_NR of them)
  Main          \* the main thread

Threads == Workers \cup {Main}
Numbers == START .. END

ASSUME NumbersAssumption == START \in Nat /\ END \in Nat /\ 0 < START /\ START <= END
ASSUME ThreadsAssumption == Main \notin Workers /\ Nobody \notin Threads

VARIABLES
  pc,       \* where each thread is
  mon,      \* the mutex and the condition variable
  job,      \* the shared variable
  i,        \* the loop counter of main: the next number to post
  n,        \* the local number of each worker
  judged,   \* the numbers is_primer() has been called on
  printed,  \* the numbers reported as primes
  status    \* of the process: "running", "exit0" or "exit1"

vars == <<pc, mon, job, i, n, judged, printed, status>>

\* Mutant of IsPrimer: the loop stops one short of half the number.
MutIsPrimer(k) == k >= 2 /\ \A d \in 2 .. (k \div 2) - 1 : k % d # 0

\* is_primer(): no divisor from 2 to half the number.
IsPrimer(k) == k >= 2 /\ \A d \in 2 .. (k \div 2) : k % d # 0

Init ==
  /\ pc = [t \in Threads |-> IF t = Main THEN "create" ELSE "none"]
  /\ mon = Idle
  /\ job = 0
  /\ i = START
  /\ n = [w \in Workers |-> 0]
  /\ judged = {}
  /\ printed = {}
  /\ status = "running"

\* The process runs and t is at the label.
At(t, label) == status = "running" /\ pc[t] = label

Goto(t, label) == pc' = [pc EXCEPT ![t] = label]

-----------------------------------------------------------------------------
(* What both kinds of threads do with the monitor.                         *)

\* pthread_mutex_lock() at the head of a critical section.
Lock(t) ==
  /\ At(t, "lock")
  /\ Free(mon)
  /\ mon' = Locked(mon, t)
  /\ Goto(t, "section")
  /\ UNCHANGED <<job, i, n, judged, printed, status>>

\* The return from pthread_cond_wait(), which locks the mutex again.
Wake(t) ==
  /\ At(t, "asleep")
  /\ t \notin mon.sleepers
  /\ Free(mon)
  /\ mon' = Locked(mon, t)
  /\ Goto(t, "section")
  /\ UNCHANGED <<job, i, n, judged, printed, status>>

\* The call of pthread_cond_wait().
Sleep(t) ==
  /\ mon' = Waiting(mon, t)
  /\ Goto(t, "asleep")
  /\ UNCHANGED <<job, i, n, judged, printed, status>>

\* pthread_cond_wait() may return without a broadcast.
Spurious(t) ==
  /\ status = "running"
  /\ t \in mon.sleepers
  /\ mon' = SpuriouslyWoken(mon, t)
  /\ UNCHANGED <<pc, job, i, n, judged, printed, status>>

-----------------------------------------------------------------------------
(* The main thread.                                                        *)

\* One pthread_create() that succeeds; after the last one main goes on.
Create(w) ==
  /\ At(Main, "create")
  /\ At(w, "none")
  /\ pc' = [pc EXCEPT
       ![w] = "lock",
       ![Main] = IF \A v \in Workers \ {w} : pc[v] # "none" THEN "lock" ELSE @]
  /\ UNCHANGED <<mon, job, i, n, judged, printed, status>>

\* One pthread_create() that fails: exit(1) ends every thread.
CreateFails ==
  /\ At(Main, "create")
  /\ status' = "exit1"
  /\ UNCHANGED <<pc, mon, job, i, n, judged, printed>>

\* while (job != 0) in the loop over the numbers, while (job > 0) after it.
MainWaits ==
  /\ At(Main, "section")
  /\ IF i <= END THEN job # 0 ELSE job > 0
  /\ Sleep(Main)

\* Mutant of Post: the loop runs on after END.
MutPost ==
  /\ At(Main, "section")
  /\ job = 0
  /\ job' = i
  /\ i' = i + 1
  /\ mon' = Unlocked(Broadcast(mon))
  /\ Goto(Main, "lock")
  /\ UNCHANGED <<n, judged, printed, status>>

\* job = i; broadcast; unlock; i++
Post ==
  /\ At(Main, "section")
  /\ i <= END
  /\ job = 0
  /\ job' = i
  /\ i' = i + 1
  /\ mon' = Unlocked(Broadcast(mon))
  /\ Goto(Main, "lock")
  /\ UNCHANGED <<n, judged, printed, status>>

\* Mutant of Finish: the last broadcast is forgotten.
MutFinish ==
  /\ At(Main, "section")
  /\ i > END
  /\ job <= 0
  /\ job' = -1
  /\ mon' = Unlocked(mon)
  /\ Goto(Main, "join")
  /\ UNCHANGED <<i, n, judged, printed, status>>

\* job = -1; broadcast; unlock, after the last number has been taken
Finish ==
  /\ At(Main, "section")
  /\ i > END
  /\ job <= 0
  /\ job' = -1
  /\ mon' = Unlocked(Broadcast(mon))
  /\ Goto(Main, "join")
  /\ UNCHANGED <<i, n, judged, printed, status>>

\* Mutant of Join: the threads are not joined.
MutJoin ==
  /\ At(Main, "join")
  /\ status' = "exit0"
  /\ UNCHANGED <<pc, mon, job, i, n, judged, printed>>

\* pthread_join() of every worker, then return 0
Join ==
  /\ At(Main, "join")
  /\ \A w \in Workers : pc[w] = "done"
  /\ status' = "exit0"
  /\ UNCHANGED <<pc, mon, job, i, n, judged, printed>>

-----------------------------------------------------------------------------
(* A worker: job_thread().                                                 *)

WorkerWaits(w) ==
  /\ At(w, "section")
  /\ job = 0
  /\ Sleep(w)

\* job is -1: unlock and leave the loop
Leave(w) ==
  /\ At(w, "section")
  /\ job = -1
  /\ mon' = Unlocked(mon)
  /\ Goto(w, "done")
  /\ UNCHANGED <<job, i, n, judged, printed, status>>

\* Mutant of Take: the taken number stays on offer.
MutTakeKeepsJob(w) ==
  /\ At(w, "section")
  /\ job \notin {0, -1}
  /\ n' = [n EXCEPT ![w] = job]
  /\ mon' = Unlocked(Broadcast(mon))
  /\ Goto(w, "judge")
  /\ UNCHANGED <<job, i, judged, printed, status>>

\* Mutant of Take: main is not told.
MutTakeSilently(w) ==
  /\ At(w, "section")
  /\ job \notin {0, -1}
  /\ n' = [n EXCEPT ![w] = job]
  /\ job' = 0
  /\ mon' = Unlocked(mon)
  /\ Goto(w, "judge")
  /\ UNCHANGED <<i, judged, printed, status>>

\* n = job; job = 0; broadcast; unlock
Take(w) ==
  /\ At(w, "section")
  /\ job \notin {0, -1}
  /\ n' = [n EXCEPT ![w] = job]
  /\ job' = 0
  /\ mon' = Unlocked(Broadcast(mon))
  /\ Goto(w, "judge")
  /\ UNCHANGED <<i, judged, printed, status>>

\* is_primer(n) and the report, outside the critical section
Judge(w) ==
  /\ At(w, "judge")
  /\ judged' = judged \cup {n[w]}
  /\ printed' = IF IsPrimer(n[w]) THEN printed \cup {n[w]} ELSE printed
  /\ Goto(w, "lock")
  /\ UNCHANGED <<mon, job, i, n, status>>

-----------------------------------------------------------------------------
MainStep ==
  \/ \E w \in Workers : Create(w)
  \/ CreateFails
  \/ Lock(Main) \/ Wake(Main) \/ MainWaits
  \/ Post \/ Finish \/ Join

WorkerStep(w) ==
  \/ Lock(w) \/ Wake(w) \/ WorkerWaits(w)
  \/ Leave(w) \/ Take(w) \/ Judge(w)

\* The process has ended: nothing happens any more.
Ended == status # "running" /\ UNCHANGED vars

Next ==
  \/ MainStep
  \/ \E w \in Workers : WorkerStep(w)
  \/ \E t \in Threads : Spurious(t)
  \/ Ended

Spec == Init /\ [][Next]_vars

\* Every thread is scheduled; the mutex is not assumed to be fair.
Fairness ==
  /\ WF_vars(MainStep)
  /\ \A w \in Workers : WF_vars(WorkerStep(w))

FairSpec == Spec /\ Fairness

-----------------------------------------------------------------------------
(* Properties.                                                             *)

Labels == {"none", "create", "lock", "section", "asleep", "judge", "join", "done"}

\* Every variable has its type; a worker that judges holds a number.
TypeOK ==
  /\ pc \in [Threads -> Labels]
  /\ mon \in Monitors(Threads)
  /\ job \in Numbers \cup {0, -1}
  /\ i \in START .. (END + 1)
  /\ n \in [Workers -> Numbers \cup {0}]
  /\ \A w \in Workers : pc[w] = "judge" => n[w] \in Numbers
  /\ judged \subseteq Numbers
  /\ printed \subseteq Numbers
  /\ status \in {"running", "exit0", "exit1"}

Unissued == i .. END
Offered  == IF job > 0 THEN {job} ELSE {}
InHand   == {n[w] : w \in {v \in Workers : pc[v] = "judge"}}

\* No number is lost, judged twice or held by two threads: each is in
\* exactly one place, whatever the order in which the threads run
\* (the protocol on job between lines 50-58 and 88-101).
ExactlyOnce ==
  /\ Unissued \cup Offered \cup InHand \cup judged = Numbers
  /\ Unissued \cap (Offered \cup InHand \cup judged) = {}
  /\ Offered \cap (InHand \cup judged) = {}
  /\ InHand \cap judged = {}
  /\ \A v, w \in Workers :
       pc[v] = "judge" /\ pc[w] = "judge" /\ n[v] = n[w] => v = w

\* A thread sleeps only while what it waits for is false: no broadcast is
\* missing or comes too early for one of the two waiting sides, although
\* they share one condition variable (lines 51-54, 63-66, 89-92).
NoLostWakeup ==
  /\ Main \in mon.sleepers => IF i <= END THEN job # 0 ELSE job > 0
  /\ \A w \in Workers : w \in mon.sleepers => job = 0

\* A number is prime when it is no product of two smaller factors.
Prime(k) == k > 1 /\ \A a, b \in 2 .. (k - 1) : a * b # k

\* When the program returns 0 every number has been judged, and what it has
\* printed is exactly the primes of the range: the joins, not the wait of
\* line 63, are what makes the last answers appear.
ReportComplete ==
  status = "exit0" => judged = Numbers /\ printed = {k \in Numbers : Prime(k)}

\* The pool implements the abstract work pool.
Pool == INSTANCE WorkPool WITH
  Values <- Numbers, unissued <- Unissued, offered <- Offered,
  inHand <- InHand, over <- (status = "exit0")

PoolSpec == Pool!Spec

\* The program ends, if spurious wakeups do not go on for ever: nobody is left
\* asleep when -1 is posted, and main is never starved by the workers.
Terminates == []<><<\E t \in Threads : Spurious(t)>>_vars \/ <>(status # "running")
=============================================================================
