------------------------------ MODULE PoolPoll ------------------------------
(***************************************************************************)
(* pthreads/thr_static_pool.c: the prime pool of PoolCond with polling in  *)
(* place of a condition variable.  A worker that has taken a number calls  *)
(* pause() before it judges it; the program catches no signal, so that the *)
(* call never returns and no number is ever judged.                        *)
(***************************************************************************)
EXTENDS Integers, Sequences

CONSTANTS
  Pollers,    \* the workers
  Boss,       \* main()
  NoOwner,    \* the owner of a mutex that nobody holds
  START,
  Ends        \* the values of END that are tried: 300, when there are 4 workers

VARIABLES
  job,        \* 0: nothing on offer, -1: everything has been offered
  mut,        \* the owner of the mutex
  end,        \* END
  num,        \* main()'s index
  stage,      \* the place of each thread: "none" or "create", "lock",
              \* "locked", "pause", "join" (for ever, as a worker is in
              \* pause()), "done" or "exited"
  given       \* the numbers that workers have taken, in this order (history)

vars == <<end, job, mut, num, stage, given>>

Init ==
  /\ end \in Ends
  /\ job = 0
  /\ mut = NoOwner
  /\ num = START
  /\ stage = [t \in Pollers \cup {Boss} |-> IF t = Boss THEN "create" ELSE "none"]
  /\ given = <<>>

\* The last worker that is created has main() go on to offer numbers.
Create(w) ==
  /\ stage[Boss] = "create" /\ stage[w] = "none"
  /\ stage' = [stage EXCEPT
       ![w] = "lock",
       ![Boss] = IF \E v \in Pollers \ {w} : stage[v] = "none" THEN "create" ELSE "lock"]
  /\ UNCHANGED <<end, job, mut, num, given>>

\* pthread_create() fails and main() exits, with the workers it has.
CreateFails ==
  /\ stage[Boss] = "create"
  /\ stage' = [stage EXCEPT ![Boss] = "exited"]
  /\ UNCHANGED <<end, job, mut, num, given>>

Lock(t) ==
  /\ stage[Boss] # "exited"
  /\ stage[t] = "lock"
  /\ mut = NoOwner
  /\ mut' = t
  /\ stage' = [stage EXCEPT ![t] = "locked"]
  /\ UNCHANGED <<end, job, num, given>>

\* The end of a critical section.
Unlock(t, to) ==
  /\ stage[Boss] # "exited"
  /\ stage[t] = "locked"
  /\ mut' = NoOwner
  /\ stage' = [stage EXCEPT ![t] = to]

\* main() finds the last number still on offer, and unlocks and locks again.
PollAgain ==
  /\ job > 0
  /\ Unlock(Boss, "lock")
  /\ UNCHANGED <<end, job, num, given>>

Offer ==
  /\ num <= end /\ job = 0
  /\ Unlock(Boss, "lock")
  /\ job' = num
  /\ num' = num + 1
  /\ UNCHANGED <<end, given>>

\* Everything has been taken; main() goes to join the workers.
Finish ==
  /\ num > end /\ job = 0
  /\ Unlock(Boss, "join")
  /\ job' = -1
  /\ UNCHANGED <<end, num, given>>

\* A worker finds nothing on offer.
FindNothing(w) ==
  /\ job = 0
  /\ Unlock(w, "lock")
  /\ UNCHANGED <<end, job, num, given>>

\* Mutant of TakeJob: the number stays on offer.
MutTakeJob(w) ==
  /\ job > 0
  /\ Unlock(w, "pause")
  /\ given' = Append(given, job)
  /\ UNCHANGED <<end, job, num>>

TakeJob(w) ==
  /\ job > 0
  /\ Unlock(w, "pause")
  /\ given' = Append(given, job)
  /\ job' = 0
  /\ UNCHANGED <<end, num>>

\* A worker that finds no work left returns.
Leave(w) ==
  /\ job = -1
  /\ Unlock(w, "done")
  /\ UNCHANGED <<end, job, num, given>>

BossStep == PollAgain \/ Offer \/ Finish \/ \E w \in Pollers : Create(w)

WorkerStep(w) == FindNothing(w) \/ TakeJob(w) \/ Leave(w)

Next ==
  \/ BossStep
  \/ \E w \in Pollers : WorkerStep(w)
  \/ \E t \in Pollers \cup {Boss} : Lock(t)
  \/ CreateFails

-----------------------------------------------------------------------------
(* Properties.                                                             *)

\* The numbers are taken in their order, each once, and none is lost between
\* main() and the workers: what has not been taken is on offer or to come.
GivenOnce ==
  /\ given = [k \in 1 .. Len(given) |-> START + k - 1]
  /\ Len(given) = num - START - (IF job > 0 THEN 1 ELSE 0)

\* main() comes to join the workers only when all numbers have been taken.
JoinsLast == stage[Boss] = "join" => Len(given) = end - START + 1

\* All numbers have been handed out, although main() and the workers contend for
\* the mutex without pause; or no worker is left that asks for one, as each is
\* in the pause() of line 98; or a thread could not be created.
HandedOut ==
  \/ stage[Boss] \in {"join", "exited"}
  \/ \A w \in Pollers : stage[w] = "pause"
=============================================================================
