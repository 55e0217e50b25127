------------------------------ MODULE Rotation ------------------------------
(***************************************************************************)
(* pthreads/test2.c and pthreads/cancle.c: main() names the thread whose   *)
(* turn it is to print, in the order of their numbers for ever, until an   *)
(* alarm kills the process (test2) or runs a handler that cancels and      *)
(* joins the threads (cancle).  The handler runs in main()'s thread.       *)
(*                                                                         *)
(* A cancellation takes effect between two steps of a thread; that it may  *)
(* strike inside of the C library, which is not safe, is left out.         *)
(***************************************************************************)
EXTENDS Integers

CONSTANTS
  THRNR,
  Nobody

VARIABLES
  sample,     \* the program: "test2" or "cancle"
  curid,
  i,          \* main()'s index
  lastid,     \* the last thread that had its turn (history)
  mon,        \* mut and cond
  thread,     \* the place of each thread
  handler     \* of cancle: "none", "joins", "exited" or "crashed"

Main    == THRNR
Workers == 0 .. (THRNR - 1)
Threads == Workers \cup {Main}

M == INSTANCE Monitor WITH Nobody <- Nobody

vars == <<sample, curid, i, lastid, mon, thread, handler>>

Init ==
  /\ sample \in {"test2", "cancle"}
  /\ curid = -1
  /\ i = 0
  /\ lastid = THRNR - 1
  /\ mon = M!Idle
  /\ thread = [t \in Threads |-> IF t = Main THEN "create" ELSE "none"]
  /\ handler = "none"

\* Main is in the handler once that has begun.
Runs(t) == thread[t] # "ended" /\ (t = Main => handler = "none")

Step(t, from, to) ==
  /\ Runs(t)
  /\ thread[t] = from
  /\ thread' = [thread EXCEPT ![t] = to]

-----------------------------------------------------------------------------
(* The rotation.                                                           *)

Created == thread[Main] # "create"

\* pthread_create().
CreateThread(t) ==
  /\ Runs(Main) /\ ~Created
  /\ thread[t] = "none"
  /\ \A u \in Workers : u < t => thread[u] # "none"
  /\ thread' = [thread EXCEPT ![t] = "lock",
                  ![Main] = IF t = THRNR - 1 THEN "lock" ELSE "create"]
  /\ UNCHANGED <<sample, curid, i, lastid, mon, handler>>

\* pthread_mutex_lock(), also by a thread that returns from its wait.
Lock(t) ==
  /\ M!Free(mon)
  /\ t \notin mon.sleepers
  /\ Step(t, "lock", "test")
  /\ mon' = M!Locked(mon, t)
  /\ UNCHANGED <<sample, curid, i, lastid, handler>>

Awaited(t) == IF t = Main THEN -1 ELSE t

\* pthread_cond_wait().
Wait(t) ==
  /\ curid # Awaited(t)
  /\ Step(t, "test", "lock")
  /\ mon' = M!Waiting(mon, t)
  /\ UNCHANGED <<sample, curid, i, lastid, handler>>

\* A wait may end for no reason.
WakeUp(t) ==
  /\ t \in mon.sleepers
  /\ mon' = M!SpuriouslyWoken(mon, t)
  /\ UNCHANGED <<sample, curid, i, lastid, thread, handler>>

\* Mutant of Wake: one thread is woken and not all.
MutWake ==
  IF mon.sleepers = {} THEN {mon}
  ELSE {M!SpuriouslyWoken(mon, t) : t \in mon.sleepers}

\* pthread_cond_broadcast().
Wake == {M!Broadcast(mon)}

\* main() names the next thread.
Post ==
  /\ curid = -1
  /\ Step(Main, "test", "unlock")
  /\ curid' = i
  /\ i' = (i + 1) % THRNR
  /\ mon' \in Wake
  /\ UNCHANGED <<sample, lastid, handler>>

\* A thread prints and says that it has.
PrintTurn(t) ==
  /\ curid = t
  /\ Step(t, "test", "unlock")
  /\ curid' = -1
  /\ lastid' = t
  /\ mon' \in Wake
  /\ UNCHANGED <<sample, i, handler>>

Unlock(t) ==
  /\ Step(t, "unlock", "lock")
  /\ mon' = M!Unlocked(mon)
  /\ UNCHANGED <<sample, curid, i, lastid, handler>>

-----------------------------------------------------------------------------
(* The alarm.                                                              *)

End(how) ==
  /\ handler = "none"
  /\ handler' = how
  /\ thread' = [t \in Threads |-> "ended"]
  /\ UNCHANGED <<sample, curid, i, lastid, mon>>

\* SIGALRM kills test2, created or not.
Kill == sample = "test2" /\ End("exited")

CreateFails == ~Created /\ End("exited")

\* exit_process() unlocks whoever holds the mutex, and cancels every thread.
\* One that sleeps locks the mutex before it runs thr_clean().
Cancel ==
  /\ sample = "cancle"
  /\ handler = "none"
  /\ Created
  /\ handler' = "joins"
  /\ mon' = M!Broadcast(M!Unlocked(mon))
  /\ thread' = [t \in Threads |->
                 IF t = Main THEN thread[t]
                 ELSE IF t \in mon.sleepers THEN "relock" ELSE "clean"]
  /\ UNCHANGED <<sample, curid, i, lastid>>

\* pthread_cancel() of a thread that is not yet there.
CancelNobody == sample = "cancle" /\ ~Created /\ End("crashed")

\* The cancelled pthread_cond_wait() takes the mutex back.
Relock(t) ==
  /\ M!Free(mon)
  /\ Step(t, "relock", "clean")
  /\ mon' = M!Locked(mon, t)
  /\ UNCHANGED <<sample, curid, i, lastid, handler>>

\* Mutant of Clean: the thread ends without unlocking the mutex.
MutClean(t) ==
  /\ Step(t, "clean", "ended")
  /\ UNCHANGED <<sample, curid, i, lastid, mon, handler>>

\* thr_clean() unlocks whoever holds the mutex, and the thread ends.
Clean(t) ==
  /\ Step(t, "clean", "ended")
  /\ mon' = M!Unlocked(mon)
  /\ UNCHANGED <<sample, curid, i, lastid, handler>>

\* pthread_join() of all and exit().
Exit ==
  /\ handler = "joins"
  /\ \A t \in Workers : thread[t] = "ended"
  /\ handler' = "exited"
  /\ UNCHANGED <<sample, curid, i, lastid, mon, thread>>

-----------------------------------------------------------------------------
ThreadStep(t) ==
  \/ Lock(t) \/ Wait(t) \/ Unlock(t)
  \/ t = Main /\ Post
  \/ t # Main /\ (PrintTurn(t) \/ Relock(t) \/ Clean(t))

MainStep == Exit \/ \E t \in Workers : CreateThread(t)

Next ==
  \/ \E t \in Threads : ThreadStep(t) \/ WakeUp(t)
  \/ MainStep
  \/ CreateFails \/ Kill \/ Cancel \/ CancelNobody

-----------------------------------------------------------------------------
(* Properties.                                                             *)

\* The threads have their turns in the order of their numbers.
InTurn == [][lastid' = (lastid + 1) % THRNR]_lastid

\* The rotation goes on until the alarm.
GoesOn == \A t \in Workers : []<>(lastid = t) \/ <>(handler # "none")

\* The handler comes to its exit(), whatever the threads were doing: none that
\* it joins waits for a mutex nobody will unlock.
Exits == handler = "joins" ~> handler = "exited"
=============================================================================
