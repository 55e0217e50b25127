------------------------------ MODULE Monitor ------------------------------
(***************************************************************************)
(* A POSIX mutex together with the one condition variable its users wait   *)
(* on (pthread_mutex_t and pthread_cond_t), as operators on a record: who  *)
(* owns the mutex, and which threads sleep in pthread_cond_wait().         *)
(*                                                                         *)
(* The operators keep only the effect of a call; the modules that use them *)
(* supply the guard (Free before a lock) and the program counter of the    *)
(* caller.  A thread that a broadcast has taken out of "sleepers" is not   *)
(* yet running: it returns from pthread_cond_wait() by locking the mutex   *)
(* again, like any other thread that asks for it.                          *)
(***************************************************************************)

CONSTANT Nobody      \* the owner of an unlocked mutex

\* PTHREAD_MUTEX_INITIALIZER with PTHREAD_COND_INITIALIZER.
Idle == [owner |-> Nobody, sleepers |-> {}]

\* All the monitors that the threads T may share.
Monitors(T) == [owner : T \cup {Nobody}, sleepers : SUBSET T]

Free(m) == m.owner = Nobody

\* pthread_mutex_lock() by t once the mutex is free.
Locked(m, t) == [m EXCEPT !.owner = t]

\* pthread_mutex_unlock().
Unlocked(m) == [m EXCEPT !.owner = Nobody]

\* pthread_cond_wait() by t: it unlocks the mutex and falls asleep in one step.
Waiting(m, t) == [owner |-> Nobody, sleepers |-> m.sleepers \cup {t}]

\* pthread_cond_broadcast(): nobody sleeps any more.
Broadcast(m) == [m EXCEPT !.sleepers = {}]

\* POSIX lets pthread_cond_wait() return although nobody signalled.
SpuriouslyWoken(m, t) == [m EXCEPT !.sleepers = @ \ {t}]
=============================================================================
