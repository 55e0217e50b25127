------------------------------- MODULE Daemon -------------------------------
(***************************************************************************)
(* process/few/mydaemon.c: a daemon of which one instance runs at a time.  *)
(* It leaves its parent and its terminal, locks a file, writes its process *)
(* number into it and then the time into another file for ever.  Instances *)
(* are started, killed and started again at any moment.                    *)
(***************************************************************************)
EXTENDS Integers

CONSTANTS
  Pids,       \* of the instances
  Empty       \* no number is in the file

Torn == "torn"      \* what is there of a number written over another one

VARIABLES
  inst,       \* the place of each instance, "none" where none runs
  lockers,    \* the instances that have the lock on LOCKFILE
  pidfile,    \* what it holds
  spoilt      \* the instances whose ftruncate() or write() has failed (history)

vars == <<inst, lockers, pidfile, spoilt>>

Init ==
  /\ inst = [p \in Pids |-> "none"]
  /\ lockers = {}
  /\ pidfile = Empty
  /\ spoilt = {}

Step(p, from, to) == inst[p] = from /\ inst' = [inst EXCEPT ![p] = to]

\* fork(): the child has a new number, and the parent exits.
Fork(p) ==
  /\ Step(p, "none", "child")
  /\ UNCHANGED <<lockers, pidfile, spoilt>>

\* setsid() and /dev/null; then LOCKFILE is opened.
Detach(p) ==
  /\ Step(p, "child", "flock")
  /\ UNCHANGED <<lockers, pidfile, spoilt>>

\* Mutant of Flock: the file is opened with O_TRUNC.
MutFlock(p) ==
  /\ \/ Step(p, "flock", "truncate") /\ lockers = {} /\ lockers' = {p}
     \/ Step(p, "flock", "none") /\ lockers # {} /\ UNCHANGED lockers
  /\ pidfile' = Empty
  /\ UNCHANGED spoilt

\* flock(LOCK_EX | LOCK_NB); an instance that fails exits.
Flock(p) ==
  /\ \/ Step(p, "flock", "truncate") /\ lockers = {} /\ lockers' = {p}
     \/ Step(p, "flock", "none") /\ lockers # {} /\ UNCHANGED lockers
  /\ UNCHANGED <<pidfile, spoilt>>

\* ftruncate(), whose result is ignored.
Truncate(p) ==
  /\ Step(p, "truncate", "write")
  /\ \/ pidfile' = Empty /\ UNCHANGED spoilt
     \/ spoilt' = spoilt \cup {p} /\ UNCHANGED pidfile
  /\ UNCHANGED lockers

\* write() of the number, whose result is ignored.
Write(p) ==
  /\ Step(p, "write", "fopen")
  /\ \/ pidfile' \in (IF pidfile = Empty THEN {p} ELSE {p, Torn}) /\ UNCHANGED spoilt
     \/ spoilt' = spoilt \cup {p} /\ UNCHANGED pidfile
  /\ UNCHANGED lockers

\* fopen() of /tmp/out, and the loop.
Loop(p) ==
  /\ Step(p, "fopen", "loop")
  /\ UNCHANGED <<lockers, pidfile, spoilt>>

\* A call fails and the instance exits, or it is killed: its lock goes.
End(p) ==
  /\ inst[p] # "none"
  /\ inst' = [inst EXCEPT ![p] = "none"]
  /\ lockers' = lockers \ {p}
  /\ spoilt' = spoilt \ {p}
  /\ UNCHANGED pidfile

Next ==
  \E p \in Pids :
    \/ Fork(p) \/ Detach(p) \/ Flock(p) \/ Truncate(p) \/ Write(p) \/ Loop(p)
    \/ End(p)

Spec == Init /\ [][Next]_vars

-----------------------------------------------------------------------------
(* Properties.                                                             *)

Locked(p) == inst[p] \in {"truncate", "write", "fopen", "loop"}

\* One instance at most has passed the lock, and while it runs the file names
\* it, whoever else is started or was killed, unless a call on the file failed.
RunsAlone ==
  /\ \A p, q \in Pids :
       Locked(p) /\ Locked(q) => p = q
  /\ \A p \in Pids : inst[p] = "loop" /\ p \notin spoilt => pidfile = p
=============================================================================
