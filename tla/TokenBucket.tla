---------------------------- MODULE TokenBucket ----------------------------
(***************************************************************************)
(* pthreads/tbf_lib/tbf.c: a library of token buckets for multi-threaded   *)
(* programs.  Buckets live in the array jobs[TBF_MAX]; an accumulator      *)
(* thread, created by the first tbf_init(), adds cps tokens to each of     *)
(* them once a second; tbf_fetch_token() waits for tokens on the bucket's  *)
(* condition variable.                                                     *)
(*                                                                         *)
(* The threads of the program ("callers") call the library at any time     *)
(* under the contract that its mycp.c shows: a descriptor is used from the *)
(* return of tbf_init() until it is passed to tbf_destroy(), nobody        *)
(* destroys a bucket somebody else is fetching from, and tbf_destroy_all() *)
(* runs alone.  The accumulator is not visible to callers, so no contract  *)
(* covers it.  Time is abstracted: a round of the accumulator may come at  *)
(* any moment.                                                             *)
(***************************************************************************)
EXTENDS Integers, FiniteSets, Monitor

CONSTANTS
  Callers,   \* the threads of the program
  Accs,      \* the accumulator threads that may be created
  TBF_MAX,   \* how many buckets the library holds
  Params,    \* the pairs [cps, burst] that tbf_init() is called with
  Asks       \* the numbers of tokens that tbf_fetch_token() is asked for

Slots == 0 .. (TBF_MAX - 1)

ASSUME SizeAssumption == TBF_MAX \in Nat /\ TBF_MAX > 0
ASSUME ParamsAssumption ==
  /\ Params \subseteq [cps : Nat \ {0}, burst : Nat \ {0}]
  /\ Asks \subseteq Nat \ {0}
ASSUME ThreadsAssumption == Callers \cap Accs = {} /\ Nobody \notin Callers \cup Accs

VARIABLES
  status,     \* of the process: "up", "exited" (exit(1)) or "crashed"
  inited,     \* the library believes its accumulator exists
  tid,        \* the accumulator created last
  jobMut,     \* the owner of job_mut
  slot,       \* jobs[s]: "null", "live", or "freed" (a dangling pointer)
  token, par, mon,            \* token, [cps, burst] and the monitor of jobs[s]
  pc, td, n, arg, all,        \* of each caller: label, descriptor (or loop
                              \* index), tokens asked for, arguments of
                              \* tbf_init(), inside tbf_destroy_all()
  handles,    \* the descriptors the program may use
  apc, ai,    \* of each accumulator: label and loop index
  cancelled   \* the accumulators that pthread_cancel() was called on

process == <<status, inited, tid>>
buckets == <<slot, token, par, mon>>
caller  == <<pc, td, n, arg, all>>
acc     == <<apc, ai, cancelled>>
vars    == <<process, jobMut, buckets, caller, handles, acc>>

NoPar == [cps |-> 0, burst |-> 0]
Least(x, y) == IF x <= y THEN x ELSE y

Init ==
  /\ status = "up"
  /\ inited = FALSE
  /\ tid = Nobody
  /\ jobMut = Nobody
  /\ slot = [s \in Slots |-> "null"]
  /\ token = [s \in Slots |-> 0]
  /\ par = [s \in Slots |-> NoPar]
  /\ mon = [s \in Slots |-> Idle]
  /\ pc = [c \in Callers |-> "idle"]
  /\ td = [c \in Callers |-> 0]
  /\ n = [c \in Callers |-> 0]
  /\ arg = [c \in Callers |-> NoPar]
  /\ all = [c \in Callers |-> FALSE]
  /\ handles = {}
  /\ apc = [a \in Accs |-> "none"]
  /\ ai = [a \in Accs |-> 0]
  /\ cancelled = {}

\* The process is up and the thread is at the label.
At(c, label) == status = "up" /\ pc[c] = label
AAt(a, labels) == status = "up" /\ apc[a] \in labels

Goto(c, label) == pc' = [pc EXCEPT ![c] = label]

\* The call ends and the locals of c with it.
Return(c) ==
  /\ Goto(c, "idle")
  /\ td' = [td EXCEPT ![c] = 0]
  /\ n' = [n EXCEPT ![c] = 0]
  /\ arg' = [arg EXCEPT ![c] = NoPar]
  /\ all' = [all EXCEPT ![c] = FALSE]

-----------------------------------------------------------------------------
(* tbf_init()                                                              *)

\* The test of "inited", which no mutex protects.
InitCall(c) ==
  /\ At(c, "idle")
  /\ \A d \in Callers : ~all[d]
  /\ \E p \in Params : arg' = [arg EXCEPT ![c] = p]
  /\ Goto(c, IF inited THEN "alloc" ELSE "load")
  /\ UNCHANGED <<process, jobMut, buckets, td, n, all, handles, acc>>

\* thread_moduler_load(): pthread_create() stores the new thread in tid.
LoadModule(c) ==
  /\ At(c, "load")
  /\ \E a \in Accs :
       /\ apc[a] = "none"
       /\ apc' = [apc EXCEPT ![a] = "probe"]
       /\ tid' = a
  /\ inited' = TRUE
  /\ Goto(c, "alloc")
  /\ UNCHANGED <<status, jobMut, buckets, td, n, arg, all, handles, ai, cancelled>>

\* pthread_create() fails: exit(1).
LoadFails(c) ==
  /\ At(c, "load")
  /\ status' = "exited"
  /\ UNCHANGED <<inited, tid, jobMut, buckets, caller, handles, acc>>

\* malloc() and the initialisation of the new bucket, which nobody else sees.
Alloc(c) ==
  /\ At(c, "alloc")
  /\ Goto(c, "ilock")
  /\ UNCHANGED <<process, jobMut, buckets, td, n, arg, all, handles, acc>>

\* malloc() returns NULL: -ENOMEM.
AllocFails(c) ==
  /\ At(c, "alloc")
  /\ Return(c)
  /\ UNCHANGED <<process, jobMut, buckets, handles, acc>>

\* pthread_mutex_lock(&job_mut): once in tbf_init(), and twice in
\* tbf_destroy(), whose last line locks where it should unlock and then returns
\* to the program or to the loop of tbf_destroy_all().
JobLock(c) ==
  /\ jobMut = Nobody
  /\ jobMut' = c
  /\ \/ At(c, "ilock") /\ Goto(c, "iscan") /\ UNCHANGED <<td, n, arg, all>>
     \/ At(c, "dlock") /\ Goto(c, "dfree") /\ UNCHANGED <<td, n, arg, all>>
     \/ At(c, "drelock") /\ ~all[c] /\ Return(c)
     \/ /\ At(c, "drelock") /\ all[c]
        /\ Goto(c, "scan")
        /\ td' = [td EXCEPT ![c] = @ + 1]
        /\ UNCHANGED <<n, arg, all>>
  /\ UNCHANGED <<process, buckets, handles, acc>>

\* Mutant of FindSlot: job_mut is unlocked as soon as the slot is found.
MutFindSlot(c) ==
  /\ At(c, "iscan")
  /\ \E s \in Slots :
       /\ slot[s] = "null"
       /\ \A r \in 0 .. (s - 1) : slot[r] # "null"
       /\ td' = [td EXCEPT ![c] = s]
  /\ Goto(c, "istore")
  /\ jobMut' = Nobody
  /\ UNCHANGED <<process, buckets, n, arg, all, handles, acc>>

\* get_free_pos_unlock() finds the first free slot.
FindSlot(c) ==
  /\ At(c, "iscan")
  /\ \E s \in Slots :
       /\ slot[s] = "null"
       /\ \A r \in 0 .. (s - 1) : slot[r] # "null"
       /\ td' = [td EXCEPT ![c] = s]
  /\ Goto(c, "istore")
  /\ UNCHANGED <<process, jobMut, buckets, n, arg, all, handles, acc>>

\* There is none: the return with -ENOSPC leaves job_mut locked.
NoSpace(c) ==
  /\ At(c, "iscan")
  /\ \A s \in Slots : slot[s] # "null"
  /\ Return(c)
  /\ UNCHANGED <<process, jobMut, buckets, handles, acc>>

\* jobs[pos] = me; unlock; return pos
StoreSlot(c) ==
  /\ At(c, "istore")
  /\ slot' = [slot EXCEPT ![td[c]] = "live"]
  /\ token' = [token EXCEPT ![td[c]] = 0]
  /\ par' = [par EXCEPT ![td[c]] = arg[c]]
  /\ mon' = [mon EXCEPT ![td[c]] = Idle]
  /\ jobMut' = Nobody
  /\ handles' = handles \cup {td[c]}
  /\ Return(c)
  /\ UNCHANGED <<process, acc>>

-----------------------------------------------------------------------------
(* tbf_fetch_token()                                                       *)

FetchCall(c) ==
  /\ At(c, "idle")
  /\ \E d \in handles : td' = [td EXCEPT ![c] = d]
  /\ \E k \in Asks : n' = [n EXCEPT ![c] = k]
  /\ Goto(c, "flock")
  /\ UNCHANGED <<process, jobMut, buckets, arg, all, handles, acc>>

\* pthread_mutex_lock(), or the end of pthread_cond_wait() after a wakeup.
FetchLock(c) ==
  /\ At(c, "flock") \/ At(c, "fwait")
  /\ c \notin mon[td[c]].sleepers
  /\ Free(mon[td[c]])
  /\ mon' = [mon EXCEPT ![td[c]] = Locked(@, c)]
  /\ Goto(c, "fsection")
  /\ UNCHANGED <<process, jobMut, slot, token, par, td, n, arg, all, handles, acc>>

FetchWait(c) ==
  /\ At(c, "fsection")
  /\ token[td[c]] <= 0
  /\ mon' = [mon EXCEPT ![td[c]] = Waiting(@, c)]
  /\ Goto(c, "fwait")
  /\ UNCHANGED <<process, jobMut, slot, token, par, td, n, arg, all, handles, acc>>

\* Mutant of FetchTake: nobody looks whether there are n tokens.
MutFetchTake(c) ==
  /\ At(c, "fsection")
  /\ token[td[c]] > 0
  /\ token' = [token EXCEPT ![td[c]] = @ - n[c]]
  /\ mon' = [mon EXCEPT ![td[c]] = Unlocked(@)]
  /\ Return(c)
  /\ UNCHANGED <<process, jobMut, slot, par, handles, acc>>

\* What is asked for, or everything when that is less; unlock; return
FetchTake(c) ==
  /\ At(c, "fsection")
  /\ token[td[c]] > 0
  /\ token' = [token EXCEPT ![td[c]] = @ - Least(n[c], @)]
  /\ mon' = [mon EXCEPT ![td[c]] = Unlocked(@)]
  /\ Return(c)
  /\ UNCHANGED <<process, jobMut, slot, par, handles, acc>>

Spurious(c) ==
  /\ At(c, "fwait")
  /\ c \in mon[td[c]].sleepers
  /\ mon' = [mon EXCEPT ![td[c]] = SpuriouslyWoken(@, c)]
  /\ UNCHANGED <<process, jobMut, slot, token, par, caller, handles, acc>>

-----------------------------------------------------------------------------
(* tbf_destroy() and tbf_destroy_all()                                     *)

Fetching(c, s) == pc[c] \in {"flock", "fwait", "fsection"} /\ td[c] = s

DestroyCall(c) ==
  /\ At(c, "idle")
  /\ \E d \in handles :
       /\ \A e \in Callers : ~Fetching(e, d)
       /\ td' = [td EXCEPT ![c] = d]
       /\ handles' = handles \ {d}
  /\ Goto(c, "dlock")
  /\ UNCHANGED <<process, jobMut, buckets, n, arg, all, acc>>

\* Mutant of FreeBucket: the wrong index.
MutFreeBucket(c) ==
  /\ At(c, "dfree")
  /\ slot' = [slot EXCEPT ![0] = "freed"]
  /\ token' = [token EXCEPT ![0] = 0]
  /\ Goto(c, "dnull")
  /\ UNCHANGED <<process, jobMut, par, mon, td, n, arg, all, handles, acc>>

\* free(jobs[td])
FreeBucket(c) ==
  /\ At(c, "dfree")
  /\ slot' = [slot EXCEPT ![td[c]] = "freed"]
  /\ token' = [token EXCEPT ![td[c]] = 0]
  /\ Goto(c, "dnull")
  /\ UNCHANGED <<process, jobMut, par, mon, td, n, arg, all, handles, acc>>

\* jobs[td] = NULL
NullSlot(c) ==
  /\ At(c, "dnull")
  /\ slot' = [slot EXCEPT ![td[c]] = "null"]
  /\ Goto(c, "drelock")
  /\ UNCHANGED <<process, jobMut, token, par, mon, td, n, arg, all, handles, acc>>

\* sig_moduler_unload(): pthread_cancel(tid).  Before the first tbf_init() tid is
\* no thread, and the call is the program's mistake.
DestroyAllCall(c) ==
  /\ At(c, "idle")
  /\ tid # Nobody
  /\ \A d \in Callers : pc[d] = "idle"
  /\ cancelled' = cancelled \cup {tid}
  /\ handles' = {}
  /\ all' = [all EXCEPT ![c] = TRUE]
  /\ Goto(c, "scan")
  /\ UNCHANGED <<process, jobMut, buckets, td, n, arg, apc, ai>>

\* One turn of the loop: if (jobs[i]) tbf_destroy(i)
Scan(c) ==
  /\ At(c, "scan")
  /\ IF td[c] \notin Slots
     THEN Return(c)
     ELSE IF slot[td[c]] = "null"
          THEN td' = [td EXCEPT ![c] = @ + 1] /\ UNCHANGED <<pc, n, arg, all>>
          ELSE Goto(c, "dlock") /\ UNCHANGED <<td, n, arg, all>>
  /\ UNCHANGED <<process, jobMut, buckets, handles, acc>>

-----------------------------------------------------------------------------
(* thr_handler(): an accumulator.                                          *)

AGoto(a, label) == apc' = [apc EXCEPT ![a] = label]

\* Mutant of ANext: the loop runs one slot too far.
MutANext(a) ==
  IF ai[a] < TBF_MAX
  THEN AGoto(a, "probe") /\ ai' = [ai EXCEPT ![a] = @ + 1]
  ELSE AGoto(a, "sleep") /\ ai' = [ai EXCEPT ![a] = 0]

\* The end of the loop body: the next slot, or sleep(1).
ANext(a) ==
  IF ai[a] + 1 \in Slots
  THEN AGoto(a, "probe") /\ ai' = [ai EXCEPT ![a] = @ + 1]
  ELSE AGoto(a, "sleep") /\ ai' = [ai EXCEPT ![a] = 0]

\* Mutant of Probe: empty slots are not skipped.
MutProbe(a) ==
  /\ AAt(a, {"probe"})
  /\ AGoto(a, "lock")
  /\ UNCHANGED <<process, jobMut, buckets, caller, handles, ai, cancelled>>

\* if (jobs[i]), under no mutex
Probe(a) ==
  /\ AAt(a, {"probe"})
  /\ IF slot[ai[a]] = "null" THEN ANext(a) ELSE AGoto(a, "lock") /\ UNCHANGED ai
  /\ UNCHANGED <<process, jobMut, buckets, caller, handles, cancelled>>

\* The lines below read jobs[i] again; while it is still the bucket:
ALock(a) ==
  /\ AAt(a, {"lock"})
  /\ slot[ai[a]] = "live"
  /\ Free(mon[ai[a]])
  /\ mon' = [mon EXCEPT ![ai[a]] = Locked(@, a)]
  /\ AGoto(a, "credit")
  /\ UNCHANGED <<process, jobMut, slot, token, par, caller, handles, ai, cancelled>>

\* Mutant of Credit: the waiting callers are not told.
MutCredit(a) ==
  /\ AAt(a, {"credit"})
  /\ slot[ai[a]] = "live"
  /\ token' = [token EXCEPT ![ai[a]] = @ + par[ai[a]].cps]
  /\ AGoto(a, "cap")
  /\ UNCHANGED <<process, jobMut, slot, par, mon, caller, handles, ai, cancelled>>

\* token += cps; broadcast
Credit(a) ==
  /\ AAt(a, {"credit"})
  /\ slot[ai[a]] = "live"
  /\ token' = [token EXCEPT ![ai[a]] = @ + par[ai[a]].cps]
  /\ mon' = [mon EXCEPT ![ai[a]] = Broadcast(@)]
  /\ AGoto(a, "cap")
  /\ UNCHANGED <<process, jobMut, slot, par, caller, handles, ai, cancelled>>

\* Mutant of Cap: the bucket overflows.
MutCap(a) ==
  /\ AAt(a, {"cap"})
  /\ slot[ai[a]] = "live"
  /\ mon' = [mon EXCEPT ![ai[a]] = Unlocked(@)]
  /\ ANext(a)
  /\ UNCHANGED <<process, jobMut, slot, token, par, caller, handles, cancelled>>

\* if (token >= burst) token = burst; unlock
Cap(a) ==
  /\ AAt(a, {"cap"})
  /\ slot[ai[a]] = "live"
  /\ token' = [token EXCEPT ![ai[a]] = Least(@, par[ai[a]].burst)]
  /\ mon' = [mon EXCEPT ![ai[a]] = Unlocked(@)]
  /\ ANext(a)
  /\ UNCHANGED <<process, jobMut, slot, par, caller, handles, cancelled>>

\* jobs[i] has become NULL, or the freed memory it points to has been given
\* back or overwritten: the process dies.
Crash(a) ==
  /\ AAt(a, {"lock", "credit", "cap"})
  /\ slot[ai[a]] # "live"
  /\ status' = "crashed"
  /\ UNCHANGED <<inited, tid, jobMut, buckets, caller, handles, acc>>

\* The freed memory is still there: locking and counting in it goes unnoticed.
Dangling(a) ==
  /\ AAt(a, {"lock", "credit", "cap"})
  /\ slot[ai[a]] = "freed"
  /\ CASE apc[a] = "lock"   -> AGoto(a, "credit") /\ UNCHANGED ai
       [] apc[a] = "credit" -> AGoto(a, "cap") /\ UNCHANGED ai
       [] apc[a] = "cap"    -> ANext(a)
  /\ UNCHANGED <<process, jobMut, buckets, caller, handles, cancelled>>

\* sleep(1) ends, or is where a cancellation takes effect.
NextSecond(a) ==
  /\ AAt(a, {"sleep"})
  /\ AGoto(a, IF a \in cancelled THEN "gone" ELSE "probe")
  /\ UNCHANGED <<process, jobMut, buckets, caller, handles, ai, cancelled>>

-----------------------------------------------------------------------------
Call(c) == InitCall(c) \/ FetchCall(c) \/ DestroyCall(c) \/ DestroyAllCall(c)

\* What a caller does once it is inside the library.
CallerStep(c) ==
  \/ LoadModule(c) \/ LoadFails(c) \/ Alloc(c) \/ AllocFails(c) \/ JobLock(c)
  \/ FindSlot(c) \/ NoSpace(c) \/ StoreSlot(c)
  \/ FetchLock(c) \/ FetchWait(c) \/ FetchTake(c)
  \/ FreeBucket(c) \/ NullSlot(c) \/ Scan(c)

AccStep(a) ==
  \/ Probe(a) \/ ALock(a) \/ Credit(a) \/ Cap(a)
  \/ Crash(a) \/ Dangling(a) \/ NextSecond(a)

Next ==
  \/ \E c \in Callers : Call(c) \/ CallerStep(c) \/ Spurious(c)
  \/ \E a \in Accs : AccStep(a)

Spec == Init /\ [][Next]_vars

\* Threads inside the library are scheduled.  A caller that wants a bucket's
\* mutex gets it when it is free again and again, because the accumulator,
\* its only steady competitor, sleeps for a second between two rounds.
Fairness ==
  /\ \A c \in Callers : WF_vars(CallerStep(c))
  /\ \A c \in Callers : SF_vars(FetchLock(c))
  /\ \A a \in Accs : WF_vars(AccStep(a))

FairSpec == Spec /\ Fairness

-----------------------------------------------------------------------------
(* Properties.                                                             *)

Labels == {"idle", "load", "alloc", "ilock", "iscan", "istore", "flock", "fwait",
           "fsection", "dlock", "dfree", "dnull", "drelock", "scan"}
AccLabels == {"none", "probe", "lock", "credit", "cap", "sleep", "gone"}

ProcessTypeOK ==
  /\ status \in {"up", "exited", "crashed"}
  /\ inited \in BOOLEAN
  /\ tid \in Accs \cup {Nobody}
  /\ jobMut \in Callers \cup {Nobody}
  /\ handles \subseteq Slots

BucketsTypeOK ==
  /\ slot \in [Slots -> {"null", "live", "freed"}]
  /\ token \in [Slots -> Int]
  /\ par \in [Slots -> Params \cup {NoPar}]
  /\ mon \in [Slots -> Monitors(Callers \cup Accs)]

CallersTypeOK ==
  /\ pc \in [Callers -> Labels]
  /\ td \in [Callers -> 0 .. TBF_MAX]
  /\ n \in [Callers -> Asks \cup {0}]
  /\ arg \in [Callers -> Params \cup {NoPar}]
  /\ all \in [Callers -> BOOLEAN]

AccsTypeOK ==
  /\ apc \in [Accs -> AccLabels]
  /\ ai \in [Accs -> Slots]
  /\ cancelled \subseteq Accs

\* Every variable has its type.
TypeOK == ProcessTypeOK /\ BucketsTypeOK /\ CallersTypeOK /\ AccsTypeOK

\* A bucket never holds less than nothing nor more than its burst, except
\* inside the accumulator's critical section between lines 104 and 107, where
\* no other thread sees it.
TokenBounded ==
  \A s \in Slots : slot[s] = "live" =>
    /\ token[s] >= 0
    /\ \/ token[s] <= par[s].burst
       \/ \E a \in Accs : apc[a] = "cap" /\ ai[a] = s /\ mon[s].owner = a

\* A caller sleeps only on an empty bucket: the broadcast of line 105 reaches
\* everybody whose test of line 128 it makes stale.
NoLostWakeup ==
  \A s \in Slots : slot[s] = "live" /\ mon[s].sleepers # {} => token[s] <= 0

\* A descriptor the program may use, or is using in tbf_fetch_token(), denotes
\* a live bucket, although lines 127-138 never check jobs[td].
HandlesLive ==
  /\ \A d \in handles : slot[d] = "live"
  /\ \A c \in Callers :
       pc[c] \in {"flock", "fwait", "fsection"} => td[c] \in handles

\* The slot a tbf_init() has found is still free when it stores its bucket, and
\* no two calls have found the same one: no bucket overwrites another
\* (lines 51-60).
SlotReserved ==
  \A c \in Callers : pc[c] = "istore" =>
    /\ slot[td[c]] = "null"
    /\ \A d \in Callers \ {c} : pc[d] = "istore" => td[d] # td[c]

\* The library crashes only while a bucket is being destroyed: callers that
\* create buckets and fetch from them never bring the process down.
CrashOnlyByDestroy ==
  status = "crashed" => \E c \in Callers : pc[c] \in {"dnull", "drelock"}

\* The library implements the abstract token buckets.
TB == INSTANCE Buckets WITH
  live  <- {s \in Slots : slot[s] = "live"},
  level <- [s \in Slots |-> Least(token[s], par[s].burst)],
  limit <- par

BucketsSpec == TB!Spec

\* A waiting caller does not starve in an idle library: for ever waiting means
\* that others are served for ever, or the process has ended, or
\* tbf_destroy_all() has cancelled an accumulator, or spurious wakeups go on.
FetchServed ==
  \A c \in Callers :
    \/ []<>(pc[c] \notin {"flock", "fwait", "fsection"})
    \/ []<><<\E d \in Callers : FetchTake(d)>>_vars
    \/ []<><<\E d \in Callers : Spurious(d)>>_vars
    \/ <>(status # "up" \/ cancelled # {})

\* tbf.h lines 40-44: tbf_destroy() destroys the bucket and returns.  Once it
\* has the library's mutex nothing outside it is in its way any more.
DestroyReturns ==
  \A c \in Callers : pc[c] = "dfree" ~> (pc[c] \in {"idle", "scan"} \/ status # "up")
=============================================================================
