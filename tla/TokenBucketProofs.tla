------------------------- MODULE TokenBucketProofs -------------------------
(***************************************************************************)
(* Theorems about the token buckets of TokenBucket, for any number of      *)
(* callers, accumulators and slots, and any parameters.                    *)
(***************************************************************************)
EXTENDS TokenBucket, TLAPS

-----------------------------------------------------------------------------
(* The parts of the inductive invariant.                                   *)

\* Whoever scans or changes the library's array owns job_mut.  A caller at
\* "drelock" owns it as well: it waits for itself, and nobody gets in any more.
JobOwner ==
  \A c \in Callers :
    pc[c] \in {"iscan", "istore", "dfree", "dnull", "drelock"} => jobMut = c

\* The arguments of the calls in progress.
CallArgs ==
  \A c \in Callers :
    /\ pc[c] \in {"load", "alloc", "ilock", "iscan", "istore"} => arg[c] \in Params
    /\ pc[c] \in {"flock", "fwait", "fsection"} => n[c] \in Asks
    /\ pc[c] = "istore" => td[c] \in Slots /\ slot[td[c]] = "null"

\* A bucket that is about to be destroyed is live, no longer in the program's
\* hands, and destroyed by one caller only.
Destroying ==
  /\ \A c \in Callers : pc[c] \in {"dlock", "dfree"} =>
       td[c] \in Slots /\ slot[td[c]] = "live" /\ td[c] \notin handles
  /\ \A c, d \in Callers :
       pc[c] \in {"dlock", "dfree"} /\ pc[d] \in {"dlock", "dfree"} /\ td[c] = td[d] => c = d
  /\ \A c \in Callers : pc[c] = "dnull" => td[c] \in Slots /\ slot[td[c]] = "freed"
  /\ \A s \in Slots : slot[s] = "freed" => \E c \in Callers : pc[c] = "dnull" /\ td[c] = s

\* tbf_destroy_all() runs alone.
Alone ==
  /\ \A c \in Callers : pc[c] = "scan" => all[c]
  /\ \A c \in Callers : all[c] =>
       /\ handles = {}
       /\ \A d \in Callers \ {c} : pc[d] = "idle"
       /\ pc[c] \in {"scan", "dlock", "dfree", "dnull", "drelock"}

\* Some caller has freed a bucket; job_mut will never be free again.
Doomed == \E c \in Callers : pc[c] \in {"dnull", "drelock"}

\* An accumulator past the test of jobs[i] has a live bucket before it, unless
\* a destruction has begun.
AccInv ==
  /\ \A a \in Accs :
       apc[a] \in {"lock", "credit", "cap"} => slot[ai[a]] = "live" \/ Doomed
  /\ status = "crashed" => Doomed

\* The owners of the buckets' mutexes.
TokenOwner ==
  /\ \A c \in Callers : pc[c] = "fsection" => mon[td[c]].owner = c
  /\ \A a \in Accs :
       apc[a] \in {"credit", "cap"} /\ slot[ai[a]] = "live" => mon[ai[a]].owner = a

LiveParams == \A s \in Slots : slot[s] = "live" => par[s] \in Params

IInv ==
  /\ TypeOK
  /\ JobOwner
  /\ CallArgs
  /\ HandlesLive
  /\ Destroying
  /\ Alone
  /\ AccInv
  /\ TokenOwner
  /\ LiveParams
  /\ TokenBounded
  /\ NoLostWakeup

-----------------------------------------------------------------------------
(* What each step leaves alone.                                            *)

\* The array changes only in tbf_init() and tbf_destroy(), under job_mut.
LEMMA SlotFrame ==
  ASSUME [Next]_vars
  PROVE  \/ UNCHANGED slot
         \/ \E c \in Callers : StoreSlot(c) \/ FreeBucket(c) \/ NullSlot(c)
BY DEF Next, Call, CallerStep, AccStep, vars, process, buckets, caller, acc,
       InitCall, LoadModule, LoadFails, Alloc, AllocFails, JobLock, FindSlot, NoSpace,
       FetchCall, FetchLock, FetchWait, FetchTake, Spurious, DestroyCall, DestroyAllCall,
       Scan, Probe, ALock, Credit, Cap, Crash, Dangling, NextSecond

\* The buckets change in these steps only.
LEMMA BucketFrame ==
  ASSUME [Next]_vars
  PROVE  \/ UNCHANGED <<slot, token, par, mon>>
         \/ \E c \in Callers :
              \/ StoreSlot(c) \/ FreeBucket(c) \/ NullSlot(c)
              \/ FetchLock(c) \/ FetchWait(c) \/ FetchTake(c) \/ Spurious(c)
         \/ \E a \in Accs : ALock(a) \/ Credit(a) \/ Cap(a)
BY DEF Next, Call, CallerStep, AccStep, vars, process, buckets, caller, acc,
       InitCall, LoadModule, LoadFails, Alloc, AllocFails, JobLock, FindSlot, NoSpace,
       FetchCall, DestroyCall, DestroyAllCall, Scan, Probe, Crash, Dangling, NextSecond

\* Accumulators and callers move one at a time.
LEMMA ThreadFrame ==
  ASSUME [Next]_vars
  PROVE  \/ UNCHANGED <<apc, ai>>
         \/ \E c \in Callers : LoadModule(c)
         \/ (UNCHANGED <<pc, td, n, arg, all, handles, jobMut, slot>>) /\ \E a \in Accs : AccStep(a)
BY DEF Next, Call, CallerStep, AccStep, vars, process, buckets, caller, acc,
       InitCall, LoadFails, Alloc, AllocFails, JobLock, FindSlot, NoSpace, StoreSlot,
       FetchCall, FetchLock, FetchWait, FetchTake, Spurious, DestroyCall, DestroyAllCall,
       FreeBucket, NullSlot, Scan, Probe, ALock, Credit, Cap, Crash, Dangling, NextSecond

-----------------------------------------------------------------------------
(* Type correctness.                                                       *)

\* Updating a function at one point keeps its type.
LEMMA ExceptType ==
  ASSUME NEW S, NEW T, NEW f \in [S -> T], NEW x, NEW v \in T
  PROVE  [f EXCEPT ![x] = v] \in [S -> T]
OBVIOUS

LEMMA ZeroIsSlot == 0 \in Slots /\ Slots \subseteq 0 .. TBF_MAX
BY SizeAssumption DEF Slots

LEMMA MonitorType ==
  ASSUME NEW T, NEW m \in Monitors(T), NEW t \in T
  PROVE  /\ Idle \in Monitors(T)
         /\ Locked(m, t) \in Monitors(T)
         /\ Unlocked(m) \in Monitors(T)
         /\ Waiting(m, t) \in Monitors(T)
         /\ Broadcast(m) \in Monitors(T)
         /\ SpuriouslyWoken(m, t) \in Monitors(T)
BY DEF Monitors, Idle, Locked, Unlocked, Waiting, Broadcast, SpuriouslyWoken

\* What the parameters and the asked numbers are.
LEMMA Inputs ==
  /\ \A p \in Params : p.cps \in Nat \ {0} /\ p.burst \in Nat \ {0}
  /\ \A k \in Asks : k \in Nat /\ k > 0
BY ParamsAssumption

LEMMA LeastInt ==
  ASSUME NEW x \in Int, NEW y \in Int
  PROVE  Least(x, y) \in {x, y} /\ Least(x, y) <= x /\ Least(x, y) <= y
BY DEF Least

\* The descriptors in use are slots.
LEMMA InSlots ==
  ASSUME TypeOK, HandlesLive, CallArgs, Destroying, NEW c \in Callers,
         pc[c] \in {"istore", "flock", "fwait", "fsection", "dlock", "dfree", "dnull"}
  PROVE  td[c] \in Slots
BY DEF TypeOK, ProcessTypeOK, HandlesLive, CallArgs, Destroying

LEMMA TokenType ==
  ASSUME TypeOK, HandlesLive, CallArgs, Destroying, LiveParams, [Next]_vars
  PROVE  token' \in [Slots -> Int]
<1> USE DEF TypeOK, BucketsTypeOK, CallersTypeOK, AccsTypeOK
<1>1. ASSUME NEW c \in Callers, StoreSlot(c) \/ FreeBucket(c)
      PROVE  token' \in [Slots -> Int]
  BY <1>1, ExceptType DEF StoreSlot, FreeBucket
<1>2. ASSUME NEW c \in Callers, FetchTake(c)
      PROVE  token' \in [Slots -> Int]
  <2>0. td[c] \in Slots
    BY <1>2, InSlots DEF FetchTake, At
  <2>1. n[c] \in Nat
    BY Inputs
  <2>2. token[td[c]] - Least(n[c], token[td[c]]) \in Int
    BY <2>0, <2>1, LeastInt
  <2> QED BY <1>2, <2>2, ExceptType DEF FetchTake
<1>3. ASSUME NEW a \in Accs, Credit(a)
      PROVE  token' \in [Slots -> Int]
  <2>1. ai[a] \in Slots /\ par[ai[a]] \in Params
    BY <1>3 DEF Credit, LiveParams
  <2>2. token[ai[a]] + par[ai[a]].cps \in Int
    BY <2>1, Inputs
  <2> QED BY <1>3, <2>2, ExceptType DEF Credit
<1>4. ASSUME NEW a \in Accs, Cap(a)
      PROVE  token' \in [Slots -> Int]
  <2>1. ai[a] \in Slots /\ par[ai[a]] \in Params
    BY <1>4 DEF Cap, LiveParams
  <2>2. Least(token[ai[a]], par[ai[a]].burst) \in Int
    BY <2>1, Inputs, LeastInt
  <2> QED BY <1>4, <2>2, ExceptType DEF Cap
<1>5. ASSUME NEW c \in Callers, NullSlot(c) \/ FetchLock(c) \/ FetchWait(c) \/ Spurious(c)
      PROVE  UNCHANGED token
  BY <1>5 DEF NullSlot, FetchLock, FetchWait, Spurious
<1>6. ASSUME NEW a \in Accs, ALock(a)
      PROVE  UNCHANGED token
  BY <1>6 DEF ALock
<1> QED
  BY <1>1, <1>2, <1>3, <1>4, <1>5, <1>6, BucketFrame

LEMMA MonType ==
  ASSUME TypeOK, HandlesLive, CallArgs, Destroying, [Next]_vars
  PROVE  mon' \in [Slots -> Monitors(Callers \cup Accs)]
<1> USE DEF TypeOK, BucketsTypeOK, CallersTypeOK, AccsTypeOK
<1> DEFINE T == Callers \cup Accs
<1>1. ASSUME NEW c \in Callers, StoreSlot(c)
      PROVE  mon' \in [Slots -> Monitors(T)]
  <2>1. Idle \in Monitors(T)
    BY DEF Idle, Monitors
  <2> QED BY <1>1, <2>1, ExceptType DEF StoreSlot
<1>2. ASSUME NEW c \in Callers, FetchLock(c) \/ FetchWait(c) \/ FetchTake(c) \/ Spurious(c)
      PROVE  mon' \in [Slots -> Monitors(T)]
  <2>1. td[c] \in Slots
    BY <1>2, InSlots DEF FetchLock, FetchWait, FetchTake, Spurious, At
  <2>2. PICK m \in Monitors(T) : mon' = [mon EXCEPT ![td[c]] = m]
    <3>1. /\ Locked(mon[td[c]], c) \in Monitors(T)
          /\ Unlocked(mon[td[c]]) \in Monitors(T)
          /\ Waiting(mon[td[c]], c) \in Monitors(T)
          /\ SpuriouslyWoken(mon[td[c]], c) \in Monitors(T)
      BY <2>1, MonitorType
    <3> QED BY <1>2, <3>1 DEF FetchLock, FetchWait, FetchTake, Spurious
  <2> QED BY <2>2, ExceptType
<1>3. ASSUME NEW a \in Accs, ALock(a) \/ Credit(a) \/ Cap(a)
      PROVE  mon' \in [Slots -> Monitors(T)]
  <2>1. PICK m \in Monitors(T) : mon' = [mon EXCEPT ![ai[a]] = m]
    <3>1. /\ Locked(mon[ai[a]], a) \in Monitors(T)
          /\ Unlocked(mon[ai[a]]) \in Monitors(T)
          /\ Broadcast(mon[ai[a]]) \in Monitors(T)
      BY MonitorType
    <3> QED BY <1>3, <3>1 DEF ALock, Credit, Cap
  <2> QED BY <2>1, ExceptType
<1>4. ASSUME NEW c \in Callers, FreeBucket(c) \/ NullSlot(c)
      PROVE  UNCHANGED mon
  BY <1>4 DEF FreeBucket, NullSlot
<1> QED
  BY <1>1, <1>2, <1>3, <1>4, BucketFrame

LEMMA BucketsType ==
  ASSUME TypeOK, HandlesLive, CallArgs, Destroying, LiveParams, [Next]_vars
  PROVE  BucketsTypeOK'
<1> USE DEF TypeOK, BucketsTypeOK, CallersTypeOK
<1>1. slot' \in [Slots -> {"null", "live", "freed"}]
  BY SlotFrame, ExceptType DEF StoreSlot, FreeBucket, NullSlot
<1>2. par' \in [Slots -> Params \cup {NoPar}]
  BY BucketFrame, ExceptType DEF StoreSlot, FreeBucket, NullSlot, FetchLock, FetchWait,
     FetchTake, Spurious, ALock, Credit, Cap
<1> QED BY <1>1, <1>2, TokenType, MonType

LEMMA AccsType ==
  ASSUME TypeOK, [Next]_vars
  PROVE  AccsTypeOK'
<1> USE DEF TypeOK, AccsTypeOK, AccLabels
<1>1. cancelled' \subseteq Accs
  BY DEF ProcessTypeOK, Next, Call, CallerStep, AccStep, vars, acc,
     InitCall, LoadModule, LoadFails, Alloc, AllocFails, JobLock, FindSlot, NoSpace, StoreSlot,
     FetchCall, FetchLock, FetchWait, FetchTake, Spurious, DestroyCall, DestroyAllCall,
     FreeBucket, NullSlot, Scan, Probe, ALock, Credit, Cap, Crash, Dangling, NextSecond
<1>2. ASSUME NEW a \in Accs, ANext(a)
      PROVE  apc' \in [Accs -> AccLabels] /\ ai' \in [Accs -> Slots]
  BY <1>2, ExceptType, ZeroIsSlot DEF ANext, AGoto
<1>3. ASSUME NEW a \in Accs, NEW l \in AccLabels, AGoto(a, l), UNCHANGED ai
      PROVE  apc' \in [Accs -> AccLabels] /\ ai' \in [Accs -> Slots]
  BY <1>3, ExceptType DEF AGoto
<1>4. ASSUME NEW a \in Accs, AccStep(a)
      PROVE  apc' \in [Accs -> AccLabels] /\ ai' \in [Accs -> Slots]
  BY <1>2, <1>3, <1>4 DEF AccStep, Probe, ALock, Credit, Cap, Crash, Dangling, NextSecond,
     AAt, acc
<1>5. ASSUME NEW c \in Callers, LoadModule(c)
      PROVE  apc' \in [Accs -> AccLabels] /\ ai' \in [Accs -> Slots]
  BY <1>5, ExceptType DEF LoadModule
<1> QED BY <1>1, <1>4, <1>5, ThreadFrame

LEMMA CallersType ==
  ASSUME TypeOK, JobOwner, HandlesLive, CallArgs, Destroying, [Next]_vars
  PROVE  CallersTypeOK'
<1> USE DEF TypeOK, CallersTypeOK
<1>1. ASSUME NEW c \in Callers, Return(c) PROVE CallersTypeOK'
  BY <1>1, ExceptType, ZeroIsSlot DEF Return, Goto, Labels
<1>2. ASSUME NEW c \in Callers, NEW l \in Labels, Goto(c, l), UNCHANGED <<td, n, arg, all>>
      PROVE  CallersTypeOK'
  BY <1>2, ExceptType DEF Goto
<1>3. ASSUME UNCHANGED <<pc, td, n, arg, all>> PROVE CallersTypeOK'
  BY <1>3
<1>4. ASSUME NEW c \in Callers, InitCall(c) PROVE CallersTypeOK'
  BY <1>4, ExceptType DEF InitCall, Goto, Labels
<1>5. ASSUME NEW c \in Callers, JobLock(c) PROVE CallersTypeOK'
  <2>1. pc[c] # "drelock"
    BY <1>5, ThreadsAssumption DEF JobLock, JobOwner
  <2> QED BY <1>2, <1>5, <2>1 DEF JobLock, At, Labels
<1>6. ASSUME NEW c \in Callers, FindSlot(c) PROVE CallersTypeOK'
  BY <1>6, ExceptType, ZeroIsSlot DEF FindSlot, Goto, Labels
<1>7. ASSUME NEW c \in Callers, FetchCall(c) PROVE CallersTypeOK'
  BY <1>7, ExceptType, ZeroIsSlot DEF FetchCall, Goto, Labels, ProcessTypeOK
<1>8. ASSUME NEW c \in Callers, DestroyCall(c) PROVE CallersTypeOK'
  BY <1>8, ExceptType, ZeroIsSlot DEF DestroyCall, Goto, Labels, ProcessTypeOK
<1>9. ASSUME NEW c \in Callers, DestroyAllCall(c) PROVE CallersTypeOK'
  BY <1>9, ExceptType DEF DestroyAllCall, Goto, Labels
<1>10. ASSUME NEW c \in Callers, Scan(c) PROVE CallersTypeOK'
  <2>1. CASE td[c] \notin Slots
    BY <1>1, <1>10, <2>1 DEF Scan
  <2>2. CASE td[c] \in Slots /\ slot[td[c]] = "null"
    <3>1. td[c] + 1 \in 0 .. TBF_MAX
      BY <2>2, SizeAssumption DEF Slots
    <3> QED BY <1>10, <2>2, <3>1, ExceptType DEF Scan
  <2>3. CASE td[c] \in Slots /\ slot[td[c]] # "null"
    BY <1>2, <1>10, <2>3 DEF Scan, Labels
  <2> QED BY <2>1, <2>2, <2>3
<1>11. ASSUME NEW c \in Callers,
              LoadModule(c) \/ Alloc(c) \/ FetchLock(c) \/ FetchWait(c)
              \/ FreeBucket(c) \/ NullSlot(c)
       PROVE  \E l \in Labels : Goto(c, l) /\ UNCHANGED <<td, n, arg, all>>
  BY <1>11 DEF LoadModule, Alloc, FetchLock, FetchWait, FreeBucket, NullSlot, Labels
<1>12. ASSUME NEW c \in Callers,
              AllocFails(c) \/ NoSpace(c) \/ StoreSlot(c) \/ FetchTake(c)
       PROVE  Return(c)
  BY <1>12 DEF AllocFails, NoSpace, StoreSlot, FetchTake
<1>13. ASSUME \/ UNCHANGED vars
              \/ \E c \in Callers : LoadFails(c) \/ Spurious(c)
              \/ \E a \in Accs : AccStep(a)
       PROVE  UNCHANGED <<pc, td, n, arg, all>>
  BY <1>13 DEF vars, LoadFails, Spurious, AccStep, Probe, ALock, Credit, Cap, Crash,
     Dangling, NextSecond, caller
<1> QED
  BY <1>1, <1>2, <1>3, <1>4, <1>5, <1>6, <1>7, <1>8, <1>9, <1>10, <1>11, <1>12, <1>13
  DEF Next, Call, CallerStep

LEMMA ProcessType ==
  ASSUME TypeOK, HandlesLive, CallArgs, Destroying, [Next]_vars
  PROVE  ProcessTypeOK'
<1> USE DEF TypeOK, ProcessTypeOK
<1>1. ASSUME NEW c \in Callers, StoreSlot(c) PROVE ProcessTypeOK'
  <2>1. td[c] \in Slots
    BY <1>1, InSlots DEF StoreSlot, At
  <2> QED BY <1>1, <2>1 DEF StoreSlot, process
<1>2. ASSUME NEW c \in Callers, DestroyCall(c) \/ DestroyAllCall(c) PROVE ProcessTypeOK'
  BY <1>2 DEF DestroyCall, DestroyAllCall, process
<1>3. ASSUME NEW c \in Callers, LoadModule(c) \/ LoadFails(c) \/ JobLock(c)
      PROVE  ProcessTypeOK'
  BY <1>3 DEF LoadModule, LoadFails, JobLock, process
<1>4. ASSUME NEW a \in Accs, Crash(a) PROVE ProcessTypeOK'
  BY <1>4 DEF Crash
<1>5. ASSUME \/ UNCHANGED vars
             \/ \E c \in Callers :
                  \/ InitCall(c) \/ FetchCall(c) \/ Alloc(c) \/ AllocFails(c) \/ FindSlot(c)
                  \/ NoSpace(c) \/ FetchLock(c) \/ FetchWait(c) \/ FetchTake(c) \/ Spurious(c)
                  \/ FreeBucket(c) \/ NullSlot(c) \/ Scan(c)
             \/ \E a \in Accs :
                  Probe(a) \/ ALock(a) \/ Credit(a) \/ Cap(a) \/ Dangling(a) \/ NextSecond(a)
      PROVE  UNCHANGED <<status, inited, tid, jobMut, handles>>
  BY <1>5 DEF vars, process, InitCall, FetchCall, Alloc, AllocFails, FindSlot, NoSpace,
     FetchLock, FetchWait, FetchTake, Spurious, FreeBucket, NullSlot, Scan, Probe, ALock,
     Credit, Cap, Dangling, NextSecond
<1> QED
  BY <1>1, <1>2, <1>3, <1>4, <1>5 DEF Next, Call, CallerStep, AccStep

-----------------------------------------------------------------------------
(* The callers.                                                            *)

\* A caller's locals change only by its own steps.
LEMMA CallerFrame ==
  ASSUME TypeOK, [Next]_vars
  PROVE  \/ UNCHANGED <<pc, td, n, arg, all>>
         \/ \E c \in Callers :
              /\ Call(c) \/ CallerStep(c)
              /\ \A d \in Callers \ {c} :
                   /\ pc'[d] = pc[d] /\ td'[d] = td[d] /\ n'[d] = n[d]
                   /\ arg'[d] = arg[d] /\ all'[d] = all[d]
<1> USE DEF TypeOK, CallersTypeOK
<1>1. ASSUME NEW c \in Callers, Call(c) \/ CallerStep(c), NEW d \in Callers \ {c}
      PROVE  /\ pc'[d] = pc[d] /\ td'[d] = td[d] /\ n'[d] = n[d]
             /\ arg'[d] = arg[d] /\ all'[d] = all[d]
  BY <1>1 DEF Call, CallerStep, InitCall, LoadModule, LoadFails, Alloc, AllocFails, JobLock,
     FindSlot, NoSpace, StoreSlot, FetchCall, FetchLock, FetchWait, FetchTake, DestroyCall,
     DestroyAllCall, FreeBucket, NullSlot, Scan, Goto, Return, caller
<1>2. ASSUME \/ UNCHANGED vars \/ \E c \in Callers : Spurious(c)
             \/ \E a \in Accs : AccStep(a)
      PROVE  UNCHANGED <<pc, td, n, arg, all>>
  BY <1>2 DEF vars, Spurious, AccStep, Probe, ALock, Credit, Cap, Crash, Dangling,
     NextSecond, caller
<1> QED BY <1>1, <1>2 DEF Next

\* What c has changed when it moves; otherwise it is c that moves.
LEMMA OwnStep ==
  ASSUME TypeOK, [Next]_vars, NEW c \in Callers
  PROVE  \/ /\ pc'[c] = pc[c] /\ td'[c] = td[c] /\ n'[c] = n[c]
            /\ arg'[c] = arg[c] /\ all'[c] = all[c]
         \/ Call(c) \/ CallerStep(c)
BY CallerFrame

\* Only these steps unlock job_mut, or lock it.
LEMMA JobFrame ==
  ASSUME [Next]_vars
  PROVE  UNCHANGED jobMut \/ \E c \in Callers : JobLock(c) \/ StoreSlot(c)
BY DEF Next, Call, CallerStep, AccStep, vars, InitCall, LoadModule, LoadFails, Alloc,
   AllocFails, FindSlot, NoSpace, FetchCall, FetchLock, FetchWait, FetchTake, Spurious,
   DestroyCall, DestroyAllCall, FreeBucket, NullSlot, Scan, Probe, ALock, Credit, Cap,
   Crash, Dangling, NextSecond

LEMMA JobOwnerStep ==
  ASSUME TypeOK, JobOwner, [Next]_vars
  PROVE  JobOwner'
<1> DEFINE Owning == {"iscan", "istore", "dfree", "dnull", "drelock"}
<1> USE DEF TypeOK, CallersTypeOK
<1>1. ASSUME NEW c \in Callers, JobLock(c) PROVE JobOwner'
  <2>1. \A d \in Callers : pc[d] \notin Owning
    BY <1>1, ThreadsAssumption DEF JobLock, JobOwner
  <2> QED BY <1>1, <2>1 DEF JobLock, JobOwner, Goto, At, Return
<1>2. ASSUME NEW c \in Callers, StoreSlot(c) PROVE JobOwner'
  <2>1. \A d \in Callers \ {c} : pc[d] \notin Owning
    BY <1>2 DEF StoreSlot, JobOwner, At
  <2> QED BY <1>2, <2>1 DEF StoreSlot, JobOwner, Return, Goto
<1>3. ASSUME NEW c \in Callers, (Call(c) \/ CallerStep(c)), ~JobLock(c), ~StoreSlot(c),
             pc'[c] \in Owning
      PROVE  pc[c] \in Owning
  BY <1>3 DEF Call, CallerStep, InitCall, LoadModule, LoadFails, Alloc, AllocFails,
     FindSlot, NoSpace, FetchCall, FetchLock, FetchWait, FetchTake, DestroyCall,
     DestroyAllCall, FreeBucket, NullSlot, Scan, Goto, Return, caller, At
<1> QED
  BY <1>1, <1>2, <1>3, JobFrame, CallerFrame DEF JobOwner

LEMMA CallArgsStep ==
  ASSUME TypeOK, JobOwner, CallArgs, [Next]_vars
  PROVE  CallArgs'
<1> USE DEF TypeOK, CallersTypeOK, BucketsTypeOK
<1> DEFINE InInit == {"load", "alloc", "ilock", "iscan", "istore"}
           InFetch == {"flock", "fwait", "fsection"}
<1>1. ASSUME NEW d \in Callers, pc'[d] \in InInit
      PROVE  arg'[d] \in Params
  <2>1. ASSUME Call(d) \/ CallerStep(d) PROVE arg'[d] \in Params
    BY <1>1, <2>1 DEF CallArgs, Call, CallerStep, InitCall, LoadModule, LoadFails, Alloc,
       AllocFails, JobLock, FindSlot, NoSpace, StoreSlot, FetchCall, FetchLock, FetchWait,
       FetchTake, DestroyCall, DestroyAllCall, FreeBucket, NullSlot, Scan, Goto, Return,
       caller, At
  <2> QED BY <1>1, <2>1, CallerFrame DEF CallArgs
<1>2. ASSUME NEW d \in Callers, pc'[d] \in InFetch
      PROVE  n'[d] \in Asks
  <2>1. ASSUME Call(d) \/ CallerStep(d) PROVE n'[d] \in Asks
    BY <1>2, <2>1 DEF CallArgs, Call, CallerStep, InitCall, LoadModule, LoadFails, Alloc,
       AllocFails, JobLock, FindSlot, NoSpace, StoreSlot, FetchCall, FetchLock, FetchWait,
       FetchTake, DestroyCall, DestroyAllCall, FreeBucket, NullSlot, Scan, Goto, Return,
       caller, At
  <2> QED BY <1>2, <2>1, CallerFrame DEF CallArgs
<1>3. ASSUME NEW d \in Callers, pc'[d] = "istore"
      PROVE  td'[d] \in Slots /\ slot'[td'[d]] = "null"
  <2>1. ASSUME Call(d) \/ CallerStep(d) PROVE FindSlot(d)
    BY <1>3, <2>1 DEF Call, CallerStep, InitCall, LoadModule, LoadFails, Alloc,
       AllocFails, JobLock, NoSpace, StoreSlot, FetchCall, FetchLock, FetchWait,
       FetchTake, DestroyCall, DestroyAllCall, FreeBucket, NullSlot, Scan, Goto, Return,
       caller, At
  <2>2. ASSUME FindSlot(d) PROVE td'[d] \in Slots /\ slot'[td'[d]] = "null"
    BY <2>2 DEF FindSlot, buckets
  <2>3. ASSUME pc[d] = "istore", td'[d] = td[d]
        PROVE  td'[d] \in Slots /\ slot'[td'[d]] = "null"
    <3>1. ASSUME NEW c \in Callers, c # d PROVE ~(StoreSlot(c) \/ FreeBucket(c) \/ NullSlot(c))
      BY <2>3, <3>1 DEF JobOwner, StoreSlot, FreeBucket, NullSlot, At
    <3>2. ~StoreSlot(d) /\ ~FreeBucket(d) /\ ~NullSlot(d)
      BY <1>3, <2>3 DEF StoreSlot, FreeBucket, NullSlot, Return, Goto, At
    <3> QED BY <2>3, <3>1, <3>2, SlotFrame DEF CallArgs
  <2> QED BY <1>3, <2>1, <2>2, <2>3, CallerFrame
<1> QED BY <1>1, <1>2, <1>3 DEF CallArgs

\* Only these steps change what the program may use.
LEMMA HandlesFrame ==
  ASSUME [Next]_vars
  PROVE  UNCHANGED handles
         \/ \E c \in Callers : StoreSlot(c) \/ DestroyCall(c) \/ DestroyAllCall(c)
BY DEF Next, Call, CallerStep, AccStep, vars, InitCall, LoadModule, LoadFails, Alloc,
   AllocFails, JobLock, FindSlot, NoSpace, FetchCall, FetchLock, FetchWait, FetchTake,
   Spurious, FreeBucket, NullSlot, Scan, Probe, ALock, Credit, Cap, Crash, Dangling,
   NextSecond

LEMMA HandlesLiveStep ==
  ASSUME TypeOK, JobOwner, CallArgs, HandlesLive, Destroying, [Next]_vars
  PROVE  HandlesLive'
<1> USE DEF TypeOK, CallersTypeOK, BucketsTypeOK, ProcessTypeOK
<1>1. ASSUME NEW d \in handles' PROVE slot'[d] = "live"
  <2>1. ASSUME NEW c \in Callers, StoreSlot(c) PROVE slot'[d] = "live"
    BY <1>1, <2>1 DEF StoreSlot, HandlesLive, CallArgs, At
  <2>2. ASSUME NEW c \in Callers, FreeBucket(c) PROVE slot'[d] = "live"
    BY <1>1, <2>2 DEF FreeBucket, HandlesLive, Destroying, At
  <2>3. ASSUME NEW c \in Callers, NullSlot(c) PROVE slot'[d] = "live"
    BY <1>1, <2>3 DEF NullSlot, HandlesLive, Destroying, At
  <2>4. ASSUME UNCHANGED slot PROVE slot'[d] = "live"
    BY <1>1, <2>1, <2>4, HandlesFrame DEF DestroyCall, DestroyAllCall, HandlesLive
  <2> QED BY <2>1, <2>2, <2>3, <2>4, SlotFrame
<1> DEFINE InFetch == {"flock", "fwait", "fsection"}
<1>2. ASSUME NEW d \in Callers, pc'[d] \in InFetch PROVE td'[d] \in handles'
  <2>1. td'[d] \in handles
    <3>1. ASSUME Call(d) \/ CallerStep(d) PROVE td'[d] \in handles
      BY <1>2, <3>1 DEF HandlesLive, Call, CallerStep, InitCall, LoadModule, LoadFails,
         Alloc, AllocFails, JobLock, FindSlot, NoSpace, StoreSlot, FetchCall, FetchLock,
         FetchWait, FetchTake, DestroyCall, DestroyAllCall, FreeBucket, NullSlot, Scan,
         Goto, Return, caller, At
    <3> QED BY <1>2, <3>1, CallerFrame DEF HandlesLive
  <2>2. ASSUME NEW c \in Callers, StoreSlot(c) PROVE td'[d] \in handles'
    BY <2>1, <2>2 DEF StoreSlot
  <2>3. ASSUME NEW c \in Callers, DestroyCall(c) PROVE td'[d] \in handles'
    <3>1. pc'[c] = "dlock"
      BY <2>3 DEF DestroyCall, Goto
    <3>2. pc[d] = pc'[d] /\ td[d] = td'[d]
      BY <1>2, <2>3, <3>1 DEF DestroyCall, Goto
    <3> QED BY <1>2, <2>1, <2>3, <3>2 DEF DestroyCall, Fetching
  <2>4. ASSUME NEW c \in Callers, DestroyAllCall(c) PROVE FALSE
    BY <1>2, <2>4 DEF DestroyAllCall, Goto
  <2> QED BY <2>1, <2>2, <2>3, <2>4, HandlesFrame
<1> QED BY <1>1, <1>2 DEF HandlesLive

LEMMA AloneStep ==
  ASSUME TypeOK, Alone, [Next]_vars
  PROVE  Alone'
<1> USE DEF TypeOK, CallersTypeOK
<1>0. ASSUME NEW c \in Callers, pc'[c] = "scan" PROVE all'[c]
  <2>1. ASSUME Call(c) \/ CallerStep(c) PROVE all'[c]
    BY <1>0, <2>1 DEF Alone, Call, CallerStep, InitCall, LoadModule, LoadFails, Alloc,
       AllocFails, JobLock, FindSlot, NoSpace, StoreSlot, FetchCall, FetchLock, FetchWait,
       FetchTake, DestroyCall, DestroyAllCall, FreeBucket, NullSlot, Scan, Goto, Return,
       caller, At
  <2> QED BY <1>0, <2>1, OwnStep DEF Alone
<1> SUFFICES ASSUME NEW c \in Callers, all'[c]
             PROVE  /\ handles' = {}
                    /\ \A d \in Callers \ {c} : pc'[d] = "idle"
                    /\ pc'[c] \in {"scan", "dlock", "dfree", "dnull", "drelock"}
  BY <1>0 DEF Alone
<1>1. CASE ~all[c]
  <2>1. DestroyAllCall(c)
    BY <1>1, CallerFrame DEF Call, CallerStep, InitCall, LoadModule, LoadFails, Alloc,
       AllocFails, JobLock, FindSlot, NoSpace, StoreSlot, FetchCall, FetchLock, FetchWait,
       FetchTake, DestroyCall, FreeBucket, NullSlot, Scan, Goto, Return, caller, At
  <2> QED BY <2>1 DEF DestroyAllCall, Goto
<1>2. CASE all[c]
  <2>1. /\ handles = {}
        /\ \A d \in Callers \ {c} : pc[d] = "idle"
        /\ pc[c] \in {"scan", "dlock", "dfree", "dnull", "drelock"}
    BY <1>2 DEF Alone
  <2>2. ASSUME NEW d \in Callers, Call(d) PROVE FALSE
    BY <1>2, <2>1, <2>2 DEF Call, InitCall, FetchCall, DestroyCall, DestroyAllCall, At
  <2>3. ASSUME NEW d \in Callers, CallerStep(d) PROVE d = c
    BY <2>1, <2>3 DEF CallerStep, LoadModule, LoadFails, Alloc, AllocFails, JobLock,
       FindSlot, NoSpace, StoreSlot, FetchLock, FetchWait, FetchTake, FreeBucket,
       NullSlot, Scan, At
  <2>4. ASSUME CallerStep(c)
        PROVE  pc'[c] \in {"scan", "dlock", "dfree", "dnull", "drelock"}
    BY <2>1, <2>4 DEF CallerStep, LoadModule, LoadFails, Alloc, AllocFails, JobLock,
       FindSlot, NoSpace, StoreSlot, FetchLock, FetchWait, FetchTake, FreeBucket,
       NullSlot, Scan, At, Goto, Return
  <2>5. handles' = {}
    BY <2>1, <2>2, HandlesFrame DEF StoreSlot, At, Call
  <2> QED BY <2>1, <2>2, <2>3, <2>4, <2>5, CallerFrame
<1> QED BY <1>1, <1>2

LEMMA DestroyingStep ==
  ASSUME TypeOK, JobOwner, CallArgs, HandlesLive, Destroying, Alone, [Next]_vars
  PROVE  Destroying'
<1> USE DEF TypeOK, CallersTypeOK, BucketsTypeOK
<1> DEFINE Claimed(c) == pc[c] \in {"dlock", "dfree"}
           Marked(s) == \E c \in Callers : pc[c] = "dnull" /\ td[c] = s
\* A caller that becomes a destroyer takes a live bucket that no other has.
<1>1. ASSUME NEW c \in Callers, Claimed(c)', ~Claimed(c)
      PROVE  /\ td'[c] \in Slots /\ slot[td'[c]] = "live" /\ td'[c] \notin handles'
             /\ \A d \in Callers \ {c} : Claimed(d) => td[d] # td'[c]
             /\ UNCHANGED slot
             /\ \A d \in Callers \ {c} : pc'[d] = pc[d] /\ td'[d] = td[d]
  <2>0. Call(c) \/ CallerStep(c)
    BY <1>1, OwnStep
  <2>1. DestroyCall(c) \/ Scan(c)
    BY <1>1, <2>0 DEF Call, CallerStep, InitCall, LoadModule, LoadFails, Alloc,
       AllocFails, JobLock, FindSlot, NoSpace, StoreSlot, FetchCall, FetchLock, FetchWait,
       FetchTake, DestroyAllCall, FreeBucket, NullSlot, Goto, Return, caller, At
  <2>2. CASE DestroyCall(c)
    BY <2>2 DEF DestroyCall, HandlesLive, Destroying, buckets, Goto, ProcessTypeOK
  <2>3. CASE Scan(c)
    <3>1. /\ td[c] \in Slots /\ slot[td[c]] # "null" /\ td' = td /\ slot' = slot
          /\ handles' = handles /\ pc[c] = "scan" /\ pc' = [pc EXCEPT ![c] = "dlock"]
      BY <1>1, <2>3 DEF Scan, Goto, Return, At, buckets
    <3>2. /\ handles = {} /\ \A d \in Callers \ {c} : pc[d] = "idle"
      BY <3>1 DEF Alone
    <3>3. slot[td[c]] = "live"
      BY <3>1, <3>2 DEF Destroying
    <3> QED BY <3>1, <3>2, <3>3
  <2> QED BY <2>1, <2>2, <2>3
\* Those that were destroyers before keep what they have.
<1>2. ASSUME NEW c \in Callers, Claimed(c)', Claimed(c)
      PROVE  /\ td'[c] = td[c] /\ td[c] \in Slots
             /\ slot'[td[c]] = "live" /\ td[c] \notin handles'
  <2>0. ASSUME Call(c) \/ CallerStep(c) PROVE td'[c] = td[c]
    BY <1>2, <2>0 DEF Call, CallerStep, InitCall, LoadModule, LoadFails, Alloc,
       AllocFails, JobLock, FindSlot, NoSpace, StoreSlot, FetchCall, FetchLock, FetchWait,
       FetchTake, DestroyCall, DestroyAllCall, FreeBucket, NullSlot, Scan, Goto, Return,
       caller, At
  <2>1. td'[c] = td[c] /\ ~FreeBucket(c)
    BY <1>2, <2>0, OwnStep DEF FreeBucket, Goto
  <2>2. td[c] \in Slots /\ slot[td[c]] = "live" /\ td[c] \notin handles
    BY <1>2 DEF Destroying
  <2>3. ASSUME NEW d \in Callers, StoreSlot(d)
        PROVE  td[d] # td[c] /\ td[d] \in Slots
    BY <2>2, <2>3 DEF StoreSlot, CallArgs, At
  <2>4. ASSUME NEW d \in Callers, FreeBucket(d) \/ NullSlot(d)
        PROVE  td[d] # td[c]
    BY <1>2, <2>1, <2>2, <2>4 DEF FreeBucket, NullSlot, Destroying, At
  <2>5. slot'[td[c]] = "live"
    BY <2>2, <2>3, <2>4, SlotFrame DEF StoreSlot, FreeBucket, NullSlot
  <2>6. td[c] \notin handles'
    BY <2>2, <2>3, HandlesFrame DEF StoreSlot, DestroyCall, DestroyAllCall
  <2> QED BY <2>1, <2>2, <2>5, <2>6
<1>3. ASSUME NEW c \in Callers, NEW d \in Callers, Claimed(c)', Claimed(d)', td'[c] = td'[d],
             c # d
      PROVE  FALSE
  <2>1. Claimed(c) \/ Claimed(d)
    <3>1. CASE UNCHANGED <<pc, td, n, arg, all>>
      BY <1>3, <3>1
    <3>2. ASSUME NEW e \in Callers, \A f \in Callers \ {e} : pc'[f] = pc[f]
          PROVE  Claimed(c) \/ Claimed(d)
      BY <1>3, <3>2
    <3> QED BY <3>1, <3>2, CallerFrame
  <2>2. CASE Claimed(c) /\ Claimed(d)
    BY <1>2, <1>3, <2>2 DEF Destroying
  <2>3. CASE Claimed(c) /\ ~Claimed(d)
    BY <1>1, <1>2, <1>3, <2>3
  <2>4. CASE ~Claimed(c) /\ Claimed(d)
    BY <1>1, <1>2, <1>3, <2>4
  <2> QED BY <2>1, <2>2, <2>3, <2>4
<1>4. ASSUME NEW c \in Callers, pc'[c] = "dnull"
      PROVE  td'[c] \in Slots /\ slot'[td'[c]] = "freed"
  <2>1. CASE FreeBucket(c)
    BY <2>1 DEF FreeBucket, Destroying, At
  <2>2. CASE ~FreeBucket(c)
    <3>0. ASSUME Call(c) \/ CallerStep(c) PROVE FALSE
      BY <1>4, <2>2, <3>0 DEF Call, CallerStep, InitCall, LoadModule, LoadFails,
         Alloc, AllocFails, JobLock, FindSlot, NoSpace, StoreSlot, FetchCall, FetchLock,
         FetchWait, FetchTake, DestroyCall, DestroyAllCall, NullSlot, Scan, Goto, Return,
         caller, At
    <3>1. pc[c] = "dnull" /\ td'[c] = td[c]
      BY <1>4, <3>0, OwnStep
    <3>2. ASSUME NEW d \in Callers, StoreSlot(d) \/ FreeBucket(d) \/ NullSlot(d) PROVE FALSE
      <4>1. d = c
        BY <3>1, <3>2 DEF StoreSlot, FreeBucket, NullSlot, JobOwner, At
      <4> QED BY <1>4, <3>1, <3>2, <4>1 DEF StoreSlot, FreeBucket, NullSlot, Goto, At
    <3> QED BY <3>1, <3>2, SlotFrame DEF Destroying
  <2> QED BY <2>1, <2>2
<1>5. ASSUME NEW s \in Slots, slot'[s] = "freed" PROVE Marked(s)'
  <2>1. ASSUME NEW c \in Callers, FreeBucket(c), td[c] = s PROVE Marked(s)'
    BY <2>1 DEF FreeBucket, Goto
  <2>2. CASE slot[s] = "freed"
    <3>1. PICK c \in Callers : pc[c] = "dnull" /\ td[c] = s
      BY <2>2 DEF Destroying
    <3>2. ~NullSlot(c)
      BY <1>5, <3>1 DEF NullSlot
    <3>3. pc'[c] = "dnull" /\ td'[c] = s
      BY <3>1, <3>2, CallerFrame DEF Call, CallerStep, InitCall, LoadModule, LoadFails,
         Alloc, AllocFails, JobLock, FindSlot, NoSpace, StoreSlot, FetchCall, FetchLock,
         FetchWait, FetchTake, DestroyCall, DestroyAllCall, FreeBucket, Scan, Goto, Return,
         caller, At
    <3> QED BY <3>3
  <2>3. CASE slot[s] # "freed"
    BY <1>5, <2>1, <2>3, SlotFrame DEF StoreSlot, FreeBucket, NullSlot
  <2> QED BY <2>2, <2>3
<1>6. ASSUME NEW c \in Callers, Claimed(c)'
      PROVE  td'[c] \in Slots /\ slot'[td'[c]] = "live" /\ td'[c] \notin handles'
  BY <1>1, <1>2, <1>6
<1> QED BY <1>3, <1>4, <1>5, <1>6 DEF Destroying

-----------------------------------------------------------------------------
(* The accumulators and the buckets.                                       *)

\* Once a bucket has been freed there is no way back.
LEMMA StaysDoomed ==
  ASSUME TypeOK, JobOwner, Doomed, [Next]_vars
  PROVE  Doomed'
<1> USE DEF TypeOK, CallersTypeOK
<1>1. PICK c \in Callers : pc[c] \in {"dnull", "drelock"}
  BY DEF Doomed
<1>2. jobMut = c
  BY <1>1 DEF JobOwner
<1>3. ASSUME Call(c) \/ CallerStep(c) PROVE pc'[c] \in {"dnull", "drelock"}
  BY <1>1, <1>2, <1>3, ThreadsAssumption
  DEF Call, CallerStep, InitCall, LoadModule, LoadFails, Alloc, AllocFails,
     JobLock, FindSlot, NoSpace, StoreSlot, FetchCall, FetchLock, FetchWait, FetchTake,
     DestroyCall, DestroyAllCall, FreeBucket, NullSlot, Scan, Goto, Return, caller, At
<1> QED BY <1>1, <1>3, OwnStep DEF Doomed

\* A bucket that stops being live dooms the library, and none becomes live then.
LEMMA LiveOrDoomed ==
  ASSUME TypeOK, JobOwner, CallArgs, Destroying, [Next]_vars, NEW s \in Slots
  PROVE  /\ slot[s] = "live" => slot'[s] = "live" \/ Doomed'
         /\ Doomed => (slot'[s] = "live" => slot[s] = "live")
<1> USE DEF TypeOK, CallersTypeOK, BucketsTypeOK
<1>1. ASSUME NEW c \in Callers, StoreSlot(c)
      PROVE  ~Doomed /\ (slot[s] = "live" => slot'[s] = "live")
  BY <1>1 DEF StoreSlot, JobOwner, Doomed, At
<1>2. ASSUME NEW c \in Callers, FreeBucket(c)
      PROVE  Doomed' /\ (slot'[s] = "live" => slot[s] = "live")
  BY <1>2 DEF FreeBucket, Doomed, Goto
<1>3. ASSUME NEW c \in Callers, NullSlot(c)
      PROVE  Doomed' /\ (slot'[s] = "live" => slot[s] = "live")
  BY <1>3 DEF NullSlot, Doomed, Goto
<1> QED BY <1>1, <1>2, <1>3, SlotFrame

LEMMA AccInvStep ==
  ASSUME TypeOK, JobOwner, CallArgs, Destroying, AccInv, [Next]_vars
  PROVE  AccInv'
<1> USE DEF TypeOK, AccsTypeOK
<1> DEFINE Busy(a) == apc[a] \in {"lock", "credit", "cap"}
<1>1. ASSUME NEW a \in Accs, Busy(a)'
      PROVE  slot'[ai'[a]] = "live" \/ Doomed'
  <2>1. CASE Busy(a) /\ ai'[a] = ai[a]
    BY <2>1, LiveOrDoomed, StaysDoomed DEF AccInv
  <2>2. ASSUME NEW b \in Accs, AccStep(b), ~(Busy(a) /\ ai'[a] = ai[a])
        PROVE  /\ Probe(a) /\ ai' = ai /\ slot' = slot
               /\ slot[ai[a]] = "live" \/ slot[ai[a]] = "freed"
    BY <1>1, <2>2 DEF AccStep, Probe, ALock, Credit, Cap, Crash, Dangling, NextSecond,
       ANext, AGoto, AAt, acc, buckets, BucketsTypeOK
  <2>3. ASSUME slot[ai[a]] = "freed" PROVE Doomed
    BY <2>3 DEF Destroying, Doomed
  <2>4. ASSUME NEW c \in Callers, LoadModule(c) PROVE Busy(a) /\ ai'[a] = ai[a]
    BY <1>1, <2>4 DEF LoadModule
  <2> QED BY <1>1, <2>1, <2>2, <2>3, <2>4, ThreadFrame, StaysDoomed
<1>2. ASSUME status' = "crashed" PROVE Doomed'
  <2>1. CASE status = "crashed"
    BY <2>1, StaysDoomed DEF AccInv
  <2>2. CASE status # "crashed"
    <3>1. PICK a \in Accs : Crash(a)
      BY <1>2, <2>2 DEF Next, Call, CallerStep, AccStep, vars, process,
         InitCall, LoadModule, LoadFails, Alloc, AllocFails, JobLock, FindSlot, NoSpace,
         StoreSlot, FetchCall, FetchLock, FetchWait, FetchTake, Spurious, DestroyCall,
         DestroyAllCall, FreeBucket, NullSlot, Scan, Probe, ALock, Credit, Cap, Dangling,
         NextSecond
    <3>2. Doomed
      BY <3>1 DEF Crash, AccInv, AAt
    <3> QED BY <3>2, StaysDoomed
  <2> QED BY <2>1, <2>2
<1> QED BY <1>1, <1>2 DEF AccInv

LEMMA LiveParamsStep ==
  ASSUME TypeOK, CallArgs, LiveParams, [Next]_vars
  PROVE  LiveParams'
<1> USE DEF TypeOK, BucketsTypeOK, CallersTypeOK, LiveParams
<1>1. ASSUME NEW c \in Callers, StoreSlot(c) PROVE LiveParams'
  BY <1>1 DEF StoreSlot, CallArgs, At
<1>2. ASSUME NEW c \in Callers, FreeBucket(c) \/ NullSlot(c) PROVE LiveParams'
  BY <1>2 DEF FreeBucket, NullSlot
<1>3. ASSUME UNCHANGED <<slot, par>> PROVE LiveParams'
  BY <1>3
<1> QED BY <1>1, <1>2, <1>3, BucketFrame
        DEF FetchLock, FetchWait, FetchTake, Spurious, ALock, Credit, Cap

\* The mutex of a bucket that exists before and after a step changes hands only
\* by the steps of the thread that gets or gives it.
LEMMA MutexFrame ==
  ASSUME TypeOK, HandlesLive, CallArgs, Destroying, TokenOwner, [Next]_vars,
         NEW s \in Slots, slot[s] = "live"
  PROVE  \/ mon'[s].owner = mon[s].owner
         \/ \E c \in Callers : FetchLock(c) /\ td[c] = s /\ mon[s].owner = Nobody
                               /\ mon'[s].owner = c
         \/ \E c \in Callers : (FetchWait(c) \/ FetchTake(c)) /\ td[c] = s
                               /\ mon[s].owner = c
         \/ \E a \in Accs : ALock(a) /\ ai[a] = s /\ mon[s].owner = Nobody
                            /\ mon'[s].owner = a
         \/ \E a \in Accs : Cap(a) /\ ai[a] = s /\ mon[s].owner = a
<1> USE DEF TypeOK, BucketsTypeOK, CallersTypeOK, AccsTypeOK, Monitors
<1>1. ASSUME NEW c \in Callers, StoreSlot(c) PROVE mon'[s].owner = mon[s].owner
  BY <1>1 DEF StoreSlot, CallArgs, At
<1>2. ASSUME NEW c \in Callers, FreeBucket(c) \/ NullSlot(c)
      PROVE  mon'[s].owner = mon[s].owner
  BY <1>2 DEF FreeBucket, NullSlot
<1>3. ASSUME NEW c \in Callers, FetchLock(c), td[c] = s
      PROVE  mon[s].owner = Nobody /\ mon'[s].owner = c
  BY <1>3 DEF FetchLock, Free, Locked
<1>4. ASSUME NEW c \in Callers, FetchWait(c) \/ FetchTake(c), td[c] = s
      PROVE  mon[s].owner = c
  BY <1>4 DEF FetchWait, FetchTake, TokenOwner, At
<1>5. ASSUME NEW c \in Callers, Spurious(c)
      PROVE  mon'[s].owner = mon[s].owner
  BY <1>5 DEF Spurious, SpuriouslyWoken
<1>6. ASSUME NEW c \in Callers, FetchLock(c) \/ FetchWait(c) \/ FetchTake(c), td[c] # s
      PROVE  mon'[s] = mon[s]
  BY <1>6 DEF FetchLock, FetchWait, FetchTake
<1>7. ASSUME NEW a \in Accs, ALock(a), ai[a] = s
      PROVE  mon[s].owner = Nobody /\ mon'[s].owner = a
  BY <1>7 DEF ALock, Free, Locked
<1>8. ASSUME NEW a \in Accs, Cap(a), ai[a] = s
      PROVE  mon[s].owner = a
  BY <1>8 DEF Cap, TokenOwner, AAt
<1>9. ASSUME NEW a \in Accs, Credit(a)
      PROVE  mon'[s].owner = mon[s].owner
  BY <1>9 DEF Credit, Broadcast
<1>10. ASSUME NEW a \in Accs, ALock(a) \/ Cap(a), ai[a] # s
       PROVE  mon'[s] = mon[s]
  BY <1>10 DEF ALock, Cap
<1> QED
  BY <1>1, <1>2, <1>3, <1>4, <1>5, <1>6, <1>7, <1>8, <1>9, <1>10, BucketFrame

LEMMA KeepsMutex ==
  ASSUME TypeOK, HandlesLive, CallArgs, Destroying, TokenOwner, [Next]_vars,
         NEW s \in Slots, slot[s] = "live",
         NEW t \in Callers \cup Accs, mon[s].owner = t,
         t \in Callers => ~FetchWait(t) /\ ~FetchTake(t),
         t \in Accs => ~Cap(t)
  PROVE  mon'[s].owner = t
BY MutexFrame, ThreadsAssumption

LEMMA TokenOwnerStep ==
  ASSUME TypeOK, JobOwner, HandlesLive, HandlesLive', CallArgs, Destroying, AccInv,
         TokenOwner, [Next]_vars
  PROVE  TokenOwner'
<1> USE ThreadsAssumption DEF TypeOK, BucketsTypeOK, CallersTypeOK, AccsTypeOK
<1>1. ASSUME NEW c \in Callers, pc'[c] = "fsection"
      PROVE  mon'[td'[c]].owner = c
  <2>1. CASE FetchLock(c)
    BY <2>1, InSlots DEF FetchLock, Locked, Monitors, At
  <2>2. CASE ~FetchLock(c)
    <3>0. ASSUME Call(c) \/ CallerStep(c) PROVE FALSE
      BY <1>1, <2>2, <3>0
      DEF Call, CallerStep, InitCall, LoadModule, LoadFails, Alloc, AllocFails,
         JobLock, FindSlot, NoSpace, StoreSlot, FetchCall, FetchWait, FetchTake,
         DestroyCall, DestroyAllCall, FreeBucket, NullSlot, Scan, Goto, Return, caller, At
    <3>1. pc[c] = "fsection" /\ td'[c] = td[c]
      BY <1>1, <3>0, OwnStep
    <3>2. td[c] \in Slots /\ slot[td[c]] = "live" /\ mon[td[c]].owner = c
      BY <3>1, InSlots DEF HandlesLive, TokenOwner
    <3>3. ~FetchWait(c) /\ ~FetchTake(c)
      BY <3>0 DEF CallerStep
    <3> QED BY <3>1, <3>2, <3>3, KeepsMutex
  <2> QED BY <2>1, <2>2
<1>2. ASSUME NEW a \in Accs, apc'[a] \in {"credit", "cap"}, slot'[ai'[a]] = "live"
      PROVE  mon'[ai'[a]].owner = a
  <2>1. CASE ALock(a)
    BY <2>1 DEF ALock, Locked, Monitors, AGoto
  <2>2. CASE ~ALock(a)
    <3>0. ~Cap(a)
      BY <1>2 DEF Cap, ANext, AGoto, AAt
    <3>1. ASSUME AccStep(a)
          PROVE  apc[a] \in {"credit", "cap"} /\ ai'[a] = ai[a]
      BY <1>2, <2>2, <3>0, <3>1 DEF AccStep, Probe, ALock, Credit, Crash, Dangling,
         NextSecond, ANext, AGoto, AAt, acc, buckets
    <3>2. ASSUME NEW b \in Accs \ {a}, AccStep(b)
          PROVE  apc[a] \in {"credit", "cap"} /\ ai'[a] = ai[a]
      BY <1>2, <3>2 DEF AccStep, Probe, ALock, Credit, Cap, Crash, Dangling,
         NextSecond, ANext, AGoto, AAt, acc
    <3>3. ASSUME NEW c \in Callers, LoadModule(c)
          PROVE  apc[a] \in {"credit", "cap"} /\ ai'[a] = ai[a]
      BY <1>2, <3>3 DEF LoadModule
    <3>4. apc[a] \in {"credit", "cap"} /\ ai'[a] = ai[a]
      BY <1>2, <3>1, <3>2, <3>3, ThreadFrame
    <3>5. slot[ai[a]] = "live"
      BY <1>2, <3>4, LiveOrDoomed DEF AccInv
    <3>6. mon[ai[a]].owner = a
      BY <3>4, <3>5 DEF TokenOwner
    <3> QED BY <3>0, <3>4, <3>5, <3>6, KeepsMutex
  <2> QED BY <2>1, <2>2
<1> QED BY <1>1, <1>2 DEF TokenOwner

\* Only a new bucket, a fetch and the accumulator change a live bucket's level.
LEMMA TokenFrame ==
  ASSUME TypeOK, CallArgs, Destroying, [Next]_vars, NEW s \in Slots,
         slot[s] = "live", slot'[s] = "live"
  PROVE  /\ par'[s] = par[s]
         /\ \/ token'[s] = token[s]
            \/ \E c \in Callers : FetchTake(c) /\ td[c] = s
            \/ \E a \in Accs : (Credit(a) \/ Cap(a)) /\ ai[a] = s
<1> USE DEF TypeOK, BucketsTypeOK, CallersTypeOK, AccsTypeOK
<1>1. ASSUME NEW c \in Callers, StoreSlot(c)
      PROVE  token'[s] = token[s] /\ par'[s] = par[s]
  BY <1>1 DEF StoreSlot, CallArgs, At
<1>2. ASSUME NEW c \in Callers, FreeBucket(c) \/ NullSlot(c)
      PROVE  token'[s] = token[s] /\ par'[s] = par[s]
  <2>1. td[c] # s
    BY <1>2 DEF FreeBucket, NullSlot
  <2> QED BY <1>2, <2>1 DEF FreeBucket, NullSlot
<1>3. ASSUME NEW c \in Callers, FetchLock(c) \/ FetchWait(c) \/ Spurious(c)
      PROVE  token'[s] = token[s] /\ par'[s] = par[s]
  BY <1>3 DEF FetchLock, FetchWait, Spurious
<1>4. ASSUME NEW c \in Callers, FetchTake(c)
      PROVE  par'[s] = par[s] /\ (td[c] # s => token'[s] = token[s])
  BY <1>4 DEF FetchTake
<1>5. ASSUME NEW a \in Accs, ALock(a)
      PROVE  token'[s] = token[s] /\ par'[s] = par[s]
  BY <1>5 DEF ALock
<1>6. ASSUME NEW a \in Accs, Credit(a) \/ Cap(a)
      PROVE  par'[s] = par[s] /\ (ai[a] # s => token'[s] = token[s])
  BY <1>6 DEF Credit, Cap
<1> QED BY <1>1, <1>2, <1>3, <1>4, <1>5, <1>6, BucketFrame

\* A bucket that becomes live is a new one.
LEMMA NewBucket ==
  ASSUME TypeOK, CallArgs, [Next]_vars, NEW s \in Slots, slot[s] # "live", slot'[s] = "live"
  PROVE  \E c \in Callers : /\ StoreSlot(c) /\ td[c] = s /\ arg[c] \in Params
                            /\ token'[s] = 0 /\ par'[s] = arg[c] /\ mon'[s] = Idle
<1> USE DEF TypeOK, BucketsTypeOK, CallersTypeOK
<1>1. PICK c \in Callers : StoreSlot(c) /\ td[c] = s
  BY SlotFrame DEF StoreSlot, FreeBucket, NullSlot
<1> QED BY <1>1 DEF StoreSlot, CallArgs, At

LEMMA TokenBoundedStep ==
  ASSUME TypeOK, HandlesLive, CallArgs, Destroying, TokenOwner, LiveParams, TokenBounded,
         [Next]_vars
  PROVE  TokenBounded'
<1> SUFFICES ASSUME NEW s \in Slots, slot'[s] = "live"
             PROVE  /\ token'[s] >= 0
                    /\ \/ token'[s] <= par'[s].burst
                       \/ \E a \in Accs : apc'[a] = "cap" /\ ai'[a] = s /\ mon'[s].owner = a
  BY DEF TokenBounded
<1>1. CASE slot[s] # "live"
  BY <1>1, NewBucket, Inputs
<1>2. CASE slot[s] = "live"
  <2> USE DEF TypeOK, BucketsTypeOK, CallersTypeOK, AccsTypeOK
  <2>1. /\ token[s] \in Int /\ token[s] >= 0
        /\ par[s].cps \in Nat /\ par[s].burst \in Nat
    BY <1>2, Inputs DEF TokenBounded, LiveParams
  <2>2. par'[s] = par[s]
    BY <1>2, TokenFrame
  <2>3. ASSUME NEW c \in Callers, FetchTake(c), td[c] = s
        PROVE  token'[s] >= 0 /\ token'[s] <= par'[s].burst
    <3>1. mon[s].owner = c /\ n[c] \in Nat
      BY <2>3, Inputs DEF FetchTake, TokenOwner, At
    <3>2. token[s] <= par[s].burst
      BY <1>2, <3>1, ThreadsAssumption DEF TokenBounded
    <3>3. token'[s] = token[s] - Least(n[c], token[s])
      BY <2>3 DEF FetchTake
    <3> QED BY <2>1, <2>2, <3>1, <3>2, <3>3 DEF Least
  <2>4. ASSUME NEW a \in Accs, Credit(a), ai[a] = s
        PROVE  /\ token'[s] >= 0
               /\ apc'[a] = "cap" /\ ai'[a] = s /\ mon'[s].owner = a
    <3>1. mon[s].owner = a
      BY <1>2, <2>4 DEF Credit, TokenOwner, AAt
    <3>2. token'[s] = token[s] + par[s].cps
      BY <2>4 DEF Credit
    <3> QED BY <2>1, <2>4, <3>1, <3>2 DEF Credit, AGoto, Broadcast
  <2>5. ASSUME NEW a \in Accs, Cap(a), ai[a] = s
        PROVE  token'[s] >= 0 /\ token'[s] <= par'[s].burst
    <3>1. token'[s] = Least(token[s], par[s].burst)
      BY <2>5 DEF Cap
    <3> QED BY <2>1, <2>2, <3>1 DEF Least
  <2>6. ASSUME token'[s] = token[s],
               \A a \in Accs : Cap(a) => ai[a] # s,
               NEW a \in Accs, apc[a] = "cap", ai[a] = s, mon[s].owner = a
        PROVE  apc'[a] = "cap" /\ ai'[a] = s /\ mon'[s].owner = a
    <3>1. ASSUME NEW b \in Accs, AccStep(b) PROVE apc'[a] = "cap" /\ ai'[a] = s
      BY <1>2, <2>6, <3>1 DEF AccStep, Probe, ALock, Credit, Crash, Dangling, NextSecond,
         Cap, ANext, AGoto, AAt, acc
    <3>2. ASSUME NEW c \in Callers, LoadModule(c) PROVE apc'[a] = "cap" /\ ai'[a] = s
      BY <2>6, <3>2 DEF LoadModule
    <3>3. mon'[s].owner = a
      BY <1>2, <2>6, KeepsMutex, ThreadsAssumption
    <3> QED BY <2>6, <3>1, <3>2, <3>3, ThreadFrame
  <2>7. CASE \E a \in Accs : Cap(a) /\ ai[a] = s
    BY <2>5, <2>7
  <2>8. CASE token'[s] = token[s] /\ \A a \in Accs : Cap(a) => ai[a] # s
    BY <1>2, <2>1, <2>2, <2>6, <2>8 DEF TokenBounded
  <2> QED BY <1>2, <2>3, <2>4, <2>7, <2>8, TokenFrame
<1> QED BY <1>1, <1>2

LEMMA NoLostWakeupStep ==
  ASSUME TypeOK, HandlesLive, CallArgs, Destroying, LiveParams, TokenBounded, NoLostWakeup,
         [Next]_vars
  PROVE  NoLostWakeup'
<1> SUFFICES ASSUME NEW s \in Slots, slot'[s] = "live", mon'[s].sleepers # {}
             PROVE  token'[s] <= 0
  BY DEF NoLostWakeup
<1> USE DEF TypeOK, BucketsTypeOK, CallersTypeOK, AccsTypeOK, Monitors
<1>1. slot[s] = "live"
  BY NewBucket DEF Idle
<1>2. ASSUME NEW c \in Callers, FetchTake(c), td[c] = s PROVE FALSE
  BY <1>1, <1>2 DEF FetchTake, Unlocked, NoLostWakeup
<1>3. ASSUME NEW a \in Accs, Credit(a), ai[a] = s PROVE FALSE
  BY <1>3 DEF Credit, Broadcast
<1>4. ASSUME NEW a \in Accs, Cap(a), ai[a] = s PROVE token'[s] <= 0
  <2>1. mon[s].sleepers # {}
    BY <1>4 DEF Cap, Unlocked
  <2>2. token[s] <= 0 /\ token[s] \in Int /\ par[s].burst \in Nat
    BY <1>1, <2>1, Inputs DEF NoLostWakeup, LiveParams
  <2>3. token'[s] = Least(token[s], par[s].burst)
    BY <1>4 DEF Cap
  <2> QED BY <2>2, <2>3 DEF Least
<1>5. CASE token'[s] = token[s]
  <2>1. ASSUME NEW c \in Callers, FetchWait(c), td[c] = s PROVE token[s] <= 0
    BY <2>1 DEF FetchWait
  <2>2. ASSUME mon'[s].sleepers \subseteq mon[s].sleepers PROVE token[s] <= 0
    BY <1>1, <2>2 DEF NoLostWakeup
  <2>3. ASSUME NEW c \in Callers, FetchLock(c) \/ Spurious(c) \/ FetchTake(c)
        PROVE  mon'[s].sleepers \subseteq mon[s].sleepers
    <3>1. CASE FetchLock(c)
      BY <3>1 DEF FetchLock, Locked
    <3>2. CASE Spurious(c)
      BY <3>2 DEF Spurious, SpuriouslyWoken
    <3>3. CASE FetchTake(c)
      BY <3>3 DEF FetchTake, Unlocked
    <3> QED BY <2>3, <3>1, <3>2, <3>3
  <2>4. ASSUME NEW a \in Accs, ALock(a) \/ Credit(a) \/ Cap(a)
        PROVE  mon'[s].sleepers \subseteq mon[s].sleepers
    BY <2>4 DEF ALock, Credit, Cap, Locked, Broadcast, Unlocked
  <2>5. ASSUME NEW c \in Callers, StoreSlot(c) \/ FreeBucket(c) \/ NullSlot(c)
        PROVE  mon'[s].sleepers \subseteq mon[s].sleepers
    BY <2>5 DEF StoreSlot, FreeBucket, NullSlot, Idle
  <2>6. ASSUME NEW c \in Callers, FetchWait(c), td[c] # s
        PROVE  mon'[s].sleepers \subseteq mon[s].sleepers
    BY <2>6 DEF FetchWait
  <2> QED BY <1>5, <2>1, <2>2, <2>3, <2>4, <2>5, <2>6, BucketFrame
<1> QED BY <1>1, <1>2, <1>3, <1>4, <1>5, TokenFrame

-----------------------------------------------------------------------------
(* The invariant.                                                          *)

LEMMA InvInit == Init => IInv
<1> SUFFICES ASSUME Init PROVE IInv
  OBVIOUS
<1> USE DEF Init
<1>1. TypeOK
  <2>1. ProcessTypeOK
    BY DEF ProcessTypeOK
  <2>2. BucketsTypeOK
    BY DEF BucketsTypeOK, Monitors, Idle
  <2>3. CallersTypeOK
    BY ZeroIsSlot DEF CallersTypeOK, Labels
  <2>4. AccsTypeOK
    BY ZeroIsSlot DEF AccsTypeOK, AccLabels
  <2> QED BY <2>1, <2>2, <2>3, <2>4 DEF TypeOK
<1>2. JobOwner /\ CallArgs /\ HandlesLive /\ Destroying /\ Alone
  BY DEF JobOwner, CallArgs, HandlesLive, Destroying, Alone
<1>3. AccInv /\ TokenOwner /\ LiveParams /\ TokenBounded /\ NoLostWakeup
  BY DEF AccInv, TokenOwner, LiveParams, TokenBounded, NoLostWakeup
<1> QED BY <1>1, <1>2, <1>3 DEF IInv

LEMMA InvStep == IInv /\ [Next]_vars => IInv'
<1> SUFFICES ASSUME IInv, [Next]_vars PROVE IInv'
  OBVIOUS
<1> USE DEF IInv
<1>1. TypeOK'
  BY ProcessType, BucketsType, CallersType, AccsType DEF TypeOK
<1>2. JobOwner' /\ CallArgs' /\ HandlesLive' /\ Destroying' /\ Alone'
  BY JobOwnerStep, CallArgsStep, HandlesLiveStep, DestroyingStep, AloneStep
<1>3. AccInv' /\ TokenOwner' /\ LiveParams'
  BY <1>2, AccInvStep, TokenOwnerStep, LiveParamsStep
<1>4. TokenBounded' /\ NoLostWakeup'
  BY TokenBoundedStep, NoLostWakeupStep
<1> QED BY <1>1, <1>2, <1>3, <1>4

LEMMA Invariant == Spec => []IInv
BY InvInit, InvStep, PTL DEF Spec

\* Every variable of the library keeps its type: no index leaves jobs[].
THEOREM TypeCorrect == Spec => []TypeOK
<1>1. IInv => TypeOK
  BY DEF IInv
<1> QED BY <1>1, Invariant, PTL

\* Buckets hold at least 0 and, outside the accumulator's critical section, at
\* most "burst" tokens, however many accumulators run.
THEOREM BucketsBounded == Spec => []TokenBounded
<1>1. IInv => TokenBounded
  BY DEF IInv
<1> QED BY <1>1, Invariant, PTL

\* A caller sleeps on empty buckets only: no broadcast of line 105 is missed.
THEOREM NobodyOversleeps == Spec => []NoLostWakeup
<1>1. IInv => NoLostWakeup
  BY DEF IInv
<1> QED BY <1>1, Invariant, PTL

\* Under the caller's contract every descriptor in use denotes a live bucket.
THEOREM DescriptorsLive == Spec => []HandlesLive
<1>1. IInv => HandlesLive
  BY DEF IInv
<1> QED BY <1>1, Invariant, PTL

\* No tbf_init() overwrites the bucket of another.
THEOREM SlotsReserved == Spec => []SlotReserved
<1>1. IInv => SlotReserved
  BY ThreadsAssumption DEF IInv, JobOwner, CallArgs, SlotReserved
<1> QED BY <1>1, Invariant, PTL

\* Creating buckets and fetching from them never crashes the process: only a
\* tbf_destroy() past its free() can.
THEOREM OnlyDestroyCrashes == Spec => []CrashOnlyByDestroy
<1>1. IInv => CrashOnlyByDestroy
  BY DEF IInv, AccInv, Doomed, CrashOnlyByDestroy
<1> QED BY <1>1, Invariant, PTL

-----------------------------------------------------------------------------
(* Refinement.                                                             *)

LEMMA BucketsInit == Init => TB!Init
<1> SUFFICES ASSUME Init PROVE TB!Init
  OBVIOUS
<1>1. {s \in Slots : slot[s] = "live"} = {}
  BY DEF Init
<1>2. \A s \in Slots : Least(token[s], par[s].burst) = 0
  BY DEF Init, NoPar, Least
<1> QED BY <1>1, <1>2 DEF TB!Init, Init, NoPar

Live == {s \in Slots : slot[s] = "live"}
Level == [s \in Slots |-> Least(token[s], par[s].burst)]

\* A step on slot s changes the abstract state at s only.
LEMMA LevelAt ==
  ASSUME NEW s \in Slots,
         \A r \in Slots \ {s} : token'[r] = token[r] /\ par'[r] = par[r]
  PROVE  Level' = [Level EXCEPT ![s] = Least(token'[s], par'[s].burst)]
BY DEF Level

LEMMA AbstractStep ==
  ASSUME NEW s \in Slots
  PROVE  /\ \A p \in Params : TB!Create(s, p) => TB!Next
         /\ TB!Refill({s}) => TB!Next
         /\ \A k \in 1 .. Level[s] : TB!Draw(s, k) => TB!Next
         /\ TB!Remove(s) => TB!Next
<1>1. TB!Refill({s}) => \E S \in SUBSET {r \in Slots : slot[r] = "live"} : TB!Refill(S)
  <2> HAVE TB!Refill({s})
  <2>1. {s} \in SUBSET {r \in Slots : slot[r] = "live"}
    BY DEF TB!Refill
  <2> WITNESS {s} \in SUBSET {r \in Slots : slot[r] = "live"}
  <2> QED OBVIOUS
<1> QED BY Zenon, <1>1 DEF TB!Next, Level

LEMMA BucketsStep == IInv /\ IInv' /\ [Next]_vars => [TB!Next]_(TB!bVars)
<1> SUFFICES ASSUME IInv, IInv', [Next]_vars
             PROVE  TB!Next \/ UNCHANGED <<Live, Level, par>>
  BY DEF TB!bVars, Live, Level
<1> USE DEF IInv, TypeOK, BucketsTypeOK, CallersTypeOK, AccsTypeOK
<1>1. ASSUME NEW c \in Callers, StoreSlot(c)
      PROVE  \E s \in Slots, p \in Params : TB!Create(s, p)
  <2>1. td[c] \in Slots /\ arg[c] \in Params /\ slot[td[c]] = "null"
    BY <1>1 DEF StoreSlot, At, CallArgs
  <2>2. Live' = Live \cup {td[c]}
    BY <1>1, <2>1 DEF StoreSlot, Live
  <2>3. /\ token'[td[c]] = 0 /\ par'[td[c]] = arg[c]
        /\ \A r \in Slots \ {td[c]} : token'[r] = token[r] /\ par'[r] = par[r]
    BY <1>1, <2>1 DEF StoreSlot
  <2>4. Least(token'[td[c]], par'[td[c]].burst) = 0
    BY <2>1, <2>3, Inputs DEF Least
  <2>5. Level' = [Level EXCEPT ![td[c]] = 0]
    BY <2>1, <2>3, <2>4, LevelAt
  <2>6. par' = [par EXCEPT ![td[c]] = arg[c]]
    BY <1>1 DEF StoreSlot
  <2>7. td[c] \notin Live
    BY <2>1 DEF Live
  <2>8. PICK s \in Slots, p \in Params : s = td[c] /\ p = arg[c]
    BY <2>1
  <2>9. TB!Create(s, p)
    BY <2>2, <2>5, <2>6, <2>7, <2>8 DEF TB!Create, Live, Level
  <2> QED BY <2>9
<1>2. ASSUME NEW c \in Callers, FreeBucket(c)
      PROVE  \E s \in Slots : TB!Remove(s)
  <2>1. td[c] \in Slots /\ slot[td[c]] = "live"
    BY <1>2 DEF FreeBucket, At, Destroying
  <2>2. Live' = Live \ {td[c]} /\ td[c] \in Live
    BY <1>2, <2>1 DEF FreeBucket, Live
  <2>3. /\ token'[td[c]] = 0 /\ par' = par
        /\ \A r \in Slots \ {td[c]} : token'[r] = token[r]
    BY <1>2, <2>1 DEF FreeBucket
  <2>4. Least(token'[td[c]], par'[td[c]].burst) = 0
    BY <2>1, <2>3, Inputs DEF Least, LiveParams
  <2>5. Level' = [Level EXCEPT ![td[c]] = 0]
    BY <2>1, <2>3, <2>4, LevelAt
  <2>6. PICK s \in Slots : s = td[c]
    BY <2>1
  <2>7. TB!Remove(s)
    BY <2>2, <2>3, <2>5, <2>6 DEF TB!Remove, Live, Level
  <2> QED BY <2>7
<1>3. ASSUME NEW c \in Callers, FetchTake(c)
      PROVE  \E k \in 1 .. Level[td[c]] : TB!Draw(td[c], k) /\ td[c] \in Slots
  <2> DEFINE s == td[c]
             k == Least(n[c], token[s])
  <2>1. s \in Slots /\ slot[s] = "live" /\ mon[s].owner = c
    BY <1>3 DEF FetchTake, At, HandlesLive, ProcessTypeOK, TokenOwner
  <2>2. n[c] \in Nat /\ n[c] > 0
    BY <1>3, Inputs DEF FetchTake, At, CallArgs
  <2>3. token[s] > 0 /\ token[s] <= par[s].burst /\ par[s].burst \in Nat
    BY <1>3, <2>1, Inputs, ThreadsAssumption DEF FetchTake, TokenBounded, LiveParams
  <2>4. k \in 1 .. token[s]
    BY <2>1, <2>2, <2>3 DEF Least
  <2>5. Level[s] = token[s]
    BY <2>1, <2>3 DEF Level, Least
  <2>6. /\ token'[s] = token[s] - k /\ par' = par /\ slot' = slot
        /\ \A r \in Slots \ {s} : token'[r] = token[r]
    BY <1>3, <2>1 DEF FetchTake
  <2>7. Least(token'[s], par'[s].burst) = Level[s] - k
    <3>1. token'[s] <= par'[s].burst
      BY <2>1, <2>3, <2>4, <2>6
    <3> QED BY <3>1, <2>5, <2>6 DEF Least
  <2>8. Level' = [Level EXCEPT ![s] = Level[s] - k]
    BY <2>1, <2>6, <2>7, LevelAt
  <2>9. Live' = Live /\ s \in Live
    BY <2>1, <2>6 DEF Live
  <2> HIDE DEF k
  <2> QED BY <2>1, <2>4, <2>5, <2>6, <2>8, <2>9 DEF TB!Draw, Live, Level
<1>4. ASSUME NEW a \in Accs, Credit(a)
      PROVE  TB!Refill({ai[a]}) /\ ai[a] \in Slots
  <2> DEFINE s == ai[a]
  <2>1. s \in Slots /\ slot[s] = "live" /\ mon[s].owner = a /\ apc[a] = "credit"
    BY <1>4 DEF Credit, AAt, TokenOwner
  <2>2. token[s] <= par[s].burst /\ par[s].burst \in Nat /\ par[s].cps \in Nat
    BY <2>1, Inputs, ThreadsAssumption DEF TokenBounded, LiveParams
  <2>3. Level[s] = token[s]
    BY <2>1, <2>2 DEF Level, Least
  <2>4. /\ token'[s] = token[s] + par[s].cps /\ par' = par /\ slot' = slot
        /\ \A r \in Slots \ {s} : token'[r] = token[r]
    BY <1>4, <2>1 DEF Credit
  <2>5. Level' = [Level EXCEPT ![s] = Least(Level[s] + par[s].cps, par[s].burst)]
    BY <2>1, <2>3, <2>4, LevelAt
  <2>6. Live' = Live /\ s \in Live
    BY <2>1, <2>4 DEF Live
  <2> QED BY <2>1, <2>4, <2>5, <2>6 DEF TB!Refill, Live, Level, TB!Least, Least
<1>5. ASSUME NEW a \in Accs, Cap(a)
      PROVE  UNCHANGED <<Live, Level, par>>
  <2> DEFINE s == ai[a]
  <2>1. s \in Slots /\ slot[s] = "live" /\ par[s].burst \in Nat
    BY <1>5, Inputs DEF Cap, LiveParams
  <2>2. /\ token'[s] = Least(token[s], par[s].burst) /\ par' = par /\ slot' = slot
        /\ \A r \in Slots \ {s} : token'[r] = token[r]
    BY <1>5, <2>1 DEF Cap
  <2>3. Least(token'[s], par'[s].burst) = Level[s]
    BY <2>1, <2>2 DEF Least, Level
  <2>4. Level' = [Level EXCEPT ![s] = Level[s]]
    BY <2>1, <2>2, <2>3, LevelAt
  <2>5. Level' = Level
    BY <2>4 DEF Level
  <2> QED BY <2>2, <2>5 DEF Live
<1>6. ASSUME NEW c \in Callers, NullSlot(c)
      PROVE  UNCHANGED <<Live, Level, par>>
  <2>1. td[c] \in Slots /\ slot[td[c]] = "freed"
    BY <1>6 DEF NullSlot, At, Destroying
  <2> QED BY <1>6, <2>1 DEF NullSlot, Live, Level
<1>7. ASSUME UNCHANGED <<slot, token, par>>
      PROVE  UNCHANGED <<Live, Level, par>>
  BY <1>7 DEF Live, Level
<1>8. ASSUME NEW c \in Callers, FetchLock(c) \/ FetchWait(c) \/ Spurious(c)
      PROVE  UNCHANGED <<slot, token, par>>
  BY <1>8 DEF FetchLock, FetchWait, Spurious
<1>9. ASSUME NEW a \in Accs, ALock(a)
      PROVE  UNCHANGED <<slot, token, par>>
  BY <1>9 DEF ALock
<1>10. ASSUME NEW c \in Callers, StoreSlot(c) \/ FreeBucket(c) \/ FetchTake(c)
       PROVE  TB!Next
  <2>1. CASE StoreSlot(c)
    BY <1>1, <2>1, AbstractStep
  <2>2. CASE FreeBucket(c)
    BY <1>2, <2>2, AbstractStep
  <2>3. CASE FetchTake(c)
    <3>1. PICK k \in 1 .. Level[td[c]] : TB!Draw(td[c], k) /\ td[c] \in Slots
      BY <1>3, <2>3
    <3> QED BY <3>1, AbstractStep
  <2> QED BY <1>10, <2>1, <2>2, <2>3
<1>11. ASSUME NEW a \in Accs, Credit(a) PROVE TB!Next
  BY <1>4, <1>11, AbstractStep
<1> QED
  BY <1>5, <1>6, <1>7, <1>8, <1>9, <1>10, <1>11, BucketFrame

\* The library implements the abstract token buckets: it gives out no token that
\* no second has added, and a bucket that is full gains none.
THEOREM LibraryImplementsBuckets == Spec => BucketsSpec
<1>1. Init => TB!Init
  BY BucketsInit
<1>2. IInv /\ IInv' /\ [Next]_vars => [TB!Next]_(TB!bVars)
  BY BucketsStep
<1> QED BY <1>1, <1>2, Invariant, PTL DEF Spec, BucketsSpec, TB!Spec
=============================================================================
