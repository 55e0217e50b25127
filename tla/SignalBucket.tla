---------------------------- MODULE SignalBucket ----------------------------
(***************************************************************************)
(* signal/tbf_lib/tbf.c: the token-bucket library for a program of one     *)
(* thread.  The first tbf_init() installs a handler of SIGALRM and starts  *)
(* alarm(1); the handler starts the next alarm and adds cps tokens to each *)
(* bucket.  It interrupts the program between any two reads or writes of   *)
(* jobs[] and runs to its end, since the signal is blocked meanwhile: it   *)
(* is the action Alarm, and the program's actions are the code between two *)
(* accesses whose order with it matters.                                   *)
(*                                                                         *)
(* The program uses a descriptor between tbf_init() and tbf_destroy(), as  *)
(* mycp.c does; calls that return -EINVAL change nothing.  Time is         *)
(* abstracted: the second may end at any moment.                           *)
(***************************************************************************)
EXTENDS Integers

CONSTANTS
  TBF_MAX,   \* how many buckets the library holds
  Params,    \* the pairs [cps, burst] that tbf_init() is called with
  Asks       \* the numbers of tokens that tbf_fetch_token() is asked for

Slots == 0 .. (TBF_MAX - 1)

ASSUME SizeAssumption == TBF_MAX \in Nat /\ TBF_MAX > 0
ASSUME ParamsAssumption ==
  /\ Params \subseteq [cps : Nat \ {0}, burst : Nat \ {0}]
  /\ Asks \subseteq Nat \ {0}

VARIABLES
  status,     \* of the process: "up", "killed" by SIGALRM, or "undefined" once
              \* the handler has damaged memory that was freed
  inited,     \* the first tbf_init() has been called
  handler,    \* what SIGALRM does: "default" or "bucket", the library's handler
  armed,      \* an alarm is running
  slot,       \* jobs[s]: "null", "live", or "freed" (a dangling pointer)
  token, par, \* token and [cps, burst] of jobs[s]
  pc, td, n, ret, loaded, arg, all,
              \* of the program: label, descriptor (or loop index), tokens asked
              \* for, tokens granted, the token read by "-=", arguments of
              \* tbf_init(), inside tbf_destroy_all()
  handles     \* the descriptors the program may use

signals == <<status, inited, handler, armed>>
buckets == <<slot, token, par>>
locals  == <<td, n, ret, loaded, arg, all>>
vars    == <<signals, buckets, pc, locals, handles>>

NoPar == [cps |-> 0, burst |-> 0]
Least(x, y) == IF x <= y THEN x ELSE y

Init ==
  /\ status = "up"
  /\ inited = FALSE
  /\ handler = "default"
  /\ armed = FALSE
  /\ slot = [s \in Slots |-> "null"]
  /\ token = [s \in Slots |-> 0]
  /\ par = [s \in Slots |-> NoPar]
  /\ pc = "idle"
  /\ td = 0 /\ n = 0 /\ ret = 0 /\ loaded = 0
  /\ arg = NoPar
  /\ all = FALSE
  /\ handles = {}

At(label) == status = "up" /\ pc = label
Goto(label) == pc' = label

\* The call ends and its locals with it.
Return ==
  /\ Goto("idle")
  /\ td' = 0 /\ n' = 0 /\ ret' = 0 /\ loaded' = 0
  /\ arg' = NoPar
  /\ all' = FALSE

-----------------------------------------------------------------------------
(* tbf_init()                                                              *)

InitCall ==
  /\ At("idle")
  /\ arg' \in Params
  /\ Goto(IF inited THEN "alloc" ELSE "signal")
  /\ UNCHANGED <<signals, buckets, td, n, ret, loaded, all, handles>>

\* Mutant of Load: the alarm is started before the handler is there.
MutLoad ==
  \/ /\ At("signal")
     /\ armed' = TRUE
     /\ Goto("arm")
     /\ UNCHANGED <<status, inited, handler, buckets, locals, handles>>
  \/ /\ At("arm")
     /\ handler' = "bucket"
     /\ inited' = TRUE
     /\ Goto("alloc")
     /\ UNCHANGED <<status, armed, buckets, locals, handles>>

\* sig_moduler_load(): signal(), then alarm(1); inited = 1
Load ==
  \/ /\ At("signal")
     /\ handler' = "bucket"
     /\ Goto("arm")
     /\ UNCHANGED <<status, inited, armed, buckets, locals, handles>>
  \/ /\ At("arm")
     /\ armed' = TRUE
     /\ inited' = TRUE
     /\ Goto("alloc")
     /\ UNCHANGED <<status, handler, buckets, locals, handles>>

\* malloc(), get_free_pos() and the store of the bucket.  The handler sees the
\* store only, and never changes which slots are free.
StoreBucket ==
  /\ At("alloc")
  /\ \E s \in Slots :
       /\ slot[s] = "null"
       /\ \A r \in 0 .. (s - 1) : slot[r] # "null"
       /\ slot' = [slot EXCEPT ![s] = "live"]
       /\ token' = [token EXCEPT ![s] = 0]
       /\ par' = [par EXCEPT ![s] = arg]
       /\ handles' = handles \cup {s}
  /\ Return
  /\ UNCHANGED signals

\* -ENOMEM, or -ENOSPC when no slot is free.
InitFails ==
  /\ At("alloc")
  /\ Return
  /\ UNCHANGED <<signals, buckets, handles>>

-----------------------------------------------------------------------------
(* tbf_fetch_token()                                                       *)

FetchCall ==
  /\ At("idle")
  /\ td' \in handles
  /\ n' \in Asks
  /\ Goto("test")
  /\ UNCHANGED <<signals, buckets, ret, loaded, arg, all, handles>>

\* Mutant of TestToken: an empty bucket is not waited for.
MutTestToken ==
  /\ At("test")
  /\ Goto(IF token[td] < 0 THEN "topause" ELSE "compare")
  /\ UNCHANGED <<signals, buckets, locals, handles>>

\* while (jobs[td]->token <= 0)
TestToken ==
  /\ At("test")
  /\ Goto(IF token[td] <= 0 THEN "topause" ELSE "compare")
  /\ UNCHANGED <<signals, buckets, locals, handles>>

\* pause() begins; an alarm since the test is not remembered.
Pause ==
  /\ At("topause")
  /\ Goto("pause")
  /\ UNCHANGED <<signals, buckets, locals, handles>>

\* if (n > jobs[td]->token) ... else ret = n
Compare ==
  /\ At("compare")
  /\ IF n > token[td]
     THEN Goto("rest") /\ UNCHANGED ret
     ELSE Goto("load") /\ ret' = n
  /\ UNCHANGED <<signals, buckets, td, n, loaded, arg, all, handles>>

\* ret = jobs[td]->token, which may have grown since the comparison
GrantRest ==
  /\ At("rest")
  /\ ret' = token[td]
  /\ Goto("load")
  /\ UNCHANGED <<signals, buckets, td, n, loaded, arg, all, handles>>

\* jobs[td]->token -= ret: the read ...
LoadToken ==
  /\ At("load")
  /\ loaded' = token[td]
  /\ Goto("store")
  /\ UNCHANGED <<signals, buckets, td, n, ret, arg, all, handles>>

\* Mutant of StoreToken: what was asked for is taken.
MutStoreToken ==
  /\ At("store")
  /\ token' = [token EXCEPT ![td] = loaded - n]
  /\ Return
  /\ UNCHANGED <<signals, slot, par, handles>>

\* ... and the write, which undoes an alarm since the read; return ret
StoreToken ==
  /\ At("store")
  /\ token' = [token EXCEPT ![td] = loaded - ret]
  /\ Return
  /\ UNCHANGED <<signals, slot, par, handles>>

-----------------------------------------------------------------------------
(* tbf_destroy() and tbf_destroy_all()                                     *)

DestroyCall ==
  /\ At("idle")
  /\ \E d \in handles : td' = d /\ handles' = handles \ {d}
  /\ Goto("free")
  /\ UNCHANGED <<signals, buckets, n, ret, loaded, arg, all>>

\* free(jobs[td])
FreeBucket ==
  /\ At("free")
  /\ slot' = [slot EXCEPT ![td] = "freed"]
  /\ token' = [token EXCEPT ![td] = 0]
  /\ Goto("null")
  /\ UNCHANGED <<signals, par, locals, handles>>

\* Mutant of NullSlot: the pointer stays.
MutNullSlot ==
  /\ At("null")
  /\ IF all
     THEN Goto("scan") /\ td' = td + 1 /\ UNCHANGED <<n, ret, loaded, arg, all>>
     ELSE Return
  /\ UNCHANGED <<signals, buckets, handles>>

\* jobs[td] = NULL; return to the program or to the loop of tbf_destroy_all()
NullSlot ==
  /\ At("null")
  /\ slot' = [slot EXCEPT ![td] = "null"]
  /\ IF all
     THEN Goto("scan") /\ td' = td + 1 /\ UNCHANGED <<n, ret, loaded, arg, all>>
     ELSE Return
  /\ UNCHANGED <<signals, token, par, handles>>

DestroyAllCall ==
  /\ At("idle")
  /\ all' = TRUE
  /\ handles' = {}
  /\ Goto("restore")
  /\ UNCHANGED <<signals, buckets, td, n, ret, loaded, arg>>

\* sig_moduler_unload(): signal() restores the action that was saved, the
\* default one, and alarm(0) follows; inited stays.
Unload ==
  \/ /\ At("restore")
     /\ handler' = "default"
     /\ Goto("disarm")
     /\ UNCHANGED <<status, inited, armed, buckets, locals, handles>>
  \/ /\ At("disarm")
     /\ armed' = FALSE
     /\ Goto("scan")
     /\ UNCHANGED <<status, inited, handler, buckets, locals, handles>>

\* Mutant of Scan: the last slot is not looked at.
MutScan ==
  /\ At("scan")
  /\ \/ td + 1 \notin Slots /\ Return
     \/ /\ td + 1 \in Slots
        /\ IF slot[td] = "null"
           THEN td' = td + 1 /\ UNCHANGED pc
           ELSE Goto("free") /\ UNCHANGED td
        /\ UNCHANGED <<n, ret, loaded, arg, all>>
  /\ UNCHANGED <<signals, buckets, handles>>

\* One turn of the loop: if (jobs[i]) tbf_destroy(i)
Scan ==
  /\ At("scan")
  /\ \/ td \notin Slots /\ Return
     \/ /\ td \in Slots
        /\ IF slot[td] = "null"
           THEN td' = td + 1 /\ UNCHANGED pc
           ELSE Goto("free") /\ UNCHANGED td
        /\ UNCHANGED <<n, ret, loaded, arg, all>>
  /\ UNCHANGED <<signals, buckets, handles>>

-----------------------------------------------------------------------------
(* SIGALRM                                                                 *)

\* Mutant of Filled: the bucket overflows.
MutFilled(s) == token[s] + par[s].cps

\* token += cps, and no more than burst
Filled(s) == Least(token[s] + par[s].cps, par[s].burst)

\* Mutant of Alarm: the next alarm is not started.
MutAlarm ==
  /\ status = "up" /\ armed /\ handler = "bucket"
  /\ armed' = FALSE
  /\ token' = [s \in Slots |-> IF slot[s] = "live" THEN Filled(s) ELSE token[s]]
  /\ pc' = IF pc = "pause" THEN "test" ELSE pc
  /\ UNCHANGED <<status, inited, handler, slot, par, locals, handles>>

\* alarm_handler(), after which a pause() returns.  The next alarm runs again.
\* What it does to a freed bucket may go unnoticed.
Alarm ==
  /\ status = "up" /\ armed /\ handler = "bucket"
  /\ token' = [s \in Slots |-> IF slot[s] = "live" THEN Filled(s) ELSE token[s]]
  /\ pc' = IF pc = "pause" THEN "test" ELSE pc
  /\ UNCHANGED <<signals, slot, par, locals, handles>>

\* alarm_handler() spoils freed memory, which is no longer the library's:
\* anything may follow, and nothing more is said of the process.
AlarmSpoils ==
  /\ status = "up" /\ armed /\ handler = "bucket"
  /\ \E s \in Slots : slot[s] = "freed"
  /\ status' = "undefined"
  /\ UNCHANGED <<inited, handler, armed, buckets, pc, locals, handles>>

\* The default action of SIGALRM terminates the process.
AlarmKills ==
  /\ status = "up" /\ armed /\ handler = "default"
  /\ status' = "killed"
  /\ UNCHANGED <<inited, handler, armed, buckets, pc, locals, handles>>

-----------------------------------------------------------------------------
Call == InitCall \/ FetchCall \/ DestroyCall \/ DestroyAllCall

\* What the program does once it is inside the library.
Step ==
  \/ Load \/ StoreBucket \/ InitFails
  \/ TestToken \/ Pause \/ Compare \/ GrantRest \/ LoadToken \/ StoreToken
  \/ FreeBucket \/ NullSlot \/ Unload \/ Scan

Next == Call \/ Step \/ Alarm \/ AlarmSpoils \/ AlarmKills

Spec == Init /\ [][Next]_vars

\* The program runs when it is ready to, and every second ends.
Fairness == WF_vars(Step) /\ WF_vars(Alarm)

FairSpec == Spec /\ Fairness

-----------------------------------------------------------------------------
(* Properties.                                                             *)

FetchLabels == {"test", "topause", "pause", "compare", "rest", "load", "store"}
Labels == FetchLabels \cup {"idle", "signal", "arm", "alloc",
                            "free", "null", "restore", "disarm", "scan"}

SignalsTypeOK ==
  /\ status \in {"up", "killed", "undefined"}
  /\ inited \in BOOLEAN
  /\ handler \in {"default", "bucket"}
  /\ armed \in BOOLEAN

BucketsTypeOK ==
  /\ slot \in [Slots -> {"null", "live", "freed"}]
  /\ token \in [Slots -> Nat]
  /\ par \in [Slots -> Params \cup {NoPar}]
  /\ handles \subseteq Slots

ProgramTypeOK ==
  /\ pc \in Labels
  /\ td \in 0 .. TBF_MAX
  /\ n \in Asks \cup {0}
  /\ ret \in Nat
  /\ loaded \in Nat
  /\ arg \in Params \cup {NoPar}
  /\ all \in BOOLEAN

\* Every variable has its type: no number of tokens is negative, and no index
\* but the last of the loop of tbf_destroy_all() is outside jobs[].
TypeOK == SignalsTypeOK /\ BucketsTypeOK /\ ProgramTypeOK

\* Wherever the alarm falls between lines 112 and 116, the fetch takes at least
\* one token and no more than the bucket holds.
TakesWhatIsThere ==
  /\ pc \in {"compare", "rest"} => token[td] >= 1
  /\ pc = "load" => ret \in 1 .. token[td]
  /\ pc = "store" => ret \in 1 .. loaded /\ loaded <= token[td]

\* The handler finds freed memory only between lines 125 and 126.
SpoilsOnlyInDestroy == status = "undefined" => pc = "null"

\* SIGALRM kills the process only between lines 99 and 100, when the default
\* action is back and the last alarm still runs; never during line 76 or 77.
KilledOnlyInUnload == status = "killed" => pc = "disarm"

\* A descriptor the program may use denotes a live bucket, and between two calls
\* no bucket is left without a descriptor: none is leaked or lost.
HandlesLive ==
  /\ \A d \in handles : slot[d] = "live"
  /\ pc = "idle" => \A s \in Slots \ handles : slot[s] = "null"

\* The library implements the abstract token buckets: a token lost between the
\* read and the write of line 116 is a token given out.
SB == INSTANCE Buckets WITH
  live  <- {s \in Slots : slot[s] = "live"},
  level <- token,
  limit <- par

BucketsSpec == SB!Spec

\* A fetch from a bucket that the handler fills returns, although an alarm
\* between lines 110 and 111 does not end the pause() that follows it.
FetchReturns == pc \in FetchLabels /\ handler = "bucket" ~> pc = "idle"

\* The comment on line 30: the first bucket's initialisation starts the signal
\* module.  Between two calls, a live bucket is one that the handler fills.
LiveBucketsFilled ==
  status = "up" /\ pc = "idle" /\ handles # {} => handler = "bucket" /\ armed
=============================================================================
