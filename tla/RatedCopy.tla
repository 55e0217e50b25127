----------------------------- MODULE RatedCopy ------------------------------
(***************************************************************************)
(* The programs that copy a file at a given rate: signal/tbf/mycp.c with a *)
(* token bucket in a SIGALRM handler, signal/Leaky/mycp.c with a flag that *)
(* the handler sets, and signal/tbf_lib/mycp.c and pthreads/tbf_lib/mycp.c *)
(* on the two libraries.  They differ in how they wait for the right to    *)
(* read and in what they make of the end of the file.                      *)
(*                                                                         *)
(* The handler interrupts the program between any two steps; signal() has  *)
(* read() restarted.  Bytes are counted.                                   *)
(***************************************************************************)
EXTENDS Integers

CONSTANTS
  CPS,        \* bytes of one read, and tokens of a second
  MaxSize     \* bound: bytes of a file

VARIABLES
  copier,     \* the program: "tbf", "leaky", "siglib" or "thrlib"
  spot,       \* its place
  ticking,    \* an alarm is set, or the library is loaded
  token,      \* the bucket; CPS stands for Leaky's flag
  taken,      \* what "token -= CPS" has loaded, or the tokens fetched
  rest,       \* bytes of the source not yet read
  size,       \* bytes of the source
  written,    \* bytes that write() has taken
  lost,       \* a read or a write has failed
  slack       \* bytes the rate still allows to ask for (history)

vars == <<copier, spot, ticking, token, taken, rest, size, written, lost, slack>>

BURST == 20 * CPS

Least(m, n) == IF m < n THEN m ELSE n

OwnHandler == copier \in {"tbf", "leaky"}

Init ==
  /\ copier \in {"tbf", "leaky", "siglib", "thrlib"}
  /\ spot = "open"
  /\ ticking = OwnHandler
  /\ token = 0 /\ taken = 0
  /\ size \in 0 .. MaxSize
  /\ rest = size
  /\ written = 0
  /\ lost = FALSE
  /\ slack = 0

Go(from, to) == spot = from /\ spot' = to

-----------------------------------------------------------------------------
(* What a second brings.                                                   *)

\* sig_handler() of tbf, and the accumulator of a library.
FillBucket == token' = Least(token + CPS, BURST)

\* sig_handler() of Leaky.
SetFlag == token' = CPS

\* Mutant of Alarm: the handler does not set the next alarm.
MutAlarm ==
  /\ ticking /\ spot # "ended"
  /\ IF copier = "leaky" THEN SetFlag ELSE FillBucket
  /\ spot' = IF spot = "pause" THEN "test" ELSE spot
  /\ slack' = Least(slack + CPS, BURST + CPS)
  /\ ticking' = FALSE
  /\ UNCHANGED <<copier, taken, rest, size, written, lost>>

\* The alarm, which is set again; it ends a pause() that has begun.  The rate
\* allows a full bucket and what was taken from it.
Alarm ==
  /\ ticking /\ spot # "ended"
  /\ IF copier = "leaky" THEN SetFlag ELSE FillBucket
  /\ spot' = IF spot = "pause" THEN "test" ELSE spot
  /\ slack' = Least(slack + CPS, BURST + CPS)
  /\ UNCHANGED <<copier, ticking, taken, rest, size, written, lost>>

-----------------------------------------------------------------------------
(* main(): the files.                                                      *)

\* The source and the target, if one is given, are opened.
OpenFiles ==
  /\ Go("open", IF OwnHandler THEN "test" ELSE "init")
  /\ UNCHANGED <<copier, ticking, token, taken, rest, size, written, lost, slack>>

\* No argument, or open() fails.
OpenFails ==
  /\ Go("open", "ended")
  /\ lost' = TRUE
  /\ UNCHANGED <<copier, ticking, token, taken, rest, size, written, slack>>

-----------------------------------------------------------------------------
(* mycopy(): the right to read.                                            *)

\* The condition of "while (token <= 0)" or "while (!flag)".
TestToken ==
  /\ spot = "test"
  /\ IF token <= 0
       THEN spot' = "sleep" /\ UNCHANGED taken
       ELSE spot' = "take" /\ taken' = token
  /\ UNCHANGED <<copier, ticking, token, rest, size, written, lost, slack>>

\* The program enters pause().
Pause ==
  /\ Go("sleep", "pause")
  /\ UNCHANGED <<copier, ticking, token, taken, rest, size, written, lost, slack>>

\* tbf's "token -= CPS", whose load is in TestToken or happens here: an alarm
\* in between is lost or not.
TakeToken ==
  /\ copier = "tbf"
  /\ Go("take", "read")
  /\ token' \in {token - CPS, taken - CPS}
  /\ taken' = CPS
  /\ UNCHANGED <<copier, ticking, rest, size, written, lost, slack>>

\* Leaky's "flag = 0".
ClearFlag ==
  /\ copier = "leaky"
  /\ Go("take", "read")
  /\ token' = 0
  /\ taken' = CPS
  /\ UNCHANGED <<copier, ticking, rest, size, written, lost, slack>>

\* tbf_init(); if it fails, so does the copy.
LoadLibrary ==
  /\ \/ Go("init", "fetch") /\ ticking' = TRUE /\ UNCHANGED lost
     \/ Go("init", "ended") /\ lost' = TRUE /\ UNCHANGED ticking
  /\ UNCHANGED <<copier, token, taken, rest, size, written, slack>>

\* tbf_fetch_token() waits for tokens and returns some.
FetchToken ==
  /\ Go("fetch", "read")
  /\ \E n \in 1 .. Least(token, CPS) : taken' = n /\ token' = token - n
  /\ UNCHANGED <<copier, ticking, rest, size, written, lost, slack>>

-----------------------------------------------------------------------------
(* mycopy(): the copy.                                                     *)

Again == IF OwnHandler THEN "test" ELSE "fetch"

\* read() gives bytes and write() takes them, or does not and nobody looks.
CopyBytes ==
  /\ Go("read", Again)
  /\ \E n \in 1 .. Least(taken, rest) :
       /\ rest' = rest - n
       /\ \/ written' = written + n /\ UNCHANGED lost
          \/ UNCHANGED written /\ lost' = TRUE
  /\ taken' = 0
  /\ slack' = slack - taken
  /\ UNCHANGED <<copier, ticking, token, size>>

\* The end of the file: Leaky stops, the others write its 0 bytes and go on.
ReadEnd ==
  /\ rest = 0
  /\ Go("read", IF copier = "leaky" THEN "ended" ELSE Again)
  /\ taken' = 0
  /\ slack' = slack - taken
  /\ UNCHANGED <<copier, ticking, token, rest, size, written, lost>>

ReadFails ==
  /\ Go("read", "ended")
  /\ lost' = TRUE
  /\ UNCHANGED <<copier, ticking, token, taken, rest, size, written, slack>>

-----------------------------------------------------------------------------
(* The programs.                                                           *)

Tbf ==
  /\ copier = "tbf"
  /\ OpenFiles \/ TestToken \/ Pause \/ TakeToken \/ CopyBytes \/ ReadEnd

Leaky ==
  /\ copier = "leaky"
  /\ OpenFiles \/ TestToken \/ Pause \/ ClearFlag \/ CopyBytes \/ ReadEnd

SignalLib ==
  /\ copier = "siglib"
  /\ OpenFiles \/ LoadLibrary \/ FetchToken \/ CopyBytes \/ ReadEnd

ThreadLib ==
  /\ copier = "thrlib"
  /\ OpenFiles \/ LoadLibrary \/ FetchToken \/ CopyBytes \/ ReadEnd

Copy == Tbf \/ Leaky \/ SignalLib \/ ThreadLib

Next == Copy \/ Alarm \/ OpenFails \/ ReadFails

-----------------------------------------------------------------------------
(* Properties.                                                             *)

\* In any stretch of time no more is asked of read() than a full bucket, one
\* read and CPS bytes a second, whatever credit an alarm loses.
KeepsRate == slack >= 0 /\ token \in 0 .. BURST

\* A copy that ends without a failure is complete.
EndsComplete == spot = "ended" /\ ~lost => written = size

\* The copy has become complete unless a call has failed, although an alarm may
\* come between the test and pause().  Leaky has ended, too; nothing is said of
\* the end of the others, which pass over the end of the file.
Copied ==
  /\ written = size \/ lost
  /\ copier = "leaky" => spot = "ended"
=============================================================================
