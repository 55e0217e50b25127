------------------------------ MODULE AlarmLib ------------------------------
(***************************************************************************)
(* signal/hw/hw.c: any number of alarms on one interval timer.  A program  *)
(* of one thread registers and cancels alarms; once a second the handler   *)
(* of SIGALRM interrupts it between any two steps, counts every alarm down *)
(* and calls back those that reach 0.  A callback may itself register or   *)
(* cancel an alarm (one call each here).  The handler is not interrupted.  *)
(***************************************************************************)
EXTENDS Integers

CONSTANTS
  MAX_ALARM,    \* the size of jobs[]
  Seconds       \* bound: what callers ask for

ASSUME AlarmAssumption == MAX_ALARM \in Nat \ {0} /\ Seconds \subseteq Nat

Slots == 1 .. MAX_ALARM

VARIABLES
  status,   \* "up", "crashed" (a null pointer followed) or "undefined" (freed
            \* memory used and noticed)
  inited,   \* the handler is installed and the timer runs
  jobs,     \* the table
  held,     \* the descriptors the program has registered and not cancelled
  pc,       \* where the program is
  k,        \* its pos, alarm_dsc or loop index
  sec,      \* what it asks for
  all,      \* it is in myalarm_destroy_all()
  h,        \* the slot the handler is at, 0 outside the handler
  stage     \* what the handler does there

prog == <<held, pc, k, sec, all>>
vars == <<status, inited, jobs, prog, h, stage>>

\* What an entry of jobs[] points to: nothing, freed memory or an alarm.  Of an
\* alarm, "due" is a history variable, the ticks from its registration to its
\* second, "asked" is what it was registered for, and "by" says by whom.
Null  == [mem |-> "null", sec |-> 0, due |-> 0, asked |-> 0, by |-> "main"]
Freed == [Null EXCEPT !.mem = "freed"]
New(s, who) == [mem |-> "live", sec |-> s, due |-> s, asked |-> s, by |-> who]

\* sec - 1; below 0 nothing happens any more (bound: -1 stands for all of it).
Less(s) == IF s < 0 THEN s ELSE s - 1

Init ==
  /\ status = "up"
  /\ inited = FALSE
  /\ jobs = [i \in Slots |-> Null]
  /\ held = {}
  /\ pc = "out"
  /\ k = 1
  /\ sec = 0
  /\ all = FALSE
  /\ h = 0
  /\ stage = "visit"

Up(label) == status = "up" /\ h = 0 /\ pc = label

-----------------------------------------------------------------------------
(* The program.                                                            *)

\* myalarm(): the first call loads the module; malloc() may fail.
Call ==
  /\ Up("out")
  /\ inited' = TRUE
  /\ \/ /\ sec' \in Seconds
        /\ pc' = "scan"
        /\ k' = 1
     \/ UNCHANGED <<sec, pc, k>>
  /\ UNCHANGED <<status, jobs, held, all, h, stage>>

\* Mutant of Scan: the last entry is not looked at.
MutScan ==
  /\ Up("scan")
  /\ IF jobs[k].mem = "null" \/ k = MAX_ALARM
     THEN pc' = "store" /\ k' = k
     ELSE pc' = "scan" /\ k' = k + 1
  /\ UNCHANGED <<status, inited, jobs, held, sec, all, h, stage>>

\* Mutant of Scan: the loop runs one too far.
MutScanFar ==
  /\ Up("scan")
  /\ IF jobs[k].mem = "null"
     THEN pc' = "store" /\ k' = k
     ELSE pc' = "scan" /\ k' = k + 1
  /\ UNCHANGED <<status, inited, jobs, held, sec, all, h, stage>>

\* One turn of the loop of get_free_pos(); -ENOSPC after the last entry.
Scan ==
  /\ Up("scan")
  /\ IF jobs[k].mem = "null"
     THEN pc' = "store" /\ k' = k
     ELSE IF k < MAX_ALARM
     THEN pc' = "scan" /\ k' = k + 1
     ELSE pc' = "out" /\ k' = 1
  /\ UNCHANGED <<status, inited, jobs, held, sec, all, h, stage>>

\* jobs[pos] = me; what a callback has put there meanwhile is lost.
Store ==
  /\ Up("store")
  /\ jobs' = [jobs EXCEPT ![k] = New(sec, "main")]
  /\ held' = held \cup {k}
  /\ pc' = "out"
  /\ UNCHANGED <<status, inited, k, sec, all, h, stage>>

\* myalarm_cancel() of a descriptor the program holds; it cannot know whether
\* the alarm has fired.
Cancel ==
  /\ Up("out")
  /\ k' \in held
  /\ held' = held \ {k'}
  /\ pc' = "zero"
  /\ UNCHANGED <<status, inited, jobs, sec, all, h, stage>>

\* jobs[alarm_dsc]->sec = 0
Zero ==
  /\ Up("zero")
  /\ IF jobs[k].mem = "null"
     THEN status' = "crashed" /\ UNCHANGED <<jobs, pc>>
     ELSE /\ jobs' = [jobs EXCEPT ![k].sec = 0]
          /\ pc' = "free"
          /\ UNCHANGED status
  /\ UNCHANGED <<inited, held, k, sec, all, h, stage>>

\* free(jobs[alarm_dsc]): if the alarm has fired since, there is NULL, which is
\* not freed, or what a callback has put there.
Free ==
  /\ Up("free")
  /\ jobs' = [jobs EXCEPT ![k] = IF @.mem = "live" THEN Freed ELSE @]
  /\ pc' = "clear"
  /\ UNCHANGED <<status, inited, held, k, sec, all, h, stage>>

\* jobs[alarm_dsc] = NULL, and the next turn of myalarm_destroy_all().
Clear ==
  /\ Up("clear")
  /\ jobs' = [jobs EXCEPT ![k] = Null]
  /\ pc' = IF all THEN "test" ELSE "out"
  /\ k' = IF all THEN k + 1 ELSE 1
  /\ UNCHANGED <<status, inited, held, sec, all, h, stage>>

DestroyAll ==
  /\ Up("out")
  /\ held # {}
  /\ all' = TRUE
  /\ held' = {}
  /\ k' = 1
  /\ pc' = "test"
  /\ UNCHANGED <<status, inited, jobs, sec, h, stage>>

\* if (jobs[i]) in the loop of myalarm_destroy_all(), and its end.
Test ==
  /\ Up("test")
  /\ IF k > MAX_ALARM
     THEN pc' = "out" /\ k' = 1 /\ all' = FALSE
     ELSE IF jobs[k].mem = "null"
     THEN k' = k + 1 /\ UNCHANGED <<pc, all>>
     ELSE pc' = "zero" /\ UNCHANGED <<k, all>>
  /\ UNCHANGED <<status, inited, jobs, held, sec, h, stage>>

-----------------------------------------------------------------------------
(* The handler.                                                            *)

\* A second ends.
Tick ==
  /\ status = "up" /\ h = 0 /\ inited
  /\ h' = 1
  /\ stage' = "visit"
  /\ jobs' = [i \in Slots |->
       IF jobs[i].mem = "live" THEN [jobs[i] EXCEPT !.due = Less(@)] ELSE jobs[i]]
  /\ UNCHANGED <<status, inited, prog>>

NextSlot == h' = (h + 1) % (MAX_ALARM + 1) /\ stage' = "visit"

\* Mutant of Visit: the slot after one that fires is skipped.
MutVisit ==
  /\ status = "up" /\ h > 0 /\ stage = "visit"
  /\ jobs[h].mem # "freed"
  /\ LET left == Less(jobs[h].sec) IN
       IF jobs[h].mem = "null"
       THEN NextSlot /\ UNCHANGED jobs
       ELSE /\ jobs' = [jobs EXCEPT ![h].sec = left]
            /\ IF left = 0 THEN stage' = "call" /\ h' = h
               ELSE h' = (IF h + 1 < MAX_ALARM THEN h + 2 ELSE 0) /\ stage' = "visit"
  /\ UNCHANGED <<status, inited, prog>>

\* jobs[i]->sec--, and the test for 0.
Visit ==
  /\ status = "up" /\ h > 0 /\ stage = "visit"
  /\ jobs[h].mem # "freed"
  /\ LET left == Less(jobs[h].sec) IN
       IF jobs[h].mem = "null"
       THEN NextSlot /\ UNCHANGED jobs
       ELSE /\ jobs' = [jobs EXCEPT ![h].sec = left]
            /\ IF left = 0 THEN stage' = "call" /\ h' = h ELSE NextSlot
  /\ UNCHANGED <<status, inited, prog>>

\* The program is between free() and = NULL: the handler counts in freed memory,
\* and may call what it finds there.
VisitFreed ==
  /\ status = "up" /\ h > 0 /\ stage = "visit"
  /\ jobs[h].mem = "freed"
  /\ status' \in {"up", "undefined"}
  /\ NextSlot
  /\ UNCHANGED <<inited, jobs, prog>>

\* The callback makes no call of the library.
CallsNothing == UNCHANGED jobs

\* It registers an alarm in the first free slot; there may be none.
Registers(s) ==
  LET free == {i \in Slots : jobs[i].mem = "null"} IN
  jobs' = [i \in Slots |->
    IF i \in free /\ \A f \in free : i <= f THEN New(s, "callback") ELSE jobs[i]]

\* It cancels an alarm, its own or another.
Cancels(i) ==
  /\ jobs[i].mem = "live"
  /\ jobs' = [jobs EXCEPT ![i] = Null]

\* It cancels the alarm that the program has just freed.
FreesTwice == \E i \in Slots : jobs[i].mem = "freed"

Callback ==
  /\ status = "up" /\ h > 0 /\ stage = "call"
  /\ \/ /\ \/ CallsNothing
           \/ \E s \in Seconds : Registers(s)
           \/ \E i \in Slots : Cancels(i)
        /\ UNCHANGED status
     \/ FreesTwice /\ status' = "undefined" /\ UNCHANGED jobs
  /\ stage' = "cancel"
  /\ UNCHANGED <<inited, prog, h>>

\* myalarm_cancel(i) after the callback, which may have cancelled it already.
Fired ==
  /\ status = "up" /\ h > 0 /\ stage = "cancel"
  /\ IF jobs[h].mem = "null"
     THEN status' = "crashed" /\ UNCHANGED <<jobs, h, stage>>
     ELSE /\ jobs' = [jobs EXCEPT ![h] = Null]
          /\ NextSlot
          /\ UNCHANGED status
  /\ UNCHANGED <<inited, prog>>

Next ==
  \/ Call \/ Scan \/ Store
  \/ Cancel \/ Zero \/ Free \/ Clear
  \/ DestroyAll \/ Test
  \/ Tick \/ Visit \/ VisitFreed \/ Callback \/ Fired

Spec == Init /\ [][Next]_vars

-----------------------------------------------------------------------------
(* Properties.                                                             *)

Entries ==
  [ mem : {"null", "freed", "live"}, sec : Int, due : Int,
    asked : Seconds \cup {0}, by : {"main", "callback"} ]

\* Every variable has its type: no index leaves jobs[].
TypeOK ==
  /\ status \in {"up", "crashed", "undefined"}
  /\ inited \in BOOLEAN
  /\ jobs \in [Slots -> Entries]
  /\ held \subseteq Slots
  /\ pc \in {"out", "scan", "store", "zero", "free", "clear", "test"}
  /\ k \in Slots \/ (pc = "test" /\ k = MAX_ALARM + 1)
  /\ sec \in Seconds \cup {0}
  /\ all \in BOOLEAN
  /\ h \in Slots \cup {0}
  /\ stage \in {"visit", "call", "cancel"}

\* The program is in the middle of myalarm_cancel(i).
BeingCancelled(i) == pc \in {"free", "clear"} /\ k = i

\* Each alarm fires in its second: it is never overdue, and it fires early, by
\* one second, only if a callback has put it in a slot that the handler had not
\* come to (lines 66-70 and 52-58).  An alarm of 0 seconds never fires.
FiresOnTime ==
  \A i \in Slots :
    LET a == jobs[i]
        early == a.by = "callback" /\ a.sec = Less(a.due)
    IN
    a.mem = "live" /\ ~BeingCancelled(i) =>
      /\ h = 0 => (a.sec = a.due \/ early) /\ (a.asked > 0 <=> a.sec > 0)
      /\ h = i /\ stage = "call" => a.asked > 0 /\ (a.due = 0 \/ early)

\* An alarm the program has registered is never overwritten: from the moment
\* get_free_pos() returns a slot to the store into it, only a callback's alarm
\* can have come there (lines 52-58).
OwnAlarmKept ==
  pc = "store" => jobs[k].mem = "null" \/ (jobs[k].mem = "live" /\ jobs[k].by = "callback")
=============================================================================
