--------------------------- MODULE AlarmLibProofs --------------------------
(***************************************************************************)
(* Theorems about the alarms of AlarmLib, for any number of them and any   *)
(* times asked for.                                                        *)
(***************************************************************************)
EXTENDS AlarmLib, TLAPS

-----------------------------------------------------------------------------
(* The inductive invariant.                                                *)

\* An alarm by a callback that is a tick ahead of its second.
Early(a) == a.by = "callback" /\ a.sec = Less(a.due)

\* What an alarm was asked for tells whether it still counts.
Counts(a) == a.asked > 0 <=> a.sec > 0

\* An alarm that the handler, in this second, has passed or not yet come to:
\* its due time is a tick ahead of its counter, which a callback's alarm need
\* not mind.
Passed(a)  == (a.sec = a.due \/ Early(a)) /\ Counts(a)
Pending(a) == (Less(a.sec) = a.due \/ (a.by = "callback" /\ a.sec = a.due)) /\ Counts(a)

\* An alarm whose callback runs.
Firing(a) == a.asked > 0 /\ a.sec = 0 /\ (a.sec = a.due \/ Early(a))

\* The alarms that are not on their way out, by the place of the handler.
Clock ==
  \A i \in Slots :
    jobs[i].mem = "live" /\ ~BeingCancelled(i) =>
      /\ (h = 0 \/ i < h) => Passed(jobs[i])
      /\ h > 0 /\ (h < i \/ (i = h /\ stage = "visit")) => Pending(jobs[i])
      /\ h = i /\ stage = "call" => Firing(jobs[i])

\* The callback runs in the slot of an alarm.
CallHasAlarm == h > 0 /\ stage = "call" => jobs[h].mem = "live"

IInv == TypeOK /\ CallHasAlarm /\ Clock /\ OwnAlarmKept

-----------------------------------------------------------------------------
(* Type correctness.                                                       *)

LEMMA SecondsAreInts == \A s \in Seconds \cup {0} : s \in Int /\ s >= 0
BY AlarmAssumption

LEMMA LessInt == \A s \in Int : Less(s) \in Int
BY DEF Less

LEMMA SlotAfter ==
  ASSUME NEW i \in Slots
  PROVE  /\ (i + 1) % (MAX_ALARM + 1) = (IF i = MAX_ALARM THEN 0 ELSE i + 1)
         /\ (i + 1) % (MAX_ALARM + 1) \in Slots \cup {0}
<1>1. i \in Nat /\ MAX_ALARM \in Nat /\ i <= MAX_ALARM /\ i > 0
  BY AlarmAssumption DEF Slots
<1>2. CASE i = MAX_ALARM
  <2>1. (MAX_ALARM + 1) % (MAX_ALARM + 1) = 0
    BY <1>1
  <2> QED BY <1>2, <2>1
<1>3. CASE i < MAX_ALARM
  <2>1. (i + 1) % (MAX_ALARM + 1) = i + 1
    BY <1>1, <1>3
  <2>2. i + 1 \in Slots
    BY <1>1, <1>3 DEF Slots
  <2>3. i # MAX_ALARM
    BY <1>1, <1>3
  <2> QED BY <2>1, <2>2, <2>3
<1> QED BY <1>1, <1>2, <1>3

LEMMA NullEntry == Null \in Entries /\ Freed \in Entries
BY DEF Null, Freed, Entries

LEMMA NewEntry ==
  ASSUME NEW s \in Seconds \cup {0}, NEW who \in {"main", "callback"}
  PROVE  New(s, who) \in Entries
BY SecondsAreInts DEF New, Entries

LEMMA ChangedEntry ==
  ASSUME NEW e \in Entries, NEW s \in Int
  PROVE  [e EXCEPT !.sec = s] \in Entries /\ [e EXCEPT !.due = s] \in Entries
BY DEF Entries

LEMMA CountedEntry ==
  ASSUME NEW e \in Entries
  PROVE  /\ [e EXCEPT !.sec = 0] \in Entries
         /\ [e EXCEPT !.sec = Less(e.sec)] \in Entries
         /\ [e EXCEPT !.due = Less(e.due)] \in Entries
<1>1. e.sec \in Int /\ e.due \in Int
  BY DEF Entries
<1>2. Less(e.sec) \in Int /\ Less(e.due) \in Int
  BY <1>1, LessInt, Zenon
<1>3. [e EXCEPT !.sec = 0] \in Entries
  <2>1. 0 \in Int
    OBVIOUS
  <2> QED BY <2>1, ChangedEntry, Zenon
<1>4. [e EXCEPT !.sec = Less(e.sec)] \in Entries
  BY <1>2, ChangedEntry, Zenon
<1>5. [e EXCEPT !.due = Less(e.due)] \in Entries
  BY <1>2, ChangedEntry, Zenon
<1> QED BY <1>3, <1>4, <1>5, Zenon

LEMMA TypeInit == Init => TypeOK
<1> SUFFICES ASSUME Init PROVE TypeOK
  OBVIOUS
<1>1. k \in Slots /\ h \in Slots \cup {0}
  BY AlarmAssumption DEF Init, Slots
<1>2. jobs \in [Slots -> Entries]
  BY NullEntry DEF Init
<1>3. inited \in BOOLEAN /\ all \in BOOLEAN
  BY DEF Init
<1> QED BY <1>1, <1>2, <1>3 DEF Init, TypeOK

LEMMA TypeStep == TypeOK /\ [Next]_vars => TypeOK'
<1> SUFFICES ASSUME TypeOK, [Next]_vars
             PROVE  TypeOK'
  OBVIOUS
<1> USE AlarmAssumption DEF TypeOK, Slots, Up
<1>0. ASSUME NEW i \in Slots
      PROVE  /\ jobs[i] \in Entries
             /\ [jobs[i] EXCEPT !.sec = 0] \in Entries
             /\ [jobs[i] EXCEPT !.sec = Less(jobs[i].sec)] \in Entries
             /\ [jobs[i] EXCEPT !.due = Less(jobs[i].due)] \in Entries
  <2>1. jobs[i] \in Entries
    OBVIOUS
  <2> QED BY <2>1, CountedEntry, Zenon
<1>1. CASE Call
  BY <1>1 DEF Call
<1>2. CASE Scan
  BY <1>2 DEF Scan
<1>3. CASE Store
  BY <1>3, NewEntry DEF Store
<1>4. CASE Cancel
  BY <1>4 DEF Cancel
<1>5. CASE Zero
  BY <1>5, <1>0 DEF Zero
<1>6. CASE Free
  BY <1>6, NullEntry DEF Free
<1>7. CASE Clear
  BY <1>7, NullEntry DEF Clear
<1>8. CASE DestroyAll
  BY <1>8 DEF DestroyAll
<1>9. CASE Test
  <2>1. all' \in BOOLEAN /\ inited' \in BOOLEAN
    BY <1>9 DEF Test
  <2>2. k' \in Slots \/ (pc' = "test" /\ k' = MAX_ALARM + 1)
    BY <1>9 DEF Test
  <2>3. pc' \in {"test", "out", "zero"}
    BY <1>9 DEF Test
  <2> QED BY <1>9, <2>1, <2>2, <2>3 DEF Test
<1>10. CASE Tick
  <2>1. jobs' \in [Slots -> Entries]
    BY <1>10, <1>0 DEF Tick
  <2>2. h' \in Slots
    BY <1>10 DEF Tick
  <2> QED BY <1>10, <2>1, <2>2 DEF Tick, prog
<1>11. CASE Visit
  <2>1. h \in Slots
    BY <1>11 DEF Visit
  <2>2. jobs' \in [Slots -> Entries]
    BY <1>11, <2>1, <1>0 DEF Visit
  <2>3. h' \in Slots \cup {0} /\ stage' \in {"visit", "call"}
    BY <1>11, <2>1, SlotAfter DEF Visit, NextSlot
  <2> QED BY <1>11, <2>2, <2>3 DEF Visit, prog
<1>12. CASE VisitFreed
  BY <1>12 DEF VisitFreed, NextSlot, prog
<1>13. CASE Callback
  BY <1>13, NullEntry, NewEntry DEF Callback, CallsNothing, Registers, Cancels, FreesTwice, prog
<1>14. CASE Fired
  BY <1>14, NullEntry DEF Fired, NextSlot, prog
<1>15. CASE UNCHANGED vars
  BY <1>15 DEF vars, prog
<1> QED
  BY <1>1, <1>2, <1>3, <1>4, <1>5, <1>6, <1>7, <1>8, <1>9, <1>10, <1>11, <1>12,
     <1>13, <1>14, <1>15 DEF Next

-----------------------------------------------------------------------------
(* The parts of the invariant.                                             *)

\* The handler enters a callback only from an alarm.
LEMMA CallStep == TypeOK /\ CallHasAlarm /\ [Next]_vars => CallHasAlarm'
<1> SUFFICES ASSUME TypeOK, CallHasAlarm, [Next]_vars, h' > 0, stage' = "call"
             PROVE  jobs'[h'].mem = "live"
  BY DEF CallHasAlarm
<1>1. CASE Visit
  <2>1. h \in Slots /\ jobs[h] \in Entries /\ jobs[h].mem # "freed" /\ h' = h
    BY <1>1 DEF Visit, NextSlot, TypeOK
  <2>2. jobs[h].mem # "null"
    BY <1>1 DEF Visit, NextSlot
  <2>3. jobs[h].mem = "live"
    BY <2>1, <2>2 DEF Entries
  <2>4. jobs' = [jobs EXCEPT ![h].sec = Less(jobs[h].sec)]
    BY <1>1, <2>2 DEF Visit
  <2> QED BY <2>1, <2>3, <2>4 DEF TypeOK
<1>2. CASE Tick \/ VisitFreed \/ Callback \/ Fired
  BY <1>2 DEF Tick, VisitFreed, Callback, Fired, NextSlot
<1>3. CASE UNCHANGED vars
  BY <1>3 DEF vars, CallHasAlarm
<1>4. CASE \/ Call \/ Scan \/ Store \/ Cancel \/ Zero \/ Free \/ Clear
           \/ DestroyAll \/ Test
  BY <1>4 DEF Call, Scan, Store, Cancel, Zero, Free, Clear, DestroyAll, Test, Up
<1> QED BY <1>1, <1>2, <1>3, <1>4 DEF Next

\* Between get_free_pos() and the store only a callback writes to the slot.
LEMMA OwnStep == TypeOK /\ OwnAlarmKept /\ [Next]_vars => OwnAlarmKept'
<1> SUFFICES ASSUME TypeOK, OwnAlarmKept, [Next]_vars, pc' = "store"
             PROVE  jobs'[k'].mem = "null" \/ (jobs'[k'].mem = "live" /\ jobs'[k'].by = "callback")
  BY DEF OwnAlarmKept
<1> DEFINE Unowned(e) == e.mem = "null" \/ (e.mem = "live" /\ e.by = "callback")
<1>1. CASE Scan
  BY <1>1 DEF Scan, Up
<1>2. CASE \/ Call \/ Store \/ Cancel \/ Zero \/ Free \/ Clear \/ DestroyAll \/ Test
  BY <1>2 DEF Call, Store, Cancel, Zero, Free, Clear, DestroyAll, Test, Up
<1>3. CASE UNCHANGED vars
  BY <1>3 DEF vars, prog, OwnAlarmKept
<1>4. CASE Tick \/ Visit \/ VisitFreed \/ Callback \/ Fired
  <2>1. pc = "store" /\ k' = k
    BY <1>4 DEF Tick, Visit, VisitFreed, Callback, Fired, prog
  <2>2. k \in Slots /\ jobs \in [Slots -> Entries] /\ Unowned(jobs[k])
    BY <2>1 DEF TypeOK, OwnAlarmKept
  <2>3. CASE Tick
    BY <2>1, <2>2, <2>3 DEF Tick, Entries
  <2>4. CASE Visit
    <3>1. UNCHANGED jobs \/ jobs' = [jobs EXCEPT ![h].sec = Less(jobs[h].sec)]
      BY <2>4 DEF Visit
    <3> QED BY <2>1, <2>2, <3>1 DEF Entries
  <2>5. CASE VisitFreed
    BY <2>1, <2>2, <2>5 DEF VisitFreed
  <2>6. CASE Callback
    BY <2>1, <2>2, <2>6 DEF Callback, CallsNothing, Registers, Cancels, FreesTwice, New, Null
  <2>7. CASE Fired
    BY <2>1, <2>2, <2>7 DEF Fired, Null
  <2> QED BY <1>4, <2>3, <2>4, <2>5, <2>6, <2>7
<1> QED BY <1>1, <1>2, <1>3, <1>4 DEF Next

\* The handler counts an alarm down: it fires or has been passed.
LEMMA VisitAlarm ==
  ASSUME NEW a \in Entries, Pending(a)
  PROVE  LET b == [a EXCEPT !.sec = Less(a.sec)] IN
           IF Less(a.sec) = 0 THEN Firing(b) ELSE Passed(b)
<1> DEFINE b == [a EXCEPT !.sec = Less(a.sec)]
<1>1. a.sec \in Int /\ a.due \in Int /\ a.asked \in Int /\ a.asked >= 0
  BY SecondsAreInts DEF Entries
<1>2. b.sec = Less(a.sec) /\ b.due = a.due /\ b.asked = a.asked /\ b.by = a.by
  BY DEF Entries
<1>3. b.sec = b.due \/ Early(b)
  BY <1>2 DEF Pending, Early
<1>4. CASE Less(a.sec) = 0
  <2>1. a.sec = 1
    BY <1>1, <1>4 DEF Less
  <2> QED BY <1>2, <1>3, <1>4, <2>1 DEF Pending, Counts, Firing
<1>5. CASE Less(a.sec) # 0
  <2>1. a.sec > 0 <=> Less(a.sec) > 0
    BY <1>1, <1>5 DEF Less
  <2> QED BY <1>2, <1>3, <1>5, <2>1 DEF Pending, Counts, Passed
<1> QED BY <1>4, <1>5

\* A second ends for an alarm.
LEMMA TickAlarm ==
  ASSUME NEW a \in Entries, Passed(a)
  PROVE  Pending([a EXCEPT !.due = Less(a.due)])
<1> DEFINE b == [a EXCEPT !.due = Less(a.due)]
<1>1. b.due = Less(a.due) /\ b.sec = a.sec /\ b.asked = a.asked /\ b.by = a.by
  BY DEF Entries
<1> QED BY <1>1 DEF Passed, Early, Pending, Counts

\* An alarm that has just been registered.
LEMMA NewAlarm ==
  ASSUME NEW s \in Seconds \cup {0}
  PROVE  /\ Passed(New(s, "main"))
         /\ Passed(New(s, "callback"))
         /\ Pending(New(s, "callback"))
BY DEF New, Passed, Pending, Counts

\* The program, which runs outside of the handler, changes no alarm but those
\* that it registers or takes away.
LEMMA ProgramKeepsClock ==
  ASSUME TypeOK, Clock,
         \/ Call \/ Scan \/ Store \/ Cancel \/ Zero \/ Free \/ Clear
         \/ DestroyAll \/ Test
  PROVE  Clock'
<1> USE DEF Up
<1>1. h = 0 /\ h' = 0
  BY DEF Call, Scan, Store, Cancel, Zero, Free, Clear, DestroyAll, Test
<1> SUFFICES ASSUME NEW i \in Slots, jobs'[i].mem = "live", ~BeingCancelled(i)'
             PROVE  Passed(jobs'[i])
  BY <1>1 DEF Clock, Slots
<1>2. jobs \in [Slots -> Entries]
  BY DEF TypeOK
<1>3. ASSUME jobs[i].mem = "live", ~BeingCancelled(i) PROVE Passed(jobs[i])
  BY <1>1, <1>3 DEF Clock
<1>4. CASE Call \/ Scan \/ Cancel \/ DestroyAll \/ Test
  <2>1. jobs' = jobs /\ ~BeingCancelled(i)
    BY <1>4 DEF Call, Scan, Cancel, DestroyAll, Test, BeingCancelled
  <2> QED BY <1>3, <2>1
<1>5. CASE Store
  <2>1. CASE i = k
    <3>1. jobs'[i] = New(sec, "main") /\ sec \in Seconds \cup {0}
      BY <1>2, <1>5, <2>1 DEF Store, TypeOK
    <3> QED BY <3>1, NewAlarm
  <2>2. CASE i # k
    <3>1. jobs'[i] = jobs[i] /\ ~BeingCancelled(i)
      BY <1>2, <1>5, <2>2 DEF Store, BeingCancelled
    <3> QED BY <1>3, <3>1
  <2> QED BY <2>1, <2>2
<1>6. CASE Zero
  <2>1. jobs'[i] = jobs[i] /\ ~BeingCancelled(i)
    BY <1>2, <1>6 DEF Zero, BeingCancelled
  <2> QED BY <1>3, <2>1
<1>7. CASE Free
  <2>1. i # k
    BY <1>7 DEF Free, BeingCancelled
  <2>2. jobs'[i] = jobs[i] /\ ~BeingCancelled(i)
    BY <1>2, <1>7, <2>1 DEF Free, BeingCancelled
  <2> QED BY <1>3, <2>2
<1>8. CASE Clear
  <2>1. i # k
    BY <1>2, <1>8 DEF Clear, Null
  <2>2. jobs'[i] = jobs[i] /\ ~BeingCancelled(i)
    BY <1>2, <1>8, <2>1 DEF Clear, BeingCancelled
  <2> QED BY <1>3, <2>2
<1> QED BY <1>4, <1>5, <1>6, <1>7, <1>8

\* The handler counts every alarm down once, in the order of the table.
LEMMA HandlerKeepsClock ==
  ASSUME TypeOK, CallHasAlarm, Clock,
         Tick \/ Visit \/ VisitFreed \/ Callback \/ Fired
  PROVE  Clock'
<1>1. UNCHANGED prog
  BY DEF Tick, Visit, VisitFreed, Callback, Fired
<1> SUFFICES ASSUME NEW i \in Slots, jobs'[i].mem = "live", ~BeingCancelled(i)
             PROVE  /\ (h' = 0 \/ i < h') => Passed(jobs'[i])
                    /\ h' > 0 /\ (h' < i \/ (i = h' /\ stage' = "visit")) => Pending(jobs'[i])
                    /\ h' = i /\ stage' = "call" => Firing(jobs'[i])
  BY <1>1 DEF Clock, BeingCancelled, prog
<1>2. jobs \in [Slots -> Entries] /\ jobs[i] \in Entries
  BY DEF TypeOK
<1>3. i \in Nat /\ i > 0 /\ MAX_ALARM \in Nat /\ i <= MAX_ALARM
  BY AlarmAssumption DEF Slots
<1>4. ASSUME jobs[i].mem = "live"
      PROVE  /\ (h = 0 \/ i < h) => Passed(jobs[i])
             /\ h > 0 /\ (h < i \/ (i = h /\ stage = "visit")) => Pending(jobs[i])
             /\ h = i /\ stage = "call" => Firing(jobs[i])
  BY <1>4 DEF Clock
<1>5. ASSUME h > 0
      PROVE  /\ h \in Slots /\ h \in Nat /\ h <= MAX_ALARM
             /\ NextSlot => /\ stage' = "visit"
                            /\ h' = (IF h = MAX_ALARM THEN 0 ELSE h + 1)
  <2>1. h \in Slots
    BY <1>5 DEF TypeOK
  <2>2. h \in Nat /\ h <= MAX_ALARM
    BY <2>1, <1>3 DEF Slots
  <2>3. NextSlot => stage' = "visit" /\ h' = (IF h = MAX_ALARM THEN 0 ELSE h + 1)
    BY <2>1, SlotAfter DEF NextSlot
  <2> QED BY <2>1, <2>2, <2>3
<1>6. CASE Tick
  <2>1. h = 0 /\ h' = 1 /\ stage' = "visit"
    BY <1>6 DEF Tick
  <2>2. jobs[i].mem = "live" /\ jobs'[i] = [jobs[i] EXCEPT !.due = Less(jobs[i].due)]
    BY <1>2, <1>6 DEF Tick
  <2>3. Pending(jobs'[i])
    BY <1>2, <1>4, <2>1, <2>2, TickAlarm
  <2> QED BY <1>3, <2>1, <2>3
<1>7. CASE Visit
  <2>1. h > 0 /\ stage = "visit"
    BY <1>7 DEF Visit
  <2>2. CASE i = h
    <3>1. jobs[i].mem = "live" /\ jobs[i].mem # "null"
      <4>1. jobs[i].mem # "freed"
        BY <1>7, <2>2 DEF Visit
      <4>2. jobs[i].mem # "null"
        BY <1>7, <2>2 DEF Visit
      <4> QED BY <1>2, <4>1, <4>2 DEF Entries
    <3>2. jobs'[i] = [jobs[i] EXCEPT !.sec = Less(jobs[i].sec)]
      BY <1>2, <1>7, <2>2, <3>1 DEF Visit
    <3>3. IF Less(jobs[i].sec) = 0 THEN Firing(jobs'[i]) ELSE Passed(jobs'[i])
      BY <1>2, <1>4, <2>1, <2>2, <3>1, <3>2, VisitAlarm
    <3>4. CASE Less(jobs[i].sec) = 0
      <4>1. h' = h /\ stage' = "call"
        BY <1>7, <2>2, <3>1, <3>4 DEF Visit
      <4> QED BY <1>3, <2>2, <3>3, <3>4, <4>1
    <3>5. CASE Less(jobs[i].sec) # 0
      <4>1. NextSlot
        BY <1>7, <2>2, <3>1, <3>5 DEF Visit
      <4> QED BY <1>3, <1>5, <2>1, <2>2, <3>3, <3>5, <4>1
    <3> QED BY <3>4, <3>5
  <2>3. CASE i # h
    <3>1. jobs'[i] = jobs[i]
      BY <1>2, <1>5, <1>7, <2>1, <2>3 DEF Visit
    <3>2. NextSlot \/ (h' = h /\ stage' = "call")
      BY <1>7 DEF Visit
    <3> QED BY <1>3, <1>4, <1>5, <2>1, <2>3, <3>1, <3>2
  <2> QED BY <2>2, <2>3
<1>8. CASE VisitFreed
  <2>1. h > 0 /\ i # h /\ jobs'[i] = jobs[i] /\ NextSlot
    BY <1>8 DEF VisitFreed
  <2> QED BY <1>3, <1>4, <1>5, <2>1
<1>9. CASE Callback
  <2>1. h > 0 /\ h' = h /\ stage = "call" /\ stage' = "cancel"
    BY <1>9 DEF Callback
  <2>2. jobs[h].mem = "live"
    BY <2>1 DEF CallHasAlarm
  <2>3. \/ jobs'[i] = jobs[i]
        \/ jobs[i].mem = "null" /\ \E s \in Seconds \cup {0} : jobs'[i] = New(s, "callback")
    BY <1>2, <1>9 DEF Callback, CallsNothing, Registers, Cancels, FreesTwice, Null
  <2>4. CASE jobs'[i] = jobs[i]
    BY <1>3, <1>4, <1>5, <2>1, <2>4
  <2>5. CASE jobs[i].mem = "null" /\ \E s \in Seconds \cup {0} : jobs'[i] = New(s, "callback")
    <3>1. Passed(jobs'[i]) /\ Pending(jobs'[i])
      BY <2>5, NewAlarm
    <3> QED BY <2>1, <3>1
  <2> QED BY <2>3, <2>4, <2>5
<1>10. CASE Fired
  <2>1. h > 0 /\ stage = "cancel"
    BY <1>10 DEF Fired
  <2>2. CASE jobs' = jobs /\ h' = h /\ stage' = stage
    BY <1>4, <2>1, <2>2
  <2>3. CASE jobs' = [jobs EXCEPT ![h] = Null] /\ NextSlot
    <3>1. i # h /\ jobs'[i] = jobs[i]
      BY <1>2, <2>3 DEF Null
    <3> QED BY <1>3, <1>4, <1>5, <2>1, <2>3, <3>1
  <2> QED BY <1>10, <2>2, <2>3 DEF Fired
<1> QED BY <1>6, <1>7, <1>8, <1>9, <1>10

LEMMA InvInit == Init => IInv
<1> SUFFICES ASSUME Init PROVE IInv
  OBVIOUS
<1>1. \A i \in Slots : jobs[i].mem = "null"
  BY DEF Init, Null
<1>2. CallHasAlarm
  BY DEF Init, CallHasAlarm
<1>3. Clock
  BY <1>1 DEF Clock
<1>4. OwnAlarmKept
  BY DEF Init, OwnAlarmKept
<1> QED BY TypeInit, <1>2, <1>3, <1>4 DEF IInv

LEMMA InvStep == IInv /\ [Next]_vars => IInv'
<1> SUFFICES ASSUME IInv, [Next]_vars PROVE IInv'
  OBVIOUS
<1>1. TypeOK /\ CallHasAlarm /\ Clock /\ OwnAlarmKept
  BY DEF IInv
<1>2. TypeOK'
  BY <1>1, TypeStep
<1>3. CallHasAlarm'
  BY <1>1, CallStep
<1>4. OwnAlarmKept'
  BY <1>1, OwnStep
<1>5. Clock'
  <2>1. CASE UNCHANGED vars
    BY <1>1, <2>1 DEF vars, prog, Clock, BeingCancelled
  <2>2. CASE Next
    BY <1>1, <2>2, ProgramKeepsClock, HandlerKeepsClock DEF Next
  <2> QED BY <2>1, <2>2
<1> QED BY <1>2, <1>3, <1>4, <1>5 DEF IInv

-----------------------------------------------------------------------------
(* The theorems.                                                           *)

\* No index leaves jobs[], whatever the program and its callbacks call.
THEOREM TypeCorrect == Spec => []TypeOK
<1> QED BY TypeInit, TypeStep, PTL DEF Spec

\* No alarm of the program is overwritten (lines 52-58), for any number of
\* alarms: the handler cannot put another of them in the slot that
\* get_free_pos() has found.
THEOREM OwnAlarmsKept == Spec => []OwnAlarmKept
<1>1. IInv => OwnAlarmKept
  BY DEF IInv
<1> QED BY InvInit, InvStep, <1>1, PTL DEF Spec

\* Alarms fire in their second, or one second early where a callback has put
\* them ahead of the handler (lines 66-70), and those of 0 seconds never do.
THEOREM AlarmsOnTime == Spec => []FiresOnTime
<1>1. IInv => FiresOnTime
  <2> SUFFICES ASSUME IInv, NEW i \in Slots,
                      jobs[i].mem = "live", ~BeingCancelled(i)
               PROVE  /\ h = 0 => (jobs[i].sec = jobs[i].due \/ Early(jobs[i])) /\ Counts(jobs[i])
                      /\ h = i /\ stage = "call" =>
                           jobs[i].asked > 0 /\ (jobs[i].due = 0 \/ Early(jobs[i]))
    BY DEF FiresOnTime, Early, Counts
  <2>1. (h = 0 => Passed(jobs[i])) /\ (h = i /\ stage = "call" => Firing(jobs[i]))
    BY DEF IInv, Clock
  <2> QED BY <2>1 DEF Passed, Firing
<1> QED BY InvInit, InvStep, <1>1, PTL DEF Spec
=============================================================================
