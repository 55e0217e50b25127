------------------------- MODULE SignalBucketProofs -------------------------
(***************************************************************************)
(* Theorems about the token buckets of SignalBucket, for any number of     *)
(* slots and any parameters.                                               *)
(***************************************************************************)
EXTENDS SignalBucket, TLAPS

-----------------------------------------------------------------------------
(* The parts of the inductive invariant.                                   *)

\* The arguments of the call in progress.
CallArgs ==
  /\ pc \in {"signal", "arm", "alloc"} => arg \in Params
  /\ pc \in FetchLabels => n \in Asks /\ td \in handles

\* A live bucket has legal parameters and does not exceed its burst.
LiveBounded ==
  \A s \in Slots : slot[s] = "live" =>
    par[s] \in Params /\ token[s] <= par[s].burst

\* The bucket that is being destroyed is live until it is freed, out of the
\* program's hands, and the only one whose pointer dangles.
Destroying ==
  /\ pc \in {"free", "null"} => td \in Slots \ handles
  /\ pc = "free" => slot[td] = "live"
  /\ pc = "null" => slot[td] = "freed"
  /\ \A s \in Slots : slot[s] = "freed" => pc = "null" /\ td = s

\* tbf_destroy_all() takes all descriptors away and has emptied the slots
\* below its index, which starts at 0.
DestroyingAll ==
  /\ pc \in {"idle", "restore", "disarm"} => td = 0
  /\ pc \in {"restore", "disarm", "scan"} => all
  /\ all =>
       /\ handles = {}
       /\ pc \in {"restore", "disarm", "scan", "free", "null"}
       /\ \A s \in Slots : s < td => slot[s] = "null"

\* Outside tbf_destroy_all(), a bucket without a descriptor is the one that is
\* being destroyed.
NoneLost ==
  ~all => \A s \in Slots \ handles :
            slot[s] = "null" \/ (pc \in {"free", "null"} /\ s = td)

\* The default action of SIGALRM and a running alarm meet only at "disarm".
AlarmInv ==
  /\ pc = "arm" => handler = "bucket"
  /\ armed /\ handler = "default" => pc = "disarm"

IInv ==
  /\ TypeOK
  /\ CallArgs
  /\ LiveBounded
  /\ TakesWhatIsThere
  /\ HandlesLive
  /\ Destroying
  /\ DestroyingAll
  /\ NoneLost
  /\ AlarmInv
  /\ SpoilsOnlyInDestroy
  /\ KilledOnlyInUnload

-----------------------------------------------------------------------------
(* The invariant.                                                          *)

\* The constants as numbers.
LEMMA Inputs ==
  /\ TBF_MAX \in Nat /\ TBF_MAX > 0
  /\ \A p \in Params : p.cps \in Nat /\ p.cps > 0 /\ p.burst \in Nat /\ p.burst > 0
  /\ \A k \in Asks : k \in Nat /\ k > 0
BY SizeAssumption, ParamsAssumption

\* The locals at the end of a call, and what is known between two calls.
LEMMA Returned == Return => ProgramTypeOK' /\ CallArgs' /\ TakesWhatIsThere' /\ pc' = "idle"
<1> SUFFICES ASSUME Return
             PROVE  ProgramTypeOK' /\ CallArgs' /\ TakesWhatIsThere' /\ pc' = "idle"
  OBVIOUS
<1>1. pc' = "idle"
  BY DEF Return, Goto
<1>2. pc' \in Labels
  BY <1>1 DEF Labels
<1>3. td' \in 0 .. TBF_MAX /\ n' \in Asks \cup {0} /\ arg' \in Params \cup {NoPar}
  BY Inputs DEF Return
<1>4. ProgramTypeOK'
  BY <1>2, <1>3 DEF Return, ProgramTypeOK
<1> QED BY <1>1, <1>4 DEF CallArgs, TakesWhatIsThere, FetchLabels

LEMMA InvInit == Init => IInv
<1> SUFFICES ASSUME Init PROVE IInv
  OBVIOUS
<1> USE Inputs DEF Init, Slots
<1>1. SignalsTypeOK
  BY DEF SignalsTypeOK
<1>2. BucketsTypeOK
  BY DEF BucketsTypeOK
<1>3. ProgramTypeOK
  <2>1. pc \in Labels
    BY DEF Labels
  <2>2. td \in 0 .. TBF_MAX /\ n \in Asks \cup {0} /\ arg \in Params \cup {NoPar}
    OBVIOUS
  <2> QED BY <2>1, <2>2 DEF ProgramTypeOK
<1>4. CallArgs /\ LiveBounded /\ TakesWhatIsThere /\ AlarmInv
  BY DEF CallArgs, LiveBounded, TakesWhatIsThere, AlarmInv, FetchLabels
<1>5. HandlesLive /\ Destroying /\ DestroyingAll /\ NoneLost
  BY DEF HandlesLive, Destroying, DestroyingAll, NoneLost
<1>6. SpoilsOnlyInDestroy /\ KilledOnlyInUnload
  BY DEF SpoilsOnlyInDestroy, KilledOnlyInUnload
<1> QED BY <1>1, <1>2, <1>3, <1>4, <1>5, <1>6 DEF IInv, TypeOK

LEMMA InvStep == IInv /\ [Next]_vars => IInv'
<1> SUFFICES ASSUME IInv, [Next]_vars
             PROVE  IInv'
  OBVIOUS
<1> USE Inputs DEF IInv, TypeOK, Slots, At, Goto
<1>1. CASE InitCall
  BY <1>1
  DEF InitCall, signals, buckets, locals, Labels, FetchLabels, SignalsTypeOK,
      BucketsTypeOK, ProgramTypeOK, CallArgs, LiveBounded, TakesWhatIsThere,
      HandlesLive, Destroying, DestroyingAll, NoneLost, AlarmInv, SpoilsOnlyInDestroy,
      KilledOnlyInUnload
<1>2. CASE FetchCall
  BY <1>2
  DEF FetchCall, signals, buckets, locals, Labels, FetchLabels, SignalsTypeOK,
      BucketsTypeOK, ProgramTypeOK, CallArgs, LiveBounded, TakesWhatIsThere,
      HandlesLive, Destroying, DestroyingAll, NoneLost, AlarmInv, SpoilsOnlyInDestroy,
      KilledOnlyInUnload
<1>3. CASE DestroyCall
  BY <1>3
  DEF DestroyCall, signals, buckets, locals, Labels, FetchLabels, SignalsTypeOK,
      BucketsTypeOK, ProgramTypeOK, CallArgs, LiveBounded, TakesWhatIsThere,
      HandlesLive, Destroying, DestroyingAll, NoneLost, AlarmInv, SpoilsOnlyInDestroy,
      KilledOnlyInUnload
<1>4. CASE DestroyAllCall
  <2>1. SignalsTypeOK'
    BY <1>4
    DEF DestroyAllCall, signals, buckets, locals, SignalsTypeOK
  <2>2. BucketsTypeOK'
    BY <1>4
    DEF DestroyAllCall, signals, buckets, locals, BucketsTypeOK, ProgramTypeOK,
        CallArgs, FetchLabels, TakesWhatIsThere, Destroying
  <2>3. ProgramTypeOK'
    BY <1>4
    DEF DestroyAllCall, signals, buckets, locals, ProgramTypeOK, BucketsTypeOK, Labels,
        FetchLabels, CallArgs
  <2>4. CallArgs' /\ LiveBounded'
    BY <1>4
    DEF DestroyAllCall, signals, buckets, locals, CallArgs, LiveBounded, FetchLabels,
        BucketsTypeOK, ProgramTypeOK
  <2>5. TakesWhatIsThere'
    BY <1>4
    DEF DestroyAllCall, signals, buckets, locals, TakesWhatIsThere, BucketsTypeOK,
        ProgramTypeOK, FetchLabels, CallArgs, HandlesLive, LiveBounded
  <2>6. HandlesLive'
    BY <1>4
    DEF DestroyAllCall, signals, buckets, locals, HandlesLive, BucketsTypeOK,
        ProgramTypeOK, Destroying, DestroyingAll, NoneLost
  <2>7. Destroying'
    BY <1>4
    DEF DestroyAllCall, signals, buckets, locals, Destroying, BucketsTypeOK,
        ProgramTypeOK, HandlesLive
  <2>8. DestroyingAll' /\ NoneLost'
    BY <1>4
    DEF DestroyAllCall, signals, buckets, locals, DestroyingAll, NoneLost,
        BucketsTypeOK, ProgramTypeOK, Destroying, HandlesLive
  <2>9. AlarmInv' /\ SpoilsOnlyInDestroy' /\ KilledOnlyInUnload'
    BY <1>4
    DEF DestroyAllCall, signals, buckets, locals, AlarmInv, SpoilsOnlyInDestroy,
        KilledOnlyInUnload, Destroying
  <2> QED BY <2>1, <2>2, <2>3, <2>4, <2>5, <2>6, <2>7, <2>8, <2>9
<1>5. CASE Load
  <2>1. /\ pc \in {"signal", "arm"} /\ status = "up"
        /\ \/ pc' = "arm" /\ handler' = "bucket" /\ UNCHANGED <<inited, armed>>
           \/ pc' = "alloc" /\ armed' = TRUE /\ inited' = TRUE /\ UNCHANGED handler
        /\ UNCHANGED <<status, slot, token, par, td, n, ret, loaded, arg, all, handles>>
    BY <1>5 DEF Load, buckets, locals
  <2>2. SignalsTypeOK' /\ BucketsTypeOK' /\ ProgramTypeOK'
    BY <2>1 DEF SignalsTypeOK, BucketsTypeOK, ProgramTypeOK, Labels
  <2>3. CallArgs' /\ LiveBounded' /\ TakesWhatIsThere'
    BY <2>1 DEF CallArgs, LiveBounded, TakesWhatIsThere, FetchLabels
  <2>4. HandlesLive' /\ Destroying' /\ DestroyingAll' /\ NoneLost'
    BY <2>1 DEF HandlesLive, Destroying, DestroyingAll, NoneLost
  <2>5. AlarmInv' /\ SpoilsOnlyInDestroy' /\ KilledOnlyInUnload'
    <3>1. (pc = "signal" /\ pc' = "arm") \/ (pc = "arm" /\ pc' = "alloc")
      BY <1>5 DEF Load
    <3> QED BY <2>1, <3>1 DEF AlarmInv, SpoilsOnlyInDestroy, KilledOnlyInUnload
  <2> QED BY <2>2, <2>3, <2>4, <2>5
<1>6. CASE StoreBucket
  <2>1. SignalsTypeOK'
    BY <1>6
    DEF StoreBucket, Return, signals, buckets, locals, SignalsTypeOK
  <2>2. BucketsTypeOK'
    BY <1>6
    DEF StoreBucket, Return, signals, buckets, locals, BucketsTypeOK, ProgramTypeOK,
        CallArgs, FetchLabels, TakesWhatIsThere, Destroying
  <2>3. ProgramTypeOK'
    BY <1>6, Returned DEF StoreBucket
  <2>4. CallArgs' /\ LiveBounded'
    BY <1>6, Returned
    DEF StoreBucket, Return, signals, buckets, locals, CallArgs, LiveBounded,
        FetchLabels, BucketsTypeOK, ProgramTypeOK
  <2>5. TakesWhatIsThere'
    BY <1>6, Returned DEF StoreBucket
  <2>6. HandlesLive'
    BY <1>6
    DEF StoreBucket, Return, signals, buckets, locals, HandlesLive, BucketsTypeOK,
        ProgramTypeOK, Destroying, DestroyingAll, NoneLost
  <2>7. Destroying'
    BY <1>6
    DEF StoreBucket, Return, signals, buckets, locals, Destroying, BucketsTypeOK,
        ProgramTypeOK, HandlesLive
  <2>8. DestroyingAll' /\ NoneLost'
    BY <1>6
    DEF StoreBucket, Return, signals, buckets, locals, DestroyingAll, NoneLost,
        BucketsTypeOK, ProgramTypeOK, Destroying, HandlesLive
  <2>9. AlarmInv' /\ SpoilsOnlyInDestroy' /\ KilledOnlyInUnload'
    BY <1>6
    DEF StoreBucket, Return, signals, buckets, locals, AlarmInv, SpoilsOnlyInDestroy,
        KilledOnlyInUnload, Destroying
  <2> QED BY <2>1, <2>2, <2>3, <2>4, <2>5, <2>6, <2>7, <2>8, <2>9
<1>7. CASE InitFails
  <2>1. SignalsTypeOK'
    BY <1>7
    DEF InitFails, Return, signals, buckets, locals, SignalsTypeOK
  <2>2. BucketsTypeOK'
    BY <1>7
    DEF InitFails, Return, signals, buckets, locals, BucketsTypeOK, ProgramTypeOK,
        CallArgs, FetchLabels, TakesWhatIsThere, Destroying
  <2>3. ProgramTypeOK'
    BY <1>7, Returned DEF InitFails
  <2>4. CallArgs' /\ LiveBounded'
    BY <1>7, Returned
    DEF InitFails, Return, signals, buckets, locals, CallArgs, LiveBounded, FetchLabels,
        BucketsTypeOK, ProgramTypeOK
  <2>5. TakesWhatIsThere'
    BY <1>7, Returned DEF InitFails
  <2>6. HandlesLive'
    BY <1>7
    DEF InitFails, Return, signals, buckets, locals, HandlesLive, BucketsTypeOK,
        ProgramTypeOK, Destroying, DestroyingAll, NoneLost
  <2>7. Destroying'
    BY <1>7
    DEF InitFails, Return, signals, buckets, locals, Destroying, BucketsTypeOK,
        ProgramTypeOK, HandlesLive
  <2>8. DestroyingAll' /\ NoneLost'
    BY <1>7
    DEF InitFails, Return, signals, buckets, locals, DestroyingAll, NoneLost,
        BucketsTypeOK, ProgramTypeOK, Destroying, HandlesLive
  <2>9. AlarmInv' /\ SpoilsOnlyInDestroy' /\ KilledOnlyInUnload'
    BY <1>7
    DEF InitFails, Return, signals, buckets, locals, AlarmInv, SpoilsOnlyInDestroy,
        KilledOnlyInUnload, Destroying
  <2> QED BY <2>1, <2>2, <2>3, <2>4, <2>5, <2>6, <2>7, <2>8, <2>9
<1>8. CASE TestToken
  BY <1>8
  DEF TestToken, signals, buckets, locals, Labels, FetchLabels, SignalsTypeOK,
      BucketsTypeOK, ProgramTypeOK, CallArgs, LiveBounded, TakesWhatIsThere,
      HandlesLive, Destroying, DestroyingAll, NoneLost, AlarmInv, SpoilsOnlyInDestroy,
      KilledOnlyInUnload
<1>9. CASE Pause
  BY <1>9
  DEF Pause, signals, buckets, locals, Labels, FetchLabels, SignalsTypeOK,
      BucketsTypeOK, ProgramTypeOK, CallArgs, LiveBounded, TakesWhatIsThere,
      HandlesLive, Destroying, DestroyingAll, NoneLost, AlarmInv, SpoilsOnlyInDestroy,
      KilledOnlyInUnload
<1>10. CASE Compare
  BY <1>10
  DEF Compare, signals, buckets, locals, Labels, FetchLabels, SignalsTypeOK,
      BucketsTypeOK, ProgramTypeOK, CallArgs, LiveBounded, TakesWhatIsThere,
      HandlesLive, Destroying, DestroyingAll, NoneLost, AlarmInv, SpoilsOnlyInDestroy,
      KilledOnlyInUnload
<1>11. CASE GrantRest
  BY <1>11
  DEF GrantRest, signals, buckets, locals, Labels, FetchLabels, SignalsTypeOK,
      BucketsTypeOK, ProgramTypeOK, CallArgs, LiveBounded, TakesWhatIsThere,
      HandlesLive, Destroying, DestroyingAll, NoneLost, AlarmInv, SpoilsOnlyInDestroy,
      KilledOnlyInUnload
<1>12. CASE LoadToken
  <2>1. SignalsTypeOK'
    BY <1>12
    DEF LoadToken, signals, buckets, locals, SignalsTypeOK
  <2>2. BucketsTypeOK'
    BY <1>12
    DEF LoadToken, signals, buckets, locals, BucketsTypeOK, ProgramTypeOK, CallArgs,
        FetchLabels, TakesWhatIsThere, Destroying
  <2>3. ProgramTypeOK'
    BY <1>12
    DEF LoadToken, signals, buckets, locals, ProgramTypeOK, BucketsTypeOK, Labels,
        FetchLabels, CallArgs
  <2>4. CallArgs' /\ LiveBounded'
    BY <1>12
    DEF LoadToken, signals, buckets, locals, CallArgs, LiveBounded, FetchLabels,
        BucketsTypeOK, ProgramTypeOK
  <2>5. TakesWhatIsThere'
    BY <1>12
    DEF LoadToken, signals, buckets, locals, TakesWhatIsThere, BucketsTypeOK,
        ProgramTypeOK, FetchLabels, CallArgs, HandlesLive, LiveBounded
  <2>6. HandlesLive'
    BY <1>12
    DEF LoadToken, signals, buckets, locals, HandlesLive, BucketsTypeOK, ProgramTypeOK,
        Destroying, DestroyingAll, NoneLost
  <2>7. Destroying'
    BY <1>12
    DEF LoadToken, signals, buckets, locals, Destroying, BucketsTypeOK, ProgramTypeOK,
        HandlesLive
  <2>8. DestroyingAll' /\ NoneLost'
    BY <1>12
    DEF LoadToken, signals, buckets, locals, DestroyingAll, NoneLost, BucketsTypeOK,
        ProgramTypeOK, Destroying, HandlesLive
  <2>9. AlarmInv' /\ SpoilsOnlyInDestroy' /\ KilledOnlyInUnload'
    BY <1>12
    DEF LoadToken, signals, buckets, locals, AlarmInv, SpoilsOnlyInDestroy,
        KilledOnlyInUnload, Destroying
  <2> QED BY <2>1, <2>2, <2>3, <2>4, <2>5, <2>6, <2>7, <2>8, <2>9
<1>13. CASE StoreToken
  <2>1. SignalsTypeOK'
    BY <1>13
    DEF StoreToken, Return, signals, buckets, locals, SignalsTypeOK
  <2>2. BucketsTypeOK'
    BY <1>13
    DEF StoreToken, Return, signals, buckets, locals, BucketsTypeOK, ProgramTypeOK,
        CallArgs, FetchLabels, TakesWhatIsThere, Destroying
  <2>3. ProgramTypeOK'
    BY <1>13, Returned DEF StoreToken
  <2>4. CallArgs' /\ LiveBounded'
    <3>1. /\ td \in Slots /\ ret \in Nat /\ loaded \in Nat
          /\ 1 <= ret /\ ret <= loaded /\ loaded <= token[td]
      BY <1>13 DEF StoreToken, ProgramTypeOK, BucketsTypeOK, CallArgs, FetchLabels,
        TakesWhatIsThere
    <3>2. /\ token' = [token EXCEPT ![td] = loaded - ret]
          /\ UNCHANGED <<slot, par>>
      BY <1>13 DEF StoreToken
    <3>3. LiveBounded'
      BY <3>1, <3>2 DEF LiveBounded, BucketsTypeOK
    <3> QED BY <1>13, <3>3, Returned DEF StoreToken
  <2>5. TakesWhatIsThere'
    BY <1>13, Returned DEF StoreToken
  <2>6. HandlesLive'
    BY <1>13
    DEF StoreToken, Return, signals, buckets, locals, HandlesLive, BucketsTypeOK,
        ProgramTypeOK, Destroying, DestroyingAll, NoneLost
  <2>7. Destroying'
    BY <1>13
    DEF StoreToken, Return, signals, buckets, locals, Destroying, BucketsTypeOK,
        ProgramTypeOK, HandlesLive
  <2>8. DestroyingAll' /\ NoneLost'
    BY <1>13
    DEF StoreToken, Return, signals, buckets, locals, DestroyingAll, NoneLost,
        BucketsTypeOK, ProgramTypeOK, Destroying, HandlesLive
  <2>9. AlarmInv' /\ SpoilsOnlyInDestroy' /\ KilledOnlyInUnload'
    BY <1>13
    DEF StoreToken, Return, signals, buckets, locals, AlarmInv, SpoilsOnlyInDestroy,
        KilledOnlyInUnload, Destroying
  <2> QED BY <2>1, <2>2, <2>3, <2>4, <2>5, <2>6, <2>7, <2>8, <2>9
<1>14. CASE FreeBucket
  BY <1>14
  DEF FreeBucket, signals, buckets, locals, Labels, FetchLabels, SignalsTypeOK,
      BucketsTypeOK, ProgramTypeOK, CallArgs, LiveBounded, TakesWhatIsThere,
      HandlesLive, Destroying, DestroyingAll, NoneLost, AlarmInv, SpoilsOnlyInDestroy,
      KilledOnlyInUnload
<1>15. CASE NullSlot
  <2>1. /\ pc = "null" /\ status = "up" /\ td \in Slots /\ slot[td] = "freed" /\ td \notin handles
        /\ slot' = [slot EXCEPT ![td] = "null"]
        /\ UNCHANGED <<status, inited, handler, armed, token, par, handles>>
    BY <1>15 DEF NullSlot, signals, Destroying
  <2>2. /\ SignalsTypeOK' /\ BucketsTypeOK' /\ LiveBounded'
    BY <2>1 DEF SignalsTypeOK, BucketsTypeOK, LiveBounded
  <2>3. SpoilsOnlyInDestroy' /\ KilledOnlyInUnload'
    BY <2>1 DEF SpoilsOnlyInDestroy, KilledOnlyInUnload
  <2>4. CASE all
    <3>1. pc' = "scan" /\ td' = td + 1 /\ UNCHANGED <<n, ret, loaded, arg, all>>
      BY <1>15, <2>4 DEF NullSlot
    <3>2. ProgramTypeOK' /\ CallArgs' /\ TakesWhatIsThere'
      BY <2>1, <3>1 DEF ProgramTypeOK, Labels, FetchLabels, CallArgs, TakesWhatIsThere
    <3>3. HandlesLive' /\ Destroying' /\ DestroyingAll' /\ NoneLost'
      BY <2>1, <2>4, <3>1
      DEF ProgramTypeOK, BucketsTypeOK, HandlesLive, Destroying, DestroyingAll, NoneLost
    <3>4. AlarmInv'
      BY <2>1, <3>1 DEF AlarmInv
    <3> QED BY <2>2, <2>3, <3>2, <3>3, <3>4
  <2>5. CASE ~all
    <3>1. Return
      BY <1>15, <2>5 DEF NullSlot
    <3>2. ProgramTypeOK' /\ CallArgs' /\ TakesWhatIsThere' /\ pc' = "idle" /\ td' = 0 /\ ~all'
      BY <3>1, Returned DEF Return
    <3>3. HandlesLive' /\ Destroying' /\ DestroyingAll' /\ NoneLost'
      BY <2>1, <2>5, <3>2
      DEF BucketsTypeOK, HandlesLive, Destroying, DestroyingAll, NoneLost
    <3>4. AlarmInv'
      BY <2>1, <3>2 DEF AlarmInv
    <3> QED BY <2>2, <2>3, <3>2, <3>3, <3>4
  <2> QED BY <2>4, <2>5 DEF ProgramTypeOK
<1>16. CASE Unload
  BY <1>16
  DEF Unload, signals, buckets, locals, Labels, FetchLabels, SignalsTypeOK,
      BucketsTypeOK, ProgramTypeOK, CallArgs, LiveBounded, TakesWhatIsThere,
      HandlesLive, Destroying, DestroyingAll, NoneLost, AlarmInv, SpoilsOnlyInDestroy,
      KilledOnlyInUnload
<1>17. CASE Scan
  <2>1. /\ pc = "scan" /\ status = "up" /\ all /\ handles = {}
        /\ UNCHANGED <<status, inited, handler, armed, slot, token, par, handles>>
    BY <1>17 DEF Scan, signals, buckets, DestroyingAll
  <2>2. /\ SignalsTypeOK' /\ BucketsTypeOK' /\ LiveBounded'
    BY <2>1 DEF SignalsTypeOK, BucketsTypeOK, LiveBounded
  <2>3. /\ SpoilsOnlyInDestroy' /\ KilledOnlyInUnload'
        /\ armed' => handler' # "default"
    BY <2>1 DEF AlarmInv, SpoilsOnlyInDestroy, KilledOnlyInUnload
  <2>4. CASE td \notin Slots
    <3>1. Return
      BY <1>17, <2>4 DEF Scan
    <3>2. ProgramTypeOK' /\ CallArgs' /\ TakesWhatIsThere' /\ pc' = "idle" /\ td' = 0 /\ ~all'
      BY <3>1, Returned DEF Return
    <3>3. \A s \in Slots : slot[s] = "null"
      BY <2>1, <2>4 DEF ProgramTypeOK, DestroyingAll
    <3>4. HandlesLive' /\ Destroying' /\ DestroyingAll' /\ NoneLost'
      BY <2>1, <3>2, <3>3 DEF HandlesLive, Destroying, DestroyingAll, NoneLost
    <3> QED BY <2>2, <2>3, <3>2, <3>4 DEF AlarmInv
  <2>5. CASE td \in Slots
    <3>1. /\ UNCHANGED <<n, ret, loaded, arg, all>>
          /\ \/ slot[td] = "null" /\ pc' = "scan" /\ td' = td + 1
             \/ slot[td] # "null" /\ pc' = "free" /\ td' = td
      BY <1>17, <2>1, <2>5 DEF Scan
    <3>2. ProgramTypeOK'
      BY <2>5, <3>1 DEF ProgramTypeOK, Labels
    <3>3. CallArgs' /\ TakesWhatIsThere'
      BY <3>1 DEF CallArgs, TakesWhatIsThere, FetchLabels
    <3>4. slot[td] \in {"null", "live"}
      BY <2>1, <2>5 DEF BucketsTypeOK, Destroying
    <3>5. HandlesLive' /\ Destroying' /\ DestroyingAll' /\ NoneLost'
      BY <2>1, <2>5, <3>1, <3>4
      DEF ProgramTypeOK, BucketsTypeOK, HandlesLive, Destroying, DestroyingAll, NoneLost
    <3> QED BY <2>2, <2>3, <3>1, <3>2, <3>3, <3>5 DEF AlarmInv
  <2> QED BY <2>4, <2>5
<1>18. CASE Alarm
  <2>1. SignalsTypeOK'
    BY <1>18
    DEF Alarm, signals, buckets, locals, Filled, Least, SignalsTypeOK
  <2>2. BucketsTypeOK'
    <3>1. token' = [s \in Slots |-> IF slot[s] = "live" THEN Filled(s) ELSE token[s]]
      BY <1>18 DEF Alarm
    <3>2. \A s \in Slots : slot[s] = "live" => Filled(s) \in Nat
      BY DEF LiveBounded, BucketsTypeOK, Filled, Least
    <3>3. token' \in [Slots -> Nat]
      BY <3>1, <3>2 DEF BucketsTypeOK
    <3> QED BY <1>18, <3>3 DEF Alarm, BucketsTypeOK
  <2>3. ProgramTypeOK'
    BY <1>18
    DEF Alarm, signals, buckets, locals, Filled, Least, ProgramTypeOK, BucketsTypeOK,
        Labels, FetchLabels, CallArgs
  <2>4. CallArgs' /\ LiveBounded'
    BY <1>18
    DEF Alarm, signals, buckets, locals, Filled, Least, CallArgs, LiveBounded,
        FetchLabels, BucketsTypeOK, ProgramTypeOK
  <2>5. TakesWhatIsThere'
    BY <1>18
    DEF Alarm, signals, buckets, locals, Filled, Least, TakesWhatIsThere, BucketsTypeOK,
        ProgramTypeOK, FetchLabels, CallArgs, HandlesLive, LiveBounded
  <2>6. HandlesLive'
    BY <1>18
    DEF Alarm, signals, buckets, locals, Filled, Least, HandlesLive, BucketsTypeOK,
        ProgramTypeOK, Destroying, DestroyingAll, NoneLost
  <2>7. Destroying'
    BY <1>18
    DEF Alarm, signals, buckets, locals, Filled, Least, Destroying, BucketsTypeOK,
        ProgramTypeOK, HandlesLive
  <2>8. DestroyingAll' /\ NoneLost'
    BY <1>18
    DEF Alarm, signals, buckets, locals, Filled, Least, DestroyingAll, NoneLost,
        BucketsTypeOK, ProgramTypeOK, Destroying, HandlesLive
  <2>9. AlarmInv' /\ SpoilsOnlyInDestroy' /\ KilledOnlyInUnload'
    BY <1>18
    DEF Alarm, signals, buckets, locals, Filled, Least, AlarmInv, SpoilsOnlyInDestroy,
        KilledOnlyInUnload, Destroying
  <2> QED BY <2>1, <2>2, <2>3, <2>4, <2>5, <2>6, <2>7, <2>8, <2>9
<1>19. CASE AlarmSpoils
  BY <1>19
  DEF AlarmSpoils, signals, buckets, locals, Labels, FetchLabels, SignalsTypeOK,
      BucketsTypeOK, ProgramTypeOK, CallArgs, LiveBounded, TakesWhatIsThere,
      HandlesLive, Destroying, DestroyingAll, NoneLost, AlarmInv, SpoilsOnlyInDestroy,
      KilledOnlyInUnload
<1>20. CASE AlarmKills
  BY <1>20
  DEF AlarmKills, signals, buckets, locals, Labels, FetchLabels, SignalsTypeOK,
      BucketsTypeOK, ProgramTypeOK, CallArgs, LiveBounded, TakesWhatIsThere,
      HandlesLive, Destroying, DestroyingAll, NoneLost, AlarmInv, SpoilsOnlyInDestroy,
      KilledOnlyInUnload
<1>21. CASE UNCHANGED vars
  BY <1>21
  DEF vars, signals, buckets, locals, SignalsTypeOK, BucketsTypeOK, ProgramTypeOK,
      CallArgs, LiveBounded, TakesWhatIsThere, HandlesLive, Destroying, DestroyingAll,
      NoneLost, AlarmInv, SpoilsOnlyInDestroy, KilledOnlyInUnload
<1> QED
  BY <1>1, <1>2, <1>3, <1>4, <1>5, <1>6, <1>7, <1>8, <1>9, <1>10, <1>11, <1>12, <1>13,
     <1>14, <1>15, <1>16, <1>17, <1>18, <1>19, <1>20, <1>21
  DEF Next, Call, Step

LEMMA Invariant == Spec => []IInv
<1>1. IInv /\ UNCHANGED vars => IInv'
  BY InvStep
<1> QED BY InvInit, InvStep, PTL DEF Spec

-----------------------------------------------------------------------------
(* Theorems.                                                               *)

\* No bucket ever holds a negative number of tokens, and no index leaves jobs[],
\* wherever the handler interrupts the program.
THEOREM TypeCorrect == Spec => []TypeOK
<1>1. IInv => TypeOK
  BY DEF IInv
<1> QED BY <1>1, Invariant, PTL

\* The four reads of jobs[td]->token in lines 110-116 may see four different
\* numbers; a fetch still takes at least one token and none that is not there.
THEOREM TakesOnlyWhatIsThere == Spec => []TakesWhatIsThere
<1>1. IInv => TakesWhatIsThere
  BY DEF IInv
<1> QED BY <1>1, Invariant, PTL

\* No descriptor in the program's hands is dead, and no bucket is leaked.
THEOREM DescriptorsLive == Spec => []HandlesLive
<1>1. IInv => HandlesLive
  BY DEF IInv
<1> QED BY <1>1, Invariant, PTL

\* The handler damages freed memory only while the program is between the two
\* statements of tbf_destroy().
THEOREM SpoilsInDestroy == Spec => []SpoilsOnlyInDestroy
<1>1. IInv => SpoilsOnlyInDestroy
  BY DEF IInv
<1> QED BY <1>1, Invariant, PTL

\* SIGALRM terminates the process only while the program is between the two
\* statements of sig_moduler_unload().
THEOREM KilledInUnload == Spec => []KilledOnlyInUnload
<1>1. IInv => KilledOnlyInUnload
  BY DEF IInv
<1> QED BY <1>1, Invariant, PTL

-----------------------------------------------------------------------------
(* Refinement.                                                             *)

Live == {s \in Slots : slot[s] = "live"}

LEMMA BucketsInit == Init => SB!Init
BY DEF Init, SB!Init, NoPar

\* Each kind of abstract step is a step.
LEMMA AbstractStep ==
  ASSUME NEW s \in Slots
  PROVE  /\ \A p \in Params : SB!Create(s, p) => SB!Next
         /\ \A k \in 1 .. token[s] : SB!Draw(s, k) => SB!Next
         /\ SB!Remove(s) => SB!Next
BY Zenon DEF SB!Next

LEMMA BucketsStep == IInv /\ IInv' /\ [Next]_vars => [SB!Next]_(SB!bVars)
<1> SUFFICES ASSUME IInv, IInv', [Next]_vars
             PROVE  SB!Next \/ UNCHANGED <<Live, token, par>>
  BY DEF SB!bVars, Live
<1> USE DEF IInv, TypeOK, BucketsTypeOK, ProgramTypeOK, At
<1>1. CASE StoreBucket
  <2>1. PICK s \in Slots :
          /\ slot[s] = "null"
          /\ slot' = [slot EXCEPT ![s] = "live"]
          /\ token' = [token EXCEPT ![s] = 0]
          /\ par' = [par EXCEPT ![s] = arg]
    BY <1>1 DEF StoreBucket
  <2>2. PICK p \in Params : p = arg
    BY <1>1 DEF StoreBucket, CallArgs
  <2>3. Live' = Live \cup {s} /\ s \notin Live
    BY <2>1 DEF Live
  <2>4. SB!Create(s, p)
    BY <2>1, <2>2, <2>3 DEF SB!Create, Live
  <2> QED BY <2>4, AbstractStep
<1>2. CASE StoreToken
  <2>1. PICK s \in Slots : s = td
    BY <1>2 DEF StoreToken, CallArgs, FetchLabels
  <2>2. PICK k \in 1 .. token[s] : k = token[s] - (loaded - ret)
    BY <1>2, <2>1 DEF StoreToken, TakesWhatIsThere
  <2>3. token' = [token EXCEPT ![s] = @ - k] /\ slot' = slot /\ par' = par
    <3>1. token[s] \in Nat /\ loaded \in Nat /\ ret \in Nat
      BY <2>1
    <3>2. token[s] - k = loaded - ret
      BY <2>2, <3>1
    <3> QED BY <1>2, <2>1, <3>2 DEF StoreToken
  <2>4. slot[s] = "live"
    BY <1>2, <2>1 DEF StoreToken, CallArgs, FetchLabels, HandlesLive
  <2>5. SB!Draw(s, k)
    BY <2>2, <2>3, <2>4 DEF SB!Draw
  <2> QED BY <2>2, <2>5, AbstractStep
<1>3. CASE FreeBucket
  <2>1. PICK s \in Slots : s = td /\ slot[s] = "live"
    BY <1>3 DEF FreeBucket, Destroying
  <2>2. /\ slot' = [slot EXCEPT ![s] = "freed"]
        /\ token' = [token EXCEPT ![s] = 0]
        /\ par' = par
    BY <1>3, <2>1 DEF FreeBucket
  <2>3. Live' = Live \ {s} /\ s \in Live
    BY <2>1, <2>2 DEF Live
  <2>4. SB!Remove(s)
    BY <2>2, <2>3 DEF SB!Remove, Live
  <2> QED BY <2>4, AbstractStep
<1>4. CASE NullSlot
  <2>1. Live' = Live
    BY <1>4 DEF NullSlot, Destroying, Live
  <2> QED BY <1>4, <2>1 DEF NullSlot
<1>5. CASE Alarm
  <2>1. /\ token' = [s \in Slots |-> IF s \in Live THEN Filled(s) ELSE token[s]]
        /\ slot' = slot /\ par' = par
    BY <1>5 DEF Alarm, Live
  <2>2. SB!Refill(Live)
    BY <2>1 DEF SB!Refill, SB!Least, Filled, Least, Live
  <2> QED BY <2>2 DEF SB!Next, Live
<1>6. CASE InitCall \/ FetchCall \/ DestroyCall \/ DestroyAllCall \/ Load \/ InitFails
  BY <1>6 DEF InitCall, FetchCall, DestroyCall, DestroyAllCall, Load, InitFails, buckets,
    Live
<1>7. CASE TestToken \/ Pause \/ Compare \/ GrantRest \/ LoadToken
  BY <1>7 DEF TestToken, Pause, Compare, GrantRest, LoadToken, buckets, Live
<1>8. CASE Unload \/ Scan \/ AlarmSpoils \/ AlarmKills
  BY <1>8 DEF Unload, Scan, AlarmSpoils, AlarmKills, buckets, Live
<1>9. CASE UNCHANGED vars
  BY <1>9 DEF vars, buckets, Live
<1> QED
  BY <1>1, <1>2, <1>3, <1>4, <1>5, <1>6, <1>7, <1>8, <1>9 DEF Next, Call, Step

\* The library implements the abstract token buckets although its handler
\* interrupts the subtraction of line 116: what gets lost is as if given out.
THEOREM LibraryImplementsBuckets == Spec => BucketsSpec
<1>1. Init => SB!Init
  BY BucketsInit
<1>2. IInv /\ IInv' /\ [Next]_vars => [SB!Next]_(SB!bVars)
  BY BucketsStep
<1> QED BY <1>1, <1>2, Invariant, PTL DEF Spec, BucketsSpec, SB!Spec
=============================================================================
