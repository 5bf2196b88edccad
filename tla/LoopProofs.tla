---------------------------- MODULE LoopProofs ------------------------------
(***************************************************************************)
(* Proofs about the two loops that keep a client going against a server    *)
(* that is slow or has restarted: RetryCaller for every configuration a    *)
(* user may write; and LeaseManager for every lease period, default,       *)
(* round-trip bound with the headroom that the interval leaves, and number *)
(* of faults.  The two share no state.                                     *)
(***************************************************************************)
EXTENDS RetryCaller, LeaseManager, TLAPS

-----------------------------------------------------------------------------
(* RetryCaller *)

\* Where the loop stands: the attempts made are the sleeps done, and a sleep is
\* entered only when another attempt is left.
LoopInv ==
    /\ attempt = slept.count
    /\ pc \in {"top", "call"} => calls = attempt
    /\ pc = "sleep" => calls = attempt + 1 /\ attempt < cfg.MaxAttempts - 1
    /\ calls <= cfg.MaxAttempts
    /\ delay = cfg.Initial \/ delay <= cfg.Max
    /\ slept.count > 0 => slept.last = cfg.Initial \/ slept.last <= cfg.Max
    /\ slept.count > 0 /\ slept.last <= cfg.Max => delay >= slept.last

\* The outcome of the last attempt decides what is returned.
ReturnInv ==
    /\ pc = "returned" <=> ret # "none"
    /\ pc = "sleep" => last \in {"retryStatus", "retryErr"}
    /\ pc \in {"top", "call"} => last \in {"none", "retryStatus", "retryErr"}
    /\ pc \in {"top", "call"} /\ calls > 0 => last # "none"
    /\ NoSilentDelay

\* A context that has ended is noticed at the head of the loop.
DoneInv ==
    /\ pc = "call" => tooLate = 0
    /\ ctx = "live" => tooLate = 0
    /\ tooLate <= 1

RetryIInv == RetryTypeOK /\ LoopInv /\ ReturnInv /\ DoneInv

\* withDefaults makes every field positive, whatever the user wrote.
LEMMA DefaultsApply ==
    ASSUME NEW u \in [Initial : Durations, Max : Durations, MaxAttempts : Attempts]
    PROVE  withDefaults(u) \in Configs
  <1>1. u.Initial \in Int /\ u.Max \in Int /\ u.MaxAttempts \in Int
    BY ConfigInts
  <1> QED  BY <1>1, DefaultsPositive DEF withDefaults, Configs

\* The first state of CallCompound satisfies the inductive invariant.
LEMMA RetryInitIInv == RetryInit => RetryIInv
  <1> SUFFICES ASSUME RetryInit
               PROVE  RetryIInv
    OBVIOUS
  <1>1. cfg \in Configs
    BY DefaultsApply DEF RetryInit
  <1>2. RetryTypeOK
    BY <1>1 DEF RetryInit, RetryTypeOK, Configs
  <1>3. LoopInv /\ ReturnInv /\ DoneInv
    BY <1>1 DEF RetryInit, Configs, LoopInv, ReturnInv, NoSilentDelay, DoneInv
  <1> QED  BY <1>2, <1>3 DEF RetryIInv

\* Every step of the loop preserves the inductive invariant.
LEMMA RetryStepIInv == RetryIInv /\ [RetryNext]_retryVars => RetryIInv'
  <1> SUFFICES ASSUME RetryIInv, [RetryNext]_retryVars
               PROVE  RetryIInv'
    OBVIOUS
  <1> USE DEF RetryIInv, RetryTypeOK, LoopInv, ReturnInv, NoSilentDelay, DoneInv, Configs
  <1>1. CASE ContextEnds
    BY <1>1 DEF ContextEnds
  <1>2. CASE Top
    BY <1>2 DEF Top, Returns, Outcomes
  <1>3. ASSUME NEW o \in Outcomes, CallBase(o)
        PROVE  RetryIInv'
    <2>1. RetryTypeOK' /\ LoopInv'
      BY <1>3 DEF CallBase, Returns, Exhausted, retriable, Outcomes
    <2>2. ReturnInv'
      BY <1>3 DEF CallBase, Returns, Exhausted, retriable, Outcomes
    <2>3. DoneInv'
      BY <1>3 DEF CallBase, Returns
    <2> QED  BY <2>1, <2>2, <2>3
  <1>4. CASE Sleep
    BY <1>4 DEF Sleep, Doubled
  <1>5. CASE SleepCut
    BY <1>5 DEF SleepCut, Returns
  <1>6. CASE UNCHANGED retryVars
    BY <1>6 DEF retryVars
  <1> QED  BY <1>1, <1>2, <1>3, <1>4, <1>5, <1>6 DEF RetryNext

\* Every reachable state satisfies the inductive invariant.
THEOREM RetryInvariance == RetrySpec => []RetryIInv
  BY RetryInitIInv, RetryStepIInv, PTL DEF RetrySpec

\* The configuration in force is positive and the loop variables keep their types.
THEOREM RetryTypeCorrect == RetrySpec => []RetryTypeOK
  <1>1. RetryIInv => RetryTypeOK
    BY DEF RetryIInv
  <1> QED  BY RetryInvariance, <1>1, PTL

\* At most MaxAttempts base calls, with a sleep between any two and none after
\* the last, for every configuration.
THEOREM RetriesBounded == RetrySpec => []AttemptsBounded
  <1>1. RetryIInv => AttemptsBounded
    BY DEF RetryIInv, RetryTypeOK, Configs, LoopInv, AttemptsBounded
  <1> QED  BY RetryInvariance, <1>1, PTL

\* No sleep is longer than the longer of Initial and Max.
THEOREM SleepsBounded == RetrySpec => []BackoffBounded
  <1>1. RetryIInv => BackoffBounded
    BY DEF RetryIInv, LoopInv, BackoffBounded
  <1> QED  BY RetryInvariance, <1>1, PTL

\* A compound that the server put off to the end is never returned as a success.
THEOREM DelaySurfaces == RetrySpec => []NoSilentDelay
  <1>1. RetryIInv => NoSilentDelay
    BY DEF RetryIInv, ReturnInv
  <1> QED  BY RetryInvariance, <1>1, PTL

\* At most one base call begins after the context has ended.
THEOREM ContextIsHonored == RetrySpec => []StopsWhenDone
  <1>1. RetryIInv => StopsWhenDone
    BY DEF RetryIInv, DoneInv, StopsWhenDone
  <1> QED  BY RetryInvariance, <1>1, PTL

\* Delays within Max never shrink.
THEOREM DelaysGrow == RetrySpec => BackoffGrows
  <1>1. RetryIInv /\ [RetryNext]_retryVars =>
           [slept'.count > slept.count /\ slept.count > 0 /\ slept.last <= cfg.Max
               => slept'.last >= slept.last]_retryVars
    BY DEF RetryIInv, RetryTypeOK, LoopInv, RetryNext, ContextEnds, Top, CallBase, Returns, Sleep,
           SleepCut, retryVars
  <1> QED  BY RetryInvariance, <1>1, PTL DEF RetrySpec, BackoffGrows

\* A second base call follows only an answer of DELAY or GRACE.
THEOREM ResendsOnlyRetriable == RetrySpec => OnlyRetriableResent
  <1>1. RetryIInv /\ [RetryNext]_retryVars =>
           [calls' > calls /\ calls > 0 => last \in {"retryStatus", "retryErr"}]_retryVars
    BY DEF RetryIInv, RetryTypeOK, LoopInv, ReturnInv, RetryNext, ContextEnds, Top, CallBase, Returns,
           Sleep, SleepCut, retryVars
  <1> QED  BY RetryInvariance, <1>1, PTL DEF RetrySpec, OnlyRetriableResent

-----------------------------------------------------------------------------
(* LeaseManager *)

(***************************************************************************)
(* Why the lease is kept, as long as nothing goes wrong: while the timer   *)
(* runs, the age when it fires will be at most the interval plus the rest  *)
(* of the RENEW before; while a RENEW is on its way the age grows with it; *)
(* and once it has arrived the age is less than the RENEW has taken.       *)
(***************************************************************************)
Timing ==
    faults = 0 =>
        /\ at # "recover" /\ ~hung /\ answer \in {"none", "ok"}
        /\ at = "select" => age + timer <= renewInterval + MaxRTT
        /\ at = "renew" /\ answer = "none" => age <= renewInterval + MaxRTT + busy
        /\ at = "renew" /\ answer = "ok" => age <= busy

\* A call in progress is the only thing that has an age and an answer.
AtRest == ~Calling => answer = "none" /\ busy = 0

(***************************************************************************)
(* Why one RENEW at most follows Stop: after it, or once Stop has waited,  *)
(* the loop never sits in its select with a timer that has fired.          *)
(***************************************************************************)
Stopping ==
    /\ late <= 1
    /\ stopper # "idle" => stopCh
    /\ late > 0 \/ stopper = "returned" \/ waited > 0
          => stopCh /\ (at = "select" => timer > 0)

IInv == TypeOK /\ Timing /\ AtRest /\ Stopping

\* The period in force is positive and the interval is a positive number of ticks.
LEMMA Positive == Lease \in Nat \ {0} /\ renewInterval \in Nat \ {0}
<1>1. Lease \in Nat \ {0}
  BY LeasePeriodInt, DefaultLeaseNat DEF Lease
<1>2. renewInterval \in Int
  BY <1>1 DEF renewInterval
<1> QED
  BY <1>1, <1>2, Headroom

\* The invariant holds before Start.
LEMMA InitIInv == Init => IInv
<1> USE Positive, MaxRTTNat, BoundsNat
<1> SUFFICES ASSUME Init PROVE IInv
  OBVIOUS
<1>1. TypeOK
  <2>1. Tracked = {}
    BY DEF Init, Tracked
  <2>2. /\ 0 \in 0 .. renewInterval /\ 0 \in 0 .. MaxRTT /\ 0 \in 0 .. Expired
        /\ 0 \in 0 .. StopWait /\ 0 \in 0 .. MaxFaults /\ 0 \in 0 .. MaxHandles
    BY DEF Expired
  <2> QED
    BY <2>1, <2>2 DEF Init, TypeOK
<1> QED
  BY <1>1 DEF Init, IInv, Timing, AtRest, Stopping, Calling

\* Every step keeps the types: the timer and the age stay within their ranges.
LEMMA TypeStep == ASSUME IInv, [Next]_vars PROVE TypeOK'
<1> USE Positive, MaxRTTNat, BoundsNat
<1>1. CASE Start
  BY <1>1 DEF IInv, TypeOK, Start, stopVars, tableVars, Tracked, Expired
<1>2. CASE Fire
  BY <1>2 DEF IInv, TypeOK, Fire, stopVars, tableVars, Tracked, Expired
<1>3. CASE Exit
  BY <1>3 DEF IInv, TypeOK, Exit, stopVars, tableVars, Tracked, Expired
<1>4. CASE Return
  BY <1>4 DEF IInv, TypeOK, Return, stopVars, tableVars, Tracked, Expired
<1>5. CASE Arrive
  BY <1>5 DEF IInv, TypeOK, Arrive, stopVars, tableVars, Tracked, Expired
<1>6. CASE Restart
  BY <1>6 DEF IInv, TypeOK, Restart, Fault, stopVars, tableVars, Tracked, Expired
<1>7. CASE CallFails
  BY <1>7 DEF IInv, TypeOK, CallFails, Fault, stopVars, tableVars, Tracked, Expired
<1>8. CASE Hang
  BY <1>8 DEF IInv, TypeOK, Hang, Fault, stopVars, tableVars, Tracked, Expired
<1>9. CASE Tick
  <2>1. age' \in 0 .. Expired /\ timer' \in 0 .. renewInterval
    BY <1>9 DEF IInv, TypeOK, Tick, Least, Expired
  <2>2. busy' \in 0 .. MaxRTT /\ waited' \in 0 .. StopWait
    BY <1>9 DEF IInv, TypeOK, Tick, Least
  <2> QED
    BY <1>9, <2>1, <2>2 DEF IInv, TypeOK, Tick, tableVars, Tracked
<1>10. CASE Stop
  BY <1>10 DEF IInv, TypeOK, Stop, loopVars, tableVars, Tracked, Expired
<1>11. CASE StopReturns
  BY <1>11 DEF IInv, TypeOK, StopReturns, loopVars, tableVars, Tracked, Expired
<1>12. CASE Table
  <2> DEFINE TableOK == /\ Tracked' \subseteq 1 .. nextH'
                        /\ \A h \in Tracked' : stateids'[h] \in Stateids
                        /\ nextH' \in 0 .. MaxHandles
  <2>1. UNCHANGED <<loopVars, stopVars>>
    BY <1>12 DEF Table, TrackStateid, ReissueStateid, ForgetStateid
  <2>2. ASSUME NEW sid \in Stateids, TrackStateid(sid) PROVE TableOK
    BY <2>2 DEF IInv, TypeOK, TrackStateid, Tracked
  <2>3. ASSUME NEW h, NEW sid \in Stateids, ReissueStateid(h, sid) PROVE TableOK
    BY <2>3 DEF IInv, TypeOK, ReissueStateid, Tracked
  <2>4. ASSUME NEW h, ForgetStateid(h) PROVE TableOK
    BY <2>4 DEF IInv, TypeOK, ForgetStateid, Tracked
  <2>5. TableOK
    BY <1>12, <2>2, <2>3, <2>4 DEF Table
  <2> QED
    BY <2>1, <2>5 DEF IInv, TypeOK, loopVars, stopVars, Expired
<1>13. CASE UNCHANGED vars
  BY <1>13 DEF IInv, TypeOK, vars, loopVars, stopVars, tableVars, Tracked, Expired
<1> QED
  BY <1>1, <1>2, <1>3, <1>4, <1>5, <1>6, <1>7, <1>8, <1>9, <1>10, <1>11, <1>12, <1>13
  DEF Next

\* Every step keeps the bounds on the age.
LEMMA TimingStep == ASSUME IInv, [Next]_vars PROVE Timing' /\ AtRest'
<1> USE Positive, MaxRTTNat, BoundsNat
<1>1. CASE Start
  BY <1>1 DEF IInv, TypeOK, Timing, AtRest, Calling, Start
<1>2. CASE Fire
  BY <1>2 DEF IInv, TypeOK, Timing, AtRest, Calling, Fire
<1>3. CASE Exit
  BY <1>3 DEF IInv, TypeOK, Timing, AtRest, Calling, Exit
<1>4. CASE Return
  BY <1>4 DEF IInv, TypeOK, Timing, AtRest, Calling, Return, isClientStateLost
<1>5. CASE Arrive
  BY <1>5, Headroom DEF IInv, TypeOK, Timing, AtRest, Calling, Arrive, Lost, Expired
<1>6. CASE Restart \/ CallFails \/ Hang
  BY <1>6 DEF IInv, TypeOK, Timing, AtRest, Calling, Restart, CallFails, Hang, Fault
<1>7. CASE Tick
  BY <1>7 DEF IInv, TypeOK, Timing, AtRest, Calling, Tick, Least, Expired
<1>8. CASE Stop \/ StopReturns \/ Table
  <2>1. UNCHANGED loopVars
    BY <1>8 DEF Stop, StopReturns, Table, TrackStateid, ReissueStateid, ForgetStateid
  <2> QED
    BY <2>1 DEF IInv, Timing, AtRest, Calling, loopVars
<1>9. CASE UNCHANGED vars
  BY <1>9 DEF IInv, Timing, AtRest, Calling, vars, loopVars
<1> QED
  BY <1>1, <1>2, <1>3, <1>4, <1>5, <1>6, <1>7, <1>8, <1>9 DEF Next

\* Every step keeps what is known of a loop that is being stopped.
LEMMA StoppingStep == ASSUME IInv, [Next]_vars PROVE Stopping'
<1> USE Positive, BoundsNat
<1>1. CASE Start \/ Exit \/ Return
  BY <1>1 DEF IInv, TypeOK, Stopping, Start, Exit, Return, stopVars
<1>2. CASE Fire
  BY <1>2 DEF IInv, TypeOK, Stopping, Fire, stopVars
<1>3. CASE Arrive \/ Restart \/ CallFails \/ Hang
  BY <1>3 DEF IInv, Stopping, Arrive, Restart, CallFails, Hang, Fault, stopVars
<1>4. CASE Tick
  BY <1>4 DEF IInv, TypeOK, Stopping, Tick
<1>5. CASE Stop \/ StopReturns
  BY <1>5 DEF IInv, TypeOK, Stopping, Stop, StopReturns, loopVars
<1>6. CASE Table
  BY <1>6 DEF IInv, Stopping, Table, TrackStateid, ReissueStateid, ForgetStateid,
              loopVars, stopVars
<1>7. CASE UNCHANGED vars
  BY <1>7 DEF IInv, Stopping, vars, loopVars, stopVars
<1> QED
  BY <1>1, <1>2, <1>3, <1>4, <1>5, <1>6, <1>7 DEF Next

\* The inductive invariant holds in every reachable state of the lease manager.
THEOREM Invariance == Spec => []IInv
<1>1. IInv /\ [Next]_vars => IInv'
  BY TypeStep, TimingStep, StoppingStep DEF IInv
<1> QED
  BY InitIInv, <1>1, PTL DEF Spec

\* NewLeaseManager, the loop, Stop and the stateid table keep their types.
THEOREM TypeCorrect == Spec => []TypeOK
<1>1. IInv => TypeOK
  BY DEF IInv
<1> QED
  BY Invariance, <1>1, PTL

\* The loop keeps the lease as long as no RENEW fails and each takes at most half
\* of the third of the period that renewInterval leaves.
THEOREM LeaseIsKept == Spec => []LeaseKept
<1>1. IInv => LeaseKept
  BY Positive, Headroom, MaxRTTNat
  DEF IInv, TypeOK, Timing, AtRest, Calling, LeaseKept, Lost, Expired
<1> QED
  BY Invariance, <1>1, PTL

\* At most one RENEW begins after Stop has closed stopCh.
THEOREM OneRenewAfterStop == Spec => []OneAfterStop
<1>1. IInv => OneAfterStop
  BY DEF IInv, Stopping, OneAfterStop
<1> QED
  BY Invariance, <1>1, PTL

\* No RENEW begins after Stop has returned.
THEOREM StopIsQuiet == Spec => QuietAfterStop
<1>1. IInv /\ [Next]_vars =>
        [stopper = "returned" => ~(at = "select" /\ at' = "renew")]_vars
  <2> SUFFICES ASSUME IInv, Next, stopper = "returned", at = "select", at' = "renew"
               PROVE FALSE
    OBVIOUS
  <2>1. timer > 0
    BY DEF IInv, Stopping
  <2>2. Fire
    BY DEF Next, Start, Exit, Return, Calling, Arrive, Restart, CallFails, Hang, Fault, Tick,
           Stop, StopReturns, Table, TrackStateid, ReissueStateid, ForgetStateid, loopVars
  <2> QED
    BY <2>1, <2>2 DEF Fire, IInv, TypeOK
<1> QED
  BY Invariance, <1>1, PTL DEF Spec, QuietAfterStop

\* ReissueStateid never brings back a stateid that ForgetStateid removed.
THEOREM ForgottenForGood == Spec => ForgottenStays
<1>1. IInv /\ [Next]_vars =>
        [\A h \in 1 .. nextH : h \notin Tracked => h \notin DOMAIN stateids']_vars
  <2> SUFFICES ASSUME IInv, Next, NEW h \in 1 .. nextH, h \notin Tracked
               PROVE h \notin DOMAIN stateids'
    OBVIOUS
  <2>1. CASE Table
    <3>1. ASSUME NEW sid \in Stateids, TrackStateid(sid) PROVE h \notin DOMAIN stateids'
      <4>1. nextH' = nextH + 1 /\ nextH \in Nat
        BY <3>1, BoundsNat DEF IInv, TypeOK, TrackStateid
      <4>2. h # nextH'
        BY <4>1
      <4>3. DOMAIN stateids' = Tracked \cup {nextH'}
        BY <3>1 DEF TrackStateid
      <4> QED
        BY <4>2, <4>3
    <3>2. ASSUME NEW g, NEW sid \in Stateids, ReissueStateid(g, sid) PROVE h \notin DOMAIN stateids'
      BY <3>2 DEF ReissueStateid, Tracked
    <3>3. ASSUME NEW g, ForgetStateid(g) PROVE h \notin DOMAIN stateids'
      BY <3>3 DEF ForgetStateid
    <3> QED
      BY <2>1, <3>1, <3>2, <3>3 DEF Table
  <2>2. CASE ~Table
    BY <2>2 DEF Next, Start, Fire, Exit, Return, Arrive, Restart, CallFails, Hang, Fault, Tick,
                Stop, StopReturns, tableVars, Tracked
  <2> QED
    BY <2>1, <2>2
<1> QED
  BY Invariance, <1>1, PTL DEF Spec, ForgottenStays
=============================================================================
