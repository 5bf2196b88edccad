---------------------------- MODULE LeaseManager ----------------------------
(***************************************************************************)
(* LeaseManager (client/lease.go): the background loop that keeps the      *)
(* client's lease at the server alive, Stop, and the table of stateids.    *)
(*                                                                         *)
(* Time is a number of ticks.  Local steps take no time; a RENEW, and a    *)
(* Recover, take up to MaxRTT ticks unless the server hangs.  The server   *)
(* (external) renews the lease when the RENEW arrives, at any moment of    *)
(* the call, and drops the client's state once the lease has run out.      *)
(***************************************************************************)
EXTENDS Integers

CONSTANTS
    LeasePeriod,    \* LeaseConfig.LeasePeriod
    DefaultLease,   \* 90 s in the code
    MaxRTT,         \* the longest RENEW, Recover, or delay before Start
    StopWait,       \* Stop waits this long for the loop, 1 s in the code
    MaxFaults,      \* bound: restarts, transport errors, hangs, failed recoveries
    MaxHandles,     \* bound: TrackStateid calls
    Stateids,
    LossReports     \* the statuses with which the server reports lost state

ASSUME LeasePeriodInt == LeasePeriod \in Int
ASSUME DefaultLeaseNat == DefaultLease \in Nat \ {0}
ASSUME MaxRTTNat == MaxRTT \in Nat
ASSUME BoundsNat == StopWait \in Nat \ {0} /\ MaxFaults \in Nat /\ MaxHandles \in Nat
ASSUME LossReportsStatuses ==
    LossReports \subseteq {"STALE_CLIENTID", "STALE_STATEID", "BAD_STATEID", "EXPIRED",
                           "BADSESSION"}

\* NewLeaseManager replaces a period that is not positive.
Lease == IF LeasePeriod <= 0 THEN DefaultLease ELSE LeasePeriod

renewInterval == (Lease * 2) \div 3

\* The headroom that the remaining third has to leave.
ASSUME Headroom == renewInterval > 0 /\ renewInterval + 2 * MaxRTT <= Lease

VARIABLES
    at,       \* the loop: "off", "select", "renew", "recover" or "exited"
    timer,    \* ticks until lm.clock.After fires
    busy,     \* ticks since the current RENEW or Recover began
    answer,   \* its outcome, "none" while the server has not acted on it
    age,      \* ticks since the lease was renewed; Lease + 1: it has run out
    stopCh,   \* stopCh is closed
    stopper,  \* a caller of Stop: "idle", "waiting" or "returned"
    waited,   \* ticks it has waited for doneCh
    late,     \* RENEWs that began after stopCh was closed
    faults,   \* faults so far
    hung,     \* the server hangs: the call in progress never returns
    stateids, \* LeaseManager.stateids
    nextH     \* LeaseManager.nextH

loopVars == <<at, timer, busy, answer, age, late, faults, hung>>
stopVars == <<stopCh, stopper, waited>>
tableVars == <<stateids, nextH>>
vars == <<loopVars, stopVars, tableVars>>

Expired == Lease + 1
Lost == age = Expired
Calling == at \in {"renew", "recover"}

BugIsClientStateLost(status) == status \in {"STALE_CLIENTID", "STALE_STATEID", "BAD_STATEID"}

isClientStateLost(status) ==
    status \in {"STALE_CLIENTID", "STALE_STATEID", "BAD_STATEID", "EXPIRED"}

Init ==
    /\ at = "off"
    /\ timer = 0 /\ busy = 0 /\ answer = "none" /\ age = 0
    /\ stopCh = FALSE /\ stopper = "idle" /\ waited = 0
    /\ late = 0 /\ faults = 0 /\ hung = FALSE
    /\ stateids = [h \in {} |-> {}] /\ nextH = 0
-----------------------------------------------------------------------------
\* The user starts the loop, within MaxRTT of the Mount that began the lease.
Start ==
    /\ at = "off" /\ age <= MaxRTT
    /\ at' = "select"
    /\ timer' = renewInterval
    /\ UNCHANGED <<busy, answer, age, late, faults, hung, stopVars, tableVars>>

\* case <-lm.clock.After(...): Renew is called.
Fire ==
    /\ at = "select" /\ timer = 0
    /\ at' = "renew"
    /\ late' = IF stopCh THEN late + 1 ELSE late
    /\ UNCHANGED <<timer, busy, answer, age, faults, hung, stopVars, tableVars>>

\* case <-lm.stopCh: the loop returns and closes doneCh.
Exit ==
    /\ at = "select" /\ stopCh
    /\ at' = "exited"
    /\ UNCHANGED <<timer, busy, answer, age, late, faults, hung, stopVars, tableVars>>

BugReturnTimerFired ==
    /\ Calling /\ answer # "none"
    /\ at' = IF at = "renew" /\ isClientStateLost(answer) THEN "recover" ELSE "select"
    /\ timer' = 0
    /\ busy' = 0 /\ answer' = "none"
    /\ UNCHANGED <<age, late, faults, hung, stopVars, tableVars>>

BugReturnFullPeriod ==
    /\ Calling /\ answer # "none"
    /\ at' = IF at = "renew" /\ isClientStateLost(answer) THEN "recover" ELSE "select"
    /\ timer' = IF at' = "select" THEN Lease ELSE 0
    /\ busy' = 0 /\ answer' = "none"
    /\ UNCHANGED <<age, late, faults, hung, stopVars, tableVars>>

BugReturnNoSelect ==
    /\ Calling /\ answer # "none"
    /\ at' = IF at = "renew" /\ isClientStateLost(answer) THEN "recover" ELSE "renew"
    /\ busy' = 0 /\ answer' = "none"
    /\ UNCHANGED <<timer, age, late, faults, hung, stopVars, tableVars>>

\* Renew or Recover returns.  Only a Renew that reports lost state is acted on;
\* any other error is dropped and the loop starts a new timer.
Return ==
    /\ Calling /\ answer # "none"
    /\ at' = IF at = "renew" /\ isClientStateLost(answer) THEN "recover" ELSE "select"
    /\ timer' = IF at' = "select" THEN renewInterval ELSE 0
    /\ busy' = 0 /\ answer' = "none"
    /\ UNCHANGED <<age, late, faults, hung, stopVars, tableVars>>
-----------------------------------------------------------------------------
\* The server takes the RENEW, or the mount that Recover makes.
Arrive ==
    /\ Calling /\ answer = "none" /\ ~hung
    /\ \/ (Lost => at = "recover") /\ age' = 0 /\ answer' = "ok"
       \/ Lost /\ at = "renew" /\ age' = age /\ answer' \in LossReports
    /\ UNCHANGED <<at, timer, busy, late, faults, hung, stopVars, tableVars>>

Fault ==
    /\ faults < MaxFaults
    /\ faults' = faults + 1
    /\ UNCHANGED <<at, timer, busy, late, stopVars, tableVars>>

\* The server restarts and forgets the client.
Restart ==
    /\ Fault
    /\ age' = Expired
    /\ UNCHANGED <<answer, hung>>

\* The call ends with another error; the server may have taken the RENEW.
CallFails ==
    /\ Fault
    /\ Calling /\ answer = "none" /\ ~hung
    /\ answer' = "error"
    /\ age' \in IF Lost THEN {age} ELSE {age, 0}
    /\ UNCHANGED hung

\* The server stops answering: the call has context.Background() and never ends.
Hang ==
    /\ Fault
    /\ Calling /\ answer = "none" /\ ~hung
    /\ hung' = TRUE
    /\ UNCHANGED <<answer, age>>

Least(a, b) == IF a < b THEN a ELSE b

\* Time passes unless some step is due now.
Tick ==
    /\ at = "select" => timer > 0 /\ ~stopCh
    /\ Calling => busy < MaxRTT \/ hung
    /\ stopper = "waiting" => waited < StopWait /\ at # "exited"
    /\ age' = Least(age + 1, Expired)
    /\ timer' = IF at = "select" THEN timer - 1 ELSE timer
    /\ busy' = IF Calling THEN Least(busy + 1, MaxRTT) ELSE busy
    /\ waited' = IF stopper = "waiting" THEN waited + 1 ELSE waited
    /\ UNCHANGED <<at, answer, late, faults, hung, stopCh, stopper, tableVars>>
-----------------------------------------------------------------------------
\* Stop closes stopCh, once, and waits.
Stop ==
    /\ stopper # "waiting"
    /\ stopCh' = TRUE /\ stopper' = "waiting" /\ waited' = 0
    /\ UNCHANGED <<loopVars, tableVars>>

\* Stop returns when the loop has ended or after StopWait.
StopReturns ==
    /\ stopper = "waiting" /\ (at = "exited" \/ waited = StopWait)
    /\ stopper' = "returned"
    /\ UNCHANGED <<stopCh, waited, loopVars, tableVars>>
-----------------------------------------------------------------------------
Tracked == DOMAIN stateids

TrackStateid(sid) ==
    /\ nextH < MaxHandles
    /\ nextH' = nextH + 1
    /\ stateids' = [h \in Tracked \cup {nextH'} |-> IF h = nextH' THEN sid ELSE stateids[h]]
    /\ UNCHANGED <<loopVars, stopVars>>

BugReissueStateid(h, sid) ==
    /\ h <= nextH
    /\ stateids' = [g \in Tracked \cup {h} |-> IF g = h THEN sid ELSE stateids[g]]
    /\ UNCHANGED <<nextH, loopVars, stopVars>>

\* A handle that is not tracked any more is left alone.
ReissueStateid(h, sid) ==
    /\ h <= nextH
    /\ stateids' = IF h \in Tracked THEN [stateids EXCEPT ![h] = sid] ELSE stateids
    /\ UNCHANGED <<nextH, loopVars, stopVars>>

ForgetStateid(h) ==
    /\ h <= nextH
    /\ stateids' = [g \in Tracked \ {h} |-> stateids[g]]
    /\ UNCHANGED <<nextH, loopVars, stopVars>>

Table ==
    \/ \E sid \in Stateids : TrackStateid(sid)
    \/ \E h \in 1 .. MaxHandles :
          ForgetStateid(h) \/ \E sid \in Stateids : ReissueStateid(h, sid)

Next ==
    \/ Start \/ Fire \/ Exit \/ Return
    \/ Arrive \/ Restart \/ CallFails \/ Hang \/ Tick
    \/ Stop \/ StopReturns
    \/ Table

Spec == Init /\ [][Next]_vars

\* Fairness: time passes, goroutines run, and a server that does not hang answers.
Fairness ==
    /\ WF_vars(Fire) /\ WF_vars(Exit) /\ WF_vars(Return)
    /\ WF_vars(Arrive) /\ WF_vars(Tick) /\ WF_vars(StopReturns)

FairSpec == Spec /\ Fairness
-----------------------------------------------------------------------------
TypeOK ==
    /\ at \in {"off", "select", "renew", "recover", "exited"}
    /\ timer \in 0 .. renewInterval
    /\ busy \in 0 .. MaxRTT
    /\ answer \in LossReports \cup {"none", "ok", "error"}
    /\ age \in 0 .. Expired
    /\ stopCh \in BOOLEAN
    /\ stopper \in {"idle", "waiting", "returned"}
    /\ waited \in 0 .. StopWait
    /\ late \in Nat
    /\ faults \in 0 .. MaxFaults
    /\ hung \in BOOLEAN
    /\ Tracked \subseteq 1 .. nextH
    /\ \A h \in Tracked : stateids[h] \in Stateids
    /\ nextH \in 0 .. MaxHandles

(***************************************************************************)
(* While nothing goes wrong the lease never runs out under a running loop: *)
(* renewing after two thirds of the period leaves room for a RENEW that    *)
(* arrives at once followed by one that arrives as late as it can          *)
(* ("RENEW fires at a fraction of this period to stay comfortably within   *)
(* it").                                                                   *)
(***************************************************************************)
LeaseKept == faults = 0 /\ at \in {"select", "renew", "recover"} => ~Lost

\* A select that finds both channels ready may pick the timer: one RENEW at most
\* begins after Stop has closed stopCh.
OneAfterStop == late <= 1

\* Once Stop has returned no RENEW begins, whether the loop ended or was given up.
QuietAfterStop == [][stopper = "returned" => ~(at = "select" /\ at' = "renew")]_vars

\* A stateid that was forgotten is not tracked again, whatever recovery reissues.
ForgottenStays == [][\A h \in 1 .. nextH : h \notin Tracked => h \notin DOMAIN stateids']_vars

\* State that the server lost is established again, unless the loop is stopped or
\* the server hangs.  cfg.Renew and cfg.Recover must reach the server again after a
\* failed call: Conn.Renew and Conn.Mount do so while their connection stands, and
\* dial no other (see Settles in ConnMount).
LeaseRegained == Lost /\ (at = "select" \/ Calling) ~> ~Lost \/ stopCh \/ hung

\* Once stopped, a loop that does not hang ends.
LoopEnds == stopCh /\ (at = "select" \/ Calling) ~> at = "exited" \/ hung
=============================================================================
