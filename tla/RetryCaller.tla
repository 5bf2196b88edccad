----------------------------- MODULE RetryCaller ----------------------------
(***************************************************************************)
(* retryCaller (nfs4/retry.go): one CallCompound that repeats its compound *)
(* while the server answers NFS4ERR_DELAY or NFS4ERR_GRACE, with bounded   *)
(* exponential backoff.  The context may end at any time.  A duration is a *)
(* number of units; the int64 of time.Duration cannot overflow, because    *)
(* the call would first have to sleep through the delay it doubles.        *)
(***************************************************************************)
EXTENDS Integers

CONSTANTS
    Durations,           \* values of RetryConfig.Initial and Max a user may set
    Attempts,            \* values of RetryConfig.MaxAttempts a user may set
    DefaultRetryInitial, DefaultRetryMax, DefaultRetryMaxAttempts

ASSUME ConfigInts == Durations \subseteq Int /\ Attempts \subseteq Int
ASSUME DefaultsPositive ==
    /\ DefaultRetryInitial \in Nat \ {0}
    /\ DefaultRetryMax \in Nat \ {0}
    /\ DefaultRetryMaxAttempts \in Nat \ {0}

VARIABLES
    user,     \* the RetryConfig as the user wrote it
    cfg,      \* rc.cfg, with the defaults filled in
    attempt,  \* the loop variable
    delay,    \* the next backoff delay
    last,     \* lastRes and lastErr: the outcome of the last attempt
    ctx,      \* "live" or "done"
    pc,       \* "top", "call", "sleep" or "returned"
    calls,    \* how many times the base caller was called
    slept,    \* the delays slept so far: [count, last]
    tooLate,  \* how many base calls began after the context had ended
    ret       \* what CallCompound returned

retryVars == <<user, cfg, attempt, delay, last, ctx, pc, calls, slept, tooLate, ret>>

(***************************************************************************)
(* What the base caller returns: a result with status OK, with a retriable *)
(* status or with another one, an error that wraps a retriable status (a   *)
(* SEQUENCE that failed with DELAY), or another error.                     *)
(***************************************************************************)
Outcomes == {"ok", "retryStatus", "status", "retryErr", "error"}

\* isRetriableStatus and retriable
retriable(o) == o \in {"retryStatus", "retryErr"}

withDefaults(u) ==
    [Initial     |-> IF u.Initial <= 0 THEN DefaultRetryInitial ELSE u.Initial,
     Max         |-> IF u.Max <= 0 THEN DefaultRetryMax ELSE u.Max,
     MaxAttempts |-> IF u.MaxAttempts < 1 THEN DefaultRetryMaxAttempts ELSE u.MaxAttempts]

RetryInit ==
    /\ user \in [Initial : Durations, Max : Durations, MaxAttempts : Attempts]
    /\ cfg = withDefaults(user)
    /\ attempt = 0
    /\ delay = cfg.Initial
    /\ last = "none"
    /\ ctx \in {"live", "done"}
    /\ pc = "top"
    /\ calls = 0
    /\ slept = [count |-> 0, last |-> 0]
    /\ tooLate = 0
    /\ ret = "none"

Returns(r) == pc' = "returned" /\ ret' = r

\* The context ends, in whichever place the call is.
ContextEnds ==
    /\ pc # "returned" /\ ctx = "live"
    /\ ctx' = "done"
    /\ UNCHANGED <<user, cfg, attempt, delay, last, pc, calls, slept, tooLate, ret>>

BugTop ==
    /\ pc = "top"
    /\ pc' = "call" /\ ret' = ret
    /\ UNCHANGED <<user, cfg, attempt, delay, last, ctx, calls, slept, tooLate>>

\* The head of the loop: a context that is done ends the call, with the last
\* error if there is one.
Top ==
    /\ pc = "top"
    /\ IF ctx = "done"
       THEN Returns(IF last = "retryErr" THEN "retryErr" ELSE "ctxErr")
       ELSE pc' = "call" /\ ret' = ret
    /\ UNCHANGED <<user, cfg, attempt, delay, last, ctx, calls, slept, tooLate>>

BugExhausted == last'

\* What the call returns when the attempts are used up: a status becomes an error.
Exhausted == IF last' = "retryStatus" THEN "retryErr" ELSE last'

\* rc.base.CallCompound returns o; a call that is not retriable, or the last of
\* the attempts, ends the loop.
CallBase(o) ==
    /\ pc = "call"
    /\ calls' = calls + 1
    /\ tooLate' = IF ctx = "done" THEN tooLate + 1 ELSE tooLate
    /\ last' = o
    /\ IF ~retriable(o) THEN Returns(o)
       ELSE IF attempt = cfg.MaxAttempts - 1 THEN Returns(Exhausted)
       ELSE pc' = "sleep" /\ ret' = ret
    /\ UNCHANGED <<user, cfg, attempt, delay, ctx, slept>>

\* delay *= 2, capped at Max
Doubled(d) == IF 2 * d > cfg.Max THEN cfg.Max ELSE 2 * d

\* The timer of sleepCtx fires; the next attempt follows.
Sleep ==
    /\ pc = "sleep"
    /\ slept' = [count |-> slept.count + 1, last |-> delay]
    /\ delay' = Doubled(delay)
    /\ attempt' = attempt + 1
    /\ pc' = "top"
    /\ UNCHANGED <<user, cfg, last, ctx, calls, tooLate, ret>>

\* The context ends the sleep: its error is returned.
SleepCut ==
    /\ pc = "sleep" /\ ctx = "done"
    /\ Returns("ctxErr")
    /\ UNCHANGED <<user, cfg, attempt, delay, last, ctx, calls, slept, tooLate>>

RetryNext ==
    \/ ContextEnds
    \/ Top
    \/ \E o \in Outcomes : CallBase(o)
    \/ Sleep
    \/ SleepCut

RetrySpec == RetryInit /\ [][RetryNext]_retryVars
-----------------------------------------------------------------------------
Configs == [Initial : Nat \ {0}, Max : Nat \ {0}, MaxAttempts : Nat \ {0}]

RetryTypeOK ==
    /\ user \in [Initial : Durations, Max : Durations, MaxAttempts : Attempts]
    /\ cfg \in Configs
    /\ attempt \in 0 .. cfg.MaxAttempts - 1
    /\ delay \in Nat \ {0}
    /\ last \in Outcomes \cup {"none"}
    /\ ctx \in {"live", "done"}
    /\ pc \in {"top", "call", "sleep", "returned"}
    /\ calls \in Nat
    /\ slept \in [count : Nat, last : Nat]
    /\ tooLate \in Nat
    /\ ret \in Outcomes \cup {"none", "ctxErr"}

(***************************************************************************)
(* The base caller is called at most MaxAttempts times, every call but the *)
(* first follows a sleep, and no sleep follows the last: at any time the   *)
(* calls are the sleeps, plus one once the attempt's own call was made.    *)
(***************************************************************************)
AttemptsBounded ==
    /\ calls <= cfg.MaxAttempts
    /\ slept.count <= cfg.MaxAttempts - 1
    /\ pc \in {"top", "call"} => calls = slept.count
    /\ pc = "sleep" => calls = slept.count + 1

\* A delay that was slept is Initial or at most Max.
BackoffBounded == slept.count > 0 => slept.last = cfg.Initial \/ slept.last <= cfg.Max

\* Once within Max, the backoff never gets shorter from one sleep to the next.
BackoffGrows ==
    [][slept'.count > slept.count /\ slept.count > 0 /\ slept.last <= cfg.Max
            => slept'.last >= slept.last]_retryVars

\* Only a compound that the server put off is sent again: not one that failed.
OnlyRetriableResent ==
    [][calls' > calls /\ calls > 0 => last \in {"retryStatus", "retryErr"}]_retryVars

(***************************************************************************)
(* The call succeeds only if its last attempt did: a server that answers   *)
(* DELAY to the end surfaces as an error, never "a silently-still-DELAY    *)
(* compound result".                                                       *)
(***************************************************************************)
NoSilentDelay ==
    /\ ret # "retryStatus"
    /\ ret \in {"ok", "status"} => ret = last
    /\ ret = "retryErr" => last \in {"retryStatus", "retryErr"}

\* After the context has ended at most one more base call begins.
StopsWhenDone == tooLate <= 1
=============================================================================
