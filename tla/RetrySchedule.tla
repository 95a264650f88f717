------------------------------ MODULE RetrySchedule ------------------------------
(***************************************************************************)
(* When a failed notification is tried again, against the time for which   *)
(* the circuit breaker of its process stays open: both clocks run at once, *)
(* and an attempt that the breaker rejects is spent like any other.        *)
(*                                                                         *)
(* One notification is followed; the other callers of the breaker are the  *)
(* other workers of the process, with other notifications.  The unit of    *)
(* time is a fifth of the base delay, 200 ms by default, so that the       *)
(* jitter of 20% is a whole number of units.                               *)
(***************************************************************************)
EXTENDS CircuitBreaker

CONSTANTS
    own,                \* the worker that processes the notification
    RetryBaseDelay,
    RetryMaxDelay,
    SchedulerInterval,
    OpenTimeout,
    MaxAttempts,
    Jitters,            \* values of rand.Float64()*2 - 1 that are looked at
    MaxOutage,          \* how long the provider fails
    MaxLag              \* bound: time in the queue, at the limiter or under way

ASSUME ScheduleAssumption ==
    /\ own \in Callers
    /\ RetryBaseDelay \in Nat \ {0} /\ RetryBaseDelay % 5 = 0
    /\ RetryMaxDelay \in Nat \ {0} /\ RetryMaxDelay % 5 = 0
    /\ {SchedulerInterval, OpenTimeout, MaxAttempts, MaxOutage} \subseteq Nat \ {0}
    /\ MaxLag \in Nat
    /\ Jitters \subseteq {-1, 0, 1}

VARIABLES
    row,        \* the notification; timer is what is left until next_retry_at, or of MaxLag
    tick,       \* until the next tick of the scheduler
    openFor,    \* until openedAt + OpenTimeout
    outage      \* what is left of it

scheduleVars == <<row, tick, openFor, outage>>

allVars == <<vars, scheduleVars>>

\* The ticker may be at any point when the provider begins to fail.
ScheduleInit ==
    /\ Init
    /\ row = [phase |-> "new", attempts |-> 0, timer |-> MaxLag]
    /\ tick \in 1 .. SchedulerInterval
    /\ openFor = 0
    /\ outage = MaxOutage

--------------------------------------------------------------------------------
AtMost(i, j) == IF i <= j THEN i ELSE j

AtLeast(i, j) == IF i >= j THEN i ELSE j

\* calculateNextRetry: the cap comes before the jitter, the base delay after it.
RetryDelays(attempts) ==
    LET delay == AtMost(RetryBaseDelay * 2 ^ attempts, RetryMaxDelay)
    IN  {AtLeast(delay + (delay \div 5) * j, RetryBaseDelay) : j \in Jitters}

\* The breaker notes the time when it opens.
NoteOpening == openFor' = IF state # "open" /\ state' = "open" THEN OpenTimeout ELSE openFor

Accept ==
    /\ row.phase = "new"
    /\ row' = [row EXCEPT !.phase = "queued"]
    /\ UNCHANGED <<vars, tick, openFor, outage>>

\* Mutant: one attempt fewer.
FailedOneFewer ==
    LET attempts == row.attempts + 1
    IN  IF attempts + 1 < MaxAttempts
        THEN \E delay \in RetryDelays(attempts) :
                row' = [phase |-> "failed", attempts |-> attempts, timer |-> delay]
        ELSE row' = [phase |-> "given up", attempts |-> attempts, timer |-> 0]

\* Mutant: the delay is that of the attempts before this one.
FailedOneBehind ==
    LET attempts == row.attempts + 1
    IN  IF attempts < MaxAttempts
        THEN \E delay \in RetryDelays(row.attempts) :
                row' = [phase |-> "failed", attempts |-> attempts, timer |-> delay]
        ELSE row' = [phase |-> "given up", attempts |-> attempts, timer |-> 0]

\* The attempt has failed, at the provider or at the breaker.
Failed ==
    LET attempts == row.attempts + 1
    IN  IF attempts < MaxAttempts
        THEN \E delay \in RetryDelays(attempts) :
                row' = [phase |-> "failed", attempts |-> attempts, timer |-> delay]
        ELSE row' = [phase |-> "given up", attempts |-> attempts, timer |-> 0]

Attempt ==
    /\ row.phase = "queued"
    /\ caller[own].pc = "idle"
    /\ \/ /\ AllowClosed(own) \/ AllowAfterTimeout(own) \/ AllowHalfOpen(own)
          /\ row' = [row EXCEPT !.phase = "sending"]
       \/ Reject(own) /\ Failed
    /\ UNCHANGED <<healthy, tick, openFor, outage>>

Answer ==
    /\ row.phase = "sending"
    /\ \/ InnerSend(own) /\ UNCHANGED row
       \/ RecordSuccess(own) /\ row' = [row EXCEPT !.phase = "delivered"]
       \/ RecordFailure(own) /\ Failed
    /\ NoteOpening
    /\ UNCHANGED <<tick, outage>>

Others ==
    /\ \E c \in Callers \ {own} : CallerNext(c)
    /\ NoteOpening
    /\ UNCHANGED <<row, tick, outage>>

\* The scheduler takes the rows with next_retry_at <= NOW() and enqueues them.
Tick ==
    /\ tick = 0
    /\ tick' = SchedulerInterval
    /\ row' = IF row.phase = "failed" /\ row.timer = 0
              THEN [row EXCEPT !.phase = "queued", !.timer = MaxLag] ELSE row
    /\ UNCHANGED <<vars, openFor, outage>>

\* The provider fails once; the outage ends with the last failure it causes.
ProviderFails ==
    /\ healthy /\ outage = MaxOutage
    /\ ProviderChanges
    /\ UNCHANGED scheduleVars

ProviderRecovers ==
    /\ ~healthy
    /\ ProviderChanges
    /\ outage' = 0
    /\ UNCHANGED <<row, tick, openFor>>

CountDown(i) == AtLeast(i - 1, 0)

\* One unit passes, from the beginning of the outage on.  A failure is recorded
\* before the outage counts as over, and nothing waits longer than MaxLag.
Pass ==
    /\ outage > 0 => ~healthy
    /\ ~healthy => outage > 0
    /\ tick > 0
    /\ row.phase \in {"new", "queued", "sending", "failed"}
    /\ row.phase \in {"queued", "sending"} => row.timer > 0
    /\ \A c \in Callers : caller[c].pc # "failed"
    /\ IF openFor = 1 THEN OpenTimeoutElapses ELSE UNCHANGED vars
    /\ row' = IF row.phase = "new" THEN row ELSE [row EXCEPT !.timer = CountDown(@)]
    /\ tick' = tick - 1
    /\ openFor' = CountDown(openFor)
    /\ outage' = CountDown(outage)

OwnNext == Attempt \/ Answer

ScheduleNext ==
    \/ Accept \/ OwnNext \/ Others
    \/ Tick \/ Pass
    \/ ProviderFails \/ ProviderRecovers

\* Time passes however busy the other workers are, the outage ends, and everybody
\* does what is due.  Nobody has to accept a notification.
ScheduleFairness ==
    /\ SF_allVars(Pass) /\ WF_allVars(Tick)
    /\ WF_allVars(ProviderRecovers)
    /\ WF_allVars(OwnNext)
    /\ \A c \in Callers \ {own} :
          WF_allVars((InnerSend(c) \/ RecordFailure(c) \/ RecordSuccess(c))
                     /\ NoteOpening /\ UNCHANGED <<row, tick, outage>>)

ScheduleSpec == ScheduleInit /\ [][ScheduleNext]_allVars

FairScheduleSpec == ScheduleSpec /\ ScheduleFairness

(***************************************************************************)
(* When the settings go together: left[a] is a time that must pass, from   *)
(* the tick that enqueues a notification with a attempts, or from its      *)
(* first attempt, until its last one.  A retry waits for a tick, so that   *)
(* the delays after the first count in whole intervals of the scheduler.   *)
(***************************************************************************)
Ticks(delay) == (delay + SchedulerInterval - 1) \div SchedulerInterval

Outlasts(left) ==
    /\ left \in [0 .. MaxAttempts - 1 -> Nat]
    /\ \A a \in 1 .. MaxAttempts - 1 : RetryDelays(a) \subseteq Nat
    /\ left[0] >= MaxOutage + OpenTimeout
    /\ \A delay \in RetryDelays(1) : left[0] <= delay + left[1]
    /\ \A a \in 1 .. MaxAttempts - 2 : \A delay \in RetryDelays(a + 1) :
          left[a] <= SchedulerInterval * Ticks(delay) + left[a + 1]
    /\ left[MaxAttempts - 1] = 0

--------------------------------------------------------------------------------
\* No outage as short as MaxOutage makes a notification fail for good: the time the
\* breaker stays open after it has passed before the last attempt is due, although
\* every attempt that the breaker rejects counts.
ShortOutageLosesNothing == row.phase # "given up"

\* Every notification that the outage and the open breaker delay is delivered in
\* the end: some retry comes when the breaker lets it through again.
OutliesOutage == row.phase = "queued" ~> row.phase = "delivered"
================================================================================
