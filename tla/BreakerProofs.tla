------------------------------ MODULE BreakerProofs ------------------------------
(***************************************************************************)
(* The circuit breaker for any number of callers and any thresholds, and   *)
(* the retries of a notification against the time for which it stays open. *)
(***************************************************************************)
EXTENDS RetrySchedule, TLAPS

\* What the steps do to the variables of the breaker, whoever takes them.
BreakerStep ==
    \/ UNCHANGED breaker
    \/ \E c \in Callers : AllowAfterTimeout(c)
    \/ FailureWhenClosed \/ FailureWhenHalfOpen
    \/ SuccessWhenClosed \/ SuccessWhenHalfOpen
    \/ /\ state = "open" /\ elapsed' = TRUE
       /\ UNCHANGED <<state, consecutiveFailures, consecutiveSuccesses>>

LEMMA StepsOfBreaker == [Next]_vars => BreakerStep
<1> SUFFICES ASSUME [Next]_vars PROVE BreakerStep
  OBVIOUS
<1>1. ASSUME NEW c \in Callers, AllowRequest(c) PROVE BreakerStep
  BY <1>1 DEF AllowRequest, AllowClosed, AllowHalfOpen, Reject, BreakerStep, breaker
<1>2. ASSUME NEW c \in Callers, InnerSend(c) PROVE BreakerStep
  BY <1>2 DEF InnerSend, BreakerStep
<1>3. ASSUME NEW c \in Callers, RecordFailure(c) PROVE BreakerStep
  BY <1>3 DEF RecordFailure, FailureWhenOpen, BreakerStep
<1>4. ASSUME NEW c \in Callers, RecordSuccess(c) PROVE BreakerStep
  BY <1>4 DEF RecordSuccess, SuccessWhenOpen, BreakerStep
<1>5. CASE OpenTimeoutElapses
  BY <1>5 DEF OpenTimeoutElapses, BreakerStep
<1>6. CASE ProviderChanges
  BY <1>6 DEF ProviderChanges, BreakerStep
<1>7. CASE UNCHANGED vars
  BY <1>7 DEF vars, breaker, BreakerStep
<1> QED
  BY <1>1, <1>2, <1>3, <1>4, <1>5, <1>6, <1>7 DEF Next, CallerNext

--------------------------------------------------------------------------------
LEMMA BreakerTypeStep == TypeOK /\ [Next]_vars => TypeOK'
<1> SUFFICES ASSUME TypeOK, [Next]_vars PROVE TypeOK'
  OBVIOUS
<1>1. /\ state' \in {"closed", "open", "half-open"}
      /\ consecutiveFailures' \in Nat
      /\ consecutiveSuccesses' \in Nat
  <2> DEFINE Typed == /\ state \in {"closed", "open", "half-open"}
                      /\ consecutiveFailures \in Nat
                      /\ consecutiveSuccesses \in Nat
  <2> Typed
    BY DEF TypeOK
  <2>1. CASE UNCHANGED breaker
    BY <2>1 DEF breaker
  <2>2. ASSUME NEW c \in Callers, AllowAfterTimeout(c) PROVE Typed'
    BY <2>2 DEF AllowAfterTimeout
  <2>3. CASE FailureWhenClosed
    BY <2>3 DEF FailureWhenClosed, TripOpen
  <2>4. CASE FailureWhenHalfOpen
    BY <2>4 DEF FailureWhenHalfOpen, TripOpen
  <2>5. CASE SuccessWhenClosed \/ SuccessWhenHalfOpen
    BY <2>5 DEF SuccessWhenClosed, SuccessWhenHalfOpen
  <2>6. CASE UNCHANGED <<state, consecutiveFailures, consecutiveSuccesses>>
    BY <2>6
  <2> QED
    BY StepsOfBreaker, <2>1, <2>2, <2>3, <2>4, <2>5, <2>6 DEF BreakerStep
<1>2. elapsed' \in BOOLEAN
  BY StepsOfBreaker, Zenon
     DEF BreakerStep, TypeOK, breaker, AllowAfterTimeout, FailureWhenClosed, FailureWhenHalfOpen,
         SuccessWhenClosed, SuccessWhenHalfOpen, TripOpen
<1>3. caller' \in [Callers -> CallerState]
  <2>1. \/ UNCHANGED caller
        \/ \E c \in Callers, s \in CallerState : caller' = [caller EXCEPT ![c] = s]
    <3>1. ASSUME NEW c \in Callers, AllowRequest(c)
          PROVE  \/ UNCHANGED caller
                 \/ \E s \in CallerState : caller' = [caller EXCEPT ![c] = s]
      BY <3>1 DEF AllowRequest, AllowClosed, AllowAfterTimeout, AllowHalfOpen, Reject,
                  StartSending, CallerState
    <3>2. ASSUME NEW c \in Callers, InnerSend(c)
          PROVE  \E s \in CallerState : caller' = [caller EXCEPT ![c] = s]
      <4>1. PICK result \in {"succeeded", "failed"} :
               caller' = [caller EXCEPT ![c].pc = result]
        BY <3>2 DEF InnerSend
      <4>2. [caller[c] EXCEPT !.pc = result] \in CallerState
        BY DEF TypeOK, CallerState
      <4> QED
        BY <4>1, <4>2
    <3>3. ASSUME NEW c \in Callers, RecordFailure(c) \/ RecordSuccess(c)
          PROVE  \E s \in CallerState : caller' = [caller EXCEPT ![c] = s]
      BY <3>3 DEF RecordFailure, RecordSuccess, IdleCaller, CallerState
    <3>4. CASE OpenTimeoutElapses \/ ProviderChanges \/ UNCHANGED vars
      BY <3>4 DEF OpenTimeoutElapses, ProviderChanges, vars
    <3> QED
      BY <3>1, <3>2, <3>3, <3>4 DEF Next, CallerNext
  <2> QED
    BY <2>1 DEF TypeOK
<1>4. healthy' \in BOOLEAN
  BY DEF TypeOK, Next, CallerNext, AllowRequest, InnerSend, RecordFailure, RecordSuccess,
         OpenTimeoutElapses, ProviderChanges, vars
<1> QED
  BY <1>1, <1>2, <1>3, <1>4 DEF TypeOK

\* The variables of the breaker and of its callers keep their types.
THEOREM BreakerTypeCorrect == Spec => []TypeOK
<1>1. Init => TypeOK
  BY DEF Init, TypeOK, CallerState, IdleCaller
<1> QED
  BY <1>1, BreakerTypeStep, PTL DEF Spec

--------------------------------------------------------------------------------
LEMMA CountersStep == TypeOK /\ CountersFitState /\ [Next]_vars => CountersFitState'
<1> SUFFICES ASSUME TypeOK, CountersFitState, BreakerStep PROVE CountersFitState'
  BY StepsOfBreaker
<1> USE BreakerAssumption DEF TypeOK, CountersFitState
<1>1. CASE UNCHANGED breaker
  BY <1>1 DEF breaker
<1>2. ASSUME NEW c \in Callers, AllowAfterTimeout(c) PROVE CountersFitState'
  BY <1>2 DEF AllowAfterTimeout
<1>3. CASE FailureWhenClosed \/ FailureWhenHalfOpen
  BY <1>3 DEF FailureWhenClosed, FailureWhenHalfOpen, TripOpen
<1>4. CASE SuccessWhenClosed \/ SuccessWhenHalfOpen
  BY <1>4 DEF SuccessWhenClosed, SuccessWhenHalfOpen
<1>5. CASE UNCHANGED <<state, consecutiveFailures, consecutiveSuccesses>>
  BY <1>5
<1> QED
  BY <1>1, <1>2, <1>3, <1>4, <1>5 DEF BreakerStep

\* No count of failures or successes survives the state it belongs to.
THEOREM CountersFitStateCorrect == Spec => []CountersFitState
<1>1. Init => CountersFitState
  BY BreakerAssumption DEF Init, CountersFitState
<1> QED
  BY <1>1, BreakerTypeCorrect, CountersStep, PTL DEF Spec

--------------------------------------------------------------------------------
\* A breaker whose timeout has passed stays ready to probe until it is asked.
THEOREM LateFailureKeepsTimeoutCorrect == Spec => LateFailureKeepsTimeout
<1>1. [Next]_vars => [state = "open" /\ elapsed /\ state' = "open" => elapsed']_vars
  <2> SUFFICES ASSUME BreakerStep, state = "open", elapsed, state' = "open"
               PROVE  elapsed'
    BY StepsOfBreaker
  <2> QED
    BY DEF BreakerStep, breaker, AllowAfterTimeout, FailureWhenClosed, FailureWhenHalfOpen,
           SuccessWhenClosed, SuccessWhenHalfOpen
<1> QED
  BY <1>1, PTL DEF Spec, LateFailureKeepsTimeout

--------------------------------------------------------------------------------
(***************************************************************************)
(* A short outage loses nothing.  Remaining bounds how long attempts can   *)
(* still fail: it never grows, and time makes it shorter.  What a          *)
(* notification has left until its last attempt always covers it.          *)
(***************************************************************************)
SomeFailed == \E c \in Callers : caller[c].pc = "failed"

Remaining ==
    IF ~healthy \/ outage > 0 THEN outage + OpenTimeout
    ELSE IF SomeFailed THEN OpenTimeout ELSE openFor

\* What is left until the tick that takes a failed notification up, whichever it
\* is, and from there on.
CoversAfterTick(left) ==
    \A j \in Nat : tick + SchedulerInterval * j >= row.timer
                   => Remaining <= tick + SchedulerInterval * j + left[row.attempts]

CoversFromTick(left) ==
    \/ Remaining = 0
    \/ Remaining + SchedulerInterval <= left[row.attempts] + tick

Covered(left) ==
    /\ row.phase \in {"new", "queued", "sending", "failed", "delivered"}
    /\ row.phase = "new" => row.attempts = 0
    /\ row.phase \in {"new", "queued", "sending"} /\ row.attempts = 0 => Remaining <= left[0]
    /\ row.phase \in {"queued", "sending"} /\ row.attempts # 0 => CoversFromTick(left)
    /\ row.phase = "failed" => row.attempts # 0 /\ CoversAfterTick(left)

ScheduleType ==
    /\ row.attempts \in 0 .. MaxAttempts - 1
    /\ row.timer \in Nat
    /\ row = [phase |-> row.phase, attempts |-> row.attempts, timer |-> row.timer]
    /\ tick \in 0 .. SchedulerInterval
    /\ openFor \in 0 .. OpenTimeout
    /\ outage \in 0 .. MaxOutage

\* The breaker is only open with its timeout to come while openFor counts down.
OpenIsCounted == state = "open" /\ ~elapsed => openFor > 0

LEMMA RemainingType == ScheduleType => Remaining \in Nat
  BY ScheduleAssumption DEF ScheduleType, Remaining

\* The steps that take no time.
NoTime ==
    \/ UNCHANGED allVars \/ Accept \/ OwnNext \/ Others \/ Tick \/ ProviderFails
    \/ ProviderRecovers

\* What a caller of the breaker does to the clocks.
CallerStep ==
    /\ UNCHANGED <<healthy, outage>>
    /\ openFor' = openFor \/ (openFor' = OpenTimeout /\ SomeFailed)
    /\ SomeFailed' => SomeFailed \/ ~healthy

LEMMA CallersKeepTime ==
    ASSUME TypeOK, NEW c \in Callers, CallerNext(c), NoteOpening, UNCHANGED outage
    PROVE  CallerStep
<1>1. CASE AllowRequest(c)
  <2>1. UNCHANGED healthy
    BY <1>1 DEF AllowRequest
  <2>2. openFor' = openFor
    BY <1>1 DEF AllowRequest, AllowClosed, AllowAfterTimeout, AllowHalfOpen, Reject, breaker,
                NoteOpening
  <2>3. SomeFailed' => SomeFailed
    BY <1>1 DEF AllowRequest, AllowClosed, AllowAfterTimeout, AllowHalfOpen, Reject,
                StartSending, SomeFailed, TypeOK
  <2> QED
    BY <2>1, <2>2, <2>3 DEF CallerStep
<1>2. CASE InnerSend(c)
  <2>1. UNCHANGED healthy /\ openFor' = openFor
    BY <1>2 DEF InnerSend, breaker, NoteOpening
  <2>2. SomeFailed' => SomeFailed \/ ~healthy
    BY <1>2 DEF InnerSend, SomeFailed, TypeOK, CallerState
  <2> QED
    BY <2>1, <2>2 DEF CallerStep
<1>3. CASE RecordFailure(c)
  <2>1. UNCHANGED healthy /\ SomeFailed
    BY <1>3 DEF RecordFailure, SomeFailed
  <2> QED
    BY <2>1 DEF CallerStep, NoteOpening
<1>4. CASE RecordSuccess(c)
  <2>1. UNCHANGED healthy
    BY <1>4 DEF RecordSuccess
  <2>2. openFor' = openFor
    BY <1>4 DEF RecordSuccess, SuccessWhenClosed, SuccessWhenHalfOpen, SuccessWhenOpen, breaker,
                NoteOpening
  <2>3. SomeFailed' => SomeFailed
    BY <1>4 DEF RecordSuccess, SomeFailed, TypeOK, CallerState, IdleCaller
  <2> QED
    BY <2>1, <2>2, <2>3 DEF CallerStep
<1> QED
  BY <1>1, <1>2, <1>3, <1>4 DEF CallerNext

LEMMA CallerStepShortens ==
    ASSUME ScheduleType, CallerStep
    PROVE  Remaining' <= Remaining
  BY ScheduleAssumption DEF ScheduleType, CallerStep, Remaining

\* The own worker's steps are steps of a caller.
LEMMA OwnSteps ==
    ASSUME OwnNext
    PROVE  own \in Callers /\ CallerNext(own) /\ NoteOpening /\ UNCHANGED <<tick, outage>>
<1>1. CASE Attempt
  <2>1. AllowRequest(own)
    BY <1>1 DEF Attempt, AllowRequest
  <2>2. state' = "open" => state = "open"
    BY <1>1 DEF Attempt, AllowClosed, AllowAfterTimeout, AllowHalfOpen, Reject, breaker
  <2> QED
    BY <1>1, <2>1, <2>2, ScheduleAssumption DEF Attempt, CallerNext, NoteOpening
<1>2. CASE Answer
  BY <1>2, ScheduleAssumption DEF Answer, CallerNext
<1> QED
  BY <1>1, <1>2 DEF OwnNext

LEMMA NothingProlongs ==
    ASSUME TypeOK, ScheduleType, NoTime
    PROVE  Remaining' <= Remaining
<1> Remaining \in Nat
  BY RemainingType
<1>1. CASE UNCHANGED allVars \/ Accept \/ Tick
  BY <1>1 DEF allVars, vars, scheduleVars, Accept, Tick, Remaining, SomeFailed
<1>2. CASE OwnNext \/ Others
  BY <1>2, OwnSteps, CallersKeepTime, CallerStepShortens DEF Others
<1>3. CASE ProviderFails
  BY <1>3, ScheduleAssumption
     DEF ProviderFails, ProviderChanges, scheduleVars, Remaining, ScheduleType
<1>4. CASE ProviderRecovers
  <2>1. UNCHANGED <<caller, openFor>> /\ outage' = 0 /\ ~healthy
    BY <1>4 DEF ProviderRecovers, ProviderChanges
  <2> QED
    BY <2>1, ScheduleAssumption DEF Remaining, ScheduleType
<1> QED
  BY <1>1, <1>2, <1>3, <1>4 DEF NoTime

LEMMA TimeShortens ==
    ASSUME ScheduleType, Pass
    PROVE  \/ Remaining = 0 /\ Remaining' = 0
           \/ Remaining > 0 /\ Remaining' = Remaining - 1
<1>1. UNCHANGED <<healthy, caller>>
  BY DEF Pass, OpenTimeoutElapses, vars
<1>2. ~SomeFailed /\ SomeFailed' = SomeFailed
  BY <1>1 DEF Pass, SomeFailed
<1>3. CASE healthy
  BY <1>1, <1>2, <1>3, ScheduleAssumption
     DEF Pass, CountDown, AtLeast, Remaining, ScheduleType
<1>4. CASE ~healthy
  BY <1>1, <1>2, <1>4, ScheduleAssumption
     DEF Pass, CountDown, AtLeast, Remaining, ScheduleType
<1> QED
  BY <1>3, <1>4

\* The row stays a row, and gets the attempts and the phase that Failed gives it.
FailedRow ==
    LET attempts == row.attempts + 1
    IN  \/ /\ attempts < MaxAttempts
           /\ \E delay \in RetryDelays(attempts) :
                 row' = [phase |-> "failed", attempts |-> attempts, timer |-> delay]
        \/ /\ ~(attempts < MaxAttempts)
           /\ row' = [phase |-> "given up", attempts |-> attempts, timer |-> 0]

\* The own worker either goes on with the notification or fails, and it only fails
\* while something remains.
GoesOn ==
    \/ UNCHANGED row
    \/ row.phase = "queued" /\ row' = [row EXCEPT !.phase = "sending"]
    \/ row.phase = "sending" /\ row' = [row EXCEPT !.phase = "delivered"]

LEMMA FailsOnlyWhileRemaining ==
    ASSUME TypeOK, ScheduleType, OpenIsCounted, OwnNext
    PROVE  \/ GoesOn
           \/ row.phase \in {"queued", "sending"} /\ FailedRow /\ Remaining > 0
<1>0. own \in Callers
  BY ScheduleAssumption
<1>1. Failed => FailedRow
  BY Zenon DEF Failed, FailedRow
<1>2. CASE Attempt
  <2>1. CASE Reject(own) /\ Failed
    <3>1. openFor > 0
      BY <2>1 DEF Reject, OpenIsCounted
    <3>2. Remaining > 0
      BY <3>1, ScheduleAssumption DEF Remaining, ScheduleType
    <3> QED
      BY <1>1, <1>2, <2>1, <3>2 DEF Attempt
  <2>2. CASE row.phase = "queued" /\ row' = [row EXCEPT !.phase = "sending"]
    BY <2>2 DEF GoesOn
  <2> QED
    BY <1>2, <2>1, <2>2 DEF Attempt
<1>3. CASE Answer
  <2>1. CASE RecordFailure(own) /\ Failed
    <3>1. SomeFailed
      BY <1>0, <2>1 DEF RecordFailure, SomeFailed
    <3>2. Remaining > 0
      BY <3>1, ScheduleAssumption DEF Remaining, ScheduleType
    <3> QED
      BY <1>1, <1>3, <2>1, <3>2 DEF Answer
  <2>2. CASE row' = [row EXCEPT !.phase = "delivered"] \/ UNCHANGED row
    BY <1>3, <2>2 DEF Answer, GoesOn
  <2> QED
    BY <1>3, <2>1, <2>2 DEF Answer
<1> QED
  BY <1>2, <1>3 DEF OwnNext

LEMMA OpenIsCountedStep ==
    ASSUME TypeOK, ScheduleType, OpenIsCounted, [ScheduleNext]_allVars
    PROVE  OpenIsCounted'
<1>1. ASSUME NEW c \in Callers, CallerNext(c), NoteOpening PROVE OpenIsCounted'
  <2>1. CASE state = "open" /\ state' = "open"
    <3>1. openFor' = openFor
      BY <1>1, <2>1 DEF NoteOpening
    <3>2. ~elapsed' => ~elapsed
      BY <1>1, <2>1 DEF CallerNext, AllowRequest, AllowClosed, AllowAfterTimeout, AllowHalfOpen,
         Reject, InnerSend, RecordFailure, RecordSuccess, FailureWhenClosed,
         FailureWhenHalfOpen, FailureWhenOpen, SuccessWhenClosed, SuccessWhenHalfOpen,
         SuccessWhenOpen, breaker
    <3> QED
      BY <2>1, <3>1, <3>2 DEF OpenIsCounted
  <2>2. CASE state # "open" /\ state' = "open"
    BY <1>1, <2>2, ScheduleAssumption DEF NoteOpening, OpenIsCounted
  <2>3. CASE state' # "open"
    BY <2>3 DEF OpenIsCounted
  <2> QED
    BY <2>1, <2>2, <2>3
<1>2. CASE OwnNext \/ Others
  BY <1>1, <1>2, OwnSteps DEF Others
<1>3. CASE UNCHANGED <<state, elapsed, openFor>>
  BY <1>3 DEF OpenIsCounted
<1>4. CASE Accept \/ Tick \/ ProviderFails \/ ProviderRecovers \/ UNCHANGED allVars
  BY <1>3, <1>4 DEF Accept, Tick, ProviderFails, ProviderRecovers, ProviderChanges, allVars,
                    vars, breaker, scheduleVars
<1>5. CASE Pass
  <2>1. CASE openFor = 1
    BY <1>5, <2>1 DEF Pass, OpenTimeoutElapses, OpenIsCounted
  <2>2. CASE openFor # 1
    <3>1. UNCHANGED <<state, elapsed>> /\ openFor' = CountDown(openFor)
      BY <1>5, <2>2 DEF Pass, vars
    <3> QED
      BY <2>2, <3>1, ScheduleAssumption DEF CountDown, AtLeast, OpenIsCounted, ScheduleType
  <2> QED
    BY <2>1, <2>2
<1> QED
  BY <1>2, <1>4, <1>5 DEF ScheduleNext

\* Whatever takes time or writes the row, the breaker makes steps of its own only.
LEMMA BreakerKeepsStepping == [ScheduleNext]_allVars => [Next]_vars
<1> SUFFICES ASSUME [ScheduleNext]_allVars PROVE [Next]_vars
  OBVIOUS
<1>1. CASE OwnNext \/ Others
  BY <1>1, OwnSteps DEF Others, Next
<1>2. CASE Pass \/ Accept \/ Tick \/ UNCHANGED allVars
  BY <1>2 DEF Pass, Accept, Tick, allVars, Next
<1>3. CASE ProviderFails \/ ProviderRecovers
  BY <1>3 DEF ProviderFails, ProviderRecovers, Next
<1> QED
  BY <1>1, <1>2, <1>3 DEF ScheduleNext

\* The breaker that the retries run against is the one of the theorems above, so
\* that they hold next to the clocks, the ticker and the notification.
THEOREM ScheduleImplementsBreaker ==
    ScheduleSpec => Spec /\ []CountersFitState /\ LateFailureKeepsTimeout
<1>1. ScheduleInit => Init
  BY DEF ScheduleInit
<1>2. ScheduleSpec => Spec
  BY <1>1, BreakerKeepsStepping, PTL DEF ScheduleSpec, Spec
<1> QED
  BY <1>2, CountersFitStateCorrect, LateFailureKeepsTimeoutCorrect

LEMMA BreakerTypeKept ==
    ASSUME TypeOK, [ScheduleNext]_allVars
    PROVE  TypeOK'
  BY BreakerKeepsStepping, BreakerTypeStep

LEMMA MoreTicks ==
    ASSUME NEW i \in Nat, NEW j \in Nat, i <= j
    PROVE  SchedulerInterval * i <= SchedulerInterval * j
<1> SchedulerInterval \in Nat
  BY ScheduleAssumption
<1> QED
  OBVIOUS

\* A delay that so many intervals cover takes at most as many ticks.
LEMMA TicksAreFewest ==
    ASSUME NEW delay \in Nat, NEW k \in Nat, SchedulerInterval * k >= delay
    PROVE  Ticks(delay) \in Nat /\ SchedulerInterval * Ticks(delay) <= SchedulerInterval * k
<1> DEFINE i == SchedulerInterval
           t == Ticks(delay)
<1>1. i \in Nat \ {0}
  BY ScheduleAssumption
<1>2. t \in Nat /\ i * t <= delay + i - 1
  <2> HIDE DEF i
  <2> DEFINE n == delay + i - 1
  <2>1. n \in Nat
    BY <1>1
  <2> HIDE DEF n
  <2>2. n \div i \in Nat /\ i * (n \div i) <= n
    BY <1>1, <2>1
  <2> QED
    BY <2>2 DEF n, i, Ticks
<1>3. i * t < i * k + i
  <2>1. i * k \in Int /\ i * t \in Int
    BY <1>1, <1>2
  <2> QED
    BY <1>1, <1>2, <2>1
<1>4. t <= k
  <2> SUFFICES ASSUME k + 1 <= t PROVE FALSE
    BY <1>2
  <2>1. i * (k + 1) <= i * t
    BY <1>2, MoreTicks
  <2>2. i * (k + 1) = i * k + i
    BY <1>1
  <2> QED
    BY <1>1, <1>2, <1>3, <2>1, <2>2
<1> QED
  BY <1>2, <1>4, MoreTicks

LEMMA CountDownBounds ==
    ASSUME NEW m \in Nat, NEW n \in 0 .. m
    PROVE  CountDown(n) \in 0 .. m
  BY DEF CountDown, AtLeast

LEMMA ScheduleTypeStep ==
    ASSUME NEW left, Outlasts(left), TypeOK, ScheduleType, OpenIsCounted, Covered(left),
           [ScheduleNext]_allVars, ShortOutageLosesNothing'
    PROVE  ScheduleType'
<1>0. /\ SchedulerInterval \in Nat /\ OpenTimeout \in Nat /\ MaxAttempts \in Nat
      /\ MaxOutage \in Nat /\ MaxLag \in Nat
  BY ScheduleAssumption
<1> DEFINE Typed(r) ==
      /\ r.attempts \in 0 .. MaxAttempts - 1
      /\ r.timer \in Nat
      /\ r = [phase |-> r.phase, attempts |-> r.attempts, timer |-> r.timer]
<1>1. Typed(row')
  <2>0. Typed(row)
    BY DEF ScheduleType
  <2>1. ASSUME NEW p, row' = [row EXCEPT !.phase = p] PROVE Typed(row')
    BY <2>0, <2>1
  <2>2. CASE OwnNext
    <3>1. CASE GoesOn
      BY <2>0, <2>1, <3>1 DEF GoesOn
    <3>2. CASE FailedRow
      <4>1. PICK delay \in RetryDelays(row.attempts + 1) :
               /\ row.attempts + 1 < MaxAttempts
               /\ row' = [phase |-> "failed", attempts |-> row.attempts + 1, timer |-> delay]
        <5> SUFFICES ASSUME row' = [phase |-> "given up", attempts |-> row.attempts + 1,
                                    timer |-> 0]
                     PROVE  FALSE
          BY <3>2 DEF FailedRow
        <5> QED
          BY DEF ShortOutageLosesNothing
      <4>2. delay \in Nat
        <5>1. row.attempts + 1 \in 1 .. MaxAttempts - 1
          BY <2>0, <4>1, <1>0
        <5> QED
          BY <4>1, <5>1 DEF Outlasts
      <4> QED
        BY <2>0, <4>1, <4>2, <1>0
    <3> QED
      BY <2>2, <3>1, <3>2, FailsOnlyWhileRemaining
  <2>3. CASE Accept
    BY <2>1, <2>3 DEF Accept
  <2>4. CASE Tick
    <3>1. UNCHANGED row \/ row' = [row EXCEPT !.phase = "queued", !.timer = MaxLag]
      BY <2>4 DEF Tick
    <3> QED
      BY <2>0, <3>1, <1>0
  <2>5. CASE Pass
    <3>1. CountDown(row.timer) \in Nat
      BY <2>0 DEF CountDown, AtLeast
    <3>2. UNCHANGED row \/ row' = [row EXCEPT !.timer = CountDown(row.timer)]
      BY <2>5 DEF Pass
    <3> QED
      BY <2>0, <3>1, <3>2
  <2>6. CASE UNCHANGED row
    BY <2>0, <2>6
  <2>7. CASE Others \/ ProviderFails \/ ProviderRecovers \/ UNCHANGED allVars
    BY <2>6, <2>7 DEF Others, ProviderFails, ProviderRecovers, scheduleVars, allVars
  <2> HIDE DEF Typed
  <2> QED
    BY <2>2, <2>3, <2>4, <2>5, <2>7 DEF ScheduleNext
<1>2. tick' \in 0 .. SchedulerInterval
  <2> tick \in 0 .. SchedulerInterval
    BY DEF ScheduleType
  <2>1. CASE Tick \/ Pass
    <3>1. tick' = SchedulerInterval \/ (tick > 0 /\ tick' = tick - 1)
      BY <2>1 DEF Tick, Pass
    <3> QED
      BY <1>0, <3>1
  <2>2. CASE ~(Tick \/ Pass)
    BY <2>2, OwnSteps DEF ScheduleNext, Accept, Others, ProviderFails, ProviderRecovers,
                          scheduleVars, allVars
  <2> QED
    BY <2>1, <2>2
<1>3. openFor' \in 0 .. OpenTimeout
  <2> openFor \in 0 .. OpenTimeout
    BY DEF ScheduleType
  <2>1. CASE Pass
    <3>1. openFor' = CountDown(openFor)
      BY <2>1 DEF Pass
    <3> QED
      BY <1>0, <3>1, CountDownBounds
  <2>2. openFor' = openFor \/ NoteOpening \/ Pass
    BY OwnSteps DEF ScheduleNext, Accept, Others, Tick, ProviderFails, ProviderRecovers,
                    scheduleVars, allVars
  <2>3. CASE openFor' = openFor \/ NoteOpening
    BY <1>0, <2>3 DEF NoteOpening
  <2> QED
    BY <2>1, <2>2, <2>3
<1>4. outage' \in 0 .. MaxOutage
  <2> outage \in 0 .. MaxOutage
    BY DEF ScheduleType
  <2>1. CASE Pass
    <3>1. outage' = CountDown(outage)
      BY <2>1 DEF Pass
    <3> QED
      BY <1>0, <3>1, CountDownBounds
  <2>2. outage' = outage \/ outage' = 0 \/ Pass
    BY OwnSteps DEF ScheduleNext, Accept, Others, Tick, ProviderFails, ProviderRecovers,
                    scheduleVars, allVars
  <2>3. CASE outage' = outage \/ outage' = 0
    BY <1>0, <2>3
  <2> QED
    BY <2>1, <2>2, <2>3
<1> QED
  BY <1>1, <1>2, <1>3, <1>4 DEF ScheduleType

\* Nobody fails for the last time while something remains.
LEMMA LastAttemptComesLater ==
    ASSUME NEW left, Outlasts(left), ScheduleType, Covered(left),
           row.phase \in {"queued", "sending"}, Remaining > 0
    PROVE  row.attempts + 1 < MaxAttempts
<1> DEFINE a == row.attempts
<1>0. /\ SchedulerInterval \in Nat \ {0} /\ MaxAttempts \in Nat \ {0}
      /\ Remaining \in Nat /\ a \in 0 .. MaxAttempts - 1 /\ tick \in 0 .. SchedulerInterval
  BY ScheduleAssumption, RemainingType DEF ScheduleType
<1>1. a = 0 => Remaining <= left[0]
  BY DEF Covered
<1>2. a # 0 => Remaining + SchedulerInterval <= left[a] + tick
  BY DEF Covered, CoversFromTick
<1> SUFFICES ASSUME ~(a + 1 < MaxAttempts) PROVE FALSE
  OBVIOUS
<1>3. a = MaxAttempts - 1
  BY <1>0
<1>4. left[a] = 0
  BY <1>3 DEF Outlasts
<1> QED
  BY <1>0, <1>1, <1>2, <1>4

LEMMA FailingIsCovered ==
    ASSUME NEW left, Outlasts(left), ScheduleType, ScheduleType', Covered(left),
           row.phase \in {"queued", "sending"}, FailedRow, Remaining > 0,
           Remaining' \in Nat, Remaining' <= Remaining, tick' = tick
    PROVE  Covered(left)'
<1>0. /\ SchedulerInterval \in Nat \ {0} /\ MaxAttempts \in Nat \ {0}
      /\ Remaining \in Nat
  BY ScheduleAssumption, RemainingType
<1> DEFINE a == row.attempts
<1>1. a \in 0 .. MaxAttempts - 1 /\ tick \in 0 .. SchedulerInterval
  BY DEF ScheduleType
<1>2. \A n \in 0 .. MaxAttempts - 1 : left[n] \in Nat
  BY DEF Outlasts
<1>3. a = 0 => Remaining <= left[0]
  BY DEF Covered
<1>4. a # 0 => Remaining + SchedulerInterval <= left[a] + tick
  BY DEF Covered, CoversFromTick
<1>5. a + 1 < MaxAttempts
  BY LastAttemptComesLater
<1>6. PICK delay \in RetryDelays(a + 1) :
         row' = [phase |-> "failed", attempts |-> a + 1, timer |-> delay]
  BY <1>5 DEF FailedRow
<1>7. delay \in Nat
  BY <1>0, <1>1, <1>5 DEF Outlasts
<1>8. ASSUME NEW j \in Nat, tick + SchedulerInterval * j >= delay
      PROVE  Remaining <= tick + SchedulerInterval * j + left[a + 1]
  <2> DEFINE ij == SchedulerInterval * j
  <2>0. ij \in Nat /\ left[a + 1] \in Nat
    BY <1>0, <1>1, <1>2, <1>5
  <2>1. CASE a = 0
    <3>1. left[0] <= delay + left[1]
      BY <1>6, <2>1 DEF Outlasts
    <3>2. left[0] \in Nat /\ left[1] = left[a + 1]
      BY <1>0, <1>2, <2>1
    <3> HIDE DEF ij
    <3> QED
      BY <1>0, <1>1, <1>3, <1>7, <1>8, <2>0, <2>1, <3>1, <3>2 DEF ij
  <2>2. CASE a # 0
    <3>1. a \in 1 .. MaxAttempts - 2
      BY <1>0, <1>1, <1>5, <2>2
    <3>2. left[a] <= SchedulerInterval * Ticks(delay) + left[a + 1]
      BY <1>6, <3>1 DEF Outlasts
    <3>3. SchedulerInterval * (j + 1) = ij + SchedulerInterval
      BY <1>0
    <3>4. SchedulerInterval * (j + 1) >= delay
      BY <1>0, <1>1, <1>7, <1>8, <2>0, <3>3
    <3>5. /\ SchedulerInterval * Ticks(delay) <= ij + SchedulerInterval
          /\ SchedulerInterval * Ticks(delay) \in Nat
      <4>1. /\ Ticks(delay) \in Nat
            /\ SchedulerInterval * Ticks(delay) <= SchedulerInterval * (j + 1)
        BY <1>7, <3>4, TicksAreFewest
      <4> QED
        BY <1>0, <3>3, <4>1
    <3>6. left[a] \in Nat
      BY <1>1, <1>2
    <3> HIDE DEF ij
    <3>7. left[a] <= ij + SchedulerInterval + left[a + 1]
      BY <1>0, <2>0, <3>2, <3>5, <3>6
    <3>8. Remaining <= tick + ij + left[a + 1]
      BY <1>0, <1>1, <1>4, <2>0, <2>2, <3>6, <3>7
    <3> QED
      BY <3>8 DEF ij
  <2> QED
    BY <2>1, <2>2
<1>9. row'.phase = "failed" /\ row'.attempts = a + 1 /\ row'.timer = delay
  BY <1>6
<1>10. CoversAfterTick(left)'
  <2> SUFFICES ASSUME NEW j \in Nat, tick' + SchedulerInterval * j >= row'.timer
               PROVE  Remaining' <= tick' + SchedulerInterval * j + left[row'.attempts]
    BY DEF CoversAfterTick
  <2>1. Remaining <= tick + SchedulerInterval * j + left[a + 1]
    BY <1>8, <1>9
  <2>2. SchedulerInterval * j \in Nat /\ left[a + 1] \in Nat
    BY <1>0, <1>1, <1>2, <1>5
  <2> QED
    BY <1>0, <1>1, <1>9, <2>1, <2>2
<1> QED
  BY <1>1, <1>9, <1>10 DEF Covered

\* A step that changes neither the notification's attempts nor the ticker, and starts
\* no retry, keeps what is covered.
LEMMA ShorterIsCovered ==
    ASSUME NEW left, Outlasts(left), ScheduleType, Covered(left),
           Remaining' \in Nat, Remaining' <= Remaining, tick' = tick,
           row'.attempts = row.attempts, row'.timer = row.timer,
           \/ row'.phase = row.phase
           \/ row.phase = "new" /\ row'.phase = "queued"
           \/ row.phase = "queued" /\ row'.phase = "sending"
           \/ row.phase = "sending" /\ row'.phase = "delivered"
    PROVE  Covered(left)'
<1>0. /\ SchedulerInterval \in Nat /\ Remaining \in Nat
      /\ row.attempts \in 0 .. MaxAttempts - 1 /\ tick \in 0 .. SchedulerInterval
  BY ScheduleAssumption, RemainingType DEF ScheduleType
<1>1. left[0] \in Nat /\ left[row.attempts] \in Nat
  BY <1>0, ScheduleAssumption DEF Outlasts
<1>2. Remaining <= left[0] => Remaining' <= left[0]
  BY <1>0, <1>1
<1>3. CoversFromTick(left) => CoversFromTick(left)'
  BY <1>0, <1>1 DEF CoversFromTick
<1>4. CoversAfterTick(left) => CoversAfterTick(left)'
  <2> SUFFICES ASSUME CoversAfterTick(left), NEW j \in Nat,
                      tick' + SchedulerInterval * j >= row'.timer
               PROVE  Remaining' <= tick' + SchedulerInterval * j + left[row'.attempts]
    BY DEF CoversAfterTick
  <2>1. Remaining <= tick + SchedulerInterval * j + left[row.attempts]
    BY DEF CoversAfterTick
  <2>2. SchedulerInterval * j \in Nat
    BY <1>0
  <2> QED
    BY <1>0, <1>1, <2>1, <2>2
<1> QED
  BY <1>2, <1>3, <1>4 DEF Covered

LEMMA TickCovers ==
    ASSUME NEW left, Outlasts(left), ScheduleType, Covered(left), Tick,
           Remaining' \in Nat, Remaining' <= Remaining
    PROVE  Covered(left)'
<1>0. /\ SchedulerInterval \in Nat /\ Remaining \in Nat
      /\ row.attempts \in 0 .. MaxAttempts - 1 /\ row.timer \in Nat
      /\ tick = 0 /\ tick' = SchedulerInterval
  BY ScheduleAssumption, RemainingType DEF ScheduleType, Tick
<1>1. left[0] \in Nat /\ left[row.attempts] \in Nat
  BY <1>0, ScheduleAssumption DEF Outlasts
<1>2. CASE row.phase = "failed" /\ row.timer = 0
  <2>1. row' = [row EXCEPT !.phase = "queued", !.timer = MaxLag]
    BY <1>2 DEF Tick
  <2>2. row'.phase = "queued" /\ row'.attempts = row.attempts
    BY <2>1 DEF ScheduleType
  <2>3. row.attempts # 0 /\ CoversAfterTick(left)
    BY <1>2 DEF Covered
  <2>4. Remaining <= tick + SchedulerInterval * 0 + left[row.attempts]
    <3>1. tick + SchedulerInterval * 0 >= row.timer
      BY <1>0, <1>2
    <3> QED
      BY <2>3, <3>1 DEF CoversAfterTick
  <2>5. CoversFromTick(left)'
    BY <1>0, <1>1, <2>2, <2>4 DEF CoversFromTick
  <2> QED
    BY <2>2, <2>3, <2>5 DEF Covered
<1>3. CASE ~(row.phase = "failed" /\ row.timer = 0)
  <2>1. row' = row
    BY <1>3 DEF Tick
  <2>2. Remaining <= left[0] => Remaining' <= left[0]
    BY <1>0, <1>1
  <2>3. CoversFromTick(left) => CoversFromTick(left)'
    BY <1>0, <1>1, <2>1 DEF CoversFromTick
  <2>4. CoversAfterTick(left) => CoversAfterTick(left)'
    <3> SUFFICES ASSUME CoversAfterTick(left), NEW j \in Nat,
                        tick' + SchedulerInterval * j >= row.timer
                 PROVE  Remaining' <= tick' + SchedulerInterval * j + left[row.attempts]
      BY <2>1 DEF CoversAfterTick
    <3>1. /\ SchedulerInterval * (j + 1) = SchedulerInterval + SchedulerInterval * j
          /\ SchedulerInterval * j \in Nat
      BY <1>0
    <3>2. Remaining <= tick + SchedulerInterval * (j + 1) + left[row.attempts]
      <4>1. tick + SchedulerInterval * (j + 1) >= row.timer
        BY <1>0, <3>1
      <4> QED
        BY <4>1 DEF CoversAfterTick
    <3> QED
      BY <1>0, <1>1, <3>1, <3>2
  <2> QED
    BY <2>1, <2>2, <2>3, <2>4 DEF Covered
<1> QED
  BY <1>2, <1>3

LEMMA PassCovers ==
    ASSUME NEW left, Outlasts(left), ScheduleType, Covered(left), Pass
    PROVE  Covered(left)'
<1>0. /\ SchedulerInterval \in Nat /\ Remaining \in Nat
      /\ row.attempts \in 0 .. MaxAttempts - 1 /\ row.timer \in Nat
      /\ tick \in Nat /\ tick > 0 /\ tick' = tick - 1
  BY ScheduleAssumption, RemainingType DEF ScheduleType, Pass
<1>1. left[0] \in Nat /\ left[row.attempts] \in Nat
  BY <1>0, ScheduleAssumption DEF Outlasts
<1>2. /\ row'.phase = row.phase /\ row'.attempts = row.attempts
      /\ row.phase = "failed" => row'.timer = CountDown(row.timer)
  BY DEF Pass, ScheduleType
<1>3. Remaining' \in Nat /\ (Remaining' = 0 \/ Remaining' = Remaining - 1)
  BY <1>0, TimeShortens
<1>4. Remaining <= left[0] => Remaining' <= left[0]
  BY <1>0, <1>1, <1>3
<1>5. CoversFromTick(left) => CoversFromTick(left)'
  BY <1>0, <1>1, <1>2, <1>3 DEF CoversFromTick
<1>6. row.phase = "failed" /\ CoversAfterTick(left) => CoversAfterTick(left)'
  <2> SUFFICES ASSUME row.phase = "failed", CoversAfterTick(left), NEW j \in Nat,
                      tick' + SchedulerInterval * j >= row'.timer
               PROVE  Remaining' <= tick' + SchedulerInterval * j + left[row.attempts]
    BY <1>2 DEF CoversAfterTick
  <2>1. SchedulerInterval * j \in Nat
    BY <1>0
  <2>2. row'.timer = CountDown(row.timer)
    BY <1>2
  <2>3. tick + SchedulerInterval * j >= row.timer
    BY <1>0, <2>1, <2>2 DEF CountDown, AtLeast
  <2>4. Remaining <= tick + SchedulerInterval * j + left[row.attempts]
    BY <2>3 DEF CoversAfterTick
  <2> QED
    BY <1>0, <1>1, <1>3, <2>1, <2>4
<1> QED
  BY <1>2, <1>4, <1>5, <1>6 DEF Covered

LEMMA CoveredStep ==
    ASSUME NEW left, Outlasts(left), TypeOK, ScheduleType, OpenIsCounted, Covered(left),
           NoTime, Remaining' \in Nat, ScheduleType'
    PROVE  Covered(left)'
<1>1. Remaining' <= Remaining
  BY NothingProlongs
<1>2. CASE Tick
  BY <1>1, <1>2, TickCovers
<1>3. ASSUME tick' = tick, UNCHANGED row \/ GoesOn \/ Accept PROVE Covered(left)'
  <2>1. /\ row'.attempts = row.attempts /\ row'.timer = row.timer
        /\ \/ row'.phase = row.phase
           \/ row.phase = "new" /\ row'.phase = "queued"
           \/ row.phase = "queued" /\ row'.phase = "sending"
           \/ row.phase = "sending" /\ row'.phase = "delivered"
    BY <1>3 DEF GoesOn, Accept, ScheduleType
  <2> QED
    BY <1>1, <1>3, <2>1, ShorterIsCovered
<1>4. CASE OwnNext
  <2>1. tick' = tick
    BY <1>4, OwnSteps
  <2>2. CASE GoesOn
    BY <1>3, <2>1, <2>2
  <2>3. CASE row.phase \in {"queued", "sending"} /\ FailedRow /\ Remaining > 0
    BY <1>1, <2>1, <2>3, FailingIsCovered
  <2> QED
    BY <1>4, <2>2, <2>3, FailsOnlyWhileRemaining
<1>5. CASE Accept
  BY <1>3, <1>5 DEF Accept
<1>6. CASE UNCHANGED <<row, tick>>
  BY <1>3, <1>6
<1>7. CASE Others \/ ProviderFails \/ ProviderRecovers \/ UNCHANGED allVars
  BY <1>6, <1>7 DEF Others, ProviderFails, ProviderRecovers, scheduleVars, allVars
<1> QED
  BY <1>2, <1>4, <1>5, <1>7 DEF NoTime

\* A failure that is not the last one leaves a row that is not given up.
LEMMA NotGivenUpNext ==
    ASSUME NEW left, Outlasts(left), TypeOK, ScheduleType, OpenIsCounted, Covered(left),
           [ScheduleNext]_allVars
    PROVE  ShortOutageLosesNothing'
<1>1. ASSUME row'.phase # "given up" PROVE ShortOutageLosesNothing'
  BY <1>1 DEF ShortOutageLosesNothing
<1>2. row.phase # "given up"
  BY DEF Covered
<1>3. CASE OwnNext
  <2>1. CASE GoesOn
    BY <1>1, <1>2, <2>1 DEF GoesOn, ScheduleType
  <2>2. CASE row.phase \in {"queued", "sending"} /\ FailedRow /\ Remaining > 0
    <3>1. row.attempts + 1 < MaxAttempts
      BY <2>2, LastAttemptComesLater
    <3>2. PICK delay : row' = [phase |-> "failed", attempts |-> row.attempts + 1,
                               timer |-> delay]
      BY <2>2, <3>1, Zenon DEF FailedRow
    <3> QED
      BY <1>1, <3>2
  <2> QED
    BY <1>3, <2>1, <2>2, FailsOnlyWhileRemaining
<1>4. CASE Accept \/ Tick \/ Pass
  BY <1>1, <1>2, <1>4 DEF Accept, Tick, Pass, ScheduleType
<1>5. CASE Others \/ ProviderFails \/ ProviderRecovers \/ UNCHANGED allVars
  BY <1>1, <1>2, <1>5 DEF Others, ProviderFails, ProviderRecovers, scheduleVars, allVars
<1> QED
  BY <1>3, <1>4, <1>5 DEF ScheduleNext

Promise(left) == TypeOK /\ ScheduleType /\ OpenIsCounted /\ Covered(left)

LEMMA PromiseStep ==
    ASSUME NEW left, Outlasts(left), Promise(left), [ScheduleNext]_allVars
    PROVE  Promise(left)'
<1> USE DEF Promise
<1>1. TypeOK' /\ OpenIsCounted'
  BY BreakerTypeKept, OpenIsCountedStep
<1>2. ScheduleType'
  BY NotGivenUpNext, ScheduleTypeStep
<1>3. Remaining' \in Nat
  BY <1>2, ScheduleAssumption DEF ScheduleType, Remaining
<1>4. Covered(left)'
  <2>1. CASE Pass
    BY <2>1, PassCovers
  <2>2. CASE NoTime
    BY <1>2, <1>3, <2>2, CoveredStep
  <2> QED
    BY <2>1, <2>2 DEF ScheduleNext, NoTime
<1> QED
  BY <1>1, <1>2, <1>4

\* With settings that go together no outage as short as MaxOutage makes a
\* notification fail for good, although what the open breaker rejects counts.
THEOREM ShortOutageLosesNothingCorrect ==
    ASSUME NEW left, Outlasts(left)
    PROVE  ScheduleSpec => []ShortOutageLosesNothing
<1>1. ScheduleInit => Promise(left)
  <2> SUFFICES ASSUME ScheduleInit PROVE Promise(left)
    OBVIOUS
  <2>1. TypeOK
    BY DEF ScheduleInit, Init, TypeOK, CallerState, IdleCaller
  <2>2. ScheduleType
    <3>1. /\ row = [phase |-> "new", attempts |-> 0, timer |-> MaxLag]
          /\ tick \in 1 .. SchedulerInterval /\ openFor = 0 /\ outage = MaxOutage
      BY DEF ScheduleInit
    <3>2. /\ SchedulerInterval \in Nat /\ OpenTimeout \in Nat /\ MaxOutage \in Nat
          /\ MaxAttempts \in Nat \ {0} /\ MaxLag \in Nat
      BY ScheduleAssumption
    <3> QED
      BY <3>1, <3>2 DEF ScheduleType
  <2>3. OpenIsCounted
    BY DEF ScheduleInit, Init, OpenIsCounted
  <2>4. Covered(left)
    <3>1. Remaining = MaxOutage + OpenTimeout
      BY ScheduleAssumption DEF ScheduleInit, Remaining
    <3> QED
      BY <3>1, ScheduleAssumption DEF ScheduleInit, Covered, Outlasts
  <2> QED
    BY <2>1, <2>2, <2>3, <2>4 DEF Promise
<1>2. Promise(left) /\ [ScheduleNext]_allVars => Promise(left)'
  BY PromiseStep
<1>3. Promise(left) => ShortOutageLosesNothing
  BY DEF Promise, Covered, ShortOutageLosesNothing
<1> QED
  BY <1>1, <1>2, <1>3, PTL DEF ScheduleSpec
================================================================================
