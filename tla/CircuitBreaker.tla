----------------------------- MODULE CircuitBreaker -----------------------------
(***************************************************************************)
(* The circuit breaker around the delivery client                          *)
(* (internal/infrastructure/httpclient/circuit_breaker.go), called by all  *)
(* the workers of a process at once.                                       *)
(*                                                                         *)
(* Send is three steps: allowRequest under the mutex, the webhook call     *)
(* with no lock held, recordResult under the mutex.  Any number of calls   *)
(* may be between the first and the last when the state changes.           *)
(***************************************************************************)
EXTENDS Integers

CONSTANTS
    Callers,            \* goroutines that call Send
    FailureThreshold,
    SuccessThreshold

ASSUME BreakerAssumption ==
    /\ FailureThreshold \in Nat \ {0}
    /\ SuccessThreshold \in Nat \ {0}

VARIABLES
    state,                  \* circuitState
    consecutiveFailures,
    consecutiveSuccesses,
    elapsed,                \* time.Since(openedAt) >= OpenTimeout
    caller,                 \* where each call of Send is
    healthy                 \* whether the provider answers 2xx

vars == <<state, consecutiveFailures, consecutiveSuccesses, elapsed, caller, healthy>>

breaker == <<state, consecutiveFailures, consecutiveSuccesses, elapsed>>

\* probe tells a request that was allowed in the half-open state.
CallerState == [pc : {"idle", "sending", "succeeded", "failed"}, probe : BOOLEAN]

IdleCaller == [pc |-> "idle", probe |-> FALSE]

\* NewCircuitBreakerClient; openedAt is the zero time, long ago.
Init ==
    /\ state = "closed"
    /\ consecutiveFailures = 0
    /\ consecutiveSuccesses = 0
    /\ elapsed = TRUE
    /\ caller = [c \in Callers |-> IdleCaller]
    /\ healthy = TRUE

StartSending(c, probe) ==
    caller' = [caller EXCEPT ![c] = [pc |-> "sending", probe |-> probe]]

\* allowRequest lets the request through ...
AllowClosed(c) ==
    /\ state = "closed"
    /\ StartSending(c, FALSE)
    /\ UNCHANGED breaker

AllowAfterTimeout(c) ==
    /\ state = "open"
    /\ elapsed
    /\ state' = "half-open"
    /\ consecutiveSuccesses' = 0
    /\ StartSending(c, TRUE)
    /\ UNCHANGED <<consecutiveFailures, elapsed>>

AllowHalfOpen(c) ==
    /\ state = "half-open"
    /\ StartSending(c, TRUE)
    /\ UNCHANGED breaker

\* ... or answers ErrCircuitOpen.
Reject(c) ==
    /\ state = "open"
    /\ ~elapsed
    /\ UNCHANGED <<breaker, caller>>

AllowRequest(c) ==
    /\ caller[c].pc = "idle"
    /\ AllowClosed(c) \/ AllowAfterTimeout(c) \/ AllowHalfOpen(c) \/ Reject(c)
    /\ UNCHANGED healthy

\* inner.Send; a healthy provider succeeds, a failing one may still succeed.
InnerSend(c) ==
    /\ caller[c].pc = "sending"
    /\ \E result \in {"succeeded", "failed"} :
          /\ healthy => result = "succeeded"
          /\ caller' = [caller EXCEPT ![c].pc = result]
    /\ UNCHANGED <<breaker, healthy>>

\* Mutant: tripOpen leaves the counters as they are.
TripOpenKeepingCounters ==
    /\ state' = "open"
    /\ elapsed' = FALSE
    /\ UNCHANGED <<consecutiveFailures, consecutiveSuccesses>>

TripOpen ==
    /\ state' = "open"
    /\ elapsed' = FALSE
    /\ consecutiveFailures' = 0
    /\ consecutiveSuccesses' = 0

\* onFailure
FailureWhenClosed ==
    /\ state = "closed"
    /\ IF consecutiveFailures + 1 >= FailureThreshold
       THEN TripOpen
       ELSE /\ consecutiveFailures' = consecutiveFailures + 1
            /\ UNCHANGED <<state, consecutiveSuccesses, elapsed>>

FailureWhenHalfOpen == state = "half-open" /\ TripOpen

\* Mutant: a failure that is reported late trips the breaker once more.
FailureWhenOpenTrips == state = "open" /\ TripOpen

FailureWhenOpen == state = "open" /\ UNCHANGED breaker

\* onSuccess; the mutant takes one failure back instead of forgetting the run.
SuccessWhenClosedDecrements ==
    /\ state = "closed"
    /\ consecutiveFailures' = consecutiveFailures - 1
    /\ UNCHANGED <<state, consecutiveSuccesses, elapsed>>

SuccessWhenClosed ==
    /\ state = "closed"
    /\ consecutiveFailures' = 0
    /\ UNCHANGED <<state, consecutiveSuccesses, elapsed>>

\* Mutant: the successes are counted and nothing closes the breaker.
SuccessWhenHalfOpenNeverCloses ==
    /\ state = "half-open"
    /\ consecutiveSuccesses' = (consecutiveSuccesses + 1) % SuccessThreshold
    /\ UNCHANGED <<state, consecutiveFailures, elapsed>>

SuccessWhenHalfOpen ==
    /\ state = "half-open"
    /\ IF consecutiveSuccesses + 1 >= SuccessThreshold
       THEN /\ state' = "closed"
            /\ consecutiveFailures' = 0
            /\ consecutiveSuccesses' = 0
       ELSE /\ consecutiveSuccesses' = consecutiveSuccesses + 1
            /\ UNCHANGED <<state, consecutiveFailures>>
    /\ UNCHANGED elapsed

SuccessWhenOpen == state = "open" /\ UNCHANGED breaker

\* recordResult, whatever the state was when the request was allowed.
RecordFailure(c) ==
    /\ caller[c].pc = "failed"
    /\ FailureWhenClosed \/ FailureWhenHalfOpen \/ FailureWhenOpen
    /\ caller' = [caller EXCEPT ![c] = IdleCaller]
    /\ UNCHANGED healthy

RecordSuccess(c) ==
    /\ caller[c].pc = "succeeded"
    /\ SuccessWhenClosed \/ SuccessWhenHalfOpen \/ SuccessWhenOpen
    /\ caller' = [caller EXCEPT ![c] = IdleCaller]
    /\ UNCHANGED healthy

OpenTimeoutElapses ==
    /\ state = "open"
    /\ ~elapsed
    /\ elapsed' = TRUE
    /\ UNCHANGED <<state, consecutiveFailures, consecutiveSuccesses, caller, healthy>>

ProviderChanges == healthy' = ~healthy /\ UNCHANGED <<breaker, caller>>

CallerNext(c) == AllowRequest(c) \/ InnerSend(c) \/ RecordFailure(c) \/ RecordSuccess(c)

Next ==
    \/ \E c \in Callers : CallerNext(c)
    \/ OpenTimeoutElapses
    \/ ProviderChanges

Spec == Init /\ [][Next]_vars

\* Time passes and a call of Send that was allowed runs to its end.  Nobody has
\* to call Send.
Fairness ==
    /\ WF_vars(OpenTimeoutElapses)
    /\ \A c \in Callers : WF_vars(InnerSend(c) \/ RecordFailure(c) \/ RecordSuccess(c))

FairSpec == Spec /\ Fairness

(***************************************************************************)
(* ... unless there is work: as long as messages keep coming, some worker  *)
(* calls Send again whenever the breaker would let it through.             *)
(***************************************************************************)
BusySpec == FairSpec /\ WF_vars(\E c \in Callers : AllowRequest(c))

--------------------------------------------------------------------------------
\* The variables have the types the code declares.
TypeOK ==
    /\ state \in {"closed", "open", "half-open"}
    /\ consecutiveFailures \in Nat
    /\ consecutiveSuccesses \in Nat
    /\ elapsed \in BOOLEAN
    /\ caller \in [Callers -> CallerState]
    /\ healthy \in BOOLEAN

\* No count survives the state it belongs to, in whatever order concurrent calls
\* report: failures are only counted while closed, successes only while
\* half-open, both below the threshold that ends that state.
CountersFitState ==
    /\ consecutiveFailures < FailureThreshold
    /\ consecutiveSuccesses < SuccessThreshold
    /\ state # "closed" => consecutiveFailures = 0
    /\ state # "half-open" => consecutiveSuccesses = 0

\* Requests that were allowed before the breaker opened and fail afterwards do
\* not prolong the time it stays open.
LateFailureKeepsTimeout ==
    [][state = "open" /\ elapsed /\ state' = "open" => elapsed']_vars

\* A provider that has recovered is used again: under a steady load the breaker
\* closes, and no late result of an old request keeps it from doing so.
RecoversWithProvider == <>[]healthy => <>[](state = "closed")

\* README.md:453: "Half-Open: allows one probe request"; the comment in
\* allowRequest (circuit_breaker.go:123) says that probes are serialised.
OneProbe ==
    \A c, d \in Callers :
        /\ state = "half-open"
        /\ caller[c].probe /\ caller[c].pc = "sending"
        /\ caller[d].probe /\ caller[d].pc = "sending"
        => c = d
================================================================================
