------------------------------ MODULE TokenBucket ------------------------------
(***************************************************************************)
(* The rate limiter (internal/infrastructure/redis/rate_limiter.go): the   *)
(* token bucket of one channel, kept in a Redis hash and shared by the     *)
(* workers of all instances.                                               *)
(*                                                                         *)
(* Tokens are counted in thousandths, so that Rate tokens per second are   *)
(* Rate thousandths per millisecond.  The script computes with floating    *)
(* point numbers and keeps 14 digits of them, whose errors are far below a *)
(* thousandth: they tell only where a result is compared with a token or   *)
(* rounded up to a millisecond (MayFallShort, WaitMs), and there the model *)
(* allows both outcomes.  The script is atomic, but the time it is given   *)
(* was read by the caller, from the clock of its own instance, at some     *)
(* moment before.                                                          *)
(***************************************************************************)
EXTENDS Integers

CONSTANTS
    Rate,       \* tokens per second
    Burst,      \* tokens in a full bucket
    Instances,  \* the machines, each with its clock
    Callers,    \* goroutines that call Wait
    InstanceOf, \* the machine each of them runs on
    MaxTime     \* bound on the clocks

ASSUME BucketAssumption ==
    /\ Rate \in Nat \ {0}
    /\ Burst \in Nat \ {0}
    /\ InstanceOf \in [Callers -> Instances]
    /\ MaxTime \in Nat

Token    == 1000
Capacity == Burst * Token

VARIABLES
    initialised,    \* the hash exists
    tokens,
    lastRefill,
    clock,          \* time.Now().UnixMilli() on each instance
    caller,         \* where each call of Wait is
    granted,        \* tokens granted since the observer began to count,
    since,          \* the time of the bucket when it did,
    lastGrant       \* and the time the latest grant was given for

bucket   == <<initialised, tokens, lastRefill>>
observed == <<granted, since, lastGrant>>
vars     == <<bucket, clock, caller, observed>>

\* now is what the caller read; left what the script left in the bucket when it
\* turned the caller away, retryAfter what it then answered, until the time
\* the caller's timer fires.
CallerState == [pc         : {"idle", "script", "sleeping"},
                now        : Nat,
                left       : Int,
                retryAfter : Int,
                until      : Int]

IdleCaller == [pc |-> "idle", now |-> 0, left |-> 0, retryAfter |-> 0, until |-> 0]

\* Clocks of different machines disagree.
Init ==
    /\ initialised = FALSE
    /\ tokens = 0
    /\ lastRefill = 0
    /\ clock \in [Instances -> 0 .. MaxTime]
    /\ caller = [c \in Callers |-> IdleCaller]
    /\ granted = 0
    /\ since = 0
    /\ lastGrant = 0

\* What the rate has added or, when now lies before the last refill, taken away.
Added(now) == tokens + Rate * (now - lastRefill)

\* Mutant: the refill is not capped at the burst.
RefilledUncapped(now) == IF initialised THEN Added(now) ELSE Capacity

\* The tokens after the script's refill; the first call finds the bucket full.
Refilled(now) == IF initialised /\ Added(now) < Capacity THEN Added(now) ELSE Capacity

\* The sum of two fractions that make up a token may come out just below 1.
MayFallShort(now) == initialised /\ now # lastRefill /\ Added(now) = Token

\* Mutant: the wait is rounded down.
WaitMsRoundedDown(left) == {(Token - left) \div Rate}

\* math.ceil of the time until the deficit is refilled: the least number of
\* milliseconds that refills it or, when that fills it to the brim, perhaps the
\* next one.
WaitMs(left) ==
    LET deficit == Token - left
    IN  {ms \in 1 .. deficit \div Rate + 1 : Rate * ms >= deficit}

\* Allow, before the script: the first call of Wait, or the timer fired.
ReadClock(c) ==
    /\ \/ caller[c].pc = "idle"
       \/ caller[c].pc = "sleeping" /\ clock[InstanceOf[c]] >= caller[c].until
    /\ caller' = [caller EXCEPT ![c] = [pc         |-> "script",
                                        now        |-> clock[InstanceOf[c]],
                                        left       |-> 0,
                                        retryAfter |-> 0,
                                        until      |-> 0]]
    /\ UNCHANGED <<bucket, clock, observed>>

\* The script gives a token; Wait returns, with an error if the reply is lost.
RunScriptAllowed(c) ==
    LET now == caller[c].now IN
    /\ caller[c].pc = "script"
    /\ Refilled(now) >= Token
    /\ initialised' = TRUE
    /\ tokens' = Refilled(now) - Token
    /\ lastRefill' = now
    /\ granted' = granted + 1
    /\ since' = IF initialised THEN since ELSE now
    /\ lastGrant' = now
    /\ caller' = [caller EXCEPT ![c] = IdleCaller]
    /\ UNCHANGED clock

\* The script gives none, and Wait sleeps for at least a millisecond.
RunScriptDenied(c) ==
    LET now  == caller[c].now
        left == Refilled(now)
    IN  /\ caller[c].pc = "script"
        /\ left < Token \/ MayFallShort(now)
        /\ tokens' = left
        /\ lastRefill' = now
        /\ \E waitMs \in WaitMs(left) :
              LET sleep == IF waitMs < 1 THEN 1 ELSE waitMs IN
              caller' = [caller EXCEPT ![c] = [pc         |-> "sleeping",
                                               now        |-> now,
                                               left       |-> left,
                                               retryAfter |-> waitMs,
                                               until      |-> clock[InstanceOf[c]] + sleep]]
        /\ UNCHANGED <<initialised, clock, observed>>

\* The script does not run, or the context of the caller is cancelled.
GiveUp(c) ==
    /\ caller[c].pc # "idle"
    /\ caller' = [caller EXCEPT ![c] = IdleCaller]
    /\ UNCHANGED <<bucket, clock, observed>>

Tick(i) ==
    /\ clock[i] < MaxTime
    /\ clock' = [clock EXCEPT ![i] = @ + 1]
    /\ UNCHANGED <<bucket, caller, observed>>

\* An observer may begin to count at any time.
Observe ==
    /\ initialised
    /\ granted' = 0
    /\ since' = lastRefill
    /\ lastGrant' = lastRefill
    /\ UNCHANGED <<bucket, clock, caller>>

CallerNext(c) == ReadClock(c) \/ RunScriptAllowed(c) \/ RunScriptDenied(c) \/ GiveUp(c)

Next ==
    \/ \E c \in Callers : CallerNext(c)
    \/ \E i \in Instances : Tick(i)
    \/ Observe

Spec == Init /\ [][Next]_vars

--------------------------------------------------------------------------------
\* Types; a bucket never holds more than the burst.
TypeOK ==
    /\ initialised \in BOOLEAN
    /\ tokens \in Int
    /\ tokens <= Capacity
    /\ lastRefill \in Nat
    /\ clock \in [Instances -> Nat]
    /\ caller \in [Callers -> CallerState]
    /\ granted \in Nat
    /\ since \in Nat
    /\ lastGrant \in Nat

\* From whatever moment one counts, however many instances call and however far
\* their clocks are apart or their calls late, no more is granted than a full
\* bucket and what the rate adds until the time of the latest grant.
RateBound == granted * Token <= Capacity + Rate * (lastGrant - since)

\* A caller that is turned away is told a number of milliseconds after which the
\* bucket, if nobody else takes from it, holds a token, and a millisecond earlier
\* it held no more than one: the rounding neither sends the caller back too early
\* nor keeps it more than a millisecond too long.
RetryAfterWithinOneMs ==
    \A c \in Callers :
        caller[c].pc = "sleeping" =>
            LET at(ms) == caller[c].left + Rate * ms
            IN  at(caller[c].retryAfter) >= Token /\ at(caller[c].retryAfter - 1) <= Token
================================================================================
