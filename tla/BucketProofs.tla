------------------------------ MODULE BucketProofs ------------------------------
(***************************************************************************)
(* The token bucket for any rate, burst and number of callers and          *)
(* instances, whatever their clocks show.                                  *)
(***************************************************************************)
EXTENDS TokenBucket, TLAPS

LEMMA DivisionBounds ==
    ASSUME NEW a \in Int, NEW b \in Nat \ {0}
    PROVE  /\ a \div b \in Int
           /\ b * (a \div b) <= a
           /\ a < b * (a \div b) + b
  OBVIOUS

LEMMA CapacityIsPositive == Capacity \in Nat /\ Token \in Nat /\ Token <= Capacity
  BY BucketAssumption DEF Capacity, Token

\* What the refill leaves: no more than the rate adds, and no more than fits.
LEMMA RefilledBounds ==
    ASSUME TypeOK, NEW now \in Nat
    PROVE  /\ Refilled(now) \in Int
           /\ Refilled(now) <= Capacity
           /\ initialised => Refilled(now) <= tokens + Rate * (now - lastRefill)
           /\ ~initialised => Refilled(now) = Capacity
  BY CapacityIsPositive, BucketAssumption DEF TypeOK, Refilled, Added

\* Falling short of a token takes a bucket that exists.
LEMMA DeniedBounds ==
    ASSUME TypeOK, NEW now \in Nat, Refilled(now) < Token \/ MayFallShort(now)
    PROVE  initialised
  BY CapacityIsPositive, RefilledBounds DEF TypeOK, MayFallShort

\* A wait refills the deficit, and a millisecond less does not overfill it.
LEMMA WaitMsBounds ==
    ASSUME NEW left \in Int, NEW ms \in WaitMs(left)
    PROVE  /\ ms \in Int
           /\ left + Rate * ms >= Token
           /\ left + Rate * (ms - 1) <= Token
<1> DEFINE deficit == Token - left
           q       == deficit \div Rate
<1>1. deficit \in Int /\ Rate \in Nat \ {0} /\ Token \in Int
  BY CapacityIsPositive, BucketAssumption
<1>2. q \in Int /\ Rate * q <= deficit
  <2> HIDE DEF deficit
  <2> QED
    BY <1>1, DivisionBounds
<1>3. ms \in 1 .. q + 1 /\ Rate * ms >= deficit
  BY DEF WaitMs
<1> HIDE DEF q
<1>4. ms \in Int /\ ms - 1 <= q
  BY <1>2, <1>3
<1>5. Rate * (ms - 1) <= Rate * q
  BY <1>1, <1>2, <1>4
<1>6. Rate * ms \in Int /\ Rate * (ms - 1) \in Int /\ Rate * q \in Int
  BY <1>1, <1>2, <1>4
<1> QED
  BY <1>1, <1>2, <1>3, <1>4, <1>5, <1>6

--------------------------------------------------------------------------------
LEMMA BucketTypeStep == TypeOK /\ [Next]_vars => TypeOK'
<1> SUFFICES ASSUME TypeOK, [Next]_vars PROVE TypeOK'
  OBVIOUS
<1> USE DEF TypeOK
<1>1. ASSUME NEW c \in Callers, ReadClock(c) PROVE TypeOK'
  <2>1. clock[InstanceOf[c]] \in Nat
    BY BucketAssumption
  <2>2. caller' \in [Callers -> CallerState]
    BY <1>1, <2>1 DEF ReadClock, CallerState
  <2> QED
    BY <1>1, <2>2 DEF ReadClock, bucket, observed
<1>2. ASSUME NEW c \in Callers, RunScriptAllowed(c) PROVE TypeOK'
  <2>1. caller[c].now \in Nat
    BY DEF CallerState
  <2>2. IdleCaller \in CallerState
    BY DEF IdleCaller, CallerState
  <2>3. Refilled(caller[c].now) \in Int /\ Refilled(caller[c].now) <= Capacity
    BY <2>1, RefilledBounds
  <2>4. tokens' \in Int /\ tokens' <= Capacity
    BY <1>2, <2>3, CapacityIsPositive DEF RunScriptAllowed
  <2>5. caller' \in [Callers -> CallerState]
    BY <1>2, <2>2 DEF RunScriptAllowed
  <2> QED
    BY <1>2, <2>1, <2>4, <2>5 DEF RunScriptAllowed
<1>3. ASSUME NEW c \in Callers, RunScriptDenied(c) PROVE TypeOK'
  <2> DEFINE left == Refilled(caller[c].now)
  <2>1. caller[c].now \in Nat /\ clock[InstanceOf[c]] \in Nat
    BY BucketAssumption DEF CallerState
  <2>2. left \in Int /\ left <= Capacity
    BY <2>1, RefilledBounds
  <2>3. PICK waitMs \in WaitMs(left) :
           caller' = [caller EXCEPT
                         ![c] = [pc         |-> "sleeping",
                                 now        |-> caller[c].now,
                                 left       |-> left,
                                 retryAfter |-> waitMs,
                                 until      |-> clock[InstanceOf[c]]
                                                   + (IF waitMs < 1 THEN 1 ELSE waitMs)]]
    BY <1>3 DEF RunScriptDenied
  <2>4. tokens' = left /\ lastRefill' = caller[c].now /\ UNCHANGED <<initialised, clock, observed>>
    BY <1>3 DEF RunScriptDenied
  <2> HIDE DEF left
  <2>5. waitMs \in Int
    BY <2>2, WaitMsBounds
  <2>6. clock[InstanceOf[c]] + (IF waitMs < 1 THEN 1 ELSE waitMs) \in Int
    BY <2>1, <2>5
  <2>7. caller' \in [Callers -> CallerState]
    BY <2>1, <2>2, <2>3, <2>5, <2>6 DEF CallerState
  <2> QED
    BY <2>1, <2>2, <2>4, <2>7 DEF observed
<1>4. ASSUME NEW c \in Callers, GiveUp(c) PROVE TypeOK'
  BY <1>4 DEF GiveUp, IdleCaller, CallerState, bucket, observed
<1>5. ASSUME NEW i \in Instances, Tick(i) PROVE TypeOK'
  BY <1>5 DEF Tick, bucket, observed
<1>6. CASE Observe
  BY <1>6 DEF Observe, bucket
<1>7. CASE UNCHANGED vars
  BY <1>7 DEF vars, bucket, observed
<1> QED
  BY <1>1, <1>2, <1>3, <1>4, <1>5, <1>6, <1>7 DEF Next, CallerNext

\* The variables keep their types, and the bucket never holds more than the burst.
THEOREM BucketTypeCorrect == Spec => []TypeOK
<1>1. Init => TypeOK
  <2> SUFFICES ASSUME Init PROVE TypeOK
    OBVIOUS
  <2>1. clock \in [Instances -> Nat]
    BY BucketAssumption DEF Init
  <2>2. caller \in [Callers -> CallerState]
    BY DEF Init, CallerState, IdleCaller
  <2>3. tokens \in Int /\ tokens <= Capacity
    BY CapacityIsPositive DEF Init
  <2> QED
    BY <2>1, <2>2, <2>3 DEF Init, TypeOK
<1> QED
  BY <1>1, BucketTypeStep, PTL DEF Spec

--------------------------------------------------------------------------------
(***************************************************************************)
(* The tokens granted and the tokens left together never exceed what the   *)
(* bucket can hold and what the rate has added until the last refill.  A   *)
(* refill whose time lies before the last one takes tokens away by the     *)
(* same measure, so that late calls and slow clocks need no case of their  *)
(* own.                                                                    *)
(***************************************************************************)
Conserved ==
    /\ initialised => granted * Token + tokens <= Capacity + Rate * (lastRefill - since)
    /\ ~initialised => granted = 0

LEMMA GrantsStep ==
    TypeOK /\ Conserved /\ RateBound /\ [Next]_vars => Conserved' /\ RateBound'
<1> SUFFICES ASSUME TypeOK, Conserved, RateBound, [Next]_vars PROVE Conserved' /\ RateBound'
  OBVIOUS
<1> USE DEF Conserved, RateBound
<1> /\ Rate \in Nat /\ Token \in Nat /\ Capacity \in Nat /\ Token <= Capacity
    /\ initialised \in BOOLEAN /\ tokens \in Int /\ tokens <= Capacity
    /\ lastRefill \in Nat /\ granted \in Nat /\ since \in Nat /\ lastGrant \in Nat
  BY CapacityIsPositive, BucketAssumption DEF TypeOK
<1>1. ASSUME NEW c \in Callers, RunScriptAllowed(c) PROVE Conserved' /\ RateBound'
  <2> DEFINE now == caller[c].now
  <2>1. now \in Nat
    BY DEF TypeOK, CallerState
  <2>2. /\ Refilled(now) >= Token
        /\ initialised' = TRUE
        /\ tokens' = Refilled(now) - Token
        /\ lastRefill' = now /\ lastGrant' = now
        /\ granted' = granted + 1
        /\ since' = IF initialised THEN since ELSE now
    BY <1>1 DEF RunScriptAllowed
  <2> HIDE DEF now
  <2>3. Refilled(now) \in Int
    BY <2>1, RefilledBounds
  <2>4. granted' * Token = granted * Token + Token
    BY <2>2
  <2>5. granted * Token + Refilled(now) <= Capacity + Rate * (now - since')
    <3>1. CASE initialised
      <4>1. Rate * (now - lastRefill) + Rate * (lastRefill - since) = Rate * (now - since)
        BY <2>1
      <4>2. Refilled(now) <= tokens + Rate * (now - lastRefill)
        BY <2>1, <3>1, RefilledBounds
      <4> QED
        BY <2>1, <2>2, <2>3, <3>1, <4>1, <4>2
    <3>2. CASE ~initialised
      BY <2>1, <2>2, <3>2, RefilledBounds
    <3> QED
      BY <3>1, <3>2
  <2>6. since' \in Nat
    BY <2>1, <2>2
  <2> QED
    BY <2>1, <2>2, <2>3, <2>4, <2>5, <2>6 DEF Token, Capacity
<1>2. ASSUME NEW c \in Callers, RunScriptDenied(c) PROVE Conserved' /\ RateBound'
  <2> DEFINE now == caller[c].now
  <2>1. now \in Nat
    BY DEF TypeOK, CallerState
  <2>2. /\ Refilled(now) < Token \/ MayFallShort(now)
        /\ tokens' = Refilled(now)
        /\ lastRefill' = now
        /\ UNCHANGED <<initialised, observed>>
    BY <1>2 DEF RunScriptDenied
  <2> HIDE DEF now
  <2>3. /\ initialised
        /\ Refilled(now) \in Int
        /\ Refilled(now) <= tokens + Rate * (now - lastRefill)
    BY <2>1, <2>2, RefilledBounds, DeniedBounds
  <2>4. Rate * (now - lastRefill) + Rate * (lastRefill - since) = Rate * (now - since)
    BY <2>1
  <2> QED
    BY <2>1, <2>2, <2>3, <2>4 DEF observed, Token, Capacity
<1>3. CASE Observe
  BY <1>3 DEF Observe, bucket
<1>4. CASE UNCHANGED <<bucket, observed>>
  BY <1>4 DEF bucket, observed, Token, Capacity
<1> QED
  BY <1>1, <1>2, <1>3, <1>4
     DEF Next, CallerNext, ReadClock, GiveUp, Tick, vars

\* From whatever moment one counts, no more is granted than a full bucket and
\* what the rate adds, however far apart the clocks are and however late a call.
THEOREM RateBoundCorrect == Spec => []RateBound
<1>1. Init => Conserved /\ RateBound
  BY BucketAssumption, CapacityIsPositive DEF Init, Conserved, RateBound, Token, Capacity
<1> QED
  BY <1>1, BucketTypeCorrect, GrantsStep, PTL DEF Spec

--------------------------------------------------------------------------------
LEMMA RetryAfterStep == TypeOK /\ RetryAfterWithinOneMs /\ [Next]_vars => RetryAfterWithinOneMs'
<1> SUFFICES ASSUME TypeOK, RetryAfterWithinOneMs, [Next]_vars,
                    NEW c \in Callers, caller'[c].pc = "sleeping"
             PROVE  /\ caller'[c].left + Rate * caller'[c].retryAfter >= Token
                    /\ caller'[c].left + Rate * (caller'[c].retryAfter - 1) <= Token
  BY DEF RetryAfterWithinOneMs, Token
<1>1. CASE caller'[c] = caller[c]
  BY <1>1 DEF RetryAfterWithinOneMs
<1>2. CASE RunScriptDenied(c)
  <2> DEFINE left == Refilled(caller[c].now)
  <2>1. left \in Int
    BY RefilledBounds DEF TypeOK, CallerState
  <2>2. caller'[c].left = left /\ caller'[c].retryAfter \in WaitMs(left)
    BY <1>2 DEF RunScriptDenied, TypeOK
  <2> HIDE DEF left
  <2> QED
    BY <2>1, <2>2, WaitMsBounds
<1>3. caller'[c] = caller[c] \/ RunScriptDenied(c)
  <2>1. ASSUME NEW d \in Callers, d # c, CallerNext(d) PROVE caller'[c] = caller[c]
    BY <2>1 DEF CallerNext, ReadClock, RunScriptAllowed, RunScriptDenied, GiveUp, TypeOK
  <2>2. ~(ReadClock(c) \/ RunScriptAllowed(c) \/ GiveUp(c))
    BY DEF ReadClock, RunScriptAllowed, GiveUp, TypeOK, IdleCaller
  <2> QED
    BY <2>1, <2>2 DEF Next, CallerNext, Tick, Observe, vars
<1> QED
  BY <1>1, <1>2, <1>3

\* A caller that is turned away is told how long the bucket needs, and at most a
\* millisecond more, whatever the rounding of the script.
THEOREM RetryAfterWithinOneMsCorrect == Spec => []RetryAfterWithinOneMs
<1>1. Init => RetryAfterWithinOneMs
  BY DEF Init, RetryAfterWithinOneMs, IdleCaller
<1> QED
  BY <1>1, BucketTypeCorrect, RetryAfterStep, PTL DEF Spec
================================================================================
