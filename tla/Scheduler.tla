------------------------------- MODULE Scheduler -------------------------------
(***************************************************************************)
(* The scheduler (internal/scheduler/scheduler.go): one ticker for the     *)
(* notifications whose scheduled time has come and one for the failed ones *)
(* whose retry time has come; several of each when several instances run.  *)
(*                                                                         *)
(* A tick claims a batch in one transaction, then enqueues what it claimed *)
(* one by one, each with two calls that may fail.                          *)
(***************************************************************************)
EXTENDS NotificationRepository, StreamQueue, Environment

CONSTANTS
    ScheduledTickers,   \* goroutines of runScheduledTicker
    RetryTickers,       \* goroutines of runRetryTicker
    FetchLimit          \* schedulerBatchSize

Tickers == ScheduledTickers \cup RetryTickers

ASSUME SchedulerAssumption ==
    /\ FetchLimit \in Nat \ {0}
    /\ Nil \notin Message
    /\ IsFiniteSet(Tickers)

(***************************************************************************)
(* todo is what the tick fetched and has still to enqueue, cur the one     *)
(* whose row is updated and whose entry is still to be added.              *)
(***************************************************************************)
VARIABLE ticker

TickerState == [pc   : {"running", "exited"},
                todo : SUBSET Message,
                cur  : Message \cup {Nil}]

IdleTicker == [pc |-> "running", todo |-> {}, cur |-> Nil]

Waiting(t) == ticker[t] = IdleTicker

\* What the ticker claimed and has still to enqueue.
TickerHolds(t) == ticker[t].todo \cup ({ticker[t].cur} \ {Nil})

TickerCarries(t, n) == \E m \in TickerHolds(t) : m.n = n

\* The transaction of a fetch.  FOR UPDATE SKIP LOCKED may leave out any row
\* that another transaction holds, so any part of the ready rows can come back.
Fetch(t, ready) ==
    /\ ctx[ProcessOf[t]] = "live"
    /\ Waiting(t)
    /\ \E batch \in SUBSET ready \ {{}}, o \in RequestOutcomes :
          /\ Cardinality(batch) <= FetchLimit
          /\ IF Applied(o) THEN MarkFetched(batch) /\ Note(o, batch)
                           ELSE UNCHANGED <<db, interrupted>>
          /\ IF Returned(o)
             THEN ticker' = [ticker EXCEPT ![t].todo = Fetched(batch)]
             ELSE UNCHANGED ticker
    /\ UNCHANGED queueVars

TickerFetchScheduled(t) == t \in ScheduledTickers /\ Fetch(t, ScheduledReady)

TickerFetchRetry(t) == t \in RetryTickers /\ Fetch(t, RetryReady)

\* enqueueNotification, first call: repo.UpdateStatus(queued).
TickerMarkQueued(t) ==
    /\ ticker[t].cur = Nil
    /\ \E m \in ticker[t].todo, o \in Outcomes(ProcessOf[t]) :
          /\ IF Applied(o) THEN UpdateStatus(m.n, "queued", FALSE) ELSE UNCHANGED db
          /\ Note(o, {m.n})
          /\ ticker' = [ticker EXCEPT ![t].todo = @ \ {m},
                                      ![t].cur = IF Returned(o) THEN m ELSE Nil]
    /\ UNCHANGED queueVars

\* enqueueNotification, second call: producer.Enqueue.
TickerEnqueue(t) ==
    /\ ticker[t].cur # Nil
    /\ \E o \in EnqueueOutcomes(Outcomes(ProcessOf[t])) :
          /\ IF Applied(o) THEN Enqueue(ticker[t].cur) ELSE UNCHANGED queueVars
          /\ Note(o, {ticker[t].cur.n})
    /\ ticker' = [ticker EXCEPT ![t].cur = Nil]
    /\ UNCHANGED db

\* The same call, when the Redis client does not hear of its effect.
TickerResend(t) ==
    /\ "resent" \in Faults
    /\ ctx[ProcessOf[t]] = "live"
    /\ ticker[t].cur # Nil
    /\ EnqueueUnanswered(ticker[t].cur)
    /\ interrupted' = interrupted \cup {ticker[t].cur.n}
    /\ UNCHANGED <<db, ticker>>

\* The select of a ticker loop sees ctx.Done().
TickerExit(t) ==
    /\ ctx[ProcessOf[t]] = "cancelled"
    /\ Waiting(t)
    /\ ticker' = [ticker EXCEPT ![t].pc = "exited"]
    /\ UNCHANGED <<db, queueVars, interrupted>>

TickerStep(t) ==
    \/ TickerFetchScheduled(t)
    \/ TickerFetchRetry(t)
    \/ TickerMarkQueued(t)
    \/ TickerEnqueue(t)
    \/ TickerResend(t)
    \/ TickerExit(t)
================================================================================
