--------------------------- MODULE NotificationSystem ---------------------------
(***************************************************************************)
(* The notification pipeline: requests, tickers and workers interleaved    *)
(* over the table, the streams and the status feed, with the life of the   *)
(* processes that run them (cmd/api/main.go).                              *)
(***************************************************************************)
EXTENDS NotificationService, Scheduler, WorkerPool

ASSUME ProcessAssumption ==
    ProcessOf \in [Handlers \cup Tickers \cup Workers -> Processes]

vars == <<db, stream, lastDelivered, pel, resent, announced, received,
          handler, ticker, worker, ctx, interrupted>>

Init ==
    /\ db = [n \in Notifications |-> NoRow]
    /\ stream = [q \in Queues |-> <<>>]
    /\ lastDelivered = [q \in Queues |-> 0]
    /\ pel = [q \in Queues |-> {}]
    /\ resent = [n \in Notifications |-> 0]
    /\ announced = [n \in Notifications |-> "none"]
    /\ received = [n \in Notifications |-> 0]
    /\ handler = [h \in Handlers |-> IdleHandler]
    /\ ticker = [t \in Tickers |-> IdleTicker]
    /\ worker = [w \in Workers |-> IdleWorker]
    /\ ctx = [p \in Processes |-> "live"]
    /\ interrupted = {}

HandlerNext(h) == HandlerStep(h) /\ UNCHANGED <<received, ticker, worker, ctx>>

TickerNext(t) == TickerStep(t) /\ UNCHANGED <<announced, received, handler, worker, ctx>>

WorkerNext(w) == WorkerStep(w) /\ UNCHANGED <<handler, ticker, ctx>>

TimePasses(n) ==
    /\ ScheduledTimeArrives(n) \/ RetryTimeArrives(n)
    /\ UNCHANGED <<queueVars, announced, received, handler, ticker, worker, ctx, interrupted>>

(***************************************************************************)
(* SIGTERM: the server stops accepting requests and waits for those under  *)
(* way, but no longer than its timeout; then main cancels the context.     *)
(***************************************************************************)
Shutdown(p) ==
    /\ "shutdown" \in Faults
    /\ ctx[p] = "live"
    /\ ctx' = [ctx EXCEPT ![p] = "cancelled"]
    /\ UNCHANGED <<db, queueVars, announced, received, handler, ticker, worker, interrupted>>

\* pool.Stop and sched.Stop have returned.
Drained(p) ==
    /\ \A w \in Workers : ProcessOf[w] = p => worker[w].pc = "exited"
    /\ \A t \in Tickers : ProcessOf[t] = p => ticker[t].pc = "exited"

\* Some goroutine of the process is about to bring the notification on.
HeldBy(p, n) ==
    \/ \E h \in Handlers : ProcessOf[h] = p /\ HandlerCarries(h, n)
    \/ \E t \in Tickers : ProcessOf[t] = p /\ TickerCarries(t, n)
    \/ \E w \in Workers : ProcessOf[w] = p /\ WorkerCarries(w, n)

\* A process starts with nothing in memory; the table, the streams and their
\* consumer groups are as the others and its predecessor left them (EnsureStreams
\* keeps a group that exists).  The consumer name contains the process ID, so
\* the entries pending under the old name stay there.
StartProcess(p) ==
    /\ handler' = [h \in Handlers |-> IF ProcessOf[h] = p THEN IdleHandler ELSE handler[h]]
    /\ ticker' = [t \in Tickers |-> IF ProcessOf[t] = p THEN IdleTicker ELSE ticker[t]]
    /\ worker' = [w \in Workers |-> IF ProcessOf[w] = p THEN IdleWorker ELSE worker[w]]
    /\ ctx' = [ctx EXCEPT ![p] = "live"]
    /\ interrupted' = interrupted \cup {n \in Notifications : HeldBy(p, n)}
    /\ UNCHANGED <<db, queueVars, announced, received>>

Restart(p) == ctx[p] = "cancelled" /\ Drained(p) /\ StartProcess(p)

Crash(p) == "crash" \in Faults /\ StartProcess(p)

Next ==
    \/ \E h \in Handlers : HandlerNext(h)
    \/ \E t \in Tickers : TickerNext(t)
    \/ \E w \in Workers : WorkerNext(w)
    \/ \E n \in Notifications : TimePasses(n)
    \/ \E p \in Processes : Shutdown(p) \/ Restart(p) \/ Crash(p)

Spec == Init /\ [][Next]_vars

(***************************************************************************)
(* Goroutines that can take a step are scheduled, an accepted request runs *)
(* to its end, tickers tick, and time passes.  Nobody has to send a        *)
(* request, cancel, or stop the process.                                   *)
(***************************************************************************)
HandlerProceeds(h) == HandlerProceed(h) /\ UNCHANGED <<received, ticker, worker, ctx>>

Fairness ==
    /\ \A h \in Handlers : WF_vars(HandlerProceeds(h))
    /\ \A t \in Tickers : WF_vars(TickerNext(t))
    /\ \A w \in Workers : WF_vars(WorkerNext(w))
    /\ \A n \in Notifications : WF_vars(TimePasses(n))

FairSpec == Spec /\ Fairness
================================================================================
