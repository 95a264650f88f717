------------------------- MODULE NotificationProperties -------------------------
(***************************************************************************)
(* What the notification pipeline promises.                                *)
(***************************************************************************)
EXTENDS NotificationSystem

\* Every variable keeps the shape the code gives it, and every entry lies on
\* the stream of its notification's channel and priority.
TypeOK ==
    /\ db \in [Notifications -> Row]
    /\ stream \in [Queues -> Seq(Message)]
    /\ lastDelivered \in [Queues -> Nat]
    /\ pel \in [Queues -> SUBSET Nat]
    /\ resent \in [Notifications -> Nat]
    /\ announced \in [Notifications -> Statuses \cup {"none"}]
    /\ received \in [Notifications -> Nat]
    /\ handler \in [Handlers -> HandlerState]
    /\ ticker \in [Tickers -> TickerState]
    /\ worker \in [Workers -> WorkerState]
    /\ ctx \in [Processes -> {"live", "cancelled"}]
    /\ interrupted \subseteq Notifications
    /\ \A h \in Handlers :
          handler[h].pc \in {"markQueued", "broadcastQueued", "broadcastCancelled"}
             => handler[h].cur # Nil
    /\ \A q \in Queues : lastDelivered[q] <= Len(stream[q])
    /\ \A q \in Queues : \A i \in DOMAIN stream[q] : QueueOf[stream[q][i].n] = q
    /\ \A w \in Workers :
          worker[w].pc \notin {"idle", "exited"}
             => worker[w].pos \in 1 .. lastDelivered[Serves[w]]

--------------------------------------------------------------------------------
(***************************************************************************)
(* The right to attempt a delivery.  At any time it is with a request that *)
(* has still to enqueue, with the row when the scheduler may claim it, with*)
(* the ticker that claimed it, with an entry nobody read yet, or with the  *)
(* worker that processes the entry.  An XADD that the Redis client sends   *)
(* again (redis.go:15) adds an entry nobody asked for, and so a right: the *)
(* properties say what the pipeline keeps nevertheless.                    *)
(***************************************************************************)
RowCarries(n) ==
    \/ db[n].status = "pending" /\ db[n].scheduledAt # "null"
    \/ db[n].status = "failed" /\ db[n].nextRetryAt # "null" /\ db[n].attempts < MaxAttempts

Unread(q) == (lastDelivered[q] + 1) .. Len(stream[q])

EntryCarries(i, n) == stream[QueueOf[n]][i].n = n

Carriers(n) ==
    {<<"request", h>> : h \in {h \in Handlers : HandlerCarries(h, n)}}
    \cup (IF RowCarries(n) THEN {<<"row", n>>} ELSE {})
    \cup {<<"ticker", t>> : t \in {t \in Tickers : TickerCarries(t, n)}}
    \cup {<<"entry", i>> : i \in {i \in Unread(QueueOf[n]) : EntryCarries(i, n)}}
    \cup {<<"worker", w>> : w \in {w \in Workers : WorkerCarries(w, n)}}

\* The right exists once, and once more for every XADD that was resent: requests,
\* tickers, streams and workers only ever pass it on, whatever call fails and wherever
\* a process dies.  So no two workers deliver one notification at the same time unless
\* the Redis client doubled it.  This is what FOR UPDATE SKIP LOCKED, the consumer
\* group and "the scheduler will re-enqueue" (processor.go:120) must achieve together.
OneCarrier == \A n \in Notifications : Cardinality(Carriers(n)) <= 1 + resent[n]

\* The provider gets a notification no more often than max_attempts, and the row
\* counts no more, but for one each time an XADD was resent: the worker decides from
\* the attempts in the message (processor.go:96), the scheduler from those in the row.
RetryBudget ==
    \A n \in Notifications : /\ received[n] <= MaxAttempts + resent[n]
                             /\ db[n].attempts <= MaxAttempts + resent[n]

\* What may be said of a notification that nobody is going to attempt any more: it
\* is delivered or out of attempts, or, when it was scheduled, cancelled.  A request
\* may also have written "queued" over its failure (notification_service.go:88).
Concluded(n) ==
    \/ db[n].providerMessageID
    \/ db[n].attempts >= MaxAttempts
    \/ n \in Scheduled /\ db[n].status = "cancelled"
    \/ /\ n \notin Scheduled
       /\ db[n].attempts > 0
       /\ db[n].status \in {"queued", "cancelled"}

\* The right never gets lost by itself: every accepted notification is concluded, with
\* somebody, or one that a failed call, a client that went away or a process that
\* stopped interrupted.  A request, a ticker and a worker each leave the right to the
\* next before they forget it, and the worker sets a retry time whenever the scheduler
\* would accept one (processor.go:99).
NothingIsLost ==
    \A n \in Notifications :
        Exists(n) /\ Carriers(n) = {} => Concluded(n) \/ n \in interrupted

\* Once a provider message ID is recorded, the provider never gets the notification
\* again unless an XADD of it was resent, even when a late write puts another status
\* on the row.
DeliveredNeverResent ==
    [][\A n \in Notifications :
          db[n].providerMessageID /\ received'[n] # received[n] => resent[n] > 0]_vars

\* A cancellation that comes before the scheduler claims the notification holds:
\* the row stays cancelled and the provider gets nothing more, whatever the
\* tickers of all instances, the workers and other requests do.
CancelBeforeClaimHolds ==
    [][\A n \in Scheduled :
          db[n].status = "cancelled" /\ Carriers(n) = {}
             => db'[n].status = "cancelled" /\ received'[n] = received[n]]_vars

\* The provider gets no notification while its scheduled_at is to come on the clock of
\* every process, nor a repeated one while its next_retry_at is, unless an XADD of it
\* was resent: a claim hands the right on only when the time has come for the process
\* that claims (notification_repository.go:322, :380), and a new retry time is set only
\* by the worker that holds the right (processor.go:102), whatever others write meanwhile.
Early(n) == \/ db[n].scheduledAt = "future"
            \/ db[n].nextRetryAt = "future" /\ resent[n] = 0

NotBeforeItsTime ==
    [][\A n \in Notifications : Early(n) => received'[n] = received[n]]_vars

\* The entries that were delivered and acknowledged.
Acked(q) == (1 .. lastDelivered[q]) \ pel[q]

\* An entry leaves the pending list only with its outcome in the table: a
\* provider message ID, or more attempts than the message was sent with.
AckedHasOutcome ==
    \A q \in Queues : \A i \in Acked(q) :
        LET m == stream[q][i] IN
        db[m.n].providerMessageID \/ db[m.n].attempts > m.attempts

\* A row that says "processing" has an entry in the pending list, so a crash,
\* a shutdown or a failed call in the middle of a delivery leaves a trace that
\* the message can be recovered from.
ProcessingIsPending ==
    \A n \in Notifications :
        db[n].status = "processing" =>
            \E i \in pel[QueueOf[n]] : stream[QueueOf[n]][i].n = n

\* Subscribers hear "delivered" only of notifications whose provider message
\* ID is in the table.
DeliveredAnnouncedAfterRecorded ==
    \A n \in Notifications :
        announced[n] = "delivered" => db[n].providerMessageID /\ received[n] > 0

--------------------------------------------------------------------------------
\* Nothing more will be done for the notification.
Settled(n) ==
    \/ db[n].status \in {"delivered", "cancelled"}
    \/ db[n].status = "failed" /\ db[n].nextRetryAt = "null"

\* A notification with a schedule ends delivered, cancelled or failed for good, unless
\* a call that mattered failed.
ScheduledSettles ==
    \A n \in Scheduled :
        (db[n].status = "pending") ~> ([](Settled(n)) \/ n \in interrupted)

\* ... and every notification is handed to the provider or counted as an attempt,
\* unless it was cancelled before its time came: a call that fails for one of a batch
\* (notification_service.go:135, scheduler.go:130) does not keep the others back.
AcceptedIsAttempted ==
    \A n \in Notifications :
        Exists(n) ~> \/ received[n] > 0 \/ db[n].attempts > 0
                     \/ db[n].status = "cancelled" \/ n \in interrupted

\* Every entry is acknowledged in the end.
EntriesAcked ==
    \A q \in Queues : <>[](Unread(q) = {} /\ pel[q] = {})

--------------------------------------------------------------------------------
(***************************************************************************)
(* What the documentation says and the code does not do.                   *)
(***************************************************************************)

\* entity/notification.go:78, of the statuses that include cancelled: "a final
\* state that cannot transition further".
CancelledIsFinal ==
    [][\A n \in Notifications :
          db[n].status = "cancelled" => db'[n].status = "cancelled"]_vars

\* worker/processor.go:120: "the scheduler will re-enqueue retriable
\* notifications when their next_retry_at arrives".
RetriableIsRetried ==
    \A n \in Notifications :
        (db[n].status = "failed" /\ db[n].nextRetryAt # "null" /\ db[n].attempts = 1)
            ~> \/ db[n].status = "cancelled"
               \/ \E i \in DOMAIN stream[QueueOf[n]] :
                     stream[QueueOf[n]][i] = [n |-> n, attempts |-> 1]

\* worker/pool.go:62: "Stop blocks until all worker goroutines have finished
\* draining their in-flight work".
StopDrains ==
    (\A p \in Processes : Drained(p)) => \A q \in Queues : pel[q] = {}
================================================================================
