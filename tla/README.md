# Notification system: specifications, checks and proofs

TLA+ modules for the Go program in `src/`: a service that accepts notifications
over HTTP, keeps them in PostgreSQL, hands them through Redis Streams to worker
goroutines that post them to a webhook provider, and reports every status change
to WebSocket clients.

    cd tla
    tlc -workers 2 -config faults.cfg MCNotification   # model-check an instance
    tlapm DeliveryProofs.tla                           # check the proofs

## The system

| Part | State | Operations | Talks to |
|---|---|---|---|
| Notification entity and table (`entity/notification.go`, `postgres/notification_repository.go`) | one row per notification: status, `scheduled_at`, `attempts`, `next_retry_at`, `provider_message_id` | Create, CreateBatch, UpdateStatus, Cancel, FetchScheduledReady, FetchRetryReady, IncrementAttempts | shared by requests, tickers, workers of all instances |
| Notification service and handlers (`service/notification_service.go`, `handler/notification_handler.go`) | the progress of each request | Create, CreateBatch, Cancel; List, GetByBatchID page by page | table, streams, Pub/Sub |
| Stream queue (`redis/queue.go`) | nine streams, one consumer group each: log, last delivered ID, pending entries | Enqueue (XADD), Dequeue (XREADGROUP `>`), Ack (XACK) | producers: requests and tickers; consumers: workers |
| Scheduler (`scheduler/scheduler.go`) | two goroutines per process | claim a batch of due rows in one transaction, then per row: mark queued, enqueue | table, streams |
| Worker pool and processor (`worker/pool.go`, `worker/processor.go`) | the progress of each worker | dequeue; mark processing, take a token, send, record, publish, acknowledge | everything |
| Rate limiter (`redis/rate_limiter.go`) | a token bucket per channel, in Redis | Allow (Lua script), Wait | shared by the workers of all instances |
| Circuit breaker (`httpclient/circuit_breaker.go`) | state, two counters, the time it opened | allowRequest, recordResult around an unlocked request | shared by the workers of a process |
| Webhook client (`httpclient/client.go`) | none | Send | the provider |
| Status feed (`redis/pubsub.go`) | none kept | Publish, Subscribe | service and workers publish, the hub subscribes |
| WebSocket hub and clients (`delivery/websocket/*.go`) | the set of clients, a buffered channel and two goroutines each | register, unregister, broadcast, Stop | status feed, connections |
| Templates (`template_service.go`, `template_repository.go`, `template_handler.go`, `entity/template.go`, `template/engine.go`) | one row per template | Create, Update (read, change, write), Delete, List, Render | read by Create and CreateBatch of notifications |
| Process lifecycle (`cmd/api/main.go`) | the background context | start, SIGTERM, crash | everything |
| Router, DTOs, health, middleware, metrics, tracing, configuration, generated API docs | - | - | - |

What is hard here:

* Nothing ties the table and the streams together. A request enqueues and *then*
  marks the row queued; a ticker commits "queued" and *then* enqueues; a worker
  writes the row, publishes, acknowledges, each call able to fail or to take
  effect without a reply, and the process able to die in between. A request also
  ends where it is when its client goes away, since its calls are made under
  `c.Request.Context()`.
* The Redis client repeats a command whose reply it does not get
  (`redis.go:15` keeps the defaults of go-redis), and an XADD that is repeated adds
  a second entry.
* `UpdateStatus` writes whatever the row says by then, so late writers override
  the cancellations and outcomes of others.
* Whether a failed delivery is retried is decided twice: by the worker from the
  attempts in the *message*, by the scheduler from those in the *row*.
* The breaker records a result in whatever state it has reached by then; the
  limiter is given a time read earlier, on the clock of another machine.
* An attempt that the open breaker rejects is spent like any other, so the
  backoff of a notification runs against the time the breaker stays open.
* A listing is two statements per page and no transaction, while rows are
  committed, change their status and are deleted.
* A WebSocket connection can be ended by its read pump, its write pump, a full
  buffer or the shutdown, in any order, and its channel must be closed once.

The properties a correct system has, per component: the right to attempt a
delivery exists once, and once more for each XADD that the Redis client sends
again; but for those, the provider is not asked more often than `max_attempts`,
never before the time that is set and never after a recorded success; an entry
leaves the pending list only with its outcome in the table; a cancellation before
the claim holds; what is accepted is attempted in the end, and gets lost on the
way only when a call fails, a client goes away or a process stops; the breaker's
counters belong to its state and it closes again; a short outage makes no
notification fail for good; a client that pages through a listing gets what was
there all the time; the bucket never grants more than burst plus rate; no channel
is closed twice and no subscriber misses an update while connected.

## Modules

The pipeline is one composition. Each component module declares its own state
and has one action per call that the code makes to PostgreSQL, Redis or the
provider, because those are the points at which others interleave, calls fail
and the process may die.

| Module | Models | Correspondence |
|---|---|---|
| `Notification` | the entity, a row, what a message carries | `Row` keeps the columns that control depends on. Timestamps are compared with now only, so they are NULL, future or past. What a client chose (key, schedule) is a constant function. |
| `Environment` | the processes, the context of each, the ways a call may end | `ProcessOf` says which process a goroutine belongs to. `Outcomes`: success, failure without effect, effect without reply. `Faults` selects those an instance explores. `interrupted` is an observer: the notifications for which a call that mattered failed, or whose holder was stopped. |
| `NotificationRepository` | `db` | One operator per SQL statement; each fetch transaction is atomic. `FOR UPDATE SKIP LOCKED` lets a fetch return any part of the ready rows. |
| `StreamQueue` | `stream`, `lastDelivered`, `pel`, `resent` | XADD appends, XREADGROUP `>` advances and adds to the pending list, XACK takes away. The ID of an entry is its position. `EnqueueUnanswered` is an XADD that takes effect and is going to be sent again; `resent` counts them. |
| `StatusFeed` | `announced` | What a subscriber that listens all the time heard last. |
| `NotificationService` | `handler` | Create is CreateBatch for a batch of one. `Continue` is the loop's `continue`: it ends the request when nothing is left. `HandlerDisconnect` is a client that goes away. |
| `Scheduler` | `ticker` | `todo` is what the tick fetched, `cur` what is marked and not yet enqueued. |
| `WorkerPool` | `worker`, `received` | The steps a to e of `Process`; any error returns to the loop and leaves the entry pending. `received` counts what the provider accepted. |
| `NotificationSystem` | composition; shutdown, crash and restart of each process | A new process starts with nothing in memory; the table and the streams stay, and so do the other processes. |
| `Delivery` | what the pipeline promises, abstractly | For each notification: how many rights to attempt a delivery are at each stage, how often the provider got it, how many attempts failed, whether its message ID is known, how often the queue doubled a right. |
| `DeliveryRefinement` | the refinement mapping | `RightsOf` counts the rights with requests, rows, tickers, streams and workers; the others are `received`, columns of the row and `resent`. |
| `NotificationProperties` | properties | |
| `NotificationInvariant` | the inductive invariants | `IInv`, `DueInv`, `KeptInv`, `RecordInv` |
| `NotificationProofs`, `DeliveryProofs`, `RefinementProofs` | proofs about the pipeline | |
| `CircuitBreaker` | the breaker with concurrent callers | allowRequest, the request with no lock held and recordResult are three steps. |
| `RetrySchedule` | one notification's retries, the scheduler's tick and the breaker of its process on one clock | `row`, `tick`, `openFor` and `outage` count down; the breaker is `CircuitBreaker`'s, so that a rejected attempt is one the breaker rejects. `RetryDelays` is `calculateNextRetry`. |
| `TokenBucket` | the bucket with callers on several machines | Reading the clock and running the script are two steps; each machine has its own clock. |
| `WebSocketHub` | hub, pumps, forwarder, Stop | A send on an unbuffered channel and its receipt are one step. |
| `Templates` | the template rows, updates, deletes, notifications made from them | An update is two steps, the read with the validation and the write of the whole row. The INSERT of a batch is one. |
| `Listing` | the paged lists of notifications, of a batch and of templates | COUNT and SELECT are two steps with commits between them. `IsPage` is ORDER BY, OFFSET and LIMIT: rows with equal keys come in any order, and in another one each time. |
| `BreakerProofs` (with `RetrySchedule`), `BucketProofs`, `HubProofs`, `TemplateProofs`, `ListingProofs` | proofs about these | |
| `MC...` | instances for TLC | |

In the pipeline the worker meets the limiter and the breaker as what they
answer: a token or an error, and a rejected send. Those answers are a superset of
what the two components can give, so the pipeline's safety properties hold with
them; when the breaker really rejects is `RetrySchedule`'s subject.

The constants are `Notifications`, `Scheduled` (those with a `scheduled_at`),
`KeyOf`, `MaxAttempts`, the goroutines (`Handlers`, `ScheduledTickers`,
`RetryTickers`, `Workers`), `Queues` with `QueueOf` and `Serves`, `MaxBatch`,
`FetchLimit`, `MaxResends`, `Processes` with `ProcessOf`, and `Faults`. A shutdown
or a crash takes the goroutines of its process and no other.

Processes have clocks of their own: a fetch compares with the `time.Now()` of the
ticker's process (`notification_repository.go:309`, `:367`), and a retry time is set
from that of the worker's (`processor.go:166`). A time of the model is "past" as soon
as the first of these clocks has reached it (`ScheduledTimeArrives`,
`RetryTimeArrives`); that the time has not come for some other process shows as
rows its fetch leaves out, which a fetch may do anyhow. So "too early" in the
properties below means: before the time that was set on the clock of every process.

## Runs

| Run | Instance | Shows |
|---|---|---|
| `faults` | two processes, the first with a request handler and the tickers, the second with two workers on one stream; one immediate and one scheduled notification with one idempotency key, so that one of them is accepted; 2 attempts; failed calls, lost replies, an XADD that is sent again, provider timeouts, a client that goes away, crashes, shutdowns | `OneCarrier`: the right to attempt a delivery is with one request, row, ticker, entry or worker at most, and with one more when an XADD was resent. `RetryBudget`, `DeliveredNeverResent`, `CancelBeforeClaimHolds`, `NotBeforeItsTime`, `NothingIsLost`, `AckedHasOutcome`, `ProcessingIsPending`, `DeliveredAnnouncedAfterRecorded`. `DueInv` (with `IInv`), the invariant of the proofs. `ImplementsDelivery`: the pipeline implements `Delivery`. |
| `settles` | an immediate and a scheduled notification in one batch, two retry tickers, a Redis that may refuse an XADD for want of memory, a client that may go away, a provider that may time out every time, `FairSpec` | `NothingIsLost`: what is accepted is concluded, with somebody or interrupted. `AcceptedIsAttempted`, `ScheduledSettles`, `EntriesAcked`; `IInv` when notifications share a request, a tick and a stream. |
| `breaker` | 3 callers, thresholds 3 and 2, `BusySpec` | `CountersFitState`, `LateFailureKeepsTimeout`, `RecoversWithProvider`. |
| `outage` | the default delays, tick, breaker timeout and attempts; 2 workers, threshold 2; an outage of 1.6 s at any point of the ticker | `ShortOutageLosesNothing`, `OutliesOutage`. |
| `bucket` | 2 callers on 2 machines, 400 tokens/s, burst 2 | `RateBound` from whatever moment one counts; `RetryAfterWithinOneMs`. |
| `hub` | 2 connections, buffers of 1, 2 updates | `NoPanic`, `FeedHasNoGaps`, `BrokenIsReleased`. |
| `templates` | 2 templates, 2 texts of which one has a placeholder, 2 updates at a time that may name a channel that does not exist, a batch of 2 | `StoredIsValid`, `DeletedStaysDeleted`, `NoDanglingReference`. |
| `listing` | 4 rows of which two have one `created_at`, 2 statuses, limits absent, negative and too large, a first offset absent or negative, at most 1 row that leaves during a walk | `ShortPageMissesOnlyLeavers`, `TotalMissesOnlyLatecomers`; in `TypeOK` the limit in use is between 1 and the maximum. |
| `doc_cancelled_final`, `doc_retriable_retried`, `doc_stop_drains`, `doc_one_probe` | smallest instances | What the documentation says and the code does not do: see below. |

Bounds, and why they are enough. Two attempts are the least with a retry, and
with it the first, a repeated and the last attempt; nothing in the code depends
on the number otherwise, and the theorems hold for all. `MaxResends` = 1 resends
one XADD of each notification: with it two workers have one notification at a time
and two failures of one attempt are counted. Two workers of one process, and a
handler and tickers of another, are the least that can compete while either process
crashes; the workers are interchangeable (`SYMMETRY`), as no property names one. In
`faults` the constraint `OneTrouble` leaves out what follows when a process is asked
to stop after an XADD was resent, which keeps the run within minutes; what follows
when it crashes is there. Each ticker is there once for the same reason: two retry
tickers compete in `settles`, and several of both kinds, like several requests at a
time, are covered by the theorems. A rejection is a provider timeout that leaves no
trace at the provider, so "rejected" is explored in `doc_retriable_retried` only; a
publication that is not heard ("unheard") cannot make a subscriber hear something
false, and is in the theorems only. Two notifications that are accepted together
matter only where they share something: a batch, a tick, a stream, which is what
`settles` has; with every fault they are covered by the theorems. The streams need
no bound, since the retry budget and `MaxResends` bound the entries.

In `outage` the unit is 200 ms, a fifth of the base delay, so that the extremes
and the mean of the 20% jitter are whole numbers of units; `Outlasts`,
on which the result rests, is monotone in the delays, so that the shortest
decide. `MaxOutage` = 8 is the most for which `ShortOutageLosesNothing` holds with
the defaults: with 9 TLC finds it violated. `MaxLag` bounds how long a
notification waits in a queue, at the limiter or for the provider, here 0.6 s; the
theorem holds for any. In `listing` four rows let a walk with a limit of 1 or 2
see a row move across a page's cut, in either direction; `MaxLeft` bounds how many
rows leave during a walk. 400 tokens per second make a token take two and a half
milliseconds, so that waits are rounded; the clocks go up to `MaxTime` = 6 ms,
enough for a full bucket to be emptied and refilled, and start apart by any
amount up to it. A thousandth of a token is the unit. The script computes with
floating point numbers and stores 14 digits of them; their errors are far below a
thousandth of a token, and so below what a comparison of the model can tell, except
at two points, where the model has both outcomes: a sum that makes up exactly one
token may fall just short of it (`MayFallShort`), and a wait that is a whole number
of milliseconds may be rounded up to the next one (`WaitMs`: at 100 tokens per second
and 0.7 tokens left the script answers 4 ms, not 3). In `hub` the second update is
the one that meets a full buffer. In `templates` two updates are the least that
overlap, and two texts tell a content with variables from one without.
`MaxUpdates`, `MaxTime`, `MaxOutage`,
`MaxLag`, `MaxLeft`, `MaxResends` and `OneTrouble` are the only bounds that are not the code's own.

Deadlock is checked for the breaker, which never stops. It is off for the
pipeline, which rests when everything is settled and nobody sends a request; for
the bucket, whose clocks stop at `MaxTime`; for the listings, which end with the
walk; for `outage`, which rests when the notification is delivered; for the hub, which ends with the
process; and for the templates, where every ID may be used up.

Fairness. `FairSpec` gives weak fairness to what the program schedules by
itself: each ticker and each worker goroutine, an accepted request, the passing
of time. Nobody has to send a request, cancel, or stop the process. Weak
fairness of a ticker as a whole is enough, since no other goroutine can disable
a claim for ever without making it. In `settles` an XADD may fail every time, which
interrupts the notification; the other calls to the stores do not fail, because a
store that always fails lets nothing happen. In the hub each case of `select` is
weakly fair: Go chooses at random among the cases that are ready. In `outage`
time is strongly fair: it passes however often the other workers have a failure to
record, which it has to wait for. A failure is recorded at once on the scale of
200 ms, which is why the outage counts as over with the last failure it causes,
and the worker is fair as long as the notification is in a queue; nobody has to
accept a notification. `BusySpec` adds
to the breaker that some worker calls it again whenever it would let the call
through; this is an assumption on the load and not on the code, since the
breaker leaves the open state only when it is asked.

## What the code does and its documentation does not say

The four violation runs each find a behaviour that contradicts a sentence of the
repository:

* `CancelledIsFinal`: a request's late `UpdateStatus(queued)`
  (`notification_service.go:88`) or a worker's `UpdateStatus(processing)`
  (`processor.go:66`) overrides a cancellation, and the notification is delivered.
  `CancelBeforeClaimHolds` shows the case in which a cancellation does hold.
* `RetriableIsRetried`: the same late write may cover "failed" after the worker
  counted its attempt. The row says "queued", no ticker selects it, and the retry
  never happens.
* `StopDrains`: `main` cancels the context the workers use before it waits for
  them (`main.go:246`), so a delivery in progress is given up, and its entry is
  never read again because XREADGROUP is only given `>`.
* `OneProbe`: in the half-open state every request passes
  (`circuit_breaker.go:127`).

Seen while modelling, and described here because they are no run of their own:

* A call that fails or a process that dies between a ticker's commit and its
  XADD leaves a row "queued" that nothing enqueues again; the same holds for a
  request whose XADD fails, or whose client goes away before it: the row stays
  "pending" with no schedule, and the client's repetition is answered 409.
  `NothingIsLost` says that no notification is stranded in any other way.
* An XADD that the Redis client sends again makes a second entry, and the provider
  may get the notification twice (`README.md:438` speaks of no double sends). Two
  entries may also each fail and be counted; `OneCarrier` and `RetryBudget` say that
  it stays at one carrier and one attempt more for each XADD that was resent. An XREADGROUP
  that is repeated leaves the first entry pending, as when its reply is lost; XACK
  and PUBLISH may be repeated without harm.
* The same late "queued" write may cover "delivered", after which Cancel
  succeeds on a delivered notification (`notification_handler.go:196` says it
  cannot).
* A provider that accepts and answers after the timeout gets the notification
  again (`README.md:438` speaks of no double sends); `RetryBudget` bounds how often.
* The scheduler's change to "queued" is not published (`README.md:61`).
* A rejection by the open breaker is counted as an attempt (`processor.go:96`). With
  the defaults the last attempt comes 31.6 s after the first at least, and the
  breaker stays open for 30 s, so that an outage of up to 1.6 s costs nothing, while
  one that is longer can make a notification fail for good that was never
  attempted after the outage. `RetrySchedule!Outlasts` says which settings go
  together: a `WORKER_RETRY_MAX_DELAY` of 12 s, or the retry tickers of a
  second process, whose ticks fall in between, take the margin away.
* `WORKER_RETRY_MAX_ATTEMPTS` (`config.go:112`) is read and never used; the number is
  the constant `defaultMaxAttempts` (`entity/notification.go:88`). It counts attempts,
  so that a delivery is retried four times, where `README.md:457` says five.
* The notifications of a batch get their `created_at` in one loop, and the listings
  sort by nothing else, so that equal keys may come in another order on the next
  page and a notification may be on none. A listing sorted by a column that changes
  (`status`, `updated_at`) promises nothing. With a fixed and unique key a client
  that reads on to the first short page misses no more than what left the listing
  meanwhile; one that stops at `total` also misses what entered between the COUNT
  and the SELECT of its last page. A filter on `status` lets rows leave.
* When Subscribe fails at the start, `Hub.Start` returns (`hub.go:42` says it
  blocks until cancelled) and later WebSocket requests block for ever.
* A partial update writes back the whole row it read (`template_handler.go:109`),
  so of two that overlap the later restores what the earlier changed. The whole
  row is also what keeps `StoredIsValid`: a statement that sets some of the
  columns lets two valid updates make an e-mail template without a subject.
* A batch reads its template once per notification and may be rendered from two
  versions of it. A subject's placeholders are in no list of variables
  (`entity/template.go:36`): a client that leaves one out is answered 500, where
  `template_handler.go` promises 422. `is_active` is stored and never asked for.

## Proofs

Proved with TLAPS, for all values of the constants that satisfy the named
assumptions of the modules (`NotificationAssumption`, `ProcessAssumption`,
`QueueAssumption`, `FaultsAssumption`, `ServiceAssumption`, `SchedulerAssumption`,
`WorkerAssumption`; `BreakerAssumption`; `ScheduleAssumption`; `BucketAssumption`;
`HubAssumption`; `TemplatesAssumption`; `ListingAssumption`). They are sets, functions
and numbers of the right kind; handlers, tickers, workers and notifications are
finitely many, since the theorems count carriers. `Faults` is any set of the faults of
`Environment`, resent XADDs and disconnected clients included:

| Theorem | States |
|---|---|
| `NotificationProofs!TypeCorrect` | `Spec => []TypeOK` |
| `NotificationProofs!RecordInvCorrect` | `Spec => []RecordInv`, resent XADDs included |
| `NotificationProofs!AckedHasOutcomeCorrect`, `ProcessingIsPendingCorrect`, `DeliveredAnnouncedAfterRecordedCorrect`, `CancelBeforeClaimHoldsCorrect` | the property of that name, from `RecordInv` |
| `DeliveryProofs!IInvCorrect`, `DueInvCorrect` | `Spec => []IInv`, `Spec => []DueInv` |
| `DeliveryProofs!NotBeforeItsTimeCorrect` | `Spec => NotBeforeItsTime` |
| `RefinementProofs!ImplementsDeliveryCorrect` | `Spec => ImplementsDelivery` |
| `RefinementProofs!OneCarrierCorrect`, `RetryBudgetCorrect` | `Spec => []OneCarrier`, `Spec => []RetryBudget` |
| `RefinementProofs!DeliveredNeverResentCorrect` | `Spec => DeliveredNeverResent` |
| `RefinementProofs!NothingIsLostCorrect` | `Spec => []NothingIsLost` |
| `BreakerProofs` | `TypeOK`, `CountersFitState`, `LateFailureKeepsTimeout` |
| `BreakerProofs!ScheduleImplementsBreaker` | `ScheduleSpec` implies the `Spec` of `CircuitBreaker`, and with it the two properties |
| `BreakerProofs!ShortOutageLosesNothingCorrect` | `Outlasts(left)` for some `left` implies `ScheduleSpec => []ShortOutageLosesNothing` |
| `BucketProofs` | `TypeOK`, `RateBound`, `RetryAfterWithinOneMs` |
| `HubProofs` | `TypeOK`, `NoPanic`, `FeedHasNoGaps` |
| `TemplateProofs` | `TypeOK`, `StoredIsValid`, `DeletedStaysDeleted`, `NoDanglingReference` |
| `ListingProofs` | `TypeOK`, `ShortPageMissesOnlyLeavers`, `TotalMissesOnlyLatecomers` |

The budgets are counted, not inferred from a single carrier. A right is waiting for
an attempt, sent, counted as failed or resting (`RightsOf`), and the step that hands a
notification over, counts a failure or claims a retry takes one right from one stage
to the next. `Within` and `Spent` add up what was handed over or counted, what is
recorded and the rights that may still be used; no step makes the sum larger, except that an
XADD that is resent adds one, to both sides. `OnceHeld` says that no worker holds an
entry another has. `OneCarrier`, `RetryBudget` and
`DeliveredNeverResent` then follow, for any number of resends.

About the notifications of which no XADD was resent `IInv` says more. A carrier hands
the right on together with what it believes of the row, and if a worker decided from
a stale number of attempts it would set a retry time that the scheduler does not
honour, or the reverse. `IInv` therefore says, wherever the right is, that the
attempts that travel with it are those of the row and that the provider got it
no more often than was counted: `Current` up to the request, `Attempted` once it
is sent, `Counted` once it is counted. It also says that a row which a worker is
processing is in no status the scheduler claims (`WorkerConsistent`), that a row
with a provider message ID has no carrier, and that a request holds no scheduled
notification past its first step. After a resend this is false: two messages carry
the same attempts, and the row counts both.

`Carriers(n)` is a set of tagged pairs. The proof first shows that a step moves
no carrier of another notification (`CarriersShrink`, `ConsistentShrinks`), then
for each action where the carrier of its own notification goes: request to entry,
entry to worker, worker to row, row to ticker, ticker to entry. Each of these
lemmas ends with the conjuncts of `Consistent` that the action can disturb.

`NotBeforeItsTime` is about the step in which the provider gets something, while
the times are checked when the row is claimed, several steps earlier. `DueInv` adds
to `IInv` that while a time is still to come, nobody who brings the notification to
the provider holds the right (`Underway`). A row becomes underway only by a claim,
which asks for the times, or by a request, whose notifications have none; and a
time is set only by the worker that counted the failure, which by `IInv` is
the only carrier and has left `Underway` with that call. Only for the retry time this
needs that no XADD was resent: a resend cannot bring a notification to the provider
before its `scheduled_at`, since nothing is added to a stream before the claim. That a row which waits
for its `scheduled_at` has no retry time is needed because the scheduled ticker
looks at `scheduled_at` only.

`NothingIsLost` is a statement about every step, since every step may lose the
right: the request that enqueues, the ticker between its commit and its XADD, the
worker that gives up. The observer `interrupted` holds the notifications for which
such a step went wrong, and `KeptInv` says what it takes that none of the others is
lost: a failed row has counted an attempt, and from the moment the worker has counted
it the row has a retry time or no attempt left (`RetryIsDated`), so that what the
worker leaves behind is what the scheduler selects; a cancel request holds nothing;
and a resend interrupts, so that `IInv` holds of the notifications that are not. The
proof takes each action and shows that the right of its notification goes to the
next holder, or the row is concluded, or the notification is interrupted, and that the
carriers of the others stay. A publication, an XACK, the write of "queued" by a
request and the answer of the provider interrupt nothing. `Concluded` has one case
that is no outcome: the late "queued" of a request over a counted failure, which
`doc_retriable_retried` exhibits.

`RecordInv` relates what a worker holds to the streams and the table without
saying that it is the only one who does: an entry that a worker holds, or that is
processing, is pending; one that is no longer pending has an outcome in its row; a
"delivered" that is announced was recorded. It survives resent XADDs, which is why
it is kept apart from `IInv`.

The refinement: for each action the proof shows what becomes of the rights of its
notification and that no other one's grow, and that the step is one of `Delivery`'s
or a stutter. Every step of `Delivery` may lose rights, because a crash loses those of
all goroutines of its process at once; no step makes one but `Accept` and `Double`, and
the latter is mapped to a resent XADD only.

The breaker: `StepsOfBreaker` reduces a step of any caller to what it does to the
breaker, and `CountersFitState` is inductive over those. `RetrySchedule` puts the
breaker on a clock and makes one of its callers the notification's worker;
`ScheduleImplementsBreaker` shows that each of its steps is one of the breaker or
leaves the breaker alone.

A short outage: `Remaining` bounds how long attempts can still fail, through the
provider or the open breaker. No step makes it longer, and each unit of time makes it
shorter, because the breaker that opens anew does so for a failure from the time of
the outage (`NothingProlongs`, `TimeShortens`). The invariant `Covered` says that what
the notification has left until its last attempt, in delays and ticks, is at
least that. An attempt only fails while something remains
(`FailsOnlyWhileRemaining`), so the last one does not. `MCRetrySchedule` shows that the
defaults satisfy `Outlasts`.

The bucket: `RateBound` needs `Conserved`, a potential: tokens granted and tokens
left together are at most the capacity and what the rate has added between the
moment one began to count and the last refill. Each grant moves a token from one
side to the other; a script that is given a time before the last refill takes
tokens away at the same rate, so nothing is assumed about the clocks.
`RetryAfterWithinOneMs` rests on `DivisionBounds`, and holds of every wait that `WaitMs`
allows.

The hub: a connection that has not reached the hub is in no map and has an
empty, open channel (`Unknown`), which registration relies on; with it `NoPanic`
and `FeedHasNoGaps` are inductive. `TypeOK` needs the bound on updates that are
taken and waiting.

Templates: what is stored next is what an update holds, so `StoredIsValid` needs
that of every update under way (`EditorsAreSound`). A patch of a sound row that
passes `Validate` is sound (`PatchedIsSound`), whatever the row is by then. A client
may name any channel in an update (`dto.go:100`); `Validate` turns others away before the
CHECK of the table does, and `TypeOK` says so of the rows that are about to be written.

Listings: the position of a row is the number of rows before it (`Rank`). Inserted
rows only move it further down, so that a row which was in the listing all the time
and is not seen can only be before the offset (`PassedOver`) if rows left; `WalkInv`
says that no more are passed over than left, and a short page leaves nothing after
it. A client that trusts the total stops after a page that may be full, so
`TotalInv` also says that at the SELECT the listing holds no more rows than were
counted and came in since the COUNT (`Counted`). When the offset and the page reach
the total, the rows behind the page are then no more than those that came in late
(`TotalEnds`).

Only model-checked: liveness (`ScheduledSettles`, `AcceptedIsAttempted`,
`EntriesAcked`, `RecoversWithProvider`, `BrokenIsReleased`, `OutliesOutage`), which is
out of the prover's reach. Every invariant and every action property of a passing
run is a theorem.

## Not modelled

* Recipients, contents, their validation, and reading one notification by its ID:
  no property depends on them. A request refused before its first write is no step.
* In the pipeline a retry time is in the future, then in the past; its length is in
  `RetrySchedule`.
* The format of messages. An entry that cannot be decoded stays pending, which
  is the same as a lost reply of XREADGROUP.
* Of templates the name and `is_active`. The engine is text substitution.
* Router, DTOs, health checks, middleware, metrics, tracing, configuration,
  generated documentation: no state that anything depends on.

## Plan

Done in this order: the pipeline with its faults and its proofs; breaker, bucket, hub
and templates; processes of their own and the refinement of `Delivery`; the listings;
the retries against the breaker; the times of a delivery, the total of a listing and
what is never lost. What is left would be

1. A `Delivery` whose steps lose a right only of what is interrupted, so that
   `NothingIsLost` is a consequence of the refinement.
2. `NotBeforeItsTime` for retry times with a bound on the resends: how early a second
   entry can be.
3. The retry tickers of several processes in `RetrySchedule`, with the smaller outage
   they leave room for.
4. The consumers' competition for tokens: the bucket with workers of different
   priorities, of which the code promises no order.
