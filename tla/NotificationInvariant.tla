-------------------------- MODULE NotificationInvariant --------------------------
(***************************************************************************)
(* The inductive invariants of the pipeline.                               *)
(*                                                                         *)
(* A notification of which no XADD was resent has one right, and wherever  *)
(* that is, the attempts that travel with it are those of the row when the *)
(* worker decides from them; nothing but the worker that delivers brings   *)
(* the row back to a status that the scheduler claims.                     *)
(***************************************************************************)
EXTENDS NotificationProperties

\* A worker has the notification and makes the call pc next.
WorkerAt(n, pc) == \E w \in Workers : worker[w].pc = pc /\ Held(w).n = n

\* The message agrees with the row, an attempt is left, and the provider got
\* the notification no more often than attempts were counted.
Current(m) ==
    /\ m.attempts = db[m.n].attempts
    /\ m.attempts < MaxAttempts
    /\ received[m.n] <= m.attempts

\* The provider may have the notification once more than the row counts.
Attempted(m) ==
    /\ m.attempts = db[m.n].attempts
    /\ m.attempts < MaxAttempts
    /\ received[m.n] <= m.attempts + 1

\* The attempt is counted, and a retry time is set only when one is left.
Counted(m) ==
    /\ db[m.n].attempts = m.attempts + 1
    /\ db[m.n].attempts <= MaxAttempts
    /\ received[m.n] <= db[m.n].attempts
    /\ db[m.n].nextRetryAt # "null" => db[m.n].attempts < MaxAttempts

\* What a worker has done so far with its message, and that nobody has brought
\* the row back to a status that the scheduler claims.
WorkerConsistent(w) ==
    /\ worker[w].pc \in {"markProcessing", "takeToken", "send"} => Current(Held(w))
    /\ worker[w].pc \in {"markDelivered", "increment"} => Attempted(Held(w))
    /\ worker[w].pc = "markFailed" => Counted(Held(w))
    /\ worker[w].pc # "markProcessing" =>
          db[Held(w).n].status \in {"processing", "queued", "cancelled"}

\* All there is to say of one notification: a single carrier, which agrees with
\* the row, and none for a row that is absent or has a provider message ID.
Consistent(n) ==
    /\ \A p, q \in Carriers(n) : p = q
    /\ db[n].attempts <= MaxAttempts /\ received[n] <= MaxAttempts
    /\ db[n].status = "absent" => db[n] = NoRow /\ received[n] = 0
    /\ db[n].status = "absent" \/ db[n].providerMessageID => Carriers(n) = {}
    /\ \A h \in Handlers :
          HandlerCarries(h, n) => db[n].attempts = 0 /\ received[n] = 0
    /\ RowCarries(n) => db[n].attempts < MaxAttempts /\ received[n] <= db[n].attempts
    /\ \A t \in Tickers : \A m \in TickerHolds(t) : m.n = n => Current(m)
    /\ \A i \in Unread(QueueOf[n]) : EntryCarries(i, n) => Current(stream[QueueOf[n]][i])
    /\ \A w \in Workers : WorkerCarries(w, n) => WorkerConsistent(w)

\* What a request has still to enqueue is not scheduled, and is done when it ends.
RequestConsistent(request) ==
    /\ request.pc # "broadcastPending" => request.todo \cap Scheduled = {}
    /\ request.pc = "idle" => request.todo = {}

\* The worker decides from the attempts in the message (processor.go:96), the
\* scheduler from those in the row (notification_repository.go:381), and both are the
\* same wherever the notification is, unless an XADD of it was resent: then two
\* messages carry the same attempts, and the row counts both.
IInv ==
    /\ TypeOK
    /\ \A h \in Handlers : RequestConsistent(handler[h])
    /\ \A t \in Tickers : ticker[t].cur \notin ticker[t].todo
    /\ \A n \in Notifications : resent[n] = 0 => Consistent(n)

\* The right is with somebody who brings the notification to the provider.
Underway(n) ==
    \/ \E h \in Handlers : HandlerCarries(h, n)
    \/ \E t \in Tickers : TickerCarries(t, n)
    \/ \E i \in Unread(QueueOf[n]) : EntryCarries(i, n)
    \/ \E w \in Workers : WorkerCarries(w, n) /\ worker[w].pc # "markFailed"

\* While a time is still to come, the right rests with the row, or with the worker
\* that has set the time and has still to write "failed".  A row that waits for
\* its scheduled time has no retry time, and nobody adds an entry of it.
Due(n) ==
    /\ Early(n) => ~Underway(n)
    /\ resent[n] = 0 /\ (db[n].status = "pending" \/ db[n].scheduledAt = "future") =>
          db[n].nextRetryAt = "null"
    /\ resent[n] > 0 => Exists(n) /\ db[n].scheduledAt # "future"

\* NotBeforeItsTime with what it needs to be inductive.
DueInv == IInv /\ \A n \in Notifications : Due(n)

\* A failed row has a retry time while an attempt is left, from the moment its worker
\* has counted the failure.
RetryIsDated(n) ==
    /\ db[n].status = "failed" => db[n].attempts > 0
    /\ db[n].scheduledAt # "null" => n \in Scheduled
    /\ WorkerAt(n, "markFailed") =>
          db[n].attempts = MaxAttempts \/ db[n].nextRetryAt # "null"

\* NothingIsLost with what it needs to be inductive.
KeptInv ==
    /\ IInv
    /\ \A h \in Handlers : handler[h].pc = "broadcastCancelled" => handler[h].todo = {}
    /\ \A n \in Notifications : resent[n] > 0 => n \in interrupted
    /\ \A n \in Notifications : n \notin interrupted => RetryIsDated(n)
    /\ NothingIsLost

--------------------------------------------------------------------------------
(***************************************************************************)
(* The inductive invariant behind what is recorded and announced.  When an *)
(* XADD was resent, several workers may have the same notification, each   *)
(* with an entry of its own.                                               *)
(***************************************************************************)

\* The notification is stored, and the row counts what the message was sent with.
Stored(m) == Exists(m.n) /\ m.attempts <= db[m.n].attempts

Busy(w) == worker[w].pc \notin {"idle", "exited"}

Acking == {"ackDelivered", "ackFailed"}

\* The entry a worker holds is pending, and what its earlier calls did is there.
Progress(w) ==
    /\ worker[w].pos \in pel[Serves[w]]
    /\ worker[w].pc = "markDelivered" => received[Held(w).n] > 0
    /\ worker[w].pc = "ackDelivered" => db[Held(w).n].providerMessageID
    /\ worker[w].pc \in {"markFailed", "ackFailed"} =>
          db[Held(w).n].attempts > Held(w).attempts

\* An entry of n is pending that no worker is about to acknowledge.
Recoverable(n) ==
    \E i \in pel[QueueOf[n]] :
        /\ stream[QueueOf[n]][i].n = n
        /\ \A w \in Workers :
              Serves[w] = QueueOf[n] /\ worker[w].pos = i => worker[w].pc \notin Acking

RowRecorded(n) ==
    /\ ~Exists(n) => db[n] = NoRow
    /\ db[n].providerMessageID => received[n] > 0
    /\ announced[n] = "delivered" => db[n].providerMessageID
    /\ db[n].status = "processing" => Recoverable(n)

RequestStored(h) ==
    /\ \A n \in handler[h].todo : Exists(n)
    /\ handler[h].cur # Nil => Exists(handler[h].cur)
    /\ handler[h].pc # "broadcastPending" => handler[h].todo \cap Scheduled = {}
    /\ handler[h].pc = "markQueued" => handler[h].cur \notin Scheduled

\* AckedHasOutcome, ProcessingIsPending and DeliveredAnnouncedAfterRecorded with
\* what they need to be inductive: every message in flight is of a stored row
\* that counts at least its attempts, a worker's calls left their effects, and
\* no two workers hold one entry.
RecordInv ==
    /\ TypeOK
    /\ \A q \in Queues : pel[q] \subseteq 1 .. lastDelivered[q]
    /\ \A h \in Handlers : RequestStored(h)
    /\ \A t \in Tickers : \A m \in TickerHolds(t) : Stored(m)
    /\ \A q \in Queues : \A i \in DOMAIN stream[q] : Stored(stream[q][i])
    /\ \A w \in Workers : Busy(w) => Progress(w)
    /\ \A v, w \in Workers :
          Busy(v) /\ Busy(w) /\ Serves[v] = Serves[w] /\ worker[v].pos = worker[w].pos
             => v = w
    /\ \A n \in Notifications : RowRecorded(n)
    /\ AckedHasOutcome
================================================================================
