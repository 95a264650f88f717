------------------------- MODULE NotificationRepository -------------------------
(***************************************************************************)
(* The notifications table and the statements the repository runs on it    *)
(* (internal/infrastructure/postgres/notification_repository.go).          *)
(*                                                                         *)
(* Each statement, and each transaction of FetchScheduledReady and         *)
(* FetchRetryReady, is atomic: one step of whoever calls it.  Rows are     *)
(* never deleted, so "no row affected" is met only by Cancel.              *)
(***************************************************************************)
EXTENDS Notification

VARIABLE db     \* the row of every notification

Exists(n) == db[n].status # "absent"

\* The INSERT of Create or CreateBatch meets the UNIQUE idempotency_key.
CanInsert(batch) ==
    /\ \A n \in batch : ~Exists(n)
    /\ \A n \in batch, m \in Notifications :
          (m \in batch \/ Exists(m)) /\ KeyOf[m] = KeyOf[n] => m = n

CreateBatch(batch) ==
    db' = [n \in Notifications |-> IF n \in batch THEN NewNotification(n) ELSE db[n]]

\* UPDATE ... SET status WHERE id: unconditional, and COALESCE keeps the
\* provider_message_id that is there when the caller passes none.
UpdateStatus(n, status, withProviderID) ==
    db' = [db EXCEPT ![n].status = status,
                     ![n].providerMessageID = @ \/ withProviderID]

Cancellable(n) == db[n].status \in {"pending", "queued"}

Cancel(n) == db' = [db EXCEPT ![n].status = "cancelled"]

\* Mutants of the fetches: a status or a time that is not tested, and a retry budget
\* that is off by one.
ScheduledReadyAnyStatus == {n \in Notifications : db[n].scheduledAt = "past"}

ScheduledReadyEarly == {n \in Notifications : /\ db[n].status = "pending"
                                              /\ db[n].scheduledAt # "null"}

RetryReadyAnyStatus == {n \in Notifications : /\ db[n].nextRetryAt = "past"
                                              /\ db[n].attempts < MaxAttempts}

RetryReadyEarly == {n \in Notifications : /\ db[n].status = "failed"
                                          /\ db[n].nextRetryAt # "null"
                                          /\ db[n].attempts < MaxAttempts}

RetryReadyOneShort == {n \in Notifications : /\ db[n].status = "failed"
                                             /\ db[n].nextRetryAt = "past"
                                             /\ db[n].attempts + 1 < MaxAttempts}

\* The WHERE clauses of the two fetches.
ScheduledReady == {n \in Notifications : /\ db[n].status = "pending"
                                         /\ db[n].scheduledAt = "past"}

RetryReady == {n \in Notifications : /\ db[n].status = "failed"
                                     /\ db[n].nextRetryAt = "past"
                                     /\ db[n].attempts < MaxAttempts}

\* The UPDATE that ends both fetch transactions, and the entities they return.
MarkFetched(batch) ==
    db' = [n \in Notifications |-> IF n \in batch
                                   THEN [db[n] EXCEPT !.status = "queued"]
                                   ELSE db[n]]

Fetched(batch) == {[n |-> n, attempts |-> db[n].attempts] : n \in batch}

\* Mutant: next_retry_at is written and the counter is not.
IncrementAttemptsNotCounted(n, nextRetryAt) ==
    db' = [db EXCEPT ![n].nextRetryAt = nextRetryAt]

IncrementAttempts(n, nextRetryAt) ==
    db' = [db EXCEPT ![n].attempts = @ + 1,
                     ![n].nextRetryAt = nextRetryAt]

\* The clock of some process reaches the time a column holds.  What is ready for that
\* process only is still one of the parts that a fetch may find ready.
ScheduledTimeArrives(n) ==
    /\ Exists(n)
    /\ db[n].scheduledAt = "future"
    /\ db' = [db EXCEPT ![n].scheduledAt = "past"]

RetryTimeArrives(n) ==
    /\ db[n].nextRetryAt = "future"
    /\ db' = [db EXCEPT ![n].nextRetryAt = "past"]
================================================================================
