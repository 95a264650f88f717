------------------------------ MODULE Notification ------------------------------
(***************************************************************************)
(* The notification entity (internal/domain/entity/notification.go).       *)
(*                                                                         *)
(* The fields no behaviour depends on (recipient, subject, content, the    *)
(* timestamps of creation and update) are left out.  What a client chose   *)
(* for a notification never changes afterwards, so the idempotency key and *)
(* whether scheduled_at is set are constant functions of the notification. *)
(***************************************************************************)
EXTENDS Integers, FiniteSets

CONSTANTS
    Notifications,  \* the notification UUIDs that clients may create
    KeyOf,          \* the idempotency key each of them carries
    Scheduled,      \* those created with a scheduled_at in the future
    MaxAttempts,    \* max_attempts of every notification (defaultMaxAttempts)
    Nil             \* no notification

ASSUME NotificationAssumption ==
    /\ Scheduled \subseteq Notifications
    /\ MaxAttempts \in Nat \ {0}
    /\ DOMAIN KeyOf = Notifications

Statuses == {"pending", "queued", "processing", "delivered", "failed", "cancelled"}

\* A nullable timestamp.  Each process compares it with time.Now() of its own: it is
\* "future" as long as that is so on the clocks of all, and "past" from when it is on
\* the clock of one.
Instants == {"null", "future", "past"}

(***************************************************************************)
(* A row of the notifications table.  status = "absent" stands for no row. *)
(* providerMessageID says whether that column is set.                      *)
(***************************************************************************)
Row == [status            : Statuses \cup {"absent"},
        scheduledAt       : Instants,
        attempts          : Nat,
        nextRetryAt       : Instants,
        providerMessageID : BOOLEAN]

NoRow == [status |-> "absent", scheduledAt |-> "null", attempts |-> 0,
          nextRetryAt |-> "null", providerMessageID |-> FALSE]

\* NewNotification, with the ScheduledAt that the request carries.
NewNotification(n) ==
    [status            |-> "pending",
     scheduledAt       |-> IF n \in Scheduled THEN "future" ELSE "null",
     attempts          |-> 0,
     nextRetryAt       |-> "null",
     providerMessageID |-> FALSE]

(***************************************************************************)
(* What is serialised into a stream entry: the fields of the notification  *)
(* that its consumer reads, as they were when the producer loaded it.      *)
(***************************************************************************)
Message == [n : Notifications, attempts : Nat]
================================================================================
