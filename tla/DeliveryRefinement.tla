---------------------------- MODULE DeliveryRefinement ----------------------------
(***************************************************************************)
(* The notification pipeline implements Delivery, whatever fails.          *)
(***************************************************************************)
EXTENDS NotificationInvariant

Requests(n) == {h \in Handlers : HandlerCarries(h, n)}

Claims(n) == {t \in Tickers : TickerCarries(t, n)}

Entries(n) == {i \in Unread(QueueOf[n]) : EntryCarries(i, n)}

\* The workers that have an entry of n and are about to make one of the calls.
About(n, calls) == {w \in Workers : worker[w].pc \in calls /\ Held(w).n = n}

ToSend   == {"markProcessing", "takeToken", "send"}
ToRecord == {"markDelivered", "increment"}
ToFail   == {"markFailed"}

Pending(n) == db[n].status = "pending" /\ db[n].scheduledAt # "null"

\* The scheduler may claim the row once more, whatever its next_retry_at.
Resting(n) == db[n].status = "failed" /\ db[n].attempts < MaxAttempts

NoRights == [waiting |-> 0, sent |-> 0, counted |-> 0, resting |-> 0]

\* The places a right to attempt a delivery is in at each stage.  An entry that waits
\* for its acknowledgement is no right any more.
RightsOf(n) ==
    IF ~Exists(n) THEN NoRights
    ELSE [waiting |-> Cardinality(Requests(n)) + Cardinality(Claims(n))
                      + Cardinality(Entries(n)) + Cardinality(About(n, ToSend))
                      + (IF Pending(n) THEN 1 ELSE 0),
          sent    |-> Cardinality(About(n, ToRecord)),
          counted |-> Cardinality(About(n, ToFail)),
          resting |-> IF Resting(n) THEN 1 ELSE 0]

D == INSTANCE Delivery
        WITH accepted <- {n \in Notifications : Exists(n)},
             rights   <- [n \in Notifications |-> RightsOf(n)],
             handed   <- received,
             failures <- [n \in Notifications |-> db[n].attempts],
             recorded <- [n \in Notifications |-> db[n].providerMessageID],
             doubled  <- resent

\* Requests, tickers, workers, streams and rows together pass the rights to attempt
\* a delivery on as Delivery says: no step of theirs, no crash, restart or failed
\* call brings a right back once it is gone, hands a notification over twice for one
\* right, or starts an attempt beyond max_attempts.  Only the Redis client doubles a
\* right, by sending an XADD again whose reply it did not get (redis.go:15).
ImplementsDelivery == D!Spec
================================================================================
