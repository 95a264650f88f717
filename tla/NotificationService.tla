-------------------------- MODULE NotificationService --------------------------
(***************************************************************************)
(* The HTTP requests that create and cancel notifications: the handlers    *)
(* (internal/delivery/handler/notification_handler.go) and the service     *)
(* they call (internal/service/notification_service.go).                   *)
(*                                                                         *)
(* A request runs in a goroutine of its own and every call it makes to     *)
(* PostgreSQL or Redis is a step.  Create is CreateBatch for a batch of    *)
(* one: on a failed call Create returns and CreateBatch goes on with the   *)
(* next notification, which for a batch of one is the same.  A request     *)
(* that validation, the template or the idempotency key turns away changes *)
(* nothing and is no step.  The order of a batch is the client's choice,   *)
(* so what is left of it is a set.                                         *)
(***************************************************************************)
EXTENDS NotificationRepository, StreamQueue, StatusFeed, Environment

CONSTANTS
    Handlers,   \* goroutines serving requests
    MaxBatch    \* maxBatchSize

ASSUME ServiceAssumption ==
    /\ MaxBatch \in Nat \ {0}
    /\ Nil \notin Notifications
    /\ IsFiniteSet(Handlers)

(***************************************************************************)
(* pc is the call a request makes next; todo the notifications it has      *)
(* persisted and not yet enqueued; cur the one it works on, which is still *)
(* in todo while its XADD is sent again.                                   *)
(***************************************************************************)
VARIABLE handler

HandlerState ==
    [pc   : {"idle", "broadcastPending", "enqueue", "markQueued",
             "broadcastQueued", "broadcastCancelled"},
     todo : SUBSET Notifications,
     cur  : Notifications \cup {Nil}]

IdleHandler == [pc |-> "idle", todo |-> {}, cur |-> Nil]

\* The request has still to enqueue n.
HandlerCarries(h, n) == n \in handler[h].todo \ Scheduled

\* Mutant: the loop returns where it should continue.
ContinueReturns(rest) == IF rest = {} THEN IdleHandler ELSE [IdleHandler EXCEPT !.todo = {}]

\* The loop of CreateBatch moves on to what is left, or the request returns.
Continue(rest) == IF rest = {} THEN IdleHandler
                  ELSE [pc |-> "enqueue", todo |-> rest, cur |-> Nil]

\* repo.Create, or repo.CreateBatch in one transaction.
HandlerPersist(h) ==
    /\ ctx[ProcessOf[h]] = "live"
    /\ handler[h].pc = "idle"
    /\ \E batch \in SUBSET Notifications \ {{}}, o \in RequestOutcomes :
          /\ Cardinality(batch) <= MaxBatch
          /\ CanInsert(batch)
          /\ IF Applied(o) THEN CreateBatch(batch) /\ Note(o, batch \ Scheduled)
                           ELSE UNCHANGED <<db, interrupted>>
          /\ IF Returned(o)
             THEN handler' = [handler EXCEPT ![h] = [pc   |-> "broadcastPending",
                                                     todo |-> batch,
                                                     cur  |-> Nil]]
             ELSE UNCHANGED handler
    /\ UNCHANGED <<queueVars, announced>>

\* broadcastStatus(pending) for the whole batch; scheduled ones then rest in
\* the table until the scheduler picks them up.
HandlerBroadcastPending(h) ==
    /\ handler[h].pc = "broadcastPending"
    /\ \E heard \in SUBSET handler[h].todo :
          /\ "unheard" \notin Faults => heard = handler[h].todo
          /\ Publish(heard, "pending")
    /\ handler' = [handler EXCEPT ![h] = Continue(handler[h].todo \ Scheduled)]
    /\ UNCHANGED <<db, queueVars, interrupted>>

\* producer.Enqueue of a notification as NewNotification made it.
HandlerEnqueue(h) ==
    /\ handler[h].pc = "enqueue"
    /\ \E n \in handler[h].todo, o \in EnqueueOutcomes(RequestOutcomes) :
          LET rest == handler[h].todo \ {n} IN
          /\ handler[h].cur \in {n, Nil}
          /\ IF Applied(o) THEN Enqueue([n |-> n, attempts |-> 0]) ELSE UNCHANGED queueVars
          /\ Note(o, {n})
          /\ handler' = [handler EXCEPT ![h] =
                            IF Returned(o)
                            THEN [pc |-> "markQueued", todo |-> rest, cur |-> n]
                            ELSE Continue(rest)]
    /\ UNCHANGED <<db, announced>>

\* The same call, when the Redis client does not hear of its effect.
HandlerResend(h) ==
    /\ "resent" \in Faults
    /\ handler[h].pc = "enqueue"
    /\ \E n \in handler[h].todo :
          /\ handler[h].cur \in {n, Nil}
          /\ EnqueueUnanswered([n |-> n, attempts |-> 0])
          /\ handler' = [handler EXCEPT ![h].cur = n]
          /\ interrupted' = interrupted \cup {n}
    /\ UNCHANGED <<db, announced>>

\* repo.UpdateStatus(queued), after the entry is already in the stream.
HandlerMarkQueued(h) ==
    /\ handler[h].pc = "markQueued"
    /\ \E o \in RequestOutcomes :
          /\ IF Applied(o) THEN UpdateStatus(handler[h].cur, "queued", FALSE)
                           ELSE UNCHANGED db
          /\ handler' = [handler EXCEPT ![h] =
                            IF Returned(o) THEN [@ EXCEPT !.pc = "broadcastQueued"]
                                           ELSE Continue(@.todo)]
    /\ UNCHANGED <<queueVars, announced, interrupted>>

HandlerBroadcastQueued(h) ==
    /\ handler[h].pc = "broadcastQueued"
    /\ \E heard \in Heard(RequestOutcomes) :
          IF heard THEN Publish({handler[h].cur}, "queued")
                   ELSE UNCHANGED announced
    /\ handler' = [handler EXCEPT ![h] = Continue(@.todo)]
    /\ UNCHANGED <<db, queueVars, interrupted>>

\* repo.Cancel; when no row matches, the request answers 404 and changes nothing.
HandlerCancel(h) ==
    /\ ctx[ProcessOf[h]] = "live"
    /\ handler[h].pc = "idle"
    /\ \E n \in Notifications, o \in RequestOutcomes :
          /\ Cancellable(n)
          /\ IF Applied(o) THEN Cancel(n) ELSE UNCHANGED db
          /\ IF Returned(o)
             THEN handler' = [handler EXCEPT ![h] = [pc   |-> "broadcastCancelled",
                                                     todo |-> {},
                                                     cur  |-> n]]
             ELSE UNCHANGED handler
    /\ UNCHANGED <<queueVars, announced, interrupted>>

HandlerBroadcastCancelled(h) ==
    /\ handler[h].pc = "broadcastCancelled"
    /\ \E heard \in Heard(RequestOutcomes) :
          IF heard THEN Publish({handler[h].cur}, "cancelled")
                   ELSE UNCHANGED announced
    /\ handler' = [handler EXCEPT ![h] = IdleHandler]
    /\ UNCHANGED <<db, queueVars, interrupted>>

\* The client goes away, which cancels c.Request.Context(): every further call of the
\* request fails, and what it has still to enqueue stays where it is.
HandlerDisconnect(h) ==
    /\ "disconnect" \in Faults
    /\ handler[h].pc # "idle"
    /\ IF handler[h].pc = "broadcastPending"
       THEN \E heard \in SUBSET handler[h].todo : Publish(heard, "pending")
       ELSE UNCHANGED announced
    /\ interrupted' = interrupted \cup (handler[h].todo \ Scheduled)
    /\ handler' = [handler EXCEPT ![h] = IdleHandler]
    /\ UNCHANGED <<db, queueVars>>

\* What a request does once it is accepted.
HandlerProceed(h) ==
    \/ HandlerBroadcastPending(h)
    \/ HandlerEnqueue(h)
    \/ HandlerMarkQueued(h)
    \/ HandlerBroadcastQueued(h)
    \/ HandlerBroadcastCancelled(h)

HandlerStep(h) ==
    \/ HandlerPersist(h)
    \/ HandlerCancel(h)
    \/ HandlerProceed(h)
    \/ HandlerResend(h)
    \/ HandlerDisconnect(h)
================================================================================
