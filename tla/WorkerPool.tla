------------------------------- MODULE WorkerPool -------------------------------
(***************************************************************************)
(* The worker goroutines (internal/worker/pool.go) and what each does with *)
(* a message (internal/worker/processor.go).  pc is the call a worker      *)
(* makes next; pos the ID of the entry it holds.  Whenever Process returns *)
(* an error the worker logs it and goes on with the next message: the      *)
(* entry stays in the pending list.                                        *)
(*                                                                         *)
(* A publication is part of the step that follows it, which touches        *)
(* nothing the publication does.  The rate limiter and the circuit breaker *)
(* appear as what they answer: a token or an error, and a rejected send.   *)
(***************************************************************************)
EXTENDS NotificationRepository, StreamQueue, StatusFeed, Environment

CONSTANTS
    Workers,    \* the worker goroutines
    Serves      \* the stream each of them reads

ASSUME WorkerAssumption == Serves \in [Workers -> Queues] /\ IsFiniteSet(Workers)

VARIABLES
    worker,
    received    \* how often the provider has accepted each notification

WorkerState ==
    [pc  : {"idle", "markProcessing", "takeToken", "send", "markDelivered",
            "increment", "markFailed", "ackDelivered", "ackFailed", "exited"},
     pos : Nat]

IdleWorker == [pc |-> "idle", pos |-> 0]

Held(w) == stream[Serves[w]][worker[w].pos]

Delivering == {"markProcessing", "takeToken", "send", "markDelivered",
               "increment", "markFailed"}

\* The worker has an entry of n and has not seen to its outcome yet.
WorkerCarries(w, n) == worker[w].pc \in Delivering /\ Held(w).n = n

Goto(w, pc) == worker' = [worker EXCEPT ![w].pc = pc]

\* Process returns: the worker goes back to its loop.
Return(w) == worker' = [worker EXCEPT ![w] = IdleWorker]

\* consumer.Dequeue.  When the reply is lost, or an entry cannot be decoded,
\* the entry is pending and no worker has it.
WorkerDequeue(w) ==
    /\ ctx[ProcessOf[w]] = "live"
    /\ worker[w].pc = "idle"
    /\ HasNew(Serves[w])
    /\ \E o \in RequestOutcomes :
          /\ IF Applied(o)
             THEN /\ Dequeue(Serves[w])
                  /\ Note(o, {stream[Serves[w]][lastDelivered[Serves[w]] + 1].n})
             ELSE UNCHANGED <<queueVars, interrupted>>
          /\ IF Returned(o)
             THEN worker' = [worker EXCEPT ![w] =
                                [pc  |-> "markProcessing",
                                 pos |-> lastDelivered[Serves[w]] + 1]]
             ELSE UNCHANGED worker
    /\ UNCHANGED <<db, announced, received>>

\* Mutant: the error of UpdateStatus is ignored.
RowUpdateIgnoringErrors(w, status, withProviderID, next) ==
    \E o \in Outcomes(ProcessOf[w]) :
        /\ IF Applied(o) THEN UpdateStatus(Held(w).n, status, withProviderID)
                         ELSE UNCHANGED db
        /\ Note(o, {Held(w).n})
        /\ Goto(w, next)

\* repo.UpdateStatus: the row takes the status, and the next call is made only
\* when the reply arrives.
RowUpdate(w, status, withProviderID, next) ==
    \E o \in Outcomes(ProcessOf[w]) :
        /\ IF Applied(o) THEN UpdateStatus(Held(w).n, status, withProviderID)
                         ELSE UNCHANGED db
        /\ Note(o, {Held(w).n})
        /\ IF Returned(o) THEN Goto(w, next) ELSE Return(w)

\* Step a, whatever the status of the row is by now.
WorkerMarkProcessing(w) ==
    /\ worker[w].pc = "markProcessing"
    /\ RowUpdate(w, "processing", FALSE, "takeToken")
    /\ UNCHANGED <<queueVars, announced, received>>

\* Publish "processing"; step b, limiter.Wait.
WorkerTakeToken(w) ==
    /\ worker[w].pc = "takeToken"
    /\ \E heard \in Heard(Outcomes(ProcessOf[w])) :
          IF heard THEN Publish({Held(w).n}, "processing") ELSE UNCHANGED announced
    /\ \E o \in Outcomes(ProcessOf[w]) :
          /\ IF Returned(o) THEN Goto(w, "send") ELSE Return(w)
          /\ Note(o, {Held(w).n})
    /\ UNCHANGED <<db, queueVars, received>>

\* Step c, delivery.Send.
WorkerSend(w) ==
    /\ worker[w].pc = "send"
    /\ \E o \in SendOutcomes(ProcessOf[w]) :
          /\ received' = IF o = "rejected" THEN received
                         ELSE [received EXCEPT ![Held(w).n] = @ + 1]
          /\ Goto(w, IF o = "accepted" THEN "markDelivered" ELSE "increment")
    /\ UNCHANGED <<db, queueVars, announced, interrupted>>

\* Step d.
WorkerMarkDelivered(w) ==
    /\ worker[w].pc = "markDelivered"
    /\ RowUpdate(w, "delivered", TRUE, "ackDelivered")
    /\ UNCHANGED <<queueVars, announced, received>>

\* Mutant: the last retry is left out.
RetriableOneShort(message) == message.attempts + 2 < MaxAttempts

\* Step e: newAttempts is computed from the message, not from the row.
Retriable(message) == message.attempts + 1 < MaxAttempts

WorkerIncrement(w) ==
    /\ worker[w].pc = "increment"
    /\ \E o \in Outcomes(ProcessOf[w]) :
          /\ IF Applied(o)
             THEN IncrementAttempts(Held(w).n,
                                    IF Retriable(Held(w)) THEN "future" ELSE "null")
             ELSE UNCHANGED db
          /\ IF Returned(o) THEN Goto(w, "markFailed") ELSE Return(w)
          /\ Note(o, {Held(w).n})
    /\ UNCHANGED <<queueVars, announced, received>>

WorkerMarkFailed(w) ==
    /\ worker[w].pc = "markFailed"
    /\ RowUpdate(w, "failed", FALSE, "ackFailed")
    /\ UNCHANGED <<queueVars, announced, received>>

\* Mutant: the acknowledgement of a failed delivery is left to the scheduler.
WorkerAckDeliveredOnly(w) ==
    /\ worker[w].pc \in {"ackDelivered", "ackFailed"}
    /\ IF worker[w].pc = "ackDelivered" THEN Ack(Serves[w], worker[w].pos)
                                        ELSE UNCHANGED queueVars
    /\ Return(w)
    /\ UNCHANGED <<db, announced, received, interrupted>>

\* Publish the outcome, then consumer.Ack.
WorkerAck(w) ==
    /\ worker[w].pc \in {"ackDelivered", "ackFailed"}
    /\ \E heard \in Heard(Outcomes(ProcessOf[w])) :
          IF heard
          THEN Publish({Held(w).n},
                       IF worker[w].pc = "ackDelivered" THEN "delivered" ELSE "failed")
          ELSE UNCHANGED announced
    /\ \E acked \in Effects(Outcomes(ProcessOf[w])) :
          IF acked THEN Ack(Serves[w], worker[w].pos) ELSE UNCHANGED queueVars
    /\ Return(w)
    /\ UNCHANGED <<db, received, interrupted>>

\* The worker loop sees ctx.Done(), or Dequeue fails because of it.
WorkerExit(w) ==
    /\ ctx[ProcessOf[w]] = "cancelled"
    /\ worker[w].pc = "idle"
    /\ Goto(w, "exited")
    /\ UNCHANGED <<db, queueVars, announced, received, interrupted>>

WorkerStep(w) ==
    \/ WorkerDequeue(w)
    \/ WorkerMarkProcessing(w)
    \/ WorkerTakeToken(w)
    \/ WorkerSend(w)
    \/ WorkerMarkDelivered(w)
    \/ WorkerIncrement(w)
    \/ WorkerMarkFailed(w)
    \/ WorkerAck(w)
    \/ WorkerExit(w)
================================================================================
