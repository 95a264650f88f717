--------------------------- MODULE NotificationProofs ---------------------------
(***************************************************************************)
(* Theorems about the notification pipeline, for any number of             *)
(* notifications, streams, requests, tickers and workers.                  *)
(***************************************************************************)
EXTENDS NotificationInvariant, TLAPS

\* One XADD, whether or not the Redis client hears of it.
Added(m) ==
    /\ stream' = [stream EXCEPT ![QueueOf[m.n]] = Append(@, m)]
    /\ UNCHANGED <<lastDelivered, pel>>

LEMMA EnqueueAdds ==
    ASSUME NEW m, Enqueue(m) \/ EnqueueUnanswered(m)
    PROVE  Added(m)
BY DEF Enqueue, EnqueueUnanswered, Added

\* What XADD does to well-typed streams.
LEMMA EnqueueType ==
    ASSUME TypeOK, NEW m \in Message, Added(m)
    PROVE  /\ stream' \in [Queues -> Seq(Message)]
           /\ UNCHANGED <<lastDelivered, pel>>
           /\ \A q \in Queues : Len(stream[q]) <= Len(stream'[q])
           /\ \A q \in Queues : \A i \in DOMAIN stream[q] : stream'[q][i] = stream[q][i]
           /\ \A q \in Queues : \A i \in DOMAIN stream'[q] : QueueOf[stream'[q][i].n] = q
<1> DEFINE q == QueueOf[m.n]
           more == Append(stream[q], m)
<1>1. q \in Queues /\ m.n \in Notifications
  BY QueueAssumption DEF Message
<1>2. stream[q] \in Seq(Message) /\ more \in Seq(Message)
  BY <1>1 DEF TypeOK
<1>3. stream' = [stream EXCEPT ![q] = more]
  BY DEF Added
<1> QED
  BY <1>1, <1>2, <1>3 DEF TypeOK, Added

\* The entry a busy worker holds.
LEMMA HeldType ==
    ASSUME TypeOK, NEW w \in Workers, worker[w].pc \notin {"idle", "exited"}
    PROVE  /\ Held(w) \in Message
           /\ Held(w).n \in Notifications
           /\ QueueOf[Held(w).n] = Serves[w]
<1>1. Serves[w] \in Queues
  BY WorkerAssumption
<1>2. worker[w].pos \in 1 .. Len(stream[Serves[w]])
  BY <1>1 DEF TypeOK
<1>3. stream[Serves[w]] \in Seq(Message)
  BY <1>1 DEF TypeOK
<1>4. stream[Serves[w]][worker[w].pos] \in Message
  BY <1>2, <1>3
<1>5. QueueOf[stream[Serves[w]][worker[w].pos].n] = Serves[w]
  BY <1>1, <1>2, <1>3 DEF TypeOK
<1> QED
  BY <1>4, <1>5 DEF Held, Message

\* Every UPDATE and INSERT leaves well-typed rows.
LEMMA RowTypes ==
    ASSUME TypeOK
    PROVE  /\ \A batch \in SUBSET Notifications :
                 /\ CreateBatch(batch) => db' \in [Notifications -> Row]
                 /\ MarkFetched(batch) => db' \in [Notifications -> Row]
                 /\ Fetched(batch) \in SUBSET Message
           /\ \A n \in Notifications, status \in Statuses, p \in BOOLEAN :
                 UpdateStatus(n, status, p) => db' \in [Notifications -> Row]
           /\ \A n \in Notifications : Cancel(n) => db' \in [Notifications -> Row]
           /\ \A n \in Notifications, at \in Instants :
                 IncrementAttempts(n, at) => db' \in [Notifications -> Row]
<1>1. db \in [Notifications -> Row]
  BY DEF TypeOK
<1>2. ASSUME NEW batch \in SUBSET Notifications
      PROVE  /\ CreateBatch(batch) => db' \in [Notifications -> Row]
             /\ MarkFetched(batch) => db' \in [Notifications -> Row]
             /\ Fetched(batch) \in SUBSET Message
  <2>1. \A n \in Notifications : NewNotification(n) \in Row
    BY DEF NewNotification, Row, Statuses, Instants
  <2>2. \A n \in Notifications : [db[n] EXCEPT !.status = "queued"] \in Row
    BY <1>1 DEF Row, Statuses
  <2>3. \A n \in Notifications : db[n].attempts \in Nat
    BY <1>1 DEF Row
  <2>4. CreateBatch(batch) => db' \in [Notifications -> Row]
    BY <1>1, <2>1 DEF CreateBatch
  <2>5. MarkFetched(batch) => db' \in [Notifications -> Row]
    BY <1>1, <2>2 DEF MarkFetched
  <2>6. Fetched(batch) \in SUBSET Message
    BY <2>3 DEF Fetched, Message
  <2> QED
    BY <2>4, <2>5, <2>6
<1>3. ASSUME NEW n \in Notifications, NEW status \in Statuses, NEW p \in BOOLEAN,
             UpdateStatus(n, status, p)
      PROVE  db' \in [Notifications -> Row]
  BY <1>1, <1>3 DEF UpdateStatus, Row
<1>4. ASSUME NEW n \in Notifications, Cancel(n)
      PROVE  db' \in [Notifications -> Row]
  BY <1>1, <1>4 DEF Cancel, Row, Statuses
<1>5. ASSUME NEW n \in Notifications, NEW at \in Instants, IncrementAttempts(n, at)
      PROVE  db' \in [Notifications -> Row]
  <2>1. db[n].attempts + 1 \in Nat
    BY <1>1 DEF Row
  <2> QED
    BY <1>1, <1>5, <2>1 DEF IncrementAttempts, Row
<1> QED
  BY <1>2, <1>3, <1>4, <1>5

LEMMA TypeInit == Init => TypeOK
<1> SUFFICES ASSUME Init PROVE TypeOK
  OBVIOUS
<1> QED
  BY DEF Init, TypeOK, NoRow, Row, Statuses, Instants, IdleHandler, HandlerState,
         IdleTicker, TickerState, IdleWorker, WorkerState


\* The part of TypeOK about the streams and the entries that workers hold.
QueueTypeOK ==
    /\ stream \in [Queues -> Seq(Message)]
    /\ lastDelivered \in [Queues -> Nat]
    /\ pel \in [Queues -> SUBSET Nat]
    /\ \A q \in Queues : lastDelivered[q] <= Len(stream[q])
    /\ \A q \in Queues : \A i \in DOMAIN stream[q] : QueueOf[stream[q][i].n] = q

LEMMA EnqueueQueueType ==
    ASSUME TypeOK, NEW m \in Message, Added(m)
    PROVE  QueueTypeOK' /\ UNCHANGED <<lastDelivered, pel>>
<1>1. \A q \in Queues : Len(stream[q]) \in Nat /\ Len(stream'[q]) \in Nat
  BY EnqueueType DEF TypeOK
<1> QED
  BY <1>1, EnqueueType DEF TypeOK, QueueTypeOK

\* What XREADGROUP does to them.
LEMMA DequeueQueueType ==
    ASSUME TypeOK, NEW q \in Queues, HasNew(q), Dequeue(q)
    PROVE  /\ QueueTypeOK'
           /\ lastDelivered'[q] = lastDelivered[q] + 1
           /\ \A r \in Queues : lastDelivered[r] <= lastDelivered'[r]
<1>1. lastDelivered \in [Queues -> Nat] /\ lastDelivered[q] + 1 \in Nat
  BY DEF TypeOK
<1>2. lastDelivered[q] + 1 <= Len(stream[q])
  BY <1>1 DEF TypeOK, HasNew
<1>3. lastDelivered' = [lastDelivered EXCEPT ![q] = lastDelivered[q] + 1]
  BY DEF Dequeue
<1>4. /\ lastDelivered' \in [Queues -> Nat]
      /\ lastDelivered'[q] = lastDelivered[q] + 1
      /\ \A r \in Queues : lastDelivered[r] <= lastDelivered'[r]
      /\ \A r \in Queues : lastDelivered'[r] <= Len(stream[r])
  BY <1>1, <1>2, <1>3 DEF TypeOK
<1>5. pel' \in [Queues -> SUBSET Nat]
  <2>1. pel[q] \cup {lastDelivered[q] + 1} \in SUBSET Nat
    BY <1>1 DEF TypeOK
  <2> QED
    BY <2>1 DEF Dequeue, TypeOK
<1> QED
  BY <1>4, <1>5 DEF Dequeue, TypeOK, QueueTypeOK

\* TypeOK but for the two observers.
PipelineTypeOK ==
    /\ QueueTypeOK
    /\ db \in [Notifications -> Row]
    /\ announced \in [Notifications -> Statuses \cup {"none"}]
    /\ received \in [Notifications -> Nat]
    /\ handler \in [Handlers -> HandlerState]
    /\ ticker \in [Tickers -> TickerState]
    /\ worker \in [Workers -> WorkerState]
    /\ ctx \in [Processes -> {"live", "cancelled"}]
    /\ \A h \in Handlers :
          handler[h].pc \in {"markQueued", "broadcastQueued", "broadcastCancelled"}
             => handler[h].cur # Nil
    /\ \A w \in Workers :
          worker[w].pc \notin {"idle", "exited"}
             => worker[w].pos \in 1 .. lastDelivered[Serves[w]]

LEMMA HandlerTypeStep ==
    ASSUME TypeOK, NEW h \in Handlers, HandlerNext(h)
    PROVE  PipelineTypeOK'
<1>0. UNCHANGED <<received, ticker, worker, ctx>>
  BY DEF HandlerNext
<1>1. handler \in [Handlers -> HandlerState] /\ handler[h] \in HandlerState
  BY DEF TypeOK
<1>2. \A rest \in SUBSET Notifications :
         /\ Continue(rest) \in HandlerState
         /\ Continue(rest).pc \in {"idle", "enqueue"}
  BY DEF Continue, IdleHandler, HandlerState
<1>3. CASE HandlerPersist(h)
  <2>1. PICK batch \in SUBSET Notifications, o \in RequestOutcomes :
           /\ IF Applied(o) THEN CreateBatch(batch) ELSE UNCHANGED db
           /\ IF Returned(o)
              THEN handler' = [handler EXCEPT ![h] = [pc   |-> "broadcastPending",
                                                      todo |-> batch,
                                                      cur  |-> Nil]]
              ELSE UNCHANGED handler
    BY <1>3 DEF HandlerPersist
  <2>2. db' \in [Notifications -> Row]
    BY <2>1, RowTypes DEF TypeOK
  <2>3. handler' \in [Handlers -> HandlerState]
    BY <1>1, <2>1 DEF HandlerState
  <2>4. \A g \in Handlers : handler'[g] # handler[g] => handler'[g].pc = "broadcastPending"
    BY <1>1, <2>1
  <2>5. UNCHANGED <<stream, lastDelivered, pel, announced>>
    BY <1>3 DEF HandlerPersist, queueVars
  <2> QED
    BY <1>0, <2>2, <2>3, <2>4, <2>5 DEF TypeOK, PipelineTypeOK, QueueTypeOK
<1>4. CASE HandlerCancel(h)
  <2>1. PICK n \in Notifications, o \in RequestOutcomes :
           /\ IF Applied(o) THEN Cancel(n) ELSE UNCHANGED db
           /\ IF Returned(o)
              THEN handler' = [handler EXCEPT ![h] = [pc   |-> "broadcastCancelled",
                                                      todo |-> {},
                                                      cur  |-> n]]
              ELSE UNCHANGED handler
    BY <1>4 DEF HandlerCancel
  <2>2. db' \in [Notifications -> Row]
    BY <2>1, RowTypes DEF TypeOK
  <2>3. handler' \in [Handlers -> HandlerState]
    BY <1>1, <2>1 DEF HandlerState
  <2>4. \A g \in Handlers : handler'[g] # handler[g] => handler'[g].cur # Nil
    BY <1>1, <2>1, ServiceAssumption
  <2>5. UNCHANGED <<stream, lastDelivered, pel, announced>>
    BY <1>4 DEF HandlerCancel, queueVars
  <2> QED
    BY <1>0, <2>2, <2>3, <2>4, <2>5 DEF TypeOK, PipelineTypeOK, QueueTypeOK
<1>5. CASE HandlerBroadcastPending(h)
  <2>1. handler' = [handler EXCEPT ![h] = Continue(handler[h].todo \ Scheduled)]
    BY <1>5 DEF HandlerBroadcastPending
  <2>2. handler[h].todo \ Scheduled \in SUBSET Notifications
    BY <1>1 DEF HandlerState
  <2>3. handler' \in [Handlers -> HandlerState]
    BY <1>1, <1>2, <2>1, <2>2
  <2>4. announced' \in [Notifications -> Statuses \cup {"none"}]
    BY <1>5 DEF HandlerBroadcastPending, Publish, TypeOK, Statuses
  <2> QED
    BY <1>0, <1>1, <1>2, <1>5, <2>1, <2>2, <2>3, <2>4
       DEF HandlerBroadcastPending, TypeOK, PipelineTypeOK, QueueTypeOK, queueVars
<1>6. CASE HandlerEnqueue(h)
  <2>1. PICK n \in handler[h].todo, o \in EnqueueOutcomes(RequestOutcomes) :
           /\ Added([n |-> n, attempts |-> 0]) \/ UNCHANGED queueVars
           /\ handler' = [handler EXCEPT ![h] =
                            IF Returned(o)
                            THEN [pc |-> "markQueued", todo |-> handler[h].todo \ {n}, cur |-> n]
                            ELSE Continue(handler[h].todo \ {n})]
    BY <1>6, EnqueueAdds DEF HandlerEnqueue
  <2>2. n \in Notifications /\ handler[h].todo \ {n} \in SUBSET Notifications
    BY <1>1 DEF HandlerState
  <2>3. [n |-> n, attempts |-> 0] \in Message
    BY <2>2 DEF Message
  <2>4. QueueTypeOK' /\ UNCHANGED lastDelivered
    BY <2>1, <2>3, EnqueueQueueType DEF queueVars, TypeOK, QueueTypeOK
  <2>5. handler' \in [Handlers -> HandlerState]
    BY <1>1, <1>2, <2>1, <2>2 DEF HandlerState
  <2>6. /\ handler'[h].pc \in {"markQueued", "broadcastQueued", "broadcastCancelled"}
               => handler'[h].cur # Nil
        /\ \A g \in Handlers \ {h} : handler'[g] = handler[g]
    BY <1>1, <1>2, <2>1, <2>2, ServiceAssumption DEF HandlerState
  <2> QED
    BY <1>0, <1>6, <2>4, <2>5, <2>6 DEF HandlerEnqueue, TypeOK, PipelineTypeOK, QueueTypeOK
<1>7. CASE HandlerMarkQueued(h)
  <2>1. PICK o \in RequestOutcomes :
           /\ IF Applied(o) THEN UpdateStatus(handler[h].cur, "queued", FALSE)
                            ELSE UNCHANGED db
           /\ handler' = [handler EXCEPT ![h] =
                             IF Returned(o) THEN [handler[h] EXCEPT !.pc = "broadcastQueued"]
                                            ELSE Continue(handler[h].todo)]
    BY <1>7 DEF HandlerMarkQueued
  <2>2. handler[h].cur \in Notifications
    BY <1>1, <1>7 DEF TypeOK, HandlerState, HandlerMarkQueued
  <2>3. db' \in [Notifications -> Row]
    BY <2>1, <2>2, RowTypes DEF TypeOK, Statuses
  <2>4. handler[h].todo \in SUBSET Notifications
    BY <1>1 DEF HandlerState
  <2>5. handler' \in [Handlers -> HandlerState]
    BY <1>1, <1>2, <2>1, <2>4 DEF HandlerState
  <2>6. /\ handler'[h].pc \in {"markQueued", "broadcastQueued", "broadcastCancelled"}
               => handler'[h].cur # Nil
        /\ \A g \in Handlers \ {h} : handler'[g] = handler[g]
    BY <1>1, <1>2, <2>1, <2>2, <2>4, ServiceAssumption DEF HandlerState
  <2> QED
    BY <1>0, <1>7, <2>3, <2>5, <2>6 DEF HandlerMarkQueued, TypeOK, PipelineTypeOK, QueueTypeOK, queueVars
<1>8. CASE HandlerBroadcastQueued(h)
  <2>1. handler' = [handler EXCEPT ![h] = Continue(handler[h].todo)]
    BY <1>8 DEF HandlerBroadcastQueued
  <2>2. handler[h].todo \in SUBSET Notifications
    BY <1>1 DEF HandlerState
  <2>3. handler' \in [Handlers -> HandlerState]
    BY <1>1, <1>2, <2>1, <2>2
  <2>4. announced' \in [Notifications -> Statuses \cup {"none"}]
    BY <1>8 DEF HandlerBroadcastQueued, Publish, TypeOK, Statuses
  <2> QED
    BY <1>0, <1>1, <1>2, <1>8, <2>1, <2>2, <2>3, <2>4
       DEF HandlerBroadcastQueued, TypeOK, PipelineTypeOK, QueueTypeOK, queueVars
<1>9. CASE HandlerBroadcastCancelled(h)
  <2>1. announced' \in [Notifications -> Statuses \cup {"none"}]
    BY <1>9 DEF HandlerBroadcastCancelled, Publish, TypeOK, Statuses
  <2>2. handler' \in [Handlers -> HandlerState]
    BY <1>1, <1>9 DEF HandlerBroadcastCancelled, IdleHandler, HandlerState
  <2> QED
    BY <1>0, <1>1, <1>9, <2>1, <2>2
       DEF HandlerBroadcastCancelled, IdleHandler, TypeOK, PipelineTypeOK, QueueTypeOK, queueVars
<1>10. CASE HandlerResend(h)
  <2>1. PICK n \in handler[h].todo :
           /\ Added([n |-> n, attempts |-> 0])
           /\ handler' = [handler EXCEPT ![h].cur = n]
    BY <1>10, EnqueueAdds DEF HandlerResend
  <2>2. n \in Notifications /\ [n |-> n, attempts |-> 0] \in Message
    BY <1>1 DEF HandlerState, Message
  <2>3. QueueTypeOK' /\ UNCHANGED lastDelivered
    BY <2>1, <2>2, EnqueueQueueType
  <2>4. handler' \in [Handlers -> HandlerState]
    BY <1>1, <2>1, <2>2 DEF HandlerState
  <2>5. \A g \in Handlers : handler'[g] = handler[g] \/ handler'[g].cur # Nil
    BY <1>1, <2>1, <2>2, ServiceAssumption DEF HandlerState
  <2> QED
    BY <1>0, <1>10, <2>3, <2>4, <2>5 DEF HandlerResend, TypeOK, PipelineTypeOK
<1>11. CASE HandlerDisconnect(h)
  <2>1. announced' \in [Notifications -> Statuses \cup {"none"}]
    BY <1>11 DEF HandlerDisconnect, Publish, TypeOK, Statuses
  <2>2. handler' \in [Handlers -> HandlerState]
    BY <1>1, <1>11 DEF HandlerDisconnect, IdleHandler, HandlerState
  <2> QED
    BY <1>0, <1>1, <1>11, <2>1, <2>2
       DEF HandlerDisconnect, IdleHandler, TypeOK, PipelineTypeOK, QueueTypeOK, queueVars
<1> QED
  BY <1>3, <1>4, <1>5, <1>6, <1>7, <1>8, <1>9, <1>10, <1>11
     DEF HandlerNext, HandlerStep, HandlerProceed

LEMMA TickerTypeStep ==
    ASSUME TypeOK, NEW t \in Tickers, TickerNext(t)
    PROVE  PipelineTypeOK'
<1>0. UNCHANGED <<announced, received, handler, worker, ctx>>
  BY DEF TickerNext
<1>1. ticker \in [Tickers -> TickerState] /\ ticker[t] \in TickerState
  BY DEF TypeOK
<1>2. ASSUME NEW ready \in SUBSET Notifications, Fetch(t, ready)
      PROVE  PipelineTypeOK'
  <2>1. PICK batch \in SUBSET ready, o \in RequestOutcomes :
           /\ IF Applied(o) THEN MarkFetched(batch) ELSE UNCHANGED db
           /\ IF Returned(o)
              THEN ticker' = [ticker EXCEPT ![t].todo = Fetched(batch)]
              ELSE UNCHANGED ticker
    BY <1>2 DEF Fetch
  <2>2. batch \in SUBSET Notifications
    BY <2>1
  <2>3. db' \in [Notifications -> Row]
    BY <2>1, <2>2, RowTypes DEF TypeOK
  <2>4. Fetched(batch) \in SUBSET Message
    BY <2>2, RowTypes
  <2>5. ticker' \in [Tickers -> TickerState]
    BY <1>1, <2>1, <2>4 DEF TickerState
  <2>6. UNCHANGED <<stream, lastDelivered, pel>>
    BY <1>2 DEF Fetch, queueVars
  <2> QED
    BY <1>0, <2>3, <2>5, <2>6 DEF TypeOK, PipelineTypeOK, QueueTypeOK
<1>3. CASE TickerFetchScheduled(t) \/ TickerFetchRetry(t)
  BY <1>2, <1>3 DEF TickerFetchScheduled, TickerFetchRetry, ScheduledReady, RetryReady
<1>4. CASE TickerMarkQueued(t)
  <2>1. PICK m \in ticker[t].todo, o \in Outcomes(ProcessOf[t]) :
           /\ IF Applied(o) THEN UpdateStatus(m.n, "queued", FALSE) ELSE UNCHANGED db
           /\ ticker' = [ticker EXCEPT ![t].todo = @ \ {m},
                                       ![t].cur = IF Returned(o) THEN m ELSE Nil]
    BY <1>4 DEF TickerMarkQueued
  <2>2. m \in Message /\ m.n \in Notifications
    BY <1>1 DEF TickerState, Message
  <2>3. db' \in [Notifications -> Row]
    BY <2>1, <2>2, RowTypes DEF TypeOK, Statuses
  <2>4. ticker' \in [Tickers -> TickerState]
    BY <1>1, <2>1, <2>2 DEF TickerState
  <2>5. UNCHANGED <<stream, lastDelivered, pel>>
    BY <1>4 DEF TickerMarkQueued, queueVars
  <2> QED
    BY <1>0, <2>3, <2>4, <2>5 DEF TypeOK, PipelineTypeOK, QueueTypeOK
<1>5. CASE TickerEnqueue(t)
  <2>1. PICK o \in EnqueueOutcomes(Outcomes(ProcessOf[t])) :
           Added(ticker[t].cur) \/ UNCHANGED queueVars
    BY <1>5, EnqueueAdds DEF TickerEnqueue
  <2>2. ticker[t].cur \in Message
    BY <1>1, <1>5 DEF TickerState, TickerEnqueue
  <2>3. QueueTypeOK' /\ UNCHANGED lastDelivered
    BY <2>1, <2>2, EnqueueQueueType DEF queueVars, TypeOK, QueueTypeOK
  <2>4. ticker' \in [Tickers -> TickerState]
    BY <1>1, <1>5 DEF TickerState, TickerEnqueue
  <2>5. UNCHANGED db
    BY <1>5 DEF TickerEnqueue
  <2> QED
    BY <1>0, <2>3, <2>4, <2>5 DEF TypeOK, PipelineTypeOK, QueueTypeOK
<1>6. CASE TickerExit(t)
  <2>1. ticker' \in [Tickers -> TickerState]
    BY <1>1, <1>6 DEF TickerState, TickerExit
  <2> QED
    BY <1>0, <1>6, <2>1 DEF TypeOK, PipelineTypeOK, QueueTypeOK, TickerExit, queueVars
<1>7. CASE TickerResend(t)
  <2>1. Added(ticker[t].cur) /\ ticker[t].cur \in Message
    BY <1>1, <1>7, EnqueueAdds DEF TickerResend, TickerState
  <2>2. QueueTypeOK' /\ UNCHANGED lastDelivered
    BY <2>1, EnqueueQueueType
  <2> QED
    BY <1>0, <1>7, <2>2 DEF TickerResend, TypeOK, PipelineTypeOK
<1> QED
  BY <1>3, <1>4, <1>5, <1>6, <1>7 DEF TickerNext, TickerStep

LEMMA WorkerTypeStep ==
    ASSUME TypeOK, NEW w \in Workers, WorkerNext(w)
    PROVE  PipelineTypeOK'
<1>0. UNCHANGED <<handler, ticker, ctx>>
  BY DEF WorkerNext
<1>1. worker \in [Workers -> WorkerState] /\ worker[w] \in WorkerState
  BY DEF TypeOK
<1>2. Serves[w] \in Queues
  BY WorkerAssumption
<1>3. /\ \A pc \in {"markProcessing", "takeToken", "send", "markDelivered", "increment",
                    "markFailed", "ackDelivered", "ackFailed", "exited"} :
            Goto(w, pc) => worker' \in [Workers -> WorkerState]
      /\ Return(w) => worker' \in [Workers -> WorkerState]
  BY <1>1 DEF Goto, Return, IdleWorker, WorkerState
\* A worker that stays at its entry, or goes back to its loop.
<1> DEFINE Stays == \A v \in Workers : worker'[v].pc \notin {"idle", "exited"} =>
                       worker[v].pc \notin {"idle", "exited"} /\ worker'[v].pos = worker[v].pos
<1>4. ASSUME worker[w].pc \notin {"idle", "exited"},
             \/ \E pc : Goto(w, pc)
             \/ Return(w)
      PROVE  Stays
  BY <1>1, <1>4 DEF Goto, Return, IdleWorker, WorkerState
<1>5. ASSUME NEW status \in Statuses, NEW p \in BOOLEAN,
             NEW next \in {"takeToken", "ackDelivered", "ackFailed"},
             worker[w].pc \notin {"idle", "exited"},
             RowUpdate(w, status, p, next)
      PROVE  db' \in [Notifications -> Row] /\ worker' \in [Workers -> WorkerState] /\ Stays
  <2>1. PICK o \in Outcomes(ProcessOf[w]) :
           /\ IF Applied(o) THEN UpdateStatus(Held(w).n, status, p) ELSE UNCHANGED db
           /\ IF Returned(o) THEN Goto(w, next) ELSE Return(w)
    BY <1>5 DEF RowUpdate
  <2>2. Held(w).n \in Notifications
    BY <1>5, HeldType
  <2>3. db' \in [Notifications -> Row]
    BY <2>1, <2>2, RowTypes DEF TypeOK
  <2>4. worker' \in [Workers -> WorkerState]
    BY <1>3, <2>1
  <2>5. Stays
    BY <1>4, <1>5, <2>1
  <2> QED
    BY <2>3, <2>4, <2>5
<1>6. CASE WorkerDequeue(w)
  <2>1. /\ IF worker' # worker THEN Dequeue(Serves[w]) ELSE Dequeue(Serves[w]) \/ UNCHANGED queueVars
        /\ worker' # worker => worker' = [worker EXCEPT ![w] =
                                  [pc |-> "markProcessing", pos |-> lastDelivered[Serves[w]] + 1]]
    BY <1>6 DEF WorkerDequeue, Applied, Returned
  <2>3. lastDelivered[Serves[w]] \in Nat
    BY <1>2 DEF TypeOK
  <2>4. QueueTypeOK'
    BY <1>2, <1>6, <2>1, DequeueQueueType DEF TypeOK, QueueTypeOK, queueVars, WorkerDequeue
  <2>5. /\ \A q \in Queues : lastDelivered[q] <= lastDelivered'[q]
        /\ worker' # worker => lastDelivered'[Serves[w]] = lastDelivered[Serves[w]] + 1
    BY <1>2, <1>6, <2>1, DequeueQueueType DEF TypeOK, queueVars, WorkerDequeue
  <2>6. worker' \in [Workers -> WorkerState]
    BY <1>1, <2>1, <2>3 DEF WorkerState
  <2>7. \A v \in Workers : worker'[v].pc \notin {"idle", "exited"} =>
           worker'[v].pos \in 1 .. lastDelivered'[Serves[v]]
    <3> SUFFICES ASSUME NEW v \in Workers, worker'[v].pc \notin {"idle", "exited"}
                 PROVE  worker'[v].pos \in 1 .. lastDelivered'[Serves[v]]
      OBVIOUS
    <3>1. Serves[v] \in Queues /\ lastDelivered[Serves[v]] \in Nat /\ lastDelivered'[Serves[v]] \in Nat
      BY <2>4, WorkerAssumption DEF TypeOK, QueueTypeOK
    <3>2. CASE worker'[v] = worker[v]
      BY <2>5, <3>1, <3>2 DEF TypeOK
    <3>3. CASE worker'[v] # worker[v]
      BY <1>1, <2>1, <2>3, <2>5, <3>1, <3>3
    <3> QED
      BY <3>2, <3>3
  <2>8. UNCHANGED <<db, announced, received>>
    BY <1>6 DEF WorkerDequeue
  <2> QED
    BY <1>0, <2>4, <2>6, <2>7, <2>8 DEF TypeOK, PipelineTypeOK, QueueTypeOK
<1>7. CASE WorkerMarkProcessing(w)
  BY <1>0, <1>5, <1>7 DEF WorkerMarkProcessing, TypeOK, PipelineTypeOK, QueueTypeOK, queueVars, Statuses
<1>8. CASE WorkerTakeToken(w)
  <2>1. Held(w).n \in Notifications
    BY <1>8, HeldType DEF WorkerTakeToken
  <2>2. announced' \in [Notifications -> Statuses \cup {"none"}]
    BY <1>8, <2>1 DEF WorkerTakeToken, Publish, TypeOK, Statuses
  <2>3. worker' \in [Workers -> WorkerState] /\ Stays
    BY <1>3, <1>4, <1>8 DEF WorkerTakeToken
  <2> QED
    BY <1>0, <1>8, <2>2, <2>3 DEF WorkerTakeToken, TypeOK, PipelineTypeOK, QueueTypeOK, queueVars
<1>9. CASE WorkerSend(w)
  <2>1. Held(w).n \in Notifications
    BY <1>9, HeldType DEF WorkerSend
  <2>2. received' \in [Notifications -> Nat]
    BY <1>9, <2>1 DEF WorkerSend, TypeOK
  <2>3. worker' \in [Workers -> WorkerState] /\ Stays
    BY <1>3, <1>4, <1>9 DEF WorkerSend
  <2> QED
    BY <1>0, <1>9, <2>2, <2>3 DEF WorkerSend, TypeOK, PipelineTypeOK, QueueTypeOK, queueVars
<1>10. CASE WorkerMarkDelivered(w)
  BY <1>0, <1>5, <1>10 DEF WorkerMarkDelivered, TypeOK, PipelineTypeOK, QueueTypeOK, queueVars, Statuses
<1>11. CASE WorkerIncrement(w)
  <2>1. Held(w).n \in Notifications
    BY <1>11, HeldType DEF WorkerIncrement
  <2>2. \A at \in {"future", "null"} : IncrementAttempts(Held(w).n, at) => db' \in [Notifications -> Row]
    BY <2>1, RowTypes DEF Instants
  <2>3. db' \in [Notifications -> Row]
    BY <1>11, <2>2 DEF WorkerIncrement, TypeOK
  <2>4. worker' \in [Workers -> WorkerState] /\ Stays
    BY <1>3, <1>4, <1>11 DEF WorkerIncrement
  <2> QED
    BY <1>0, <1>11, <2>3, <2>4 DEF WorkerIncrement, TypeOK, PipelineTypeOK, QueueTypeOK, queueVars
<1>12. CASE WorkerMarkFailed(w)
  BY <1>0, <1>5, <1>12 DEF WorkerMarkFailed, TypeOK, PipelineTypeOK, QueueTypeOK, queueVars, Statuses
<1>13. CASE WorkerAck(w)
  <2>1. Held(w).n \in Notifications
    BY <1>13, HeldType DEF WorkerAck
  <2>2. announced' \in [Notifications -> Statuses \cup {"none"}]
    BY <1>13, <2>1 DEF WorkerAck, Publish, TypeOK, Statuses
  <2>3. worker' \in [Workers -> WorkerState] /\ Stays
    BY <1>3, <1>4, <1>13 DEF WorkerAck
  <2>4. pel' \in [Queues -> SUBSET Nat] /\ UNCHANGED <<stream, lastDelivered, db, received>>
    BY <1>2, <1>13 DEF WorkerAck, Ack, TypeOK, queueVars
  <2> QED
    BY <1>0, <2>2, <2>3, <2>4 DEF TypeOK, PipelineTypeOK, QueueTypeOK
<1>14. CASE WorkerExit(w)
  <2>1. worker' \in [Workers -> WorkerState]
    BY <1>3, <1>14 DEF WorkerExit
  <2>2. \A v \in Workers : worker'[v].pc \notin {"idle", "exited"} => worker'[v] = worker[v]
    BY <1>1, <1>14 DEF WorkerExit, Goto
  <2> QED
    BY <1>0, <1>14, <2>1, <2>2 DEF WorkerExit, TypeOK, PipelineTypeOK, QueueTypeOK, queueVars
<1> QED
  BY <1>6, <1>7, <1>8, <1>9, <1>10, <1>11, <1>12, <1>13, <1>14 DEF WorkerNext, WorkerStep

\* Time, shutdown, restart and crash.
LEMMA ProcessTypeStep ==
    ASSUME TypeOK,
           \/ \E n \in Notifications : TimePasses(n)
           \/ \E p \in Processes : Shutdown(p) \/ Restart(p) \/ Crash(p)
    PROVE  PipelineTypeOK'
<1>1. ASSUME NEW n \in Notifications, TimePasses(n)
      PROVE  PipelineTypeOK'
  <2>1. db' \in [Notifications -> Row]
    <3>1. db[n] \in Row /\ db \in [Notifications -> Row]
      BY DEF TypeOK
    <3>2. [db[n] EXCEPT !.scheduledAt = "past"] \in Row /\ [db[n] EXCEPT !.nextRetryAt = "past"] \in Row
      BY <3>1 DEF Row, Instants
    <3> QED
      BY <1>1, <3>1, <3>2 DEF TimePasses, ScheduledTimeArrives, RetryTimeArrives
  <2> QED
    BY <1>1, <2>1 DEF TimePasses, TypeOK, PipelineTypeOK, QueueTypeOK, queueVars
<1>2. ASSUME NEW p \in Processes, Shutdown(p)
      PROVE  PipelineTypeOK'
  BY <1>2 DEF Shutdown, TypeOK, PipelineTypeOK, QueueTypeOK, queueVars
<1>3. ASSUME NEW p \in Processes, StartProcess(p)
      PROVE  PipelineTypeOK'
  <2>1. /\ handler' \in [Handlers -> HandlerState]
        /\ ticker' \in [Tickers -> TickerState]
        /\ worker' \in [Workers -> WorkerState]
        /\ ctx' \in [Processes -> {"live", "cancelled"}]
    BY <1>3 DEF StartProcess, IdleHandler, HandlerState, IdleTicker, TickerState,
                IdleWorker, WorkerState, TypeOK
  <2>2. /\ \A h \in Handlers : handler'[h] = handler[h] \/ handler'[h] = IdleHandler
        /\ \A w \in Workers : worker'[w] = worker[w] \/ worker'[w] = IdleWorker
    BY <1>3 DEF StartProcess
  <2> QED
    BY <1>3, <2>1, <2>2 DEF StartProcess, TypeOK, PipelineTypeOK, QueueTypeOK, queueVars, IdleHandler, IdleWorker
<1> QED
  BY <1>1, <1>2, <1>3 DEF Restart, Crash

LEMMA ObserversTypeStep ==
    ASSUME TypeOK, [Next]_vars
    PROVE  resent' \in [Notifications -> Nat] /\ interrupted' \subseteq Notifications
<1>1. resent \in [Notifications -> Nat] /\ interrupted \subseteq Notifications
  BY DEF TypeOK
<1>2. ASSUME NEW m, EnqueueUnanswered(m)
      PROVE  resent' \in [Notifications -> Nat]
  <2>1. resent' = [resent EXCEPT ![m.n] = resent[m.n] + 1]
    BY <1>2 DEF EnqueueUnanswered
  <2>2. m.n \in Notifications => resent[m.n] + 1 \in Nat
    BY <1>1
  <2> QED
    BY <1>1, <2>1, <2>2
<1>3. \A m : Enqueue(m) => UNCHANGED resent
  BY DEF Enqueue
<1>4. \A o, ns : Note(o, ns) /\ ns \subseteq Notifications => interrupted' \subseteq Notifications
  BY <1>1 DEF Note
<1>5. ASSUME NEW h \in Handlers, HandlerNext(h)
      PROVE  resent' \in [Notifications -> Nat] /\ interrupted' \subseteq Notifications
  <2>1. handler[h].todo \subseteq Notifications
    BY DEF TypeOK, HandlerState
  <2>2. interrupted' \subseteq Notifications
    <3>1. CASE HandlerPersist(h)
      <4>1. UNCHANGED interrupted \/ \E o, ns : Note(o, ns) /\ ns \subseteq Notifications
        BY <3>1 DEF HandlerPersist
      <4> QED
        BY <1>1, <1>4, <4>1
    <3>2. CASE HandlerEnqueue(h)
      BY <1>4, <2>1, <3>2 DEF HandlerEnqueue
    <3> QED
      BY <1>1, <1>5, <2>1, <3>1, <3>2 DEF HandlerNext, HandlerStep, HandlerProceed,
         HandlerCancel, HandlerBroadcastPending, HandlerMarkQueued, HandlerBroadcastQueued,
         HandlerBroadcastCancelled, HandlerResend, HandlerDisconnect
  <2>3. resent' \in [Notifications -> Nat]
    BY <1>1, <1>2, <1>3, <1>5 DEF HandlerNext, HandlerStep, HandlerProceed, HandlerPersist,
       HandlerCancel, HandlerBroadcastPending, HandlerEnqueue, HandlerMarkQueued,
       HandlerBroadcastQueued, HandlerBroadcastCancelled, HandlerResend, HandlerDisconnect,
       queueVars
  <2> QED
    BY <2>2, <2>3
<1>6. ASSUME NEW t \in Tickers, TickerNext(t)
      PROVE  resent' \in [Notifications -> Nat] /\ interrupted' \subseteq Notifications
  <2>1. /\ \A m \in ticker[t].todo : m.n \in Notifications
        /\ ticker[t].cur # Nil => ticker[t].cur.n \in Notifications
    BY DEF TypeOK, TickerState, Message
  <2>2. interrupted' \subseteq Notifications
    <3>1. ASSUME NEW ready \in SUBSET Notifications, Fetch(t, ready)
          PROVE  interrupted' \subseteq Notifications
      <4>1. UNCHANGED interrupted \/ \E o, ns : Note(o, ns) /\ ns \subseteq Notifications
        BY <3>1 DEF Fetch
      <4> QED
        BY <1>1, <1>4, <4>1
    <3>2. CASE TickerFetchScheduled(t) \/ TickerFetchRetry(t)
      BY <3>1, <3>2 DEF TickerFetchScheduled, TickerFetchRetry, ScheduledReady, RetryReady
    <3>3. CASE TickerMarkQueued(t)
      <4>1. PICK m \in ticker[t].todo : \E o : Note(o, {m.n})
        BY <3>3 DEF TickerMarkQueued
      <4> QED
        BY <1>4, <2>1, <4>1
    <3>4. CASE TickerEnqueue(t)
      <4>1. PICK o : Note(o, {ticker[t].cur.n})
        BY <3>4 DEF TickerEnqueue
      <4> QED
        BY <1>4, <2>1, <3>4, <4>1 DEF TickerEnqueue
    <3> QED
      BY <1>1, <1>6, <2>1, <3>2, <3>3, <3>4 DEF TickerNext, TickerStep, TickerResend, TickerExit
  <2>3. resent' \in [Notifications -> Nat]
    BY <1>1, <1>2, <1>3, <1>6 DEF TickerNext, TickerStep, TickerFetchScheduled,
       TickerFetchRetry, Fetch, TickerMarkQueued, TickerEnqueue, TickerResend, TickerExit,
       queueVars
  <2> QED
    BY <2>2, <2>3
<1>7. ASSUME NEW w \in Workers, WorkerNext(w)
      PROVE  resent' \in [Notifications -> Nat] /\ interrupted' \subseteq Notifications
  <2>1. worker[w].pc \notin {"idle", "exited"} => Held(w).n \in Notifications
    BY HeldType
  <2>2. CASE WorkerDequeue(w)
    <3> DEFINE q == Serves[w]
               m == stream[q][lastDelivered[q] + 1]
    <3>1. q \in Queues /\ stream[q] \in Seq(Message) /\ lastDelivered[q] \in Nat
      BY WorkerAssumption DEF TypeOK
    <3>2. m \in Message
      BY <2>2, <3>1 DEF WorkerDequeue, HasNew
    <3>3. m.n \in Notifications
      BY <3>2 DEF Message
    <3>4. UNCHANGED interrupted \/ \E o : Note(o, {m.n})
      BY <2>2 DEF WorkerDequeue, queueVars
    <3>5. UNCHANGED resent
      BY <2>2 DEF WorkerDequeue, Dequeue, queueVars
    <3> HIDE DEF m
    <3> QED
      BY <1>1, <1>4, <3>3, <3>4, <3>5
  <2>3. CASE ~WorkerDequeue(w)
    <3>1. UNCHANGED resent
      BY <1>7, <2>3 DEF WorkerNext, WorkerStep, WorkerMarkProcessing, WorkerTakeToken,
         WorkerSend, WorkerMarkDelivered, WorkerIncrement, WorkerMarkFailed, WorkerAck, Ack,
         WorkerExit, queueVars
    <3>2. \/ UNCHANGED interrupted
          \/ worker[w].pc \notin {"idle", "exited"} /\ \E o : Note(o, {Held(w).n})
      BY <1>7, <2>3 DEF WorkerNext, WorkerStep, WorkerMarkProcessing, WorkerTakeToken,
         WorkerSend, WorkerMarkDelivered, WorkerIncrement, WorkerMarkFailed, WorkerAck,
         WorkerExit, RowUpdate
    <3> QED
      BY <1>1, <1>4, <2>1, <3>1, <3>2
  <2> QED
    BY <2>2, <2>3
<1> QED
  BY <1>1, <1>5, <1>6, <1>7 DEF Next, vars, TimePasses, Shutdown, Restart, Crash,
     StartProcess, queueVars

LEMMA TypeStep == TypeOK /\ [Next]_vars => TypeOK'
<1> SUFFICES ASSUME TypeOK, [Next]_vars PROVE TypeOK'
  OBVIOUS
<1>1. CASE UNCHANGED vars
  BY <1>1 DEF vars, TypeOK
<1>2. CASE Next
  <2>1. PipelineTypeOK'
    BY <1>2, HandlerTypeStep, TickerTypeStep, WorkerTypeStep, ProcessTypeStep DEF Next
  <2>2. resent' \in [Notifications -> Nat] /\ interrupted' \subseteq Notifications
    BY ObserversTypeStep
  <2> QED
    BY <2>1, <2>2 DEF TypeOK, PipelineTypeOK, QueueTypeOK
<1> QED
  BY <1>1, <1>2

\* Type correctness: rows, streams, the pending lists and the local state of
\* every goroutine keep their shape, and a busy worker holds an entry that its
\* stream has delivered, through every failed call, crash and restart.
THEOREM TypeCorrect == Spec => []TypeOK
<1>1. Init => TypeOK
  BY TypeInit
<1>2. TypeOK /\ [Next]_vars => TypeOK'
  BY TypeStep
<1> QED
  BY <1>1, <1>2, PTL DEF Spec

--------------------------------------------------------------------------------
(***************************************************************************)
(* What is recorded is recorded for good.                                  *)
(***************************************************************************)
LEMMA UpdatedRow ==
    ASSUME TypeOK, NEW k \in Notifications, NEW status \in Statuses, NEW p \in BOOLEAN,
           UpdateStatus(k, status, p)
    PROVE  /\ db'[k].status = status
           /\ db'[k].attempts = db[k].attempts
           /\ db'[k].nextRetryAt = db[k].nextRetryAt
           /\ db'[k].providerMessageID <=> db[k].providerMessageID \/ p
           /\ \A n \in Notifications : n # k => db'[n] = db[n]
<1>1. db \in [Notifications -> Row] /\ db[k] \in Row
  BY DEF TypeOK
<1>2. db'[k] = [db[k] EXCEPT !.status = status, !.providerMessageID = @ \/ p]
  BY <1>1 DEF UpdateStatus
<1>3. /\ db'[k].status = status
      /\ db'[k].attempts = db[k].attempts
      /\ db'[k].nextRetryAt = db[k].nextRetryAt
  BY <1>1, <1>2 DEF Row
<1>4. db'[k].providerMessageID <=> db[k].providerMessageID \/ p
  BY <1>1, <1>2 DEF Row
<1>5. \A n \in Notifications : n # k => db'[n] = db[n]
  BY <1>1 DEF UpdateStatus
<1> QED
  BY <1>3, <1>4, <1>5

LEMMA IncrementedRow ==
    ASSUME TypeOK, NEW k \in Notifications, NEW at \in Instants, IncrementAttempts(k, at)
    PROVE  /\ db'[k].status = db[k].status
           /\ db'[k].attempts = db[k].attempts + 1
           /\ db'[k].nextRetryAt = at
           /\ db'[k].providerMessageID = db[k].providerMessageID
           /\ \A n \in Notifications : n # k => db'[n] = db[n]
<1>1. db \in [Notifications -> Row] /\ db[k] \in Row
  BY DEF TypeOK
<1>2. db'[k] = [db[k] EXCEPT !.attempts = @ + 1, !.nextRetryAt = at]
  BY <1>1 DEF IncrementAttempts
<1>3. \A n \in Notifications : n # k => db'[n] = db[n]
  BY <1>1 DEF IncrementAttempts
<1> QED
  BY <1>1, <1>2, <1>3 DEF Row

LEMMA FetchedRow ==
    ASSUME TypeOK, NEW batch \in SUBSET Notifications, MarkFetched(batch),
           NEW n \in Notifications
    PROVE  /\ n \notin batch => db'[n] = db[n]
           /\ n \in batch => /\ db'[n].status = "queued"
                             /\ db'[n].attempts = db[n].attempts
                             /\ db'[n].nextRetryAt = db[n].nextRetryAt
                             /\ db'[n].providerMessageID = db[n].providerMessageID
<1>1. CASE n \notin batch
  BY <1>1 DEF MarkFetched
<1>2. CASE n \in batch
  <2>1. db[n] \in Row /\ db'[n] = [db[n] EXCEPT !.status = "queued"]
    BY <1>2 DEF MarkFetched, TypeOK
  <2> QED
    BY <1>2, <2>1 DEF Row
<1> QED
  BY <1>1, <1>2

\* How a row may change while it is there.
RowGrows(n) ==
    /\ Exists(n) => Exists(n)'
    /\ Exists(n)' \/ db'[n] = db[n]
    /\ db[n].attempts <= db'[n].attempts
    /\ db[n].providerMessageID => db'[n].providerMessageID

LEMMA SameRowGrows ==
    ASSUME TypeOK, NEW n \in Notifications, db'[n] = db[n]
    PROVE  RowGrows(n)
<1>1. db[n].attempts \in Nat
  BY DEF TypeOK, Row
<1> QED
  BY <1>1 DEF RowGrows, Exists

LEMMA UpdateGrows ==
    ASSUME TypeOK, NEW k \in Notifications, NEW status \in Statuses, NEW p \in BOOLEAN,
           UpdateStatus(k, status, p), NEW n \in Notifications
    PROVE  RowGrows(n)
<1>1. CASE n # k
  BY <1>1, UpdatedRow, SameRowGrows
<1>2. CASE n = k
  <2>1. db[n].attempts \in Nat /\ db'[n].attempts = db[n].attempts
    BY <1>2, UpdatedRow DEF TypeOK, Row
  <2>2. db'[n].status # "absent"
    BY <1>2, UpdatedRow DEF Statuses
  <2>3. db[n].providerMessageID => db'[n].providerMessageID
    BY <1>2, UpdatedRow
  <2>4. db[n].attempts <= db'[n].attempts
    BY <2>1
  <2> QED
    BY <2>2, <2>3, <2>4 DEF RowGrows, Exists
<1> QED
  BY <1>1, <1>2

LEMMA CancelGrows ==
    ASSUME TypeOK, NEW k \in Notifications, Cancel(k), NEW n \in Notifications
    PROVE  RowGrows(n)
<1>1. db \in [Notifications -> Row] /\ db[n] \in Row
  BY DEF TypeOK
<1>2. CASE n # k
  BY <1>1, <1>2, SameRowGrows DEF Cancel
<1>3. CASE n = k
  <2>1. db'[n] = [db[n] EXCEPT !.status = "cancelled"]
    BY <1>1, <1>3 DEF Cancel
  <2>2. /\ db'[n].status = "cancelled"
        /\ db'[n].attempts = db[n].attempts
        /\ db'[n].providerMessageID = db[n].providerMessageID
    BY <1>1, <2>1 DEF Row
  <2>3. db[n].attempts <= db'[n].attempts
    BY <1>1, <2>2 DEF Row
  <2> QED
    BY <2>2, <2>3 DEF RowGrows, Exists
<1> QED
  BY <1>2, <1>3

LEMMA IncrementGrows ==
    ASSUME TypeOK, NEW k \in Notifications, Exists(k), NEW at \in Instants,
           IncrementAttempts(k, at), NEW n \in Notifications
    PROVE  RowGrows(n)
<1>1. CASE n # k
  BY <1>1, IncrementedRow, SameRowGrows
<1>2. CASE n = k
  <2>1. db[n].attempts \in Nat /\ db'[n].attempts = db[n].attempts + 1
    BY <1>2, IncrementedRow DEF TypeOK, Row
  <2>2. db'[n].status = db[n].status /\ db'[n].providerMessageID = db[n].providerMessageID
    BY <1>2, IncrementedRow
  <2>3. db[n].attempts <= db'[n].attempts
    BY <2>1
  <2> QED
    BY <1>2, <2>2, <2>3 DEF RowGrows, Exists
<1> QED
  BY <1>1, <1>2

LEMMA FetchGrows ==
    ASSUME TypeOK, NEW batch \in SUBSET Notifications, MarkFetched(batch),
           NEW n \in Notifications
    PROVE  RowGrows(n)
<1>1. CASE n \notin batch
  BY <1>1, FetchedRow, SameRowGrows
<1>2. CASE n \in batch
  <2>1. db[n].attempts \in Nat /\ db'[n].attempts = db[n].attempts
    BY <1>2, FetchedRow DEF TypeOK, Row
  <2>2. /\ db'[n].status = "queued"
        /\ db'[n].providerMessageID = db[n].providerMessageID
    BY <1>2, FetchedRow
  <2>3. db[n].attempts <= db'[n].attempts
    BY <2>1
  <2> QED
    BY <2>2, <2>3 DEF RowGrows, Exists
<1> QED
  BY <1>1, <1>2

LEMMA CreateGrows ==
    ASSUME TypeOK, NEW batch \in SUBSET Notifications, CanInsert(batch), CreateBatch(batch),
           \A n \in Notifications : ~Exists(n) => db[n] = NoRow,
           NEW n \in Notifications
    PROVE  RowGrows(n)
<1>1. CASE n \notin batch
  BY <1>1, SameRowGrows DEF CreateBatch
<1>2. CASE n \in batch
  <2>1. db[n] = NoRow /\ db'[n] = NewNotification(n)
    BY <1>2 DEF CanInsert, CreateBatch
  <2>2. NewNotification(n).attempts = 0 /\ NoRow.attempts = 0
    BY DEF NewNotification, NoRow
  <2>3. NewNotification(n).status = "pending"
    BY DEF NewNotification
  <2>4. NoRow.providerMessageID = FALSE
    BY DEF NoRow
  <2>5. db[n].attempts <= db'[n].attempts
    BY <2>1, <2>2
  <2> QED
    BY <2>1, <2>3, <2>4, <2>5 DEF RowGrows, Exists
<1> QED
  BY <1>1, <1>2

LEMMA HeldStored ==
    ASSUME RecordInv, NEW w \in Workers, Busy(w)
    PROVE  Held(w) \in Message /\ Held(w).n \in Notifications /\ Exists(Held(w).n)
<1>1. TypeOK /\ worker[w].pc \notin {"idle", "exited"}
  BY DEF RecordInv, Busy
<1>2. Held(w) \in Message /\ Held(w).n \in Notifications
  BY <1>1, HeldType
<1>3. worker[w].pos \in DOMAIN stream[Serves[w]] /\ Serves[w] \in Queues
  BY <1>1, WorkerAssumption DEF TypeOK
<1>4. Stored(Held(w))
  BY <1>3 DEF RecordInv, Held
<1> QED
  BY <1>2, <1>4 DEF Stored

\* Whatever a step does to the table.
RowWrites ==
    \/ UNCHANGED db
    \/ \E batch \in SUBSET Notifications : CanInsert(batch) /\ CreateBatch(batch)
    \/ \E k \in Notifications, status \in {"queued", "failed"} : UpdateStatus(k, status, FALSE)
    \/ \E k \in Notifications : Cancel(k)
    \/ \E batch \in SUBSET Notifications : MarkFetched(batch)
    \/ \E w \in Workers :
          \/ WorkerMarkProcessing(w) /\ UpdateStatus(Held(w).n, "processing", FALSE)
          \/ WorkerMarkDelivered(w) /\ UpdateStatus(Held(w).n, "delivered", TRUE)
          \/ WorkerIncrement(w) /\ \E at \in Instants : IncrementAttempts(Held(w).n, at)
    \/ \E k \in Notifications : TimePasses(k)

LEMMA RowStep ==
    ASSUME RecordInv, [Next]_vars
    PROVE  RowWrites
<1>1. TypeOK
  BY DEF RecordInv
<1>2. CASE UNCHANGED db
  BY <1>2 DEF RowWrites
<1>3. ASSUME NEW h \in Handlers, HandlerNext(h), db' # db
      PROVE  RowWrites
  <2>1. CASE HandlerPersist(h)
    BY <1>3, <2>1 DEF HandlerPersist, RowWrites
  <2>2. CASE HandlerMarkQueued(h)
    <3>1. handler[h].cur \in Notifications
      BY <1>1, <2>2 DEF TypeOK, HandlerState, HandlerMarkQueued
    <3>2. UpdateStatus(handler[h].cur, "queued", FALSE)
      BY <1>3, <2>2 DEF HandlerMarkQueued
    <3> QED
      BY <3>1, <3>2 DEF RowWrites
  <2>3. CASE HandlerCancel(h)
    BY <1>3, <2>3 DEF HandlerCancel, RowWrites
  <2> QED
    BY <1>3, <2>1, <2>2, <2>3 DEF HandlerNext, HandlerStep, HandlerProceed,
       HandlerBroadcastPending, HandlerEnqueue, HandlerBroadcastQueued,
       HandlerBroadcastCancelled, HandlerResend, HandlerDisconnect
<1>4. ASSUME NEW t \in Tickers, TickerNext(t), db' # db
      PROVE  RowWrites
  <2>1. ASSUME NEW ready, ready \subseteq Notifications, Fetch(t, ready)
        PROVE  RowWrites
    BY <1>4, <2>1 DEF Fetch, RowWrites
  <2>2. CASE TickerFetchScheduled(t) \/ TickerFetchRetry(t)
    BY <2>1, <2>2 DEF TickerFetchScheduled, TickerFetchRetry, ScheduledReady, RetryReady
  <2>3. CASE TickerMarkQueued(t)
    <3>1. PICK m \in ticker[t].todo : UpdateStatus(m.n, "queued", FALSE)
      BY <1>4, <2>3 DEF TickerMarkQueued
    <3>2. m.n \in Notifications
      BY <1>1 DEF TypeOK, TickerState, Message
    <3> QED
      BY <3>1, <3>2 DEF RowWrites
  <2> QED
    BY <1>4, <2>2, <2>3 DEF TickerNext, TickerStep, TickerEnqueue, TickerResend, TickerExit
<1>5. ASSUME NEW w \in Workers, WorkerNext(w), db' # db
      PROVE  RowWrites
  <2>1. CASE WorkerMarkProcessing(w)
    BY <1>5, <2>1 DEF WorkerMarkProcessing, RowUpdate, RowWrites
  <2>2. CASE WorkerMarkDelivered(w)
    <3>1. UpdateStatus(Held(w).n, "delivered", TRUE)
      BY <1>5, <2>2 DEF WorkerMarkDelivered, RowUpdate
    <3> QED
      BY <2>2, <3>1 DEF RowWrites
  <2>3. CASE WorkerMarkFailed(w)
    <3>1. Held(w).n \in Notifications
      BY <1>1, <2>3, HeldType DEF WorkerMarkFailed
    <3>2. UpdateStatus(Held(w).n, "failed", FALSE)
      BY <1>5, <2>3 DEF WorkerMarkFailed, RowUpdate
    <3> QED
      BY <3>1, <3>2 DEF RowWrites
  <2>4. CASE WorkerIncrement(w)
    <3>1. \E at \in Instants : IncrementAttempts(Held(w).n, at)
      BY <1>5, <2>4 DEF WorkerIncrement, Instants
    <3> QED
      BY <2>4, <3>1 DEF RowWrites
  <2> QED
    BY <1>5, <2>1, <2>2, <2>3, <2>4 DEF WorkerNext, WorkerStep, WorkerDequeue,
       WorkerTakeToken, WorkerSend, WorkerAck, WorkerExit
<1> QED
  BY <1>2, <1>3, <1>4, <1>5 DEF Next, vars, Shutdown, Restart, Crash, StartProcess, RowWrites

LEMMA TimeGrows ==
    ASSUME TypeOK, NEW k \in Notifications, TimePasses(k), NEW n \in Notifications,
           ~Exists(n) => db[n] = NoRow
    PROVE  RowGrows(n)
<1>1. db \in [Notifications -> Row] /\ db[n] \in Row
  BY DEF TypeOK
<1>2. CASE n # k
  BY <1>1, <1>2, SameRowGrows DEF TimePasses, ScheduledTimeArrives, RetryTimeArrives
<1>3. CASE n = k
  <2>1. \/ db'[n] = [db[n] EXCEPT !.scheduledAt = "past"]
        \/ db'[n] = [db[n] EXCEPT !.nextRetryAt = "past"]
    BY <1>1, <1>3 DEF TimePasses, ScheduledTimeArrives, RetryTimeArrives
  <2>2. db'[n].status = db[n].status /\ db'[n].attempts = db[n].attempts
    BY <1>1, <2>1 DEF Row
  <2>3. db'[n].providerMessageID = db[n].providerMessageID
    BY <1>1, <2>1 DEF Row
  <2>4. Exists(n)
    BY <1>3 DEF TimePasses, ScheduledTimeArrives, RetryTimeArrives, NoRow
  <2>5. db[n].attempts <= db'[n].attempts
    BY <1>1, <2>2 DEF Row
  <2> QED
    BY <2>2, <2>3, <2>4, <2>5 DEF RowGrows, Exists
<1> QED
  BY <1>2, <1>3

LEMMA RowsGrow ==
    ASSUME RecordInv, [Next]_vars, NEW n \in Notifications
    PROVE  RowGrows(n)
<1>1. TypeOK /\ \A k \in Notifications : ~Exists(k) => db[k] = NoRow
  BY DEF RecordInv, RowRecorded
<1>2. ASSUME NEW w \in Workers,
             \/ WorkerMarkProcessing(w) /\ UpdateStatus(Held(w).n, "processing", FALSE)
             \/ WorkerMarkDelivered(w) /\ UpdateStatus(Held(w).n, "delivered", TRUE)
             \/ WorkerIncrement(w) /\ \E at \in Instants : IncrementAttempts(Held(w).n, at)
      PROVE  RowGrows(n)
  <2>1. Busy(w)
    BY <1>2 DEF WorkerMarkProcessing, WorkerMarkDelivered, WorkerIncrement, Busy
  <2>2. Held(w).n \in Notifications /\ Exists(Held(w).n)
    BY <2>1, HeldStored
  <2>3. CASE UpdateStatus(Held(w).n, "processing", FALSE)
    BY <1>1, <2>2, <2>3, UpdateGrows DEF Statuses
  <2>4. CASE UpdateStatus(Held(w).n, "delivered", TRUE)
    BY <1>1, <2>2, <2>4, UpdateGrows DEF Statuses
  <2>5. CASE \E at \in Instants : IncrementAttempts(Held(w).n, at)
    BY <1>1, <2>2, <2>5, IncrementGrows
  <2> QED
    BY <1>2, <2>3, <2>4, <2>5
<1>3. ASSUME NEW k \in Notifications, NEW status \in {"queued", "failed"},
             UpdateStatus(k, status, FALSE)
      PROVE  RowGrows(n)
  BY <1>1, <1>3, UpdateGrows DEF Statuses
<1> QED
  BY <1>1, <1>2, <1>3, RowStep, SameRowGrows, CreateGrows, CancelGrows, FetchGrows, TimeGrows
     DEF RowWrites

\* XADD leaves every entry in its place and adds none but the message.
LEMMA EnqueueEntries ==
    ASSUME TypeOK, NEW m \in Message, Added(m), NEW q \in Queues
    PROVE  \A i \in DOMAIN stream'[q] :
              \/ i \in DOMAIN stream[q] /\ stream'[q][i] = stream[q][i]
              \/ stream'[q][i] = m
<1>1. stream[q] \in Seq(Message) /\ Append(stream[q], m) \in Seq(Message)
  BY DEF TypeOK
<1>2. stream'[q] \in {stream[q], Append(stream[q], m)}
  BY QueueAssumption DEF Added, TypeOK, Message
<1>3. CASE stream'[q] = stream[q]
  BY <1>3
<1>4. CASE stream'[q] = Append(stream[q], m)
  BY <1>1, <1>4
<1> QED
  BY <1>2, <1>3, <1>4

LEMMA StreamStep ==
    ASSUME RecordInv, [Next]_vars
    PROVE  \/ UNCHANGED stream
           \/ /\ UNCHANGED <<pel, lastDelivered, worker>>
              /\ \E m \in Message : Stored(m) /\ Added(m)
<1>1. TypeOK
  BY DEF RecordInv
<1>2. ASSUME NEW h \in Handlers, HandlerEnqueue(h) \/ HandlerResend(h), UNCHANGED worker
      PROVE  \/ UNCHANGED stream
             \/ /\ UNCHANGED <<pel, lastDelivered, worker>>
                /\ \E m \in Message : Stored(m) /\ Added(m)
  <2>1. PICK k \in handler[h].todo :
           \/ Added([n |-> k, attempts |-> 0])
           \/ UNCHANGED queueVars
    BY <1>2, EnqueueAdds DEF HandlerEnqueue, HandlerResend
  <2>2. k \in Notifications /\ Exists(k)
    BY <1>1 DEF RecordInv, RequestStored, TypeOK, HandlerState
  <2>3. db[k].attempts \in Nat
    BY <1>1, <2>2 DEF TypeOK, Row
  <2>4. [n |-> k, attempts |-> 0] \in Message /\ Stored([n |-> k, attempts |-> 0])
    BY <2>2, <2>3 DEF Message, Stored
  <2> QED
    BY <1>2, <2>1, <2>4 DEF queueVars, Added
<1>3. ASSUME NEW t \in Tickers, TickerEnqueue(t) \/ TickerResend(t), UNCHANGED worker
      PROVE  \/ UNCHANGED stream
             \/ /\ UNCHANGED <<pel, lastDelivered, worker>>
                /\ \E m \in Message : Stored(m) /\ Added(m)
  <2>1. Added(ticker[t].cur) \/ UNCHANGED queueVars
    BY <1>3, EnqueueAdds DEF TickerEnqueue, TickerResend
  <2>2. ticker[t].cur \in Message /\ ticker[t].cur \in TickerHolds(t)
    BY <1>1, <1>3 DEF TickerEnqueue, TickerResend, TypeOK, TickerState, TickerHolds
  <2>3. Stored(ticker[t].cur)
    BY <2>2 DEF RecordInv
  <2> QED
    BY <1>3, <2>1, <2>2, <2>3 DEF queueVars, Added
<1>4. CASE \E h \in Handlers : HandlerNext(h)
  BY <1>2, <1>4 DEF HandlerNext, HandlerStep, HandlerProceed, HandlerPersist, HandlerCancel,
     HandlerBroadcastPending, HandlerMarkQueued, HandlerBroadcastQueued,
     HandlerBroadcastCancelled, HandlerDisconnect, queueVars
<1>5. CASE \E t \in Tickers : TickerNext(t)
  BY <1>3, <1>5 DEF TickerNext, TickerStep, TickerFetchScheduled, TickerFetchRetry, Fetch,
     TickerMarkQueued, TickerExit, queueVars
<1>6. CASE \E w \in Workers : WorkerNext(w)
  BY <1>6 DEF WorkerNext, WorkerStep, WorkerDequeue, Dequeue, WorkerMarkProcessing,
     WorkerTakeToken, WorkerSend, WorkerMarkDelivered, WorkerIncrement, WorkerMarkFailed,
     WorkerAck, Ack, WorkerExit, queueVars
<1> QED
  BY <1>4, <1>5, <1>6 DEF Next, vars, TimePasses, Shutdown, Restart, Crash, StartProcess,
     queueVars

LEMMA StreamsGrow ==
    ASSUME RecordInv, [Next]_vars, NEW q \in Queues, NEW i \in DOMAIN stream[q]
    PROVE  stream'[q][i] = stream[q][i]
<1>1. TypeOK
  BY DEF RecordInv
<1> QED
  BY <1>1, StreamStep, EnqueueType

LEMMA StoredStays ==
    ASSUME RecordInv, [Next]_vars, NEW m \in Message, Stored(m)
    PROVE  Stored(m)'
<1>1. m.n \in Notifications /\ m.attempts \in Nat
  BY DEF Message
<1>2. RowGrows(m.n)
  BY <1>1, RowsGrow
<1>3. TypeOK /\ TypeOK'
  BY TypeStep DEF RecordInv
<1>4. db[m.n].attempts \in Nat /\ db'[m.n].attempts \in Nat
  BY <1>1, <1>3 DEF TypeOK, Row
<1> QED
  BY <1>1, <1>2, <1>4 DEF RowGrows, Stored

LEMMA EntriesStored ==
    ASSUME RecordInv, [Next]_vars, NEW q \in Queues, NEW i \in DOMAIN stream'[q]
    PROVE  Stored(stream[q][i])'
<1>1. TypeOK /\ stream[q] \in Seq(Message)
  BY DEF RecordInv, TypeOK
<1>2. \/ i \in DOMAIN stream[q] /\ stream'[q][i] = stream[q][i]
      \/ \E m \in Message : Stored(m) /\ stream'[q][i] = m
  BY <1>1, StreamStep, EnqueueEntries
<1>3. \E m \in Message : Stored(m) /\ stream'[q][i] = m
  BY <1>1, <1>2 DEF RecordInv
<1>4. PICK m \in Message : Stored(m) /\ stream'[q][i] = m
  BY <1>3
<1>5. Stored(m)'
  BY <1>4, StoredStays
<1> QED
  BY <1>4, <1>5 DEF Stored

LEMMA TickersStored ==
    ASSUME RecordInv, [Next]_vars, NEW t \in Tickers, NEW m \in TickerHolds(t)'
    PROVE  Stored(m)'
<1>1. /\ TypeOK
      /\ ticker \in [Tickers -> TickerState]
      /\ ticker' \in [Tickers -> TickerState]
  BY TypeStep DEF RecordInv, TypeOK
<1>2. m \in Message
  BY <1>1 DEF TickerHolds, TickerState
<1>3. CASE m \in TickerHolds(t)
  BY <1>2, <1>3, StoredStays DEF RecordInv
<1>4. CASE m \notin TickerHolds(t)
  <2>1. PICK s \in Tickers : TickerNext(s)
    BY <1>1, <1>4 DEF Next, vars, HandlerNext, WorkerNext, TimePasses, Shutdown, Restart,
       Crash, StartProcess, TickerHolds, IdleTicker
  <2>2. CASE TickerMarkQueued(s) \/ TickerEnqueue(s) \/ TickerResend(s) \/ TickerExit(s)
    <3>1. TickerHolds(t)' \subseteq TickerHolds(t)
      <4>1. CASE t # s
        BY <1>1, <2>2, <4>1
           DEF TickerMarkQueued, TickerEnqueue, TickerResend, TickerExit, TickerHolds
      <4>2. CASE t = s /\ TickerMarkQueued(s)
        <5>1. PICK k \in ticker[s].todo : \E cur \in {k, Nil} :
                 ticker' = [ticker EXCEPT ![s].todo = @ \ {k}, ![s].cur = cur]
          BY <4>2 DEF TickerMarkQueued
        <5>2. ticker'[s].todo = ticker[s].todo \ {k} /\ ticker'[s].cur \in {k, Nil}
          BY <1>1, <5>1 DEF TickerState
        <5> QED
          BY <4>2, <5>2 DEF TickerHolds
      <4>3. CASE t = s /\ (TickerEnqueue(s) \/ TickerResend(s) \/ TickerExit(s))
        <5>1. ticker'[s].todo = ticker[s].todo /\ ticker'[s].cur \in {ticker[s].cur, Nil}
          BY <1>1, <4>3 DEF TickerEnqueue, TickerResend, TickerExit, TickerState
        <5> QED
          BY <4>3, <5>1 DEF TickerHolds
      <4> QED
        BY <2>2, <4>1, <4>2, <4>3
    <3> QED
      BY <1>4, <3>1
  <2>3. ASSUME NEW ready, Fetch(s, ready),
               \A n \in ready : n \in Notifications /\ Exists(n)
        PROVE  Stored(m)
    <3>1. PICK batch \in SUBSET ready :
             ticker' = ticker \/ ticker' = [ticker EXCEPT ![s].todo = Fetched(batch)]
      BY <2>3 DEF Fetch
    <3>2. m \in Fetched(batch)
      BY <1>1, <1>4, <3>1 DEF TickerHolds, TickerState
    <3>3. PICK n \in batch : m = [n |-> n, attempts |-> db[n].attempts]
      BY <3>2 DEF Fetched
    <3>4. Exists(n) /\ db[n].attempts \in Nat
      BY <1>1, <2>3 DEF TypeOK, Row
    <3> QED
      BY <3>3, <3>4 DEF Stored
  <2>4. \A n \in ScheduledReady \cup RetryReady : n \in Notifications /\ Exists(n)
    BY DEF ScheduledReady, RetryReady, Exists
  <2>5. CASE TickerFetchScheduled(s) \/ TickerFetchRetry(s)
    BY <1>2, <2>3, <2>4, <2>5, StoredStays DEF TickerFetchScheduled, TickerFetchRetry
  <2> QED
    BY <2>1, <2>2, <2>5 DEF TickerNext, TickerStep
<1> QED
  BY <1>3, <1>4

\* What requests take up, and leave, is stored.
LEMMA RequestsStored ==
    ASSUME RecordInv, [Next]_vars, NEW g \in Handlers
    PROVE  RequestStored(g)'
<1>1. /\ TypeOK
      /\ handler \in [Handlers -> HandlerState]
      /\ Nil \notin Notifications
      /\ RequestStored(g)
  BY ServiceAssumption DEF RecordInv, TypeOK
<1>2. \A n \in Notifications : Exists(n) => Exists(n)'
  BY RowsGrow DEF RowGrows
<1>3. \/ handler'[g] = handler[g]
      \/ handler'[g] = IdleHandler
      \/ HandlerNext(g)
  <2>1. ASSUME NEW h \in Handlers, HandlerNext(h), h # g
        PROVE  handler'[g] = handler[g]
    <3>1. \/ UNCHANGED handler
          \/ \E x : handler' = [handler EXCEPT ![h] = x]
      BY <2>1 DEF HandlerNext, HandlerStep, HandlerProceed, HandlerPersist, HandlerCancel,
         HandlerBroadcastPending, HandlerEnqueue, HandlerMarkQueued,
         HandlerBroadcastQueued, HandlerBroadcastCancelled, HandlerResend,
         HandlerDisconnect
    <3> QED
      BY <1>1, <2>1, <3>1
  <2>2. CASE \E p \in Processes : StartProcess(p)
    BY <2>2 DEF StartProcess
  <2> QED
    BY <2>1, <2>2
       DEF Next, vars, TickerNext, WorkerNext, TimePasses, Shutdown, Restart, Crash
<1>4. CASE handler'[g] = handler[g]
  BY <1>1, <1>2, <1>4 DEF RequestStored, HandlerState, Exists
<1>5. CASE handler'[g] = IdleHandler
  BY <1>5 DEF RequestStored, IdleHandler
<1>6. ASSUME NEW rest \in SUBSET Notifications, \A n \in rest : Exists(n),
             rest \cap Scheduled = {},
             handler' = [handler EXCEPT ![g] = Continue(rest)]
      PROVE  RequestStored(g)'
  <2>1. handler'[g].todo \subseteq rest /\ handler'[g].cur = Nil /\ handler'[g].pc # "markQueued"
    BY <1>1, <1>6 DEF Continue, IdleHandler
  <2> QED
    BY <1>2, <1>6, <2>1 DEF RequestStored, Exists
<1>7. CASE HandlerPersist(g) /\ handler'[g] # handler[g]
  <2>1. PICK batch \in SUBSET Notifications, o \in RequestOutcomes :
           /\ IF Applied(o) THEN CreateBatch(batch) ELSE UNCHANGED db
           /\ IF Returned(o)
              THEN handler' = [handler EXCEPT ![g] = [pc   |-> "broadcastPending",
                                                      todo |-> batch,
                                                      cur  |-> Nil]]
              ELSE UNCHANGED handler
    BY <1>7 DEF HandlerPersist
  <2>2. Returned(o) /\ Applied(o)
    BY <1>7, <2>1 DEF Returned, Applied
  <2>3. handler'[g] = [pc |-> "broadcastPending", todo |-> batch, cur |-> Nil]
    BY <1>1, <2>1, <2>2
  <2>4. \A n \in batch : db'[n] = NewNotification(n)
    BY <2>1, <2>2 DEF CreateBatch
  <2>5. \A n \in batch : db'[n].status # "absent"
    <3>1. \A n : NewNotification(n).status = "pending"
      BY DEF NewNotification
    <3> QED
      BY <2>4, <3>1
  <2> QED
    BY <2>3, <2>5 DEF RequestStored, Exists
<1>8. CASE HandlerBroadcastPending(g)
  <2>1. handler' = [handler EXCEPT ![g] = Continue(handler[g].todo \ Scheduled)]
    BY <1>8 DEF HandlerBroadcastPending
  <2>2. handler[g].todo \ Scheduled \in SUBSET Notifications
    BY <1>1 DEF HandlerState
  <2> QED
    BY <1>1, <1>6, <2>1, <2>2 DEF RequestStored
<1>9. CASE HandlerEnqueue(g)
  <2>1. PICK k \in handler[g].todo :
           \/ handler' = [handler EXCEPT ![g] = [pc   |-> "markQueued",
                                                 todo |-> handler[g].todo \ {k},
                                                 cur  |-> k]]
           \/ handler' = [handler EXCEPT ![g] = Continue(handler[g].todo \ {k})]
    BY <1>9 DEF HandlerEnqueue
  <2>2. /\ k \in Notifications
        /\ handler[g].todo \ {k} \in SUBSET Notifications
        /\ \A n \in handler[g].todo : Exists(n)
        /\ handler[g].todo \cap Scheduled = {}
    BY <1>1, <1>9 DEF HandlerState, RequestStored, HandlerEnqueue
  <2>3. CASE handler' = [handler EXCEPT ![g] = Continue(handler[g].todo \ {k})]
    BY <1>6, <2>2, <2>3
  <2>4. CASE handler' = [handler EXCEPT ![g] = [pc   |-> "markQueued",
                                                todo |-> handler[g].todo \ {k},
                                                cur  |-> k]]
    <3>1. handler'[g].todo = handler[g].todo \ {k} /\ handler'[g].cur = k
      BY <1>1, <2>4
    <3> QED
      BY <1>2, <2>2, <3>1 DEF RequestStored, Exists
  <2> QED
    BY <2>1, <2>3, <2>4
<1>10. CASE HandlerMarkQueued(g)
  <2>1. \/ handler' = [handler EXCEPT ![g] = [handler[g] EXCEPT !.pc = "broadcastQueued"]]
        \/ handler' = [handler EXCEPT ![g] = Continue(handler[g].todo)]
    BY <1>10 DEF HandlerMarkQueued
  <2>2. /\ handler[g].todo \in SUBSET Notifications
        /\ \A n \in handler[g].todo : Exists(n)
        /\ handler[g].todo \cap Scheduled = {}
        /\ handler[g].cur \in Notifications /\ Exists(handler[g].cur)
    BY <1>1, <1>10 DEF HandlerState, RequestStored, HandlerMarkQueued, TypeOK
  <2>3. CASE handler' = [handler EXCEPT ![g] = Continue(handler[g].todo)]
    BY <1>6, <2>2, <2>3
  <2>4. CASE handler' = [handler EXCEPT ![g] = [handler[g] EXCEPT !.pc = "broadcastQueued"]]
    <3>1. /\ handler'[g].todo = handler[g].todo
          /\ handler'[g].cur = handler[g].cur
          /\ handler'[g].pc = "broadcastQueued"
      BY <1>1, <2>4 DEF HandlerState
    <3> QED
      BY <1>2, <2>2, <3>1 DEF RequestStored, Exists
  <2> QED
    BY <2>1, <2>3, <2>4
<1>11. CASE HandlerBroadcastQueued(g)
  <2>1. handler' = [handler EXCEPT ![g] = Continue(handler[g].todo)]
    BY <1>11 DEF HandlerBroadcastQueued
  <2>2. /\ handler[g].todo \in SUBSET Notifications
        /\ \A n \in handler[g].todo : Exists(n)
        /\ handler[g].todo \cap Scheduled = {}
    BY <1>1, <1>11 DEF HandlerState, RequestStored, HandlerBroadcastQueued
  <2> QED
    BY <1>6, <2>1, <2>2
<1>12. CASE HandlerCancel(g) /\ handler'[g] # handler[g]
  <2>1. PICK k \in Notifications :
           /\ Cancellable(k)
           /\ handler' = [handler EXCEPT ![g] = [pc   |-> "broadcastCancelled",
                                                 todo |-> {},
                                                 cur  |-> k]]
    BY <1>12 DEF HandlerCancel
  <2>2. handler'[g] = [pc |-> "broadcastCancelled", todo |-> {}, cur |-> k]
    BY <1>1, <2>1
  <2>3. Exists(k)
    BY <2>1 DEF Cancellable, Exists
  <2> QED
    BY <1>2, <2>2, <2>3 DEF RequestStored, Exists
<1>13. CASE HandlerBroadcastCancelled(g) \/ HandlerDisconnect(g)
  BY <1>1, <1>5, <1>13 DEF HandlerBroadcastCancelled, HandlerDisconnect
<1>14. CASE HandlerResend(g)
  <2>1. PICK k \in handler[g].todo : handler' = [handler EXCEPT ![g].cur = k]
    BY <1>14 DEF HandlerResend
  <2>2. /\ handler'[g].todo = handler[g].todo
        /\ handler'[g].pc = "enqueue"
        /\ handler'[g].cur = k
    BY <1>1, <1>14, <2>1 DEF HandlerResend, HandlerState
  <2>3. /\ \A n \in handler[g].todo : n \in Notifications /\ Exists(n)
        /\ handler[g].todo \cap Scheduled = {}
    BY <1>1, <1>14 DEF HandlerResend, HandlerState, RequestStored
  <2> QED
    BY <1>2, <2>2, <2>3 DEF RequestStored, Exists
<1> QED
  BY <1>3, <1>4, <1>5, <1>7, <1>8, <1>9, <1>10, <1>11, <1>12, <1>13, <1>14
     DEF HandlerNext, HandlerStep, HandlerProceed

\* What a step does to the consumer groups.
LEMMA GroupStep ==
    ASSUME RecordInv, [Next]_vars
    PROVE  \/ UNCHANGED <<pel, lastDelivered>>
           \/ \E w \in Workers : WorkerDequeue(w) /\ Dequeue(Serves[w])
           \/ \E w \in Workers : WorkerAck(w) /\ Ack(Serves[w], worker[w].pos)
<1>1. CASE \E h \in Handlers : HandlerNext(h)
  BY <1>1 DEF HandlerNext, HandlerStep, HandlerProceed, HandlerPersist, HandlerCancel,
     HandlerBroadcastPending, HandlerEnqueue, Enqueue, HandlerMarkQueued,
     HandlerBroadcastQueued, HandlerBroadcastCancelled, HandlerResend, EnqueueUnanswered,
     HandlerDisconnect, queueVars
<1>2. CASE \E t \in Tickers : TickerNext(t)
  BY <1>2 DEF TickerNext, TickerStep, TickerFetchScheduled, TickerFetchRetry, Fetch,
     TickerMarkQueued, TickerEnqueue, Enqueue, TickerResend, EnqueueUnanswered, TickerExit,
     queueVars
<1>3. CASE \E w \in Workers : WorkerNext(w)
  BY <1>3 DEF WorkerNext, WorkerStep, WorkerDequeue, WorkerMarkProcessing, WorkerTakeToken,
     WorkerSend, WorkerMarkDelivered, WorkerIncrement, WorkerMarkFailed, WorkerAck,
     WorkerExit, queueVars
<1> QED
  BY <1>1, <1>2, <1>3 DEF Next, vars, TimePasses, Shutdown, Restart, Crash, StartProcess,
     queueVars

\* Where a worker goes: nowhere, out of work, or on with its entry.
LEMMA WorkerStepForms ==
    ASSUME TypeOK, [Next]_vars, NEW v \in Workers, Busy(v)', worker'[v] # worker[v]
    PROVE  /\ WorkerNext(v)
           /\ \A w \in Workers : w # v => worker'[w] = worker[w]
           /\ \/ /\ WorkerDequeue(v)
                 /\ Dequeue(Serves[v])
                 /\ worker'[v] = [pc |-> "markProcessing", pos |-> lastDelivered[Serves[v]] + 1]
              \/ Busy(v) /\ ~WorkerAck(v) /\ worker'[v].pos = worker[v].pos
<1>1. worker \in [Workers -> WorkerState] /\ worker[v] \in WorkerState
  BY DEF TypeOK
<1>2. PICK w \in Workers : WorkerNext(w)
  <2>1. CASE \E p \in Processes : StartProcess(p)
    BY <2>1 DEF StartProcess, Busy, IdleWorker
  <2> QED
    BY <2>1 DEF Next, vars, HandlerNext, TickerNext, TimePasses, Shutdown, Restart, Crash
<1>3. \/ UNCHANGED worker
      \/ \E x : worker' = [worker EXCEPT ![w] = x]
      \/ \E pc : worker' = [worker EXCEPT ![w].pc = pc]
  BY <1>2 DEF WorkerNext, WorkerStep, WorkerDequeue, WorkerMarkProcessing, WorkerTakeToken,
     WorkerSend, WorkerMarkDelivered, WorkerIncrement, WorkerMarkFailed, WorkerAck,
     WorkerExit, RowUpdate, Goto, Return
<1>4. w = v /\ \A u \in Workers : u # v => worker'[u] = worker[u]
  BY <1>1, <1>3
<1>5. CASE WorkerDequeue(v)
  <2>1. PICK o \in RequestOutcomes :
           /\ IF Applied(o) THEN Dequeue(Serves[v]) ELSE UNCHANGED queueVars
           /\ IF Returned(o)
              THEN worker' = [worker EXCEPT ![v] = [pc  |-> "markProcessing",
                                                    pos |-> lastDelivered[Serves[v]] + 1]]
              ELSE UNCHANGED worker
    BY <1>5 DEF WorkerDequeue
  <2>2. Returned(o) /\ Applied(o)
    BY <2>1 DEF Applied, Returned
  <2> QED
    BY <1>1, <1>2, <1>4, <1>5, <2>1, <2>2
<1>6. CASE WorkerAck(v) \/ WorkerExit(v)
  <2>1. \/ worker' = [worker EXCEPT ![v] = IdleWorker]
        \/ worker' = [worker EXCEPT ![v].pc = "exited"]
    BY <1>6 DEF WorkerAck, WorkerExit, Return, Goto
  <2>2. worker'[v].pc \in {"idle", "exited"}
    BY <1>1, <2>1 DEF IdleWorker, WorkerState
  <2> QED
    BY <2>2 DEF Busy
<1>7. CASE ~WorkerDequeue(v) /\ ~WorkerAck(v) /\ ~WorkerExit(v)
  <2>1. Busy(v)
    BY <1>2, <1>4, <1>7 DEF WorkerNext, WorkerStep, WorkerMarkProcessing, WorkerTakeToken,
       WorkerSend, WorkerMarkDelivered, WorkerIncrement, WorkerMarkFailed, Busy
  <2>2. \/ worker' = [worker EXCEPT ![v] = IdleWorker]
        \/ \E pc : worker' = [worker EXCEPT ![v].pc = pc]
    BY <1>2, <1>4, <1>7 DEF WorkerNext, WorkerStep, WorkerMarkProcessing, WorkerTakeToken,
       WorkerSend, WorkerMarkDelivered, WorkerIncrement, WorkerMarkFailed, RowUpdate, Goto,
       Return
  <2>3. \E pc : worker' = [worker EXCEPT ![v].pc = pc]
    BY <1>1, <2>2 DEF Busy, IdleWorker
  <2>4. worker'[v].pos = worker[v].pos
    BY <1>1, <2>3 DEF WorkerState
  <2> QED
    BY <1>2, <1>4, <1>7, <2>1, <2>4
<1> QED
  BY <1>5, <1>6, <1>7

LEMMA EntriesApart ==
    ASSUME RecordInv, [Next]_vars, NEW v \in Workers, NEW w \in Workers,
           Busy(v)', Busy(w)', Serves[v] = Serves[w], worker'[v].pos = worker'[w].pos
    PROVE  v = w
<1>1. /\ TypeOK
      /\ lastDelivered \in [Queues -> Nat]
      /\ \A u \in Workers : Serves[u] \in Queues
  BY WorkerAssumption DEF RecordInv, TypeOK
<1>2. \A u \in Workers : Busy(u) => worker[u].pos \in 1 .. lastDelivered[Serves[u]]
  BY <1>1 DEF TypeOK, Busy
<1>3. ASSUME NEW x \in Workers, NEW y \in Workers, x # y, Busy(x)', Busy(y)',
             worker'[x] # worker[x], Serves[x] = Serves[y], worker'[x].pos = worker'[y].pos
      PROVE  FALSE
  <2>1. worker'[y] = worker[y] /\ Busy(y)
    BY <1>1, <1>3, WorkerStepForms DEF Busy
  <2>2. CASE worker'[x] = [pc |-> "markProcessing", pos |-> lastDelivered[Serves[x]] + 1]
    <3>1. worker[y].pos = lastDelivered[Serves[y]] + 1
      BY <1>3, <2>1, <2>2
    <3>2. lastDelivered[Serves[y]] \in Nat /\ worker[y].pos \in 1 .. lastDelivered[Serves[y]]
      BY <1>1, <1>2, <2>1
    <3> QED
      BY <3>1, <3>2
  <2>3. CASE Busy(x) /\ worker'[x].pos = worker[x].pos
    BY <1>3, <2>1, <2>3 DEF RecordInv
  <2> QED
    BY <1>1, <1>3, <2>2, <2>3, WorkerStepForms
<1>4. CASE worker'[v] = worker[v] /\ worker'[w] = worker[w]
  BY <1>4 DEF RecordInv, Busy
<1> QED
  BY <1>3, <1>4

LEMMA ReceivedGrows ==
    ASSUME TypeOK, [Next]_vars, NEW n \in Notifications
    PROVE  received[n] \in Nat /\ received'[n] \in Nat /\ received[n] <= received'[n]
<1>1. received \in [Notifications -> Nat] /\ received' \in [Notifications -> Nat]
  BY TypeStep DEF TypeOK
<1>2. CASE UNCHANGED received
  BY <1>1, <1>2
<1>3. CASE \E w \in Workers : WorkerSend(w)
  <2>1. PICK k : received' = received \/ received' = [received EXCEPT ![k] = @ + 1]
    BY <1>3 DEF WorkerSend
  <2> QED
    BY <1>1, <2>1
<1> QED
  BY <1>2, <1>3
     DEF Next, vars, HandlerNext, TickerNext, WorkerNext, WorkerStep, WorkerDequeue,
         WorkerMarkProcessing, WorkerTakeToken, WorkerMarkDelivered, WorkerIncrement,
         WorkerMarkFailed, WorkerAck, WorkerExit, TimePasses, Shutdown, Restart, Crash,
         StartProcess

\* An entry stays pending unless the worker that holds it acknowledges it.
LEMMA PendingStays ==
    ASSUME RecordInv, [Next]_vars, NEW q \in Queues, NEW i \in pel[q], i \notin pel'[q]
    PROVE  \E w \in Workers : /\ WorkerAck(w)
                             /\ Serves[w] = q
                             /\ worker[w].pos = i
                             /\ worker[w].pc \in Acking
                             /\ Busy(w)
                             /\ ~Busy(w)'
<1>1. TypeOK /\ pel \in [Queues -> SUBSET Nat] /\ \A w \in Workers : Serves[w] \in Queues
  BY WorkerAssumption DEF RecordInv, TypeOK
<1>2. PICK w \in Workers : WorkerAck(w) /\ Ack(Serves[w], worker[w].pos)
  BY <1>1, GroupStep DEF Dequeue
<1>3. Serves[w] = q /\ worker[w].pos = i
  BY <1>1, <1>2 DEF Ack
<1>4. worker[w].pc \in Acking /\ Busy(w) /\ ~Busy(w)'
  BY <1>1, <1>2 DEF WorkerAck, Acking, Busy, Return, IdleWorker, TypeOK
<1> QED
  BY <1>2, <1>3, <1>4

LEMMA HeldStays ==
    ASSUME RecordInv, [Next]_vars, NEW v \in Workers, Busy(v), worker'[v].pos = worker[v].pos
    PROVE  Held(v)' = Held(v)
<1>1. Serves[v] \in Queues /\ worker[v].pos \in DOMAIN stream[Serves[v]]
  BY WorkerAssumption DEF RecordInv, TypeOK, Busy
<1> QED
  BY <1>1, StreamsGrow DEF Held

\* What the calls of a worker did stays, and its next call adds its effect.
LEMMA ProgressStays ==
    ASSUME RecordInv, [Next]_vars, NEW v \in Workers, Busy(v), worker'[v].pos = worker[v].pos,
           Busy(v)'
    PROVE  /\ worker'[v].pos \in pel'[Serves[v]]
           /\ received[Held(v).n] > 0 => received'[Held(v).n] > 0
           /\ db[Held(v).n].providerMessageID => db'[Held(v).n].providerMessageID
           /\ db[Held(v).n].attempts > Held(v).attempts =>
                 db'[Held(v).n].attempts > Held(v).attempts
<1>1. TypeOK /\ TypeOK' /\ Serves[v] \in Queues
  BY TypeStep, WorkerAssumption DEF RecordInv
<1>2. Held(v) \in Message /\ Held(v).n \in Notifications /\ Held(v).attempts \in Nat
  BY HeldStored DEF Message
<1>3. worker[v].pos \in pel[Serves[v]]
  BY DEF RecordInv, Progress
<1>4. worker[v].pos \in pel'[Serves[v]]
  <2> SUFFICES ASSUME worker[v].pos \notin pel'[Serves[v]] PROVE FALSE
    OBVIOUS
  <2>1. PICK w \in Workers : /\ Serves[w] = Serves[v]
                             /\ worker[w].pos = worker[v].pos
                             /\ Busy(w)
                             /\ ~Busy(w)'
    BY <1>1, <1>3, PendingStays
  <2>2. w = v
    BY <2>1 DEF RecordInv
  <2> QED
    BY <2>1, <2>2
<1>5. received[Held(v).n] > 0 => received'[Held(v).n] > 0
  BY <1>1, <1>2, ReceivedGrows
<1>6. RowGrows(Held(v).n)
  BY <1>2, RowsGrow
<1>7. db[Held(v).n].attempts \in Nat /\ db'[Held(v).n].attempts \in Nat
  BY <1>1, <1>2 DEF TypeOK, Row
<1>8. db[Held(v).n].attempts > Held(v).attempts => db'[Held(v).n].attempts > Held(v).attempts
  BY <1>2, <1>6, <1>7 DEF RowGrows
<1>9. db[Held(v).n].providerMessageID => db'[Held(v).n].providerMessageID
  BY <1>6 DEF RowGrows
<1> QED
  BY <1>4, <1>5, <1>8, <1>9

LEMMA WorkersProgress ==
    ASSUME RecordInv, [Next]_vars, NEW v \in Workers, Busy(v)'
    PROVE  Progress(v)'
<1>1. /\ TypeOK
      /\ worker \in [Workers -> WorkerState]
      /\ worker[v] \in WorkerState
      /\ lastDelivered \in [Queues -> Nat]
      /\ pel \in [Queues -> SUBSET Nat]
      /\ Serves[v] \in Queues
  BY WorkerAssumption DEF RecordInv, TypeOK
<1>2. CASE worker'[v] = worker[v]
  <2>1. Busy(v) /\ Progress(v)
    BY <1>2 DEF Busy, RecordInv
  <2>2. Held(v)' = Held(v)
    BY <1>2, <2>1, HeldStays
  <2> QED
    BY <1>2, <2>1, <2>2, ProgressStays DEF Progress
<1>3. CASE worker'[v] # worker[v] /\ WorkerDequeue(v)
  <2>1. worker'[v] = [pc |-> "markProcessing", pos |-> lastDelivered[Serves[v]] + 1]
        /\ Dequeue(Serves[v])
    BY <1>1, <1>3, WorkerStepForms DEF WorkerDequeue, Busy
  <2>2. worker'[v].pos \in pel'[Serves[v]]
    BY <1>1, <2>1 DEF Dequeue
  <2> QED
    BY <2>1, <2>2 DEF Progress
<1>4. CASE worker'[v] # worker[v] /\ ~WorkerDequeue(v)
  <2>1. Busy(v) /\ WorkerNext(v) /\ ~WorkerAck(v) /\ worker'[v].pos = worker[v].pos
    BY <1>1, <1>4, WorkerStepForms
  <2>2. Held(v)' = Held(v) /\ Progress(v)
    BY <2>1, HeldStays DEF RecordInv
  <2>3. Held(v) \in Message /\ Held(v).n \in Notifications
    BY <2>1, HeldStored
  <2>4. worker'[v].pos \in pel'[Serves[v]]
    BY <2>1, ProgressStays
  <2>5. CASE WorkerMarkProcessing(v)
    <3>1. worker'[v].pc = "takeToken"
      BY <1>1, <2>5 DEF WorkerMarkProcessing, RowUpdate, Goto, Return, IdleWorker,
                        WorkerState, Busy
    <3> QED
      BY <2>4, <3>1 DEF Progress
  <2>6. CASE WorkerTakeToken(v)
    <3>1. worker'[v].pc = "send"
      BY <1>1, <2>6 DEF WorkerTakeToken, Goto, Return, IdleWorker, WorkerState, Busy
    <3> QED
      BY <2>4, <3>1 DEF Progress
  <2>7. CASE WorkerSend(v)
    <3>1. PICK o \in SendOutcomes(ProcessOf[v]) :
             /\ received' = IF o = "rejected" THEN received
                            ELSE [received EXCEPT ![Held(v).n] = @ + 1]
             /\ Goto(v, IF o = "accepted" THEN "markDelivered" ELSE "increment")
      BY <2>7 DEF WorkerSend
    <3>2. worker'[v].pc = IF o = "accepted" THEN "markDelivered" ELSE "increment"
      BY <1>1, <3>1 DEF Goto, WorkerState
    <3>3. o = "accepted" => received'[Held(v).n] > 0
      BY <1>1, <2>3, <3>1 DEF TypeOK
    <3> QED
      BY <2>2, <2>4, <3>2, <3>3 DEF Progress
  <2>8. CASE WorkerMarkDelivered(v)
    <3>0. PICK o \in Outcomes(ProcessOf[v]) :
             /\ IF Applied(o) THEN UpdateStatus(Held(v).n, "delivered", TRUE)
                              ELSE UNCHANGED db
             /\ IF Returned(o) THEN Goto(v, "ackDelivered") ELSE Return(v)
      BY <2>8 DEF WorkerMarkDelivered, RowUpdate
    <3>1. worker'[v].pc = "ackDelivered" /\ UpdateStatus(Held(v).n, "delivered", TRUE)
      <4>1. Returned(o)
        BY <1>1, <3>0 DEF Return, IdleWorker, Busy
      <4>2. Applied(o)
        BY <4>1 DEF Returned, Applied
      <4>3. worker'[v].pc = "ackDelivered"
        BY <1>1, <3>0, <4>1 DEF Goto, WorkerState
      <4> QED
        BY <3>0, <4>2, <4>3
    <3>2. db'[Held(v).n].providerMessageID
      BY <1>1, <2>3, <3>1, UpdatedRow DEF Statuses
    <3> QED
      BY <2>2, <2>4, <3>1, <3>2 DEF Progress
  <2>9. CASE WorkerIncrement(v)
    <3>1. /\ worker'[v].pc = "markFailed"
          /\ \E at \in Instants : IncrementAttempts(Held(v).n, at)
      BY <1>1, <2>9 DEF WorkerIncrement, Goto, Return, IdleWorker, WorkerState, Busy,
                        Applied, Returned, Instants
    <3>2. db'[Held(v).n].attempts = db[Held(v).n].attempts + 1
      BY <1>1, <2>3, <3>1, IncrementedRow
    <3>3. Stored(Held(v))
      <4>1. worker[v].pos \in DOMAIN stream[Serves[v]]
        BY <1>1, <2>1 DEF TypeOK, Busy
      <4> QED
        BY <1>1, <4>1 DEF RecordInv, Held
    <3>4. Held(v).attempts \in Nat /\ db[Held(v).n].attempts \in Nat
      BY <1>1, <2>3 DEF TypeOK, Row, Message
    <3>5. db'[Held(v).n].attempts > Held(v).attempts
      BY <3>2, <3>3, <3>4 DEF Stored
    <3> QED
      BY <2>2, <2>4, <3>1, <3>5 DEF Progress
  <2>10. CASE WorkerMarkFailed(v)
    <3>1. worker[v].pc = "markFailed" /\ worker'[v].pc = "ackFailed"
      BY <1>1, <2>10 DEF WorkerMarkFailed, RowUpdate, Goto, Return, IdleWorker,
                         WorkerState, Busy
    <3>2. db'[Held(v).n].attempts > Held(v).attempts
      BY <2>1, <2>2, <3>1, ProgressStays DEF Progress
    <3> QED
      BY <2>2, <2>4, <3>1, <3>2 DEF Progress
  <2>11. CASE WorkerExit(v)
    BY <2>1, <2>11 DEF WorkerExit, Busy
  <2> QED
    BY <1>4, <2>1, <2>5, <2>6, <2>7, <2>8, <2>9, <2>10, <2>11 DEF WorkerNext, WorkerStep
<1> QED
  BY <1>2, <1>3, <1>4

LEMMA PendingDelivered ==
    ASSUME RecordInv, [Next]_vars, NEW q \in Queues
    PROVE  pel'[q] \subseteq 1 .. lastDelivered'[q]
<1>1. /\ pel \in [Queues -> SUBSET Nat]
      /\ lastDelivered \in [Queues -> Nat]
      /\ pel[q] \subseteq 1 .. lastDelivered[q]
      /\ \A w \in Workers : Serves[w] \in Queues
  BY WorkerAssumption DEF RecordInv, TypeOK
<1>2. CASE \E r \in Queues : Dequeue(r)
  BY <1>1, <1>2 DEF Dequeue
<1>3. CASE \E r \in Queues, id \in Nat : Ack(r, id)
  BY <1>1, <1>3 DEF Ack
<1>4. \A w \in Workers : worker[w].pos \in Nat
  BY DEF RecordInv, TypeOK, WorkerState
<1> QED
  BY <1>1, <1>2, <1>3, <1>4, GroupStep

\* A provider message ID is written for what the provider has accepted.
LEMMA ProviderIDStep ==
    ASSUME RecordInv, [Next]_vars, NEW n \in Notifications, db'[n].providerMessageID
    PROVE  received[n] > 0
<1>1. /\ TypeOK
      /\ db[n].providerMessageID => received[n] > 0
      /\ \A k \in Notifications : ~Exists(k) => db[k] = NoRow
  BY DEF RecordInv, RowRecorded
<1>2. SUFFICES ASSUME ~db[n].providerMessageID PROVE received[n] > 0
  BY <1>1
<1>3. ASSUME NEW k \in Notifications, NEW status \in Statuses, UpdateStatus(k, status, FALSE)
      PROVE  FALSE
  <2>1. n = k => db'[k].providerMessageID = (db[k].providerMessageID \/ FALSE)
    BY <1>1, <1>3, UpdatedRow
  <2>2. n # k => db'[n] = db[n]
    BY <1>1, <1>3, UpdatedRow
  <2> QED
    BY <1>2, <2>1, <2>2
<1>4. ASSUME NEW w \in Workers, WorkerMarkDelivered(w),
             UpdateStatus(Held(w).n, "delivered", TRUE)
      PROVE  received[n] > 0
  <2>1. Busy(w) /\ worker[w].pc = "markDelivered"
    BY <1>4 DEF WorkerMarkDelivered, Busy
  <2>2. Held(w).n \in Notifications /\ received[Held(w).n] > 0
    BY <2>1, HeldStored DEF RecordInv, Progress
  <2>3. CASE n # Held(w).n
    BY <1>1, <1>2, <1>4, <2>2, <2>3, UpdatedRow DEF Statuses
  <2> QED
    BY <2>2, <2>3
<1>5. ASSUME NEW w \in Workers, WorkerIncrement(w), NEW at \in Instants,
             IncrementAttempts(Held(w).n, at)
      PROVE  FALSE
  <2>1. Held(w).n \in Notifications
    BY <1>5, HeldStored DEF WorkerIncrement, Busy
  <2>2. n = Held(w).n => db'[n].providerMessageID = db[n].providerMessageID
    BY <1>1, <1>5, <2>1, IncrementedRow
  <2>3. n # Held(w).n => db'[n] = db[n]
    BY <1>1, <1>5, <2>1, IncrementedRow
  <2> QED
    BY <1>2, <2>2, <2>3
<1>6. ASSUME NEW w \in Workers, WorkerMarkProcessing(w),
             UpdateStatus(Held(w).n, "processing", FALSE)
      PROVE  FALSE
  BY <1>3, <1>6, HeldStored DEF WorkerMarkProcessing, Busy, Statuses
<1>7. ASSUME NEW batch \in SUBSET Notifications, CanInsert(batch), CreateBatch(batch)
      PROVE  FALSE
  <2>1. n \in batch => db'[n] = NewNotification(n)
    BY <1>7 DEF CreateBatch
  <2>2. n \notin batch => db'[n] = db[n]
    BY <1>7 DEF CreateBatch
  <2>3. NewNotification(n).providerMessageID = FALSE
    BY DEF NewNotification
  <2> QED
    BY <1>2, <2>1, <2>2, <2>3
<1>8. ASSUME NEW k \in Notifications, Cancel(k) \/ TimePasses(k)
      PROVE  FALSE
  <2>1. db \in [Notifications -> Row] /\ db[n] \in Row
    BY <1>1 DEF TypeOK
  <2>2. \/ db'[n] = db[n]
        \/ db'[n] = [db[n] EXCEPT !.status = "cancelled"]
        \/ db'[n] = [db[n] EXCEPT !.scheduledAt = "past"]
        \/ db'[n] = [db[n] EXCEPT !.nextRetryAt = "past"]
    BY <1>8, <2>1 DEF Cancel, TimePasses, ScheduledTimeArrives, RetryTimeArrives
  <2>3. CASE db'[n] = [db[n] EXCEPT !.status = "cancelled"]
    BY <1>2, <2>1, <2>3 DEF Row
  <2>4. CASE db'[n] = [db[n] EXCEPT !.scheduledAt = "past"]
    BY <1>2, <2>1, <2>4 DEF Row
  <2>5. CASE db'[n] = [db[n] EXCEPT !.nextRetryAt = "past"]
    BY <1>2, <2>1, <2>5 DEF Row
  <2> QED
    BY <1>2, <2>2, <2>3, <2>4, <2>5
<1>9. ASSUME NEW batch \in SUBSET Notifications, MarkFetched(batch)
      PROVE  FALSE
  BY <1>1, <1>2, <1>9, FetchedRow
<1> QED
  BY <1>2, <1>3, <1>4, <1>5, <1>6, <1>7, <1>8, <1>9, RowStep DEF RowWrites, Statuses

\* A row becomes "processing" by the first call of the worker that holds it.
LEMMA ProcessingStep ==
    ASSUME RecordInv, [Next]_vars, NEW n \in Notifications, db'[n].status = "processing",
           db[n].status # "processing"
    PROVE  \E w \in Workers : WorkerMarkProcessing(w) /\ Held(w).n = n
<1>1. TypeOK
  BY DEF RecordInv
<1>2. ASSUME NEW k \in Notifications, NEW status \in Statuses \ {"processing"},
             NEW p \in BOOLEAN, UpdateStatus(k, status, p)
      PROVE  FALSE
  BY <1>1, <1>2, UpdatedRow
<1>3. ASSUME NEW w \in Workers, WorkerMarkDelivered(w),
             UpdateStatus(Held(w).n, "delivered", TRUE)
      PROVE  FALSE
  BY <1>2, <1>3, HeldStored DEF WorkerMarkDelivered, Busy, Statuses
<1>4. ASSUME NEW w \in Workers, WorkerIncrement(w), NEW at \in Instants,
             IncrementAttempts(Held(w).n, at)
      PROVE  FALSE
  <2>1. Held(w).n \in Notifications
    BY <1>4, HeldStored DEF WorkerIncrement, Busy
  <2>2. n = Held(w).n => db'[n].status = db[n].status
    BY <1>1, <1>4, <2>1, IncrementedRow
  <2>3. n # Held(w).n => db'[n] = db[n]
    BY <1>1, <1>4, <2>1, IncrementedRow
  <2> QED
    BY <2>2, <2>3
<1>5. ASSUME NEW w \in Workers, WorkerMarkProcessing(w),
             UpdateStatus(Held(w).n, "processing", FALSE)
      PROVE  Held(w).n = n
  <2>1. Held(w).n \in Notifications
    BY <1>5, HeldStored DEF WorkerMarkProcessing, Busy
  <2> QED
    BY <1>1, <1>5, <2>1, UpdatedRow DEF Statuses
<1>6. ASSUME NEW batch \in SUBSET Notifications, CanInsert(batch), CreateBatch(batch)
      PROVE  FALSE
  <2>1. n \in batch => db'[n] = NewNotification(n)
    BY <1>6 DEF CreateBatch
  <2>2. n \notin batch => db'[n] = db[n]
    BY <1>6 DEF CreateBatch
  <2>3. NewNotification(n).status = "pending"
    BY DEF NewNotification
  <2> QED
    BY <2>1, <2>2, <2>3
<1>7. ASSUME NEW k \in Notifications, Cancel(k) \/ TimePasses(k)
      PROVE  FALSE
  <2>1. db \in [Notifications -> Row] /\ db[n] \in Row
    BY <1>1 DEF TypeOK
  <2>2. \/ db'[n] = db[n]
        \/ db'[n] = [db[n] EXCEPT !.status = "cancelled"]
        \/ db'[n] = [db[n] EXCEPT !.scheduledAt = "past"]
        \/ db'[n] = [db[n] EXCEPT !.nextRetryAt = "past"]
    BY <1>7, <2>1 DEF Cancel, TimePasses, ScheduledTimeArrives, RetryTimeArrives
  <2>3. db'[n].status \in {db[n].status, "cancelled"}
    BY <2>1, <2>2 DEF Row
  <2> QED
    BY <2>3
<1>8. ASSUME NEW batch \in SUBSET Notifications, MarkFetched(batch)
      PROVE  FALSE
  BY <1>1, <1>8, FetchedRow
<1> QED
  BY <1>2, <1>3, <1>4, <1>5, <1>6, <1>7, <1>8, RowStep DEF RowWrites, Statuses

\* A worker comes to acknowledge its entry by the call that records the outcome.
LEMMA AckingStep ==
    ASSUME RecordInv, [Next]_vars, NEW w \in Workers,
           worker'[w].pc \in Acking, worker'[w] # worker[w]
    PROVE  /\ Busy(w)
           /\ worker'[w].pos = worker[w].pos
           /\ worker[w].pc \notin Acking
           /\ db'[Held(w).n].status # "processing"
<1>1. TypeOK /\ worker \in [Workers -> WorkerState] /\ Busy(w)'
  BY DEF RecordInv, TypeOK, Acking, Busy
<1>2. ~WorkerDequeue(w) /\ Busy(w) /\ worker'[w].pos = worker[w].pos
  <2>1. CASE worker'[w] = [pc |-> "markProcessing", pos |-> lastDelivered[Serves[w]] + 1]
    BY <2>1 DEF Acking
  <2>2. CASE Busy(w) /\ worker'[w].pos = worker[w].pos
    BY <2>2 DEF WorkerDequeue, Busy
  <2> QED
    BY <1>1, <2>1, <2>2, WorkerStepForms
<1>3. WorkerMarkDelivered(w) \/ WorkerMarkFailed(w)
  <2>1. CASE WorkerMarkProcessing(w) \/ WorkerTakeToken(w) \/ WorkerSend(w) \/ WorkerIncrement(w)
    <3> DEFINE pcs == {"takeToken", "send", "markDelivered", "increment", "markFailed"}
    <3>1. Return(w) \/ \E pc \in pcs : Goto(w, pc)
      <4>1. CASE WorkerMarkProcessing(w)
        BY <4>1 DEF WorkerMarkProcessing, RowUpdate
      <4>2. CASE WorkerTakeToken(w)
        BY <4>2 DEF WorkerTakeToken
      <4>3. CASE WorkerSend(w)
        BY <4>3 DEF WorkerSend
      <4>4. CASE WorkerIncrement(w)
        BY <4>4 DEF WorkerIncrement
      <4> QED
        BY <2>1, <4>1, <4>2, <4>3, <4>4
    <3>2. worker'[w].pc \in pcs \cup {"idle"}
      BY <1>1, <3>1 DEF Goto, Return, IdleWorker, WorkerState
    <3> QED
      BY <3>2 DEF Acking
  <2>2. CASE WorkerAck(w) \/ WorkerExit(w)
    <3>1. worker'[w].pc \in {"idle", "exited"}
      BY <1>1, <2>2 DEF WorkerAck, WorkerExit, Goto, Return, IdleWorker, WorkerState
    <3> QED
      BY <3>1 DEF Acking
  <2> QED
    BY <1>1, <1>2, <2>1, <2>2, WorkerStepForms DEF WorkerNext, WorkerStep
<1>4. \E status \in {"delivered", "failed"}, p \in BOOLEAN, o \in Outcomes(ProcessOf[w]) :
         /\ IF Applied(o) THEN UpdateStatus(Held(w).n, status, p) ELSE UNCHANGED db
         /\ Returned(o) \/ Return(w)
  <2>1. CASE WorkerMarkDelivered(w)
    BY <2>1 DEF WorkerMarkDelivered, RowUpdate
  <2>2. CASE WorkerMarkFailed(w)
    BY <2>2 DEF WorkerMarkFailed, RowUpdate
  <2> QED
    BY <1>3, <2>1, <2>2
<1>5. PICK status \in {"delivered", "failed"}, p \in BOOLEAN, o \in Outcomes(ProcessOf[w]) :
         /\ IF Applied(o) THEN UpdateStatus(Held(w).n, status, p) ELSE UNCHANGED db
         /\ Returned(o) \/ Return(w)
  BY <1>4
<1>6. Returned(o)
  BY <1>1, <1>5 DEF Return, IdleWorker, Acking
<1>7. UpdateStatus(Held(w).n, status, p)
  BY <1>5, <1>6 DEF Applied, Returned
<1>8. db'[Held(w).n].status = status
  BY <1>1, <1>2, <1>7, HeldStored, UpdatedRow DEF Statuses
<1>9. worker[w].pc \notin Acking
  BY <1>3 DEF WorkerMarkDelivered, WorkerMarkFailed, Acking
<1> QED
  BY <1>2, <1>8, <1>9

\* While a row says "processing" its entry is pending, and nobody acknowledges it.
LEMMA ProcessingRecoverable ==
    ASSUME RecordInv, [Next]_vars, NEW n \in Notifications, db'[n].status = "processing"
    PROVE  Recoverable(n)'
<1> DEFINE q == QueueOf[n]
<1>1. /\ TypeOK
      /\ q \in Queues
      /\ \A k \in Queues : pel[k] \subseteq 1 .. lastDelivered[k]
      /\ \A k \in Queues : pel[k] \subseteq DOMAIN stream[k]
  <2>1. TypeOK /\ \A k \in Queues : pel[k] \subseteq 1 .. lastDelivered[k]
    BY DEF RecordInv
  <2>2. \A k \in Queues : lastDelivered[k] \in Nat /\ Len(stream[k]) \in Nat
                          /\ DOMAIN stream[k] = 1 .. Len(stream[k])
                          /\ lastDelivered[k] <= Len(stream[k])
    BY <2>1 DEF TypeOK
  <2> QED
    BY <2>1, <2>2, QueueAssumption
<1>2. CASE db[n].status = "processing"
  <2>1. PICK i \in pel[q] :
           /\ stream[q][i].n = n
           /\ \A w \in Workers : Serves[w] = q /\ worker[w].pos = i => worker[w].pc \notin Acking
    BY <1>2 DEF RecordInv, RowRecorded, Recoverable
  <2>2. stream'[q][i].n = n
    BY <1>1, <2>1, StreamsGrow
  <2>3. i \in pel'[q]
    BY <1>1, <2>1, PendingStays
  <2>4. ASSUME NEW w \in Workers, Serves[w] = q, worker'[w].pos = i, worker'[w].pc \in Acking
        PROVE  FALSE
    <3>1. CASE worker'[w] = worker[w]
      BY <2>1, <2>4, <3>1
    <3>2. CASE worker'[w] # worker[w]
      <4>1. worker[w].pos = i /\ db'[Held(w).n].status # "processing"
        BY <2>4, <3>2, AckingStep
      <4>2. Held(w).n = n
        BY <2>1, <2>4, <4>1 DEF Held
      <4> QED
        BY <4>1, <4>2
    <3> QED
      BY <3>1, <3>2
  <2> QED
    BY <2>2, <2>3, <2>4 DEF Recoverable
<1>3. CASE db[n].status # "processing"
  <2>1. PICK w \in Workers : WorkerMarkProcessing(w) /\ Held(w).n = n
    BY <1>3, ProcessingStep
  <2> DEFINE i == worker[w].pos
  <2>2. Busy(w) /\ Serves[w] = q /\ i \in pel[q] /\ stream[q][i].n = n
    BY <1>1, <2>1, HeldType DEF WorkerMarkProcessing, Busy, RecordInv, Progress, Held
  <2>3. pel' = pel /\ stream' = stream
    BY <2>1 DEF WorkerMarkProcessing, queueVars
  <2>4. ASSUME NEW v \in Workers, Serves[v] = q, worker'[v].pos = i, worker'[v].pc \in Acking
        PROVE  FALSE
    <3>1. CASE v = w
      BY <1>1, <2>1, <2>4, <3>1
         DEF WorkerMarkProcessing, RowUpdate, Goto, Return, IdleWorker, WorkerState, TypeOK,
             Acking
    <3>2. CASE v # w
      <4>1. worker'[v] = worker[v]
        BY <1>1, <2>1, <3>2 DEF WorkerMarkProcessing, RowUpdate, Goto, Return, TypeOK
      <4>2. Busy(v) /\ worker[v].pos = worker[w].pos /\ Serves[v] = Serves[w]
        BY <2>2, <2>4, <4>1 DEF Busy, Acking
      <4> QED
        BY <2>2, <3>2, <4>2 DEF RecordInv
    <3> QED
      BY <3>1, <3>2
  <2> QED
    BY <2>2, <2>3, <2>4 DEF Recoverable
<1> QED
  BY <1>2, <1>3

\* Only a worker whose row is delivered announces "delivered".
LEMMA AnnouncedStep ==
    ASSUME RecordInv, [Next]_vars, NEW n \in Notifications, announced'[n] = "delivered"
    PROVE  db[n].providerMessageID
<1>1. announced[n] = "delivered" => db[n].providerMessageID
  BY DEF RecordInv, RowRecorded
<1>2. ASSUME NEW ns, NEW status, status # "delivered", Publish(ns, status)
      PROVE  announced[n] = "delivered"
  BY <1>2 DEF Publish
<1>3. CASE \E h \in Handlers : HandlerNext(h)
  BY <1>1, <1>2, <1>3 DEF HandlerNext, HandlerStep, HandlerProceed, HandlerPersist,
     HandlerCancel, HandlerBroadcastPending, HandlerEnqueue, HandlerMarkQueued,
     HandlerBroadcastQueued, HandlerBroadcastCancelled, HandlerResend, HandlerDisconnect
<1>4. ASSUME NEW w \in Workers, WorkerAck(w)
      PROVE  db[n].providerMessageID
  <2>1. CASE worker[w].pc # "ackDelivered"
    BY <1>1, <1>2, <1>4, <2>1 DEF WorkerAck
  <2>2. CASE worker[w].pc = "ackDelivered"
    <3>1. db[Held(w).n].providerMessageID
      BY <2>2 DEF Busy, RecordInv, Progress
    <3>2. announced'[n] = announced[n] \/ n = Held(w).n
      BY <1>4 DEF WorkerAck, Publish
    <3> QED
      BY <1>1, <3>1, <3>2
  <2> QED
    BY <2>1, <2>2
<1>5. CASE \E w \in Workers : WorkerNext(w)
  BY <1>1, <1>2, <1>4, <1>5 DEF WorkerNext, WorkerStep, WorkerDequeue, WorkerMarkProcessing,
     WorkerTakeToken, WorkerSend, WorkerMarkDelivered, WorkerIncrement, WorkerMarkFailed,
     WorkerExit
<1> QED
  BY <1>1, <1>3, <1>5 DEF Next, vars, TickerNext, TimePasses, Shutdown, Restart, Crash,
     StartProcess

LEMMA RowsRecorded ==
    ASSUME RecordInv, [Next]_vars, NEW n \in Notifications
    PROVE  RowRecorded(n)'
<1>1. TypeOK /\ RowRecorded(n)
  BY DEF RecordInv
<1>2. ~Exists(n)' => db'[n] = NoRow
  BY <1>1, RowsGrow DEF RowGrows, RowRecorded, Exists
<1>3. db'[n].providerMessageID => received'[n] > 0
  BY <1>1, ProviderIDStep, ReceivedGrows
<1>4. announced'[n] = "delivered" => db'[n].providerMessageID
  BY AnnouncedStep, RowsGrow DEF RowGrows
<1> QED
  BY <1>2, <1>3, <1>4, ProcessingRecoverable DEF RowRecorded

LEMMA AckedStep ==
    ASSUME RecordInv, [Next]_vars
    PROVE  AckedHasOutcome'
<1> DEFINE Outcome(m) == db[m.n].providerMessageID \/ db[m.n].attempts > m.attempts
<1>1. /\ TypeOK
      /\ pel \in [Queues -> SUBSET Nat]
      /\ lastDelivered \in [Queues -> Nat]
      /\ \A w \in Workers : Serves[w] \in Queues
  BY WorkerAssumption DEF RecordInv, TypeOK
<1>2. ASSUME NEW q \in Queues, NEW i \in Acked(q)'
      PROVE  i \in DOMAIN stream[q] /\ Outcome(stream[q][i])
  <2>1. i \in 1 .. lastDelivered'[q] /\ i \notin pel'[q]
    BY <1>2 DEF Acked
  <2>2. \/ i \in Acked(q)
        \/ \E w \in Workers : /\ WorkerAck(w)
                              /\ Serves[w] = q
                              /\ worker[w].pos = i
    <3>1. CASE UNCHANGED <<pel, lastDelivered>>
      BY <2>1, <3>1 DEF Acked
    <3>2. CASE \E r \in Queues : Dequeue(r)
      BY <1>1, <2>1, <3>2 DEF Dequeue, Acked
    <3>3. ASSUME NEW w \in Workers, WorkerAck(w), Ack(Serves[w], worker[w].pos)
          PROVE  i \in Acked(q) \/ (Serves[w] = q /\ worker[w].pos = i)
      BY <1>1, <2>1, <3>3 DEF Ack, Acked
    <3> QED
      BY <1>1, <3>1, <3>2, <3>3, GroupStep
  <2>3. CASE i \in Acked(q)
    <3>1. i \in 1 .. lastDelivered[q] /\ lastDelivered[q] <= Len(stream[q])
      BY <1>1, <2>3 DEF Acked, TypeOK
    <3>2. stream[q] \in Seq(Message) /\ lastDelivered[q] \in Nat
      BY <1>1 DEF TypeOK
    <3>3. i \in DOMAIN stream[q]
      BY <3>1, <3>2
    <3> QED
      BY <2>3, <3>3 DEF RecordInv, AckedHasOutcome
  <2>4. ASSUME NEW w \in Workers, WorkerAck(w), Serves[w] = q, worker[w].pos = i
        PROVE  i \in DOMAIN stream[q] /\ Outcome(stream[q][i])
    <3>1. Busy(w) /\ worker[w].pc \in Acking
      BY <2>4 DEF WorkerAck, Busy, Acking
    <3>2. Progress(w) /\ Held(w) = stream[q][i]
      BY <2>4, <3>1 DEF RecordInv, Held
    <3>3. Outcome(stream[q][i])
      BY <3>1, <3>2 DEF Progress, Acking
    <3>4. i \in DOMAIN stream[q]
      BY <1>1, <2>4, <3>1 DEF TypeOK, Busy
    <3> QED
      BY <3>3, <3>4
  <2> QED
    BY <2>2, <2>3, <2>4
<1>3. ASSUME NEW q \in Queues, NEW i \in DOMAIN stream[q], Outcome(stream[q][i])
      PROVE  Outcome(stream[q][i])'
  <2>1. stream'[q][i] = stream[q][i]
    BY <1>3, StreamsGrow
  <2>2. stream[q][i] \in Message
    BY <1>1, <1>3 DEF TypeOK
  <2>3. stream[q][i].n \in Notifications /\ stream[q][i].attempts \in Nat
    BY <2>2 DEF Message
  <2>4. RowGrows(stream[q][i].n)
    BY <2>3, RowsGrow
  <2>5. TypeOK'
    BY <1>1, TypeStep
  <2>6. db[stream[q][i].n].attempts \in Nat /\ db'[stream[q][i].n].attempts \in Nat
    BY <1>1, <2>3, <2>5 DEF TypeOK, Row
  <2>7. db[stream[q][i].n].attempts > stream[q][i].attempts
           => db'[stream[q][i].n].attempts > stream[q][i].attempts
    BY <2>3, <2>4, <2>6 DEF RowGrows
  <2>8. db[stream[q][i].n].providerMessageID => db'[stream[q][i].n].providerMessageID
    BY <2>4 DEF RowGrows
  <2> QED
    BY <1>3, <2>1, <2>7, <2>8
<1> QED
  BY <1>2, <1>3 DEF AckedHasOutcome

LEMMA RecordInit == Init => RecordInv
<1> SUFFICES ASSUME Init PROVE RecordInv
  OBVIOUS
<1>1. TypeOK
  BY TypeInit
<1>2. \A q \in Queues : stream[q] = <<>> /\ pel[q] = {} /\ lastDelivered[q] = 0
  BY DEF Init
<1>3. \A h \in Handlers : RequestStored(h)
  BY DEF Init, IdleHandler, RequestStored
<1>4. \A t \in Tickers : TickerHolds(t) = {}
  BY DEF Init, IdleTicker, TickerHolds
<1>5. \A w \in Workers : ~Busy(w)
  BY DEF Init, IdleWorker, Busy
<1>6. \A n \in Notifications : RowRecorded(n)
  BY DEF Init, RowRecorded, NoRow
<1>7. AckedHasOutcome
  BY <1>2 DEF AckedHasOutcome, Acked
<1> QED
  BY <1>1, <1>2, <1>3, <1>4, <1>5, <1>6, <1>7 DEF RecordInv

LEMMA RecordStep == RecordInv /\ [Next]_vars => RecordInv'
<1> SUFFICES ASSUME RecordInv, [Next]_vars PROVE RecordInv'
  OBVIOUS
<1>1. TypeOK'
  BY TypeStep DEF RecordInv
<1>2. \A q \in Queues : (pel[q] \subseteq 1 .. lastDelivered[q])'
  BY PendingDelivered
<1>3. \A h \in Handlers : RequestStored(h)'
  BY RequestsStored
<1>4. \A t \in Tickers : \A m \in TickerHolds(t)' : Stored(m)'
  BY TickersStored
<1>5. \A q \in Queues : \A i \in DOMAIN stream'[q] : Stored(stream[q][i])'
  BY EntriesStored
<1>6. \A w \in Workers : Busy(w)' => Progress(w)'
  BY WorkersProgress
<1>7. \A v, w \in Workers :
         Busy(v)' /\ Busy(w)' /\ Serves[v] = Serves[w] /\ worker'[v].pos = worker'[w].pos
            => v = w
  BY EntriesApart
<1>8. \A n \in Notifications : RowRecorded(n)'
  BY RowsRecorded
<1>9. AckedHasOutcome'
  BY AckedStep
<1> QED
  BY <1>1, <1>2, <1>3, <1>4, <1>5, <1>6, <1>7, <1>8, <1>9 DEF RecordInv

\* What is recorded stays consistent with the streams and the announcements,
\* also when an XADD is resent and two workers have one notification.
THEOREM RecordInvCorrect == Spec => []RecordInv
<1>1. Init => RecordInv
  BY RecordInit
<1>2. RecordInv /\ [Next]_vars => RecordInv'
  BY RecordStep
<1> QED
  BY <1>1, <1>2, PTL DEF Spec

\* No worker acknowledges an entry whose outcome is not in the table.
THEOREM AckedHasOutcomeCorrect == Spec => []AckedHasOutcome
<1>1. RecordInv => AckedHasOutcome
  BY DEF RecordInv
<1> QED
  BY <1>1, RecordInvCorrect, PTL

\* A delivery that was cut short leaves its entry in the pending list.
THEOREM ProcessingIsPendingCorrect == Spec => []ProcessingIsPending
<1>1. RecordInv => ProcessingIsPending
  BY DEF RecordInv, RowRecorded, Recoverable, ProcessingIsPending
<1> QED
  BY <1>1, RecordInvCorrect, PTL

\* "delivered" is published after the provider message ID is in the table.
THEOREM DeliveredAnnouncedAfterRecordedCorrect == Spec => []DeliveredAnnouncedAfterRecorded
<1>1. RecordInv => DeliveredAnnouncedAfterRecorded
  BY DEF RecordInv, RowRecorded, DeliveredAnnouncedAfterRecorded
<1> QED
  BY <1>1, RecordInvCorrect, PTL

\* Whoever could still write the row of a cancelled notification carries it.
LEMMA CancelHolds ==
    ASSUME RecordInv, [Next]_vars, NEW n \in Scheduled, db[n].status = "cancelled",
           Carriers(n) = {}
    PROVE  db'[n].status = "cancelled" /\ received'[n] = received[n]
<1>1. /\ TypeOK /\ n \in Notifications
      /\ db \in [Notifications -> Row] /\ db[n] \in Row
      /\ received \in [Notifications -> Nat]
      /\ handler \in [Handlers -> HandlerState]
  BY NotificationAssumption DEF RecordInv, TypeOK
<1>2. ASSUME NEW w \in Workers, worker[w].pc \in Delivering
      PROVE  Held(w).n \in Notifications \ {n}
  <2>1. Held(w).n # n
    BY <1>2 DEF Carriers, WorkerCarries
  <2> QED
    BY <1>1, <1>2, <2>1, HeldType DEF Delivering
<1>3. ASSUME NEW t \in Tickers, NEW m \in TickerHolds(t)
      PROVE  m.n # n
  BY <1>3 DEF Carriers, TickerCarries
<1>4. ASSUME NEW k \in Notifications \ {n}, NEW status \in Statuses, NEW p \in BOOLEAN,
             UpdateStatus(k, status, p)
      PROVE  db'[n] = db[n]
  BY <1>1, <1>4, UpdatedRow
<1>5. ASSUME NEW h \in Handlers, HandlerNext(h)
      PROVE  db'[n].status = "cancelled" /\ received'[n] = received[n]
  <2>1. CASE HandlerPersist(h)
    <3>1. ASSUME NEW batch \in SUBSET Notifications, CanInsert(batch), CreateBatch(batch)
          PROVE  db'[n] = db[n]
      BY <1>1, <3>1 DEF CanInsert, CreateBatch, Exists
    <3>2. \/ UNCHANGED db
          \/ \E batch \in SUBSET Notifications : CanInsert(batch) /\ CreateBatch(batch)
      BY <2>1 DEF HandlerPersist
    <3>3. db'[n] = db[n]
      BY <3>1, <3>2
    <3> QED
      BY <1>5, <3>3 DEF HandlerNext
  <2>2. CASE HandlerMarkQueued(h)
    <3>1. handler[h].cur \in Notifications \ {n}
      BY <1>1, <2>2 DEF RecordInv, RequestStored, HandlerMarkQueued, TypeOK, HandlerState
    <3>2. db'[n] = db[n]
      BY <1>4, <2>2, <3>1 DEF HandlerMarkQueued, Statuses
    <3> QED
      BY <1>5, <3>2 DEF HandlerNext
  <2>3. CASE HandlerCancel(h)
    <3>1. UNCHANGED db \/ \E k \in Notifications : Cancel(k)
      BY <2>3 DEF HandlerCancel
    <3>2. db'[n] = db[n] \/ db'[n] = [db[n] EXCEPT !.status = "cancelled"]
      BY <1>1, <3>1 DEF Cancel
    <3>3. db'[n].status = "cancelled"
      BY <1>1, <3>2 DEF Row
    <3> QED
      BY <1>5, <3>3 DEF HandlerNext
  <2> QED
    BY <1>5, <2>1, <2>2, <2>3 DEF HandlerNext, HandlerStep, HandlerProceed,
       HandlerBroadcastPending, HandlerEnqueue, HandlerBroadcastQueued,
       HandlerBroadcastCancelled, HandlerResend, HandlerDisconnect
<1>6. ASSUME NEW t \in Tickers, TickerNext(t)
      PROVE  db'[n].status = "cancelled" /\ received'[n] = received[n]
  <2>1. ASSUME NEW ready \in SUBSET Notifications, Fetch(t, ready), n \notin ready
        PROVE  db'[n] = db[n]
    BY <2>1, <1>1 DEF Fetch, MarkFetched
  <2>2. CASE TickerFetchScheduled(t)
    <3>1. ScheduledReady \in SUBSET Notifications /\ n \notin ScheduledReady
      BY DEF ScheduledReady
    <3> QED
      BY <1>6, <2>1, <2>2, <3>1 DEF TickerFetchScheduled, TickerNext
  <2>3. CASE TickerFetchRetry(t)
    <3>1. RetryReady \in SUBSET Notifications /\ n \notin RetryReady
      BY DEF RetryReady
    <3> QED
      BY <1>6, <2>1, <2>3, <3>1 DEF TickerFetchRetry, TickerNext
  <2>4. CASE TickerMarkQueued(t)
    <3>1. PICK m \in ticker[t].todo : UpdateStatus(m.n, "queued", FALSE) \/ UNCHANGED db
      BY <2>4 DEF TickerMarkQueued
    <3>2. m.n \in Notifications
      BY <1>1 DEF TypeOK, TickerState, Message
    <3>3. m.n # n
      BY <1>3 DEF TickerHolds
    <3>4. db'[n] = db[n]
      BY <1>4, <3>1, <3>2, <3>3 DEF Statuses
    <3> QED
      BY <1>6, <3>4 DEF TickerNext
  <2> QED
    BY <1>6, <2>2, <2>3, <2>4 DEF TickerNext, TickerStep, TickerEnqueue, TickerResend, TickerExit
<1>7. ASSUME NEW w \in Workers, WorkerNext(w)
      PROVE  db'[n].status = "cancelled" /\ received'[n] = received[n]
  <2>1. ASSUME NEW status \in Statuses, NEW p \in BOOLEAN, NEW next,
               RowUpdate(w, status, p, next), worker[w].pc \in Delivering
        PROVE  db'[n] = db[n]
    <3>1. UNCHANGED db \/ UpdateStatus(Held(w).n, status, p)
      BY <2>1 DEF RowUpdate
    <3> QED
      BY <1>2, <1>4, <2>1, <3>1
  <2>2. CASE WorkerMarkProcessing(w)
    BY <2>1, <2>2 DEF WorkerMarkProcessing, Delivering, Statuses
  <2>3. CASE WorkerMarkDelivered(w)
    BY <2>1, <2>3 DEF WorkerMarkDelivered, Delivering, Statuses
  <2>4. CASE WorkerMarkFailed(w)
    BY <2>1, <2>4 DEF WorkerMarkFailed, Delivering, Statuses
  <2>5. CASE WorkerIncrement(w)
    <3>1. Held(w).n \in Notifications \ {n}
      BY <1>2, <2>5 DEF WorkerIncrement, Delivering
    <3>2. UNCHANGED db \/ \E at \in Instants : IncrementAttempts(Held(w).n, at)
      BY <2>5 DEF WorkerIncrement, Instants
    <3>3. db'[n] = db[n] /\ UNCHANGED received
      BY <1>1, <2>5, <3>1, <3>2, IncrementedRow DEF WorkerIncrement
    <3> QED
      BY <3>3
  <2>6. CASE WorkerSend(w)
    <3>1. Held(w).n \in Notifications \ {n}
      BY <1>2, <2>6 DEF WorkerSend, Delivering
    <3>2. received' = received \/ received' = [received EXCEPT ![Held(w).n] = @ + 1]
      BY <2>6 DEF WorkerSend
    <3> QED
      BY <1>1, <2>6, <3>1, <3>2 DEF WorkerSend
  <2> QED
    BY <1>7, <2>2, <2>3, <2>4, <2>5, <2>6 DEF WorkerNext, WorkerStep, WorkerDequeue,
       WorkerTakeToken, WorkerAck, WorkerExit
<1>8. ASSUME NEW k \in Notifications, TimePasses(k)
      PROVE  db'[n].status = "cancelled" /\ received'[n] = received[n]
  <2>1. \/ db'[n] = db[n]
        \/ db'[n] = [db[n] EXCEPT !.scheduledAt = "past"]
        \/ db'[n] = [db[n] EXCEPT !.nextRetryAt = "past"]
    BY <1>1, <1>8 DEF TimePasses, ScheduledTimeArrives, RetryTimeArrives
  <2>2. db'[n].status = "cancelled"
    BY <1>1, <2>1 DEF Row
  <2> QED
    BY <1>8, <2>2 DEF TimePasses
<1> QED
  BY <1>5, <1>6, <1>7, <1>8 DEF Next, vars, Shutdown, Restart, Crash, StartProcess

\* A cancellation that comes before the scheduler's claim holds, whatever is
\* resent, lost or restarted.
THEOREM CancelBeforeClaimHoldsCorrect == Spec => CancelBeforeClaimHolds
<1>1. RecordInv /\ [Next]_vars =>
         [\A n \in Scheduled :
             db[n].status = "cancelled" /\ Carriers(n) = {}
                => db'[n].status = "cancelled" /\ received'[n] = received[n]]_vars
  BY CancelHolds
<1> QED
  BY <1>1, RecordInvCorrect, PTL DEF Spec, CancelBeforeClaimHolds
================================================================================
